-------------------------- MODULE JmapClient_proofs --------------------------
(***************************************************************************)
(* Theorems about JmapClient, for every value of its constants.            *)
(***************************************************************************)
EXTENDS JmapClient, SequenceTheorems, TLAPS

----------------------------------------------------------------------------
\* The inductive invariant behind TypeOK and PlanSound.  PlanSound looks one
\* request back; the order of any two requests and the legality of every cut
\* are what the next step of the planner needs.

PlanOrdered ==
    /\ pc \in {"open", "abandoned"} => plan = <<>>
    /\ plan # <<>> \/ pc = "planning" => ReferencesValid
    /\ \A r \in DOMAIN plan :
        1 <= plan[r].first /\ plan[r].last <= Len(calls) /\ LegalEnd(plan[r].last)
    /\ \A r, s \in DOMAIN plan : r < s => plan[r].last < plan[s].first

Bounded ==
    /\ pc = "posting" => attempt < MaxAttempts
    /\ pc \in {"posting", "waiting"} => next \in DOMAIN plan
    /\ \A c \in copies :
        /\ c.req \in DOMAIN plan
        /\ Len(c.answers) <= plan[c.req].last - plan[c.req].first + 1

Base == TypeOK /\ PlanSound /\ PlanOrdered /\ Bounded

LEMMA SeqFacts ==
  ASSUME NEW S, NEW s \in Seq(S)
  PROVE  /\ DOMAIN s = 1 .. Len(s) /\ Len(s) \in Nat
         /\ \A i \in DOMAIN s : s[i] \in S
         /\ s # <<>> => Len(s) \in DOMAIN s
  BY LenProperties, ElementOfSeq, EmptySeq

LEMMA AppendFacts ==
  ASSUME NEW S, NEW s \in Seq(S), NEW e \in S
  PROVE  /\ DOMAIN Append(s, e) = DOMAIN s \union {Len(s) + 1} /\ Len(s) + 1 \notin DOMAIN s
         /\ \A n \in DOMAIN s : Append(s, e)[n] = s[n] /\ n \in Nat /\ n < Len(s) + 1
         /\ Append(s, e)[Len(s) + 1] = e
<1>1. /\ Append(s, e) \in Seq(S) /\ Len(Append(s, e)) = Len(s) + 1
      /\ \A n \in 1 .. Len(s) : Append(s, e)[n] = s[n]
      /\ Append(s, e)[Len(s) + 1] = e
  BY AppendProperties
<1>2. DOMAIN s = 1 .. Len(s) /\ Len(s) \in Nat /\ DOMAIN Append(s, e) = 1 .. Len(Append(s, e))
  BY <1>1, SeqFacts
<1> QED
  BY <1>1, <1>2

LEMMA BaseInit == Init => Base
<1> SUFFICES ASSUME Init PROVE Base
  OBVIOUS
<1>1. calls = <<>> /\ plan = <<>> /\ log = <<>> /\ Len(calls) = 0 /\ DOMAIN plan = {}
  BY DEF Init
<1>2. TypeOK
  <2>1. calls \in Seq(CallKinds) /\ plan \in Seq([first : Nat, last : Nat])
    BY <1>1
  <2>2. log \in Seq([call : Nat, req : Nat, attempt : Nat])
    BY <1>1
  <2>3. state \in [Types -> Nat] /\ handle \in [1 .. MaxBatch -> HandleStates]
    BY DEF Init, HandleStates
  <2>4. copies \subseteq [req : Nat, attempt : Nat, sent : SUBSET Keys, known : SUBSET Keys,
                         answers : Seq(Outcomes)]
    BY DEF Init
  <2>5. Len(calls) <= MaxBatch /\ attempt \in 0 .. MaxAttempts
    BY <1>1, BoundsAssumption, MaxAttemptsAssumption DEF Init
  <2>6. /\ pc \in {"open", "abandoned", "planning", "due", "posting", "waiting",
                  "done", "raised"}
        /\ error \in {"none", "oversized", "reference", "tooLarge", "transport", "problem",
                      "authentication", "malformed", "cancelled"}
        /\ built \in SessionViews /\ view \in SessionViews
        /\ created \subseteq Keys /\ sent \subseteq Keys /\ inFlight \subseteq 1 .. MaxBatch
        /\ mutating \in BOOLEAN /\ guarded \in BOOLEAN
    BY Zenon DEF Init
  <2>7. next \in Nat \ {0}
    BY DEF Init
  <2> QED
    BY <2>1, <2>2, <2>3, <2>4, <2>5, <2>6, <2>7 DEF TypeOK
<1>3. PlanSound
  BY <1>1 DEF PlanSound
<1>4. PlanOrdered
  BY <1>1 DEF PlanOrdered, Init
<1>5. Bounded
  BY DEF Bounded, Init
<1> QED
  BY <1>2, <1>3, <1>4, <1>5 DEF Base

LEMMA LastPlanned ==
  ASSUME plan \in Seq([first : Nat, last : Nat])
  PROVE  /\ DOMAIN plan = 1 .. Len(plan)
         /\ Planned \in Nat
         /\ plan = <<>> => Len(plan) = 0 /\ Planned = 0
         /\ plan # <<>> => Len(plan) \in DOMAIN plan /\ Planned = plan[Len(plan)].last
<1>1. /\ DOMAIN plan = 1 .. Len(plan) /\ Len(plan) \in Nat
      /\ \A r \in DOMAIN plan : plan[r] \in [first : Nat, last : Nat]
      /\ plan # <<>> => Len(plan) \in DOMAIN plan
  BY SeqFacts
<1> QED
  BY <1>1 DEF Planned

LEMMA PlanStep ==
  ASSUME Base, PlanRequest PROVE Base'
<1>0. /\ plan \in Seq([first : Nat, last : Nat])
      /\ calls \in Seq(CallKinds)
      /\ DOMAIN plan = 1 .. Len(plan) /\ Len(plan) \in Nat
      /\ DOMAIN calls = 1 .. Len(calls) /\ Len(calls) \in Nat
      /\ MaxCallsInRequest \in Nat
  BY BoundsAssumption DEF Base, TypeOK
<1>a. \A r \in DOMAIN plan : plan[r].first \in Nat /\ plan[r].last \in Nat
  <2>1. \A r \in DOMAIN plan : plan[r] \in [first : Nat, last : Nat]
    BY <1>0, SeqFacts
  <2> QED
    BY <2>1
<1>b. \A i \in DOMAIN calls : calls[i].back \in Nat
  <2>1. \A i \in DOMAIN calls : calls[i] \in CallRecord
    BY <1>0, SeqFacts, CallKindsAssumption
  <2> QED
    BY <2>1 DEF CallRecord
<1>1. Planned \in Nat
  BY <1>0, LastPlanned
<1>2. PICK e \in Ends(Planned) : plan' = Append(plan, [first |-> Planned + 1, last |-> e])
  BY DEF PlanRequest
<1>3. /\ e \in Nat /\ Planned < e /\ e <= Len(calls) /\ e <= Planned + MaxCallsInRequest
      /\ LegalEnd(e)
  BY <1>0, <1>1, <1>2 DEF Ends
<1>4. UNCHANGED <<pc, calls, built, view, next, created, sent, inFlight, attempt,
                  mutating, guarded, handle, error, copies, state, log>>
  BY DEF PlanRequest, serverVars
<1> DEFINE seg == [first |-> Planned + 1, last |-> e]
<1>5. /\ plan' \in Seq([first : Nat, last : Nat])
      /\ Len(plan') = Len(plan) + 1
      /\ \A r \in DOMAIN plan : r \in DOMAIN plan' /\ plan'[r] = plan[r]
      /\ plan'[Len(plan) + 1] = seg
      /\ DOMAIN plan' = 1 .. (Len(plan) + 1)
  BY <1>0, <1>1, <1>2, <1>3
<1>6. TypeOK'
  BY <1>4, <1>5 DEF Base, TypeOK
<1>7. PlanOrdered'
  <2>1. \A r \in DOMAIN plan : plan[r].last <= Planned
    <3> SUFFICES ASSUME NEW r \in DOMAIN plan PROVE plan[r].last <= Planned
      OBVIOUS
    <3>1. Planned = plan[Len(plan)].last /\ Len(plan) \in DOMAIN plan
      BY <1>0, LastPlanned
    <3>2. CASE r = Len(plan)
      BY <3>1, <3>2, <1>1
    <3>3. CASE r < Len(plan)
      <4>1. plan[r].last < plan[Len(plan)].first
        BY <3>1, <3>3 DEF Base, PlanOrdered
      <4>2. plan[Len(plan)].first <= plan[Len(plan)].last
        BY <3>1 DEF Base, PlanSound
      <4> QED
        BY <1>a, <1>1, <3>1, <4>1, <4>2
    <3> QED
      BY <1>0, <3>2, <3>3
  <2>2. \A i : LegalEnd(i)' <=> LegalEnd(i)
    BY <1>4 DEF LegalEnd, HasTarget, Target
  <2>3. ReferencesValid'
    BY <1>4 DEF Base, PlanRequest, PlanOrdered, ReferencesValid, HasTarget, Target
  <2>4. \A r \in DOMAIN plan' :
          1 <= plan'[r].first /\ plan'[r].last <= Len(calls) /\ LegalEnd(plan'[r].last)
    <3> SUFFICES ASSUME NEW r \in DOMAIN plan'
        PROVE 1 <= plan'[r].first /\ plan'[r].last <= Len(calls) /\ LegalEnd(plan'[r].last)
      OBVIOUS
    <3>1. CASE r \in DOMAIN plan
      BY <1>5, <3>1 DEF Base, PlanOrdered
    <3>2. CASE r = Len(plan) + 1
      BY <1>1, <1>3, <1>5, <3>2
    <3> QED
      BY <1>0, <1>5, <3>1, <3>2
  <2>5. \A r, s \in DOMAIN plan' : r < s => plan'[r].last < plan'[s].first
    <3> SUFFICES ASSUME NEW r \in DOMAIN plan', NEW s \in DOMAIN plan', r < s
                 PROVE plan'[r].last < plan'[s].first
      OBVIOUS
    <3>1. r \in DOMAIN plan
      BY <1>0, <1>5
    <3>2. CASE s \in DOMAIN plan
      BY <1>5, <3>1, <3>2 DEF Base, PlanOrdered
    <3>3. CASE s = Len(plan) + 1
      BY <1>1, <1>5, <1>a, <2>1, <3>1, <3>3
    <3> QED
      BY <1>0, <1>5, <3>2, <3>3
  <2> QED
    BY <1>4, <2>2, <2>3, <2>4, <2>5 DEF PlanOrdered, PlanRequest
<1>8. PlanSound'
  <2> SUFFICES ASSUME NEW r \in DOMAIN plan'
      PROVE /\ plan'[r].first = IF r = 1 THEN 1 ELSE plan'[r - 1].last + 1
            /\ plan'[r].first <= plan'[r].last /\ plan'[r].last <= Len(calls)
            /\ plan'[r].last - plan'[r].first < MaxCallsInRequest
            /\ \A i \in plan'[r].first .. plan'[r].last :
                 calls[i].back > 0 => i - calls[i].back \in plan'[r].first .. plan'[r].last
    BY <1>4 DEF PlanSound, CallsOf, HasTarget, Target
  <2>1. CASE r \in DOMAIN plan
    <3>1. r # 1 => r - 1 \in DOMAIN plan
      BY <1>0, <2>1
    <3> QED
      BY <1>5, <2>1, <3>1 DEF Base, PlanSound, CallsOf, HasTarget, Target
  <2>2. CASE r = Len(plan) + 1
    <3>1. Planned + 1 = IF r = 1 THEN 1 ELSE plan'[r - 1].last + 1
      <4>1. CASE plan = <<>>
        BY <1>0, <2>2, <4>1, LastPlanned
      <4>2. CASE plan # <<>>
        <5>1. Len(plan) \in DOMAIN plan /\ Planned = plan[Len(plan)].last
          BY <1>0, <4>2, LastPlanned
        <5>2. r # 1 /\ r - 1 = Len(plan)
          BY <1>0, <2>2, <5>1
        <5> QED
          BY <1>5, <5>1, <5>2
      <4> QED
        BY <4>1, <4>2
    <3>2. ASSUME NEW i \in (Planned + 1) .. e, calls[i].back > 0
          PROVE i - calls[i].back \in (Planned + 1) .. e
      <4>1. i \in DOMAIN calls /\ i \in Nat
        BY <1>0, <1>1, <1>3, <3>2
      <4>2. calls[i].back \in Nat /\ i - calls[i].back < i
        BY <1>b, <4>1, <3>2
      <4>3. i - calls[i].back > Planned
        <5>1. CASE plan = <<>>
          <6>1. ReferencesValid /\ Planned = 0
            BY <1>0, <5>1, LastPlanned DEF Base, PlanOrdered, PlanRequest
          <6> QED
            BY <6>1, <1>b, <4>1, <3>2 DEF ReferencesValid, HasTarget, Target
        <5>2. CASE plan # <<>>
          <6>1. Len(plan) \in DOMAIN plan /\ Planned = plan[Len(plan)].last
            BY <1>0, <5>2, LastPlanned
          <6>2. LegalEnd(Planned)
            BY <6>1 DEF Base, PlanOrdered
          <6> QED
            BY <6>2, <4>1, <3>2, <1>1 DEF LegalEnd, HasTarget, Target
        <5> QED
          BY <5>1, <5>2
      <4> QED
        BY <4>2, <4>3, <1>1, <1>3
    <3>3. plan'[r].first = Planned + 1 /\ plan'[r].last = e
      BY <1>5, <2>2
    <3>4. e <= Len(calls) /\ Planned + 1 <= e /\ e - (Planned + 1) < MaxCallsInRequest
      BY <1>0, <1>1, <1>3
    <3> QED
      BY <3>1, <3>2, <3>3, <3>4
  <2> QED
    BY <1>0, <1>5, <2>1, <2>2
<1>9. Bounded'
  <2>1. \A c \in copies' : c.req \in DOMAIN plan /\ plan'[c.req] = plan[c.req]
    BY <1>4, <1>5 DEF Base, Bounded
  <2> QED
    BY <1>4, <1>5, <2>1 DEF Base, Bounded, PlanRequest
<1> QED
  BY <1>6, <1>7, <1>8, <1>9 DEF Base

\* A step that leaves the calls and the plan alone keeps the plan sound.
LEMMA PlanFrame ==
  ASSUME Base, UNCHANGED <<calls, plan>>,
         pc' \in {"open", "abandoned"} => pc \in {"open", "abandoned"},
         pc' = "planning" => ReferencesValid
  PROVE  PlanSound' /\ PlanOrdered'
<1>1. \A i : LegalEnd(i)' <=> LegalEnd(i)
  BY DEF LegalEnd, HasTarget, Target
<1>2. ReferencesValid' <=> ReferencesValid
  BY DEF ReferencesValid, HasTarget, Target
<1>3. PlanSound'
  BY DEF Base, PlanSound, CallsOf, HasTarget, Target
<1>4. PlanOrdered'
  BY <1>1, <1>2 DEF Base, PlanOrdered
<1> QED
  BY <1>3, <1>4

LEMMA PlanSame ==
  ASSUME Base, UNCHANGED <<pc, calls, plan>> PROVE PlanSound' /\ PlanOrdered'
<1>1. pc' = "planning" => ReferencesValid
  BY DEF Base, PlanOrdered
<1> QED
  BY <1>1, PlanFrame

LEMMA CallerStep ==
  ASSUME Base, Caller PROVE Base'
<1>1. ASSUME NEW call \in CallKinds, Queue(call) PROVE Base'
  <2>1. plan = <<>> /\ plan' = <<>> /\ pc = "open" /\ pc' = "open" /\ copies' = copies
    BY <1>1 DEF Base, PlanOrdered, Queue, serverVars
  <2>2. calls' \in Seq(CallKinds) /\ Len(calls') <= MaxBatch
    BY <1>1, BoundsAssumption DEF Base, TypeOK, Queue
  <2>3. TypeOK'
    BY <1>1, <2>2 DEF Base, TypeOK, Queue, serverVars
  <2>4. PlanSound'
    BY <2>1 DEF PlanSound
  <2>5. PlanOrdered' /\ Bounded'
    BY <2>1 DEF Base, PlanOrdered, Bounded
  <2> QED
    BY <2>3, <2>4, <2>5 DEF Base
<1>2. CASE AbandonBlock
  <2>1. TypeOK'
    BY <1>2 DEF Base, TypeOK, AbandonBlock, serverVars
  <2>2. Bounded'
    BY <1>2 DEF Base, Bounded, AbandonBlock, serverVars
  <2> QED
    BY <1>2, <2>1, <2>2, PlanFrame DEF Base, AbandonBlock
<1>3. CASE LeaveBlock
  <2>1. TypeOK'
    BY <1>3 DEF Base, TypeOK, LeaveBlock, Raise, serverVars
  <2>2. Bounded'
    BY <1>3 DEF Base, Bounded, LeaveBlock, Raise, serverVars
  <2>3. UNCHANGED <<calls, plan>> /\ pc' \in {"planning", "raised"}
        /\ (pc' = "planning" => ReferencesValid)
    BY <1>3 DEF LeaveBlock, Raise
  <2> QED
    BY <2>1, <2>2, <2>3, PlanFrame DEF Base
<1> QED
  BY <1>1, <1>2, <1>3 DEF Caller

LEMMA PlannerStep ==
  ASSUME Base, Planner PROVE Base'
<1>1. CASE PlanRequest
  BY <1>1, PlanStep
<1>2. CASE BatchTooLarge
  <2>1. TypeOK'
    BY <1>2 DEF Base, TypeOK, BatchTooLarge, Raise, serverVars
  <2>2. Bounded'
    BY <1>2 DEF Base, Bounded, BatchTooLarge, Raise, serverVars
  <2> QED
    BY <1>2, <2>1, <2>2, PlanFrame DEF Base, BatchTooLarge, Raise
<1>3. CASE PlanComplete
  <2>1. TypeOK'
    BY <1>3 DEF Base, TypeOK, PlanComplete, serverVars
  <2>2. Bounded'
    BY <1>3 DEF Base, Bounded, PlanComplete, serverVars
  <2> QED
    BY <1>3, <2>1, <2>2, PlanFrame DEF Base, PlanComplete
<1> QED
  BY <1>1, <1>2, <1>3 DEF Planner

\* Every turn of _post's loop that ends without an answer: it goes round with an
\* attempt left, or raises.
LEMMA GoRound ==
  ASSUME NEW safety, NEW made, NEW kind, RetryOrRaise(safety, made, kind)
  PROVE  \/ pc' = "posting" /\ error' = error /\ made < MaxAttempts
         \/ pc' = "raised" /\ error' = kind
  BY DEF RetryOrRaise, Raise, ShouldRetry

LEMMA LoopStep ==
  ASSUME Base, pc \in {"posting", "waiting"},
         UNCHANGED <<calls, built, view, plan, next, created, sent, inFlight, mutating,
                     guarded, handle, state, log>>,
         copies' \subseteq copies,
         attempt' \in 0 .. MaxAttempts,
         \/ pc' = "posting" /\ error' = error /\ attempt' < MaxAttempts
         \/ pc' = "raised" /\ error' \in {"transport", "problem", "authentication",
                                         "malformed", "cancelled"}
  PROVE  Base'
<1>1. TypeOK'
  BY DEF Base, TypeOK
<1>2. Bounded'
  BY DEF Base, Bounded
<1> QED
  BY <1>1, <1>2, PlanFrame DEF Base

LEMMA PosterStep ==
  ASSUME Base, Poster PROVE Base'
<1>0. /\ DOMAIN plan = 1 .. Len(plan) /\ Len(plan) \in Nat /\ next \in Nat \ {0}
      /\ attempt \in Nat /\ attempt <= MaxAttempts /\ MaxAttempts \in Nat \ {0}
      /\ \A r \in DOMAIN plan : plan[r].first \in Nat /\ plan[r].last \in Nat
      /\ MaxBatch \in Nat /\ Len(calls) \in Nat /\ Len(calls) <= MaxBatch
  <2>1. /\ plan \in Seq([first : Nat, last : Nat]) /\ calls \in Seq(CallKinds)
        /\ next \in Nat \ {0} /\ attempt \in 0 .. MaxAttempts /\ Len(calls) <= MaxBatch
    BY DEF Base, TypeOK
  <2>2. \A r \in DOMAIN plan : plan[r] \in [first : Nat, last : Nat]
    BY <2>1, SeqFacts
  <2> QED
    BY <2>1, <2>2, MaxAttemptsAssumption, BoundsAssumption
<1>1. CASE NextRequest
  <2>1. next \in DOMAIN plan
    BY <1>0, <1>1 DEF NextRequest
  <2>2. inFlight' \subseteq 1 .. MaxBatch
    BY <1>0, <1>1, <2>1 DEF NextRequest, CallsOf, Base, PlanOrdered
  <2>3. mutating' \in BOOLEAN /\ guarded' \in BOOLEAN
    BY <1>1, Zenon DEF NextRequest, IsMutating, AllMutationsGuarded
  <2>4. attempt' = 0 /\ attempt' \in 0 .. MaxAttempts /\ attempt' < MaxAttempts
    BY <1>0, <1>1 DEF NextRequest
  <2>5. UNCHANGED <<calls, built, view, plan, next, created, handle, error, copies, state, log>>
        /\ sent' = created /\ pc' = "posting"
    BY <1>1 DEF NextRequest, serverVars
  <2>6. TypeOK'
    BY <2>2, <2>3, <2>4, <2>5 DEF Base, TypeOK
  <2>7. Bounded'
    BY <2>1, <2>4, <2>5 DEF Base, Bounded
  <2> QED
    BY <2>5, <2>6, <2>7, PlanFrame DEF Base
<1>2. CASE Finished
  <2>1. TypeOK'
    BY <1>2 DEF Base, TypeOK, Finished, serverVars
  <2>2. Bounded'
    BY <1>2 DEF Base, Bounded, Finished, serverVars
  <2> QED
    BY <1>2, <2>1, <2>2, PlanFrame DEF Base, Finished
<1>3. CASE ConnectFails
  <2>1. attempt' = attempt + 1 /\ attempt < MaxAttempts /\ pc = "posting"
    BY <1>3 DEF ConnectFails, Base, Bounded
  <2>2. \/ pc' = "posting" /\ error' = error /\ attempt' < MaxAttempts
        \/ pc' = "raised" /\ error' = "transport"
    BY <1>3, GoRound DEF ConnectFails
  <2> QED
    BY <1>0, <1>3, <2>1, <2>2, LoopStep DEF ConnectFails, serverVars
<1>4. CASE Post
  <2>1. attempt' = attempt + 1 /\ attempt' \in 0 .. MaxAttempts /\ next \in DOMAIN plan
    BY <1>0, <1>4 DEF Post, Base, Bounded
  <2>2. UNCHANGED <<calls, built, view, plan, next, created, sent, inFlight, mutating,
                    guarded, handle, error, state, log>>
        /\ pc' = "waiting" /\ copies' = copies \union {Copy(next, attempt + 1)}
    BY <1>4 DEF Post
  <2>3. /\ Copy(next, attempt + 1) \in [req : Nat, attempt : Nat, sent : SUBSET Keys,
                                        known : SUBSET Keys, answers : Seq(Outcomes)]
        /\ Copy(next, attempt + 1).req = next
        /\ Len(Copy(next, attempt + 1).answers) = 0
    <3>1. sent \in SUBSET Keys
      BY DEF Base, TypeOK
    <3>2. <<>> \in Seq(Outcomes) /\ Len(<<>>) = 0
      BY EmptySeq
    <3> QED
      BY <1>0, <3>1, <3>2 DEF Copy
  <2>4. TypeOK'
    BY <2>1, <2>2, <2>3 DEF Base, TypeOK
  <2>5. plan[next].first <= plan[next].last
    BY <2>1 DEF Base, PlanSound
  <2>6. Bounded'
    BY <1>0, <2>1, <2>2, <2>3, <2>5 DEF Base, Bounded
  <2> QED
    BY <2>2, <2>4, <2>6, PlanFrame DEF Base
<1>5. CASE Silence
  <2>1. \/ pc' = "posting" /\ error' = error /\ attempt < MaxAttempts
        \/ pc' = "raised" /\ error' = "transport"
    BY <1>5, GoRound DEF Silence
  <2> QED
    BY <1>0, <1>5, <2>1, LoopStep DEF Silence, serverVars
<1>6. ASSUME NEW status, NEW type, NEW long, OnProblem(status, type, long)
      PROVE  \/ pc' = "posting" /\ error' = error /\ attempt < MaxAttempts
             \/ pc' = "raised" /\ error' \in {"authentication", "problem"}
  BY <1>6, GoRound DEF OnProblem, Raise
<1>7. CASE Rejected
  <2>1. \/ pc' = "posting" /\ error' = error /\ attempt < MaxAttempts
        \/ pc' = "raised" /\ error' \in {"authentication", "problem"}
    BY <1>6, <1>7 DEF Rejected
  <2>2. copies' \subseteq copies
    BY <1>7 DEF Rejected
  <2> QED
    BY <1>0, <1>7, <2>1, <2>2, LoopStep DEF Rejected
<1>8. CASE ServerError
  <2>1. \/ pc' = "posting" /\ error' = error /\ attempt < MaxAttempts
        \/ pc' = "raised" /\ error' \in {"authentication", "problem"}
    BY <1>6, <1>8 DEF ServerError
  <2> QED
    BY <1>0, <1>8, <2>1, LoopStep DEF ServerError, serverVars
<1>9. CASE MalformedResponse
  BY <1>0, <1>9, LoopStep DEF MalformedResponse, Raise, serverVars
<1>10. CASE Absorb
  <2>1. handle' \in [1 .. MaxBatch -> HandleStates]
    BY <1>10 DEF Absorb, Base, TypeOK
  <2>2. created' \subseteq Keys
    BY <1>10 DEF Absorb, Base, TypeOK, ReturnedIds
  <2>3. UNCHANGED <<calls, built, view, plan, sent, attempt, mutating, guarded, error,
                    copies, state, log>>
        /\ pc' = "due" /\ next' = next + 1 /\ inFlight' = {}
    BY <1>10 DEF Absorb, serverVars
  <2>4. TypeOK'
    BY <1>0, <2>1, <2>2, <2>3 DEF Base, TypeOK
  <2>5. Bounded'
    BY <2>3 DEF Base, Bounded
  <2> QED
    BY <2>3, <2>4, <2>5, PlanFrame DEF Base
<1> QED
  BY <1>1, <1>2, <1>3, <1>4, <1>5, <1>7, <1>8, <1>9, <1>10 DEF Poster

LEMMA CancelStep ==
  ASSUME Base, Cancel PROVE Base'
<1>1. attempt \in 0 .. MaxAttempts
  BY DEF Base, TypeOK
<1> QED
  BY <1>1, LoopStep DEF Cancel, Raise, serverVars

LEMMA RefreshStep ==
  ASSUME Base, RefreshSession PROVE Base'
<1>1. TypeOK'
  BY DEF Base, TypeOK, RefreshSession, serverVars
<1>2. Bounded'
  BY DEF Base, Bounded, RefreshSession, serverVars
<1> QED
  BY <1>1, <1>2, PlanFrame DEF Base, RefreshSession

----------------------------------------------------------------------------
\* The server

CopyType == [req : Nat, attempt : Nat, sent : SUBSET Keys, known : SUBSET Keys,
             answers : Seq(Outcomes)]

\* An unfinished copy is about to run a call of its own request.
LEMMA TurnInRequest ==
  ASSUME Base, NEW c \in copies, ~Complete(c)
  PROVE  /\ Turn(c) \in CallsOf(c.req) /\ Turn(c) \in DOMAIN calls
         /\ Turn(c) \in Nat /\ calls[Turn(c)] \in CallRecord
         /\ Len(c.answers) \in Nat
         /\ Len(c.answers) + 1 <= plan[c.req].last - plan[c.req].first + 1
<1>1. /\ c \in CopyType /\ c.req \in DOMAIN plan
      /\ Len(c.answers) <= plan[c.req].last - plan[c.req].first + 1
  BY DEF Base, TypeOK, Bounded, CopyType
<1>2. Len(c.answers) \in Nat
  BY <1>1, SeqFacts DEF CopyType
<1>3. plan[c.req] \in [first : Nat, last : Nat]
  BY <1>1, SeqFacts DEF Base, TypeOK
<1>4. plan[c.req].first \in Nat /\ plan[c.req].last \in Nat /\ 1 <= plan[c.req].first
      /\ plan[c.req].last <= Len(calls)
  BY <1>1, <1>3 DEF Base, PlanOrdered
<1>5. DOMAIN calls = 1 .. Len(calls) /\ Len(calls) \in Nat
      /\ \A i \in DOMAIN calls : calls[i] \in CallKinds
  BY SeqFacts DEF Base, TypeOK
<1>6. Len(c.answers) # plan[c.req].last - plan[c.req].first + 1
  BY DEF Complete
<1>7. Turn(c) \in plan[c.req].first .. plan[c.req].last
  BY <1>1, <1>2, <1>4, <1>6 DEF Turn
<1>8. Turn(c) \in DOMAIN calls
  BY <1>4, <1>5, <1>7
<1> QED
  BY <1>1, <1>2, <1>4, <1>5, <1>6, <1>7, <1>8, CallKindsAssumption DEF CallsOf

LEMMA AnswerFacts ==
  ASSUME Base, NEW c \in copies, NEW outcome \in Outcomes, NEW keys \in SUBSET Keys,
         Answer(c, outcome, keys)
  PROVE  \E d \in CopyType :
            /\ copies' = (copies \ {c}) \union {d}
            /\ d.req = c.req /\ d.attempt = c.attempt
            /\ d.sent = c.sent /\ d.known = c.known \union keys
            /\ d.answers = Append(c.answers, outcome)
            /\ Len(d.answers) = Len(c.answers) + 1
<1>1. c \in CopyType
  BY DEF Base, TypeOK, CopyType
<1> DEFINE d == [c EXCEPT !.answers = Append(@, outcome), !.known = @ \union keys]
<1>2. c.answers \in Seq(Outcomes)
  BY <1>1 DEF CopyType
<1>3. Append(c.answers, outcome) \in Seq(Outcomes)
      /\ Len(Append(c.answers, outcome)) = Len(c.answers) + 1
  BY <1>2
<1>4. d \in CopyType
  BY <1>1, <1>3 DEF CopyType
<1>5. /\ d.req = c.req /\ d.attempt = c.attempt /\ d.answers = Append(c.answers, outcome)
      /\ d.sent = c.sent /\ d.known = c.known \union keys
  BY <1>1 DEF CopyType
<1>6. copies' = (copies \ {c}) \union {d}
  BY DEF Answer
<1> QED
  BY <1>3, <1>4, <1>5, <1>6

LEMMA ServerStep ==
  ASSUME Base, Server PROVE Base'
<1>0. UNCHANGED <<pc, calls, built, view, plan, next, created, sent, inFlight,
                  attempt, mutating, guarded, handle, error>>
  BY DEF Server
<1>1. ASSUME NEW c \in copies, ~Complete(c), NEW outcome \in Outcomes,
             NEW keys \in SUBSET Keys, Answer(c, outcome, keys),
             state' \in [Types -> Nat],
             log' \in Seq([call : Nat, req : Nat, attempt : Nat])
      PROVE  Base'
  <2>1. PICK d \in CopyType :
            /\ copies' = (copies \ {c}) \union {d}
            /\ d.req = c.req /\ d.attempt = c.attempt
            /\ Len(d.answers) = Len(c.answers) + 1
    BY <1>1, AnswerFacts
  <2>2. copies' \subseteq CopyType
    BY <2>1 DEF Base, TypeOK, CopyType
  <2>3. TypeOK'
    <3>1. copies' \subseteq [req : Nat, attempt : Nat, sent : SUBSET Keys, known : SUBSET Keys,
                            answers : Seq(Outcomes)]
      BY <2>2 DEF CopyType
    <3> QED
      BY <1>0, <1>1, <3>1 DEF Base, TypeOK
  <2>4. c.req \in DOMAIN plan /\ Len(d.answers) <= plan[c.req].last - plan[c.req].first + 1
    BY <1>1, <2>1, TurnInRequest DEF Base, Bounded
  <2>5. Bounded'
    BY <1>0, <2>1, <2>4 DEF Base, Bounded
  <2> QED
    BY <1>0, <2>3, <2>5, PlanSame DEF Base
<1>7. /\ {} \in SUBSET Keys /\ state \in [Types -> Nat]
      /\ log \in Seq([call : Nat, req : Nat, attempt : Nat])
  BY DEF Base, TypeOK
<1>2. ASSUME NEW c \in copies, RefuseCall(c) PROVE Base'
  <2>1. Refusal(c, Turn(c)) \in Outcomes
    BY <1>2 DEF RefuseCall, Refusal, Outcomes
  <2>2. ~Complete(c) /\ Answer(c, Refusal(c, Turn(c)), {}) /\ state' = state /\ log' = log
    BY <1>2 DEF RefuseCall
  <2> QED
    BY <1>1, <1>7, <2>1, <2>2
<1>3. ASSUME NEW c \in copies, FailCall(c) PROVE Base'
  <2>1. ~Complete(c) /\ Answer(c, "error", {}) /\ state' = state /\ log' = log
    BY <1>3 DEF FailCall
  <2>2. "error" \in Outcomes
    BY DEF Outcomes
  <2> QED
    BY <1>1, <1>7, <2>1, <2>2
<1>4. ASSUME NEW c \in copies, ReadCall(c) PROVE Base'
  <2>1. ~Complete(c) /\ Answer(c, "ok", {}) /\ state' = state /\ log' = log
    BY <1>4 DEF ReadCall
  <2>2. "ok" \in Outcomes
    BY DEF Outcomes
  <2> QED
    BY <1>1, <1>7, <2>1, <2>2
<1>5. ASSUME NEW c \in copies, ApplyCall(c) PROVE Base'
  <2> DEFINE i == Turn(c)
  <2>1. ~Complete(c) /\ i \in Nat /\ calls[i] \in CallRecord
    BY <1>5, TurnInRequest DEF ApplyCall
  <2>2. calls[i].type \in Types /\ {calls[i].creates} \ {NoKey} \in SUBSET Keys
    BY <2>1 DEF CallRecord
  <2>3. state' \in [Types -> Nat]
    BY <1>5, <1>7, <2>2 DEF ApplyCall
  <2>4. c.req \in Nat /\ c.attempt \in Nat
    BY DEF Base, TypeOK
  <2>5. log' \in Seq([call : Nat, req : Nat, attempt : Nat])
    BY <1>5, <1>7, <2>1, <2>4 DEF ApplyCall
  <2>6. \E outcome \in Outcomes, keys \in SUBSET Keys : Answer(c, outcome, keys)
    BY <1>5, <2>2 DEF ApplyCall, Outcomes
  <2> QED
    BY <1>1, <2>1, <2>3, <2>5, <2>6
<1>6. ASSUME NEW t \in Types, OtherClientWrites(t) PROVE Base'
  <2>1. state' \in [Types -> Nat] /\ copies' = copies /\ log' = log
    BY <1>6 DEF OtherClientWrites, Base, TypeOK
  <2>2. TypeOK'
    BY <1>0, <2>1 DEF Base, TypeOK
  <2>3. Bounded'
    BY <1>0, <2>1 DEF Base, Bounded
  <2> QED
    BY <1>0, <2>2, <2>3, PlanSame DEF Base
<1> QED
  BY <1>2, <1>3, <1>4, <1>5, <1>6 DEF Server

LEMMA BaseNext ==
  ASSUME Base, [Next]_vars PROVE Base'
<1>1. CASE UNCHANGED vars
  <2>1. TypeOK' /\ Bounded'
    BY <1>1 DEF Base, TypeOK, Bounded, vars
  <2>2. UNCHANGED <<pc, calls, plan>>
    BY <1>1 DEF vars
  <2> QED
    BY <2>1, <2>2, PlanSame DEF Base
<1> QED
  BY <1>1, CallerStep, PlannerStep, PosterStep, CancelStep, RefreshStep, ServerStep DEF Next

LEMMA BaseInvariant == Spec => []Base
  BY BaseInit, BaseNext, PTL DEF Spec

\* Every variable keeps its type: no attempt past max_attempts, no handle in a
\* state the code cannot read, no call in flight that the batch does not hold.
THEOREM TypeCorrect == Spec => []TypeOK
  BY BaseInvariant, PTL DEF Base

\* plan_requests covers a prefix of the batch, in order and without a gap or an
\* overlap, within maxCallsInRequest, and never separates a back-reference from
\* its target: for every batch, every limit and every order of events.
THEOREM PlanIsSound == Spec => []PlanSound
  BY BaseInvariant, PTL DEF Base

----------------------------------------------------------------------------
\* AtMostOnce.  It is not inductive: that a step applies a call for the first
\* time follows from what became of every earlier copy of its request.

\* A refreshed session still resolves every mutating method a batch may hold.
StableMethods ==
    \A v \in SessionViews, call \in CallKinds : call.mutating => call.method \in v

Unsafe == \E i \in DOMAIN calls : calls[i].mutating /\ ~IsGuarded(calls[i])

NothingSent == pc \in {"open", "abandoned", "planning"} => copies = {} /\ log = <<>>

CopiesBehind ==
    /\ \A c \in copies : c.req <= next
    /\ pc = "due" => \A c \in copies : c.req < next

FlagsTell == pc \in {"posting", "waiting"} /\ Unsafe => mutating /\ ~guarded

\* A request of a batch that holds an unguarded mutation is on the wire once.
OneCopy ==
    Unsafe =>
        /\ \A c, d \in copies : c.req = d.req => c = d
        /\ pc = "posting" => \A c \in copies : c.req # next

\* An applied mutation left a trace that stops the next: a state moved past its
\* ifInState, or a copy that is already past it.
Traced(i) == IF IsGuarded(calls[i])
             THEN state[calls[i].type] > 0
             ELSE \E c \in copies : Covers(c.req, i) /\ Turn(c) > i

LogTells ==
    \A n \in DOMAIN log :
        /\ log[n].call \in DOMAIN calls /\ calls[log[n].call].mutating
        /\ Traced(log[n].call)

Once == NothingSent /\ CopiesBehind /\ FlagsTell /\ OneCopy /\ LogTells /\ AtMostOnce

LEMMA OnceInit == Init => Once
<1> SUFFICES ASSUME Init PROVE Once
  OBVIOUS
<1>1. copies = {} /\ log = <<>> /\ DOMAIN log = {} /\ pc = "open"
  BY DEF Init
<1> QED
  BY <1>1 DEF Once, NothingSent, CopiesBehind, FlagsTell, OneCopy, LogTells, AtMostOnce

\* Before anything was sent there is nothing to break.
LEMMA OnceBefore ==
  ASSUME copies' = {}, log' = <<>>, pc' \notin {"posting", "waiting"}
  PROVE  Once'
<1>1. DOMAIN log' = {}
  OBVIOUS
<1> QED
  BY <1>1 DEF Once, NothingSent, CopiesBehind, FlagsTell, OneCopy, LogTells, AtMostOnce

\* The log and its traces survive a step that takes no trace away.
LEMMA LogFrame ==
  ASSUME Once, UNCHANGED <<calls, plan, state, log>>,
         \A c \in copies : c.answers # <<>> => c \in copies', Base
  PROVE  LogTells' /\ AtMostOnce'
<1>1. AtMostOnce'
  BY DEF Once, AtMostOnce
<1>2. LogTells'
  <2> SUFFICES ASSUME NEW n \in DOMAIN log, ~IsGuarded(calls[log[n].call]),
                      NEW c \in copies, Covers(c.req, log[n].call), Turn(c) > log[n].call
               PROVE  c \in copies'
    BY DEF Once, LogTells, Traced, IsGuarded, Covers, Turn
  <2>1. c.req \in DOMAIN plan
    BY DEF Base, Bounded
  <2>2. plan[c.req].first \in Nat /\ plan[c.req].last \in Nat
    <3>1. plan[c.req] \in [first : Nat, last : Nat]
      BY <2>1, SeqFacts DEF Base, TypeOK
    <3> QED
      BY <3>1
  <2>3. log[n].call \in Nat
    <3>1. log[n] \in [call : Nat, req : Nat, attempt : Nat]
      BY SeqFacts DEF Base, TypeOK
    <3> QED
      BY <3>1
  <2>4. Len(c.answers) # 0
    BY <2>2, <2>3 DEF Covers, Turn
  <2> QED
    BY <2>4
<1> QED
  BY <1>1, <1>2

LEMMA UnsafeSame ==
  ASSUME UNCHANGED calls PROVE Unsafe' <=> Unsafe
  BY DEF Unsafe, IsGuarded

\* A step of the poster that puts nothing new on the wire.
LEMMA OnceQuiet ==
  ASSUME Base, Once, pc \in {"posting", "waiting"},
         UNCHANGED <<calls, plan, next, mutating, guarded, state, log>>,
         copies' \subseteq copies,
         \A c \in copies : c.answers # <<>> => c \in copies',
         pc' \in {"posting", "raised"},
         pc' = "posting" /\ Unsafe => \A c \in copies' : c.req # next
  PROVE  Once'
<1>1. NothingSent' /\ CopiesBehind'
  BY DEF Once, NothingSent, CopiesBehind
<1>2. FlagsTell' /\ OneCopy'
  BY UnsafeSame DEF Once, FlagsTell, OneCopy
<1> QED
  BY <1>1, <1>2, LogFrame DEF Once

LEMMA OncePoster ==
  ASSUME StableMethods, Base, Once, Poster PROVE Once'
<1>0. next \in Nat /\ \A c \in copies : c.req \in Nat
  BY DEF Base, TypeOK
<1>1. CASE NextRequest
  <2>1. UNCHANGED <<calls, plan, next, copies, state, log>> /\ pc = "due" /\ pc' = "posting"
    BY <1>1 DEF NextRequest, serverVars
  <2>2. FlagsTell'
    <3> SUFFICES ASSUME Unsafe PROVE mutating' /\ ~guarded'
      BY <2>1, UnsafeSame DEF FlagsTell
    <3>1. PICK i \in DOMAIN calls : calls[i].mutating /\ ~IsGuarded(calls[i])
      BY DEF Unsafe
    <3>2. calls[i] \in CallKinds /\ view \in SessionViews
      BY SeqFacts DEF Base, TypeOK
    <3>3. calls[i].method \in view
      BY <3>1, <3>2 DEF StableMethods
    <3> QED
      BY <1>1, <3>1, <3>3 DEF NextRequest, IsMutating, AllMutationsGuarded
  <2>3. NothingSent' /\ CopiesBehind' /\ OneCopy'
    BY <1>0, <2>1, UnsafeSame DEF Once, NothingSent, CopiesBehind, OneCopy
  <2> QED
    BY <2>1, <2>2, <2>3, LogFrame DEF Once
<1>2. CASE Finished
  <2>1. UNCHANGED <<calls, plan, next, copies, state, log>> /\ pc' = "done" /\ pc = "due"
    BY <1>2 DEF Finished, serverVars
  <2>2. NothingSent' /\ CopiesBehind' /\ FlagsTell' /\ OneCopy'
    BY <2>1, UnsafeSame DEF Once, NothingSent, CopiesBehind, FlagsTell, OneCopy
  <2> QED
    BY <2>1, <2>2, LogFrame DEF Once
<1>3. CASE ConnectFails
  <2>1. pc = "posting" /\ pc' \in {"posting", "raised"}
        /\ UNCHANGED <<calls, plan, next, mutating, guarded, copies, state, log>>
    BY <1>3, GoRound DEF ConnectFails, serverVars
  <2>2. Unsafe => \A c \in copies : c.req # next
    BY <2>1 DEF Once, OneCopy
  <2> QED
    BY <2>1, <2>2, OnceQuiet
<1>4. CASE Post
  <2> DEFINE new == Copy(next, attempt + 1)
  <2>1. /\ pc = "posting" /\ pc' = "waiting" /\ copies' = copies \union {new}
        /\ UNCHANGED <<calls, plan, next, mutating, guarded, state, log>> /\ new.req = next
    BY <1>4 DEF Post, Copy
  <2>2. NothingSent' /\ CopiesBehind'
    BY <1>0, <2>1 DEF Once, NothingSent, CopiesBehind
  <2>3. FlagsTell'
    BY <2>1, UnsafeSame DEF Once, FlagsTell
  <2>4. OneCopy'
    BY <2>1, UnsafeSame DEF Once, OneCopy
  <2> QED
    BY <2>1, <2>2, <2>3, <2>4, LogFrame DEF Once
<1>5. ASSUME pc = "waiting", Unsafe, NEW made, NEW kind, RetryOrRaise("MaybeApplied", made, kind)
      PROVE  pc' = "raised"
  <2>1. mutating /\ ~guarded
    BY <1>5 DEF Once, FlagsTell
  <2> QED
    BY <1>5, <2>1 DEF RetryOrRaise, ShouldRetry, Raise
<1>6. CASE Silence
  <2>1. pc = "waiting" /\ pc' \in {"posting", "raised"}
        /\ UNCHANGED <<calls, plan, next, mutating, guarded, copies, state, log>>
    BY <1>6, GoRound DEF Silence, serverVars
  <2>2. Unsafe => pc' = "raised"
    BY <1>5, <1>6 DEF Silence, ClassifyTransport
  <2> QED
    BY <2>1, <2>2, OnceQuiet
<1>7. ASSUME NEW status, NEW type, NEW long, OnProblem(status, type, long)
      PROVE  /\ pc' \in {"posting", "raised"}
             /\ pc = "waiting" /\ Unsafe /\ ClassifyStatus(status, type) = "MaybeApplied"
                  => pc' = "raised"
  BY <1>5, <1>7, GoRound DEF OnProblem, Raise
<1>8. CASE Rejected
  <2>1. PICK c \in copies : Awaited(c) /\ ~Started(c) /\ copies' = copies \ {c}
    BY <1>8 DEF Rejected
  <2>2. pc = "waiting" /\ UNCHANGED <<calls, plan, next, mutating, guarded, state, log>>
    BY <1>8 DEF Rejected
  <2>3. pc' \in {"posting", "raised"}
    BY <1>7, <1>8 DEF Rejected
  <2>4. Unsafe => \A d \in copies' : d.req # next
    BY <2>1 DEF Once, OneCopy, Awaited
  <2> QED
    BY <2>1, <2>2, <2>3, <2>4, OnceQuiet DEF Started
<1>9. CASE ServerError
  <2>1. pc = "waiting" /\ UNCHANGED <<calls, plan, next, mutating, guarded, copies, state, log>>
    BY <1>9 DEF ServerError, serverVars
  <2>2. pc' \in {"posting", "raised"} /\ (Unsafe => pc' = "raised")
    BY <1>7, <1>9 DEF ServerError
  <2> QED
    BY <2>1, <2>2, OnceQuiet
<1>10. CASE MalformedResponse
  <2>1. /\ pc = "waiting" /\ pc' = "raised"
        /\ UNCHANGED <<calls, plan, next, mutating, guarded, copies, state, log>>
    BY <1>10 DEF MalformedResponse, Raise, serverVars
  <2> QED
    BY <2>1, OnceQuiet
<1>11. CASE Absorb
  <2>1. /\ pc = "waiting" /\ pc' = "due" /\ next' = next + 1
        /\ UNCHANGED <<calls, plan, mutating, guarded, copies, state, log>>
    BY <1>11 DEF Absorb, serverVars
  <2>2. NothingSent' /\ CopiesBehind' /\ FlagsTell'
    BY <1>0, <2>1 DEF Once, NothingSent, CopiesBehind, FlagsTell
  <2>3. OneCopy'
    BY <2>1, UnsafeSame DEF Once, OneCopy
  <2> QED
    BY <2>1, <2>2, <2>3, LogFrame DEF Once
<1> QED
  BY <1>1, <1>2, <1>3, <1>4, <1>6, <1>8, <1>9, <1>10, <1>11 DEF Poster

LEMMA OnceServer ==
  ASSUME Base, Once, Server PROVE Once'
<1>0. UNCHANGED <<pc, calls, plan, next, mutating, guarded>>
  BY DEF Server
<1>1. \A c \in copies : c.req \in DOMAIN plan /\ c.answers \in Seq(Outcomes)
  BY DEF Base, TypeOK, Bounded
<1>2. \A r \in DOMAIN plan : plan[r].first \in Nat /\ plan[r].last \in Nat
  <2>1. \A r \in DOMAIN plan : plan[r] \in [first : Nat, last : Nat]
    BY SeqFacts DEF Base, TypeOK
  <2> QED
    BY <2>1
<1>3. copies # {} => pc \notin {"open", "abandoned", "planning"}
  BY DEF Once, NothingSent
<1>4. \A n \in DOMAIN log : log[n].call \in DOMAIN calls /\ log[n].call \in Nat
      /\ calls[log[n].call].type \in Types
  <2>1. \A i \in DOMAIN calls : i \in Nat /\ calls[i] \in CallRecord
    BY SeqFacts, CallKindsAssumption DEF Base, TypeOK
  <2> QED
    BY <2>1 DEF Once, LogTells, CallRecord
<1> DEFINE Follows(d, b) == /\ d.req = b.req /\ Turn(d)' >= Turn(b)
                            /\ Turn(d)' \in Nat /\ Turn(b) \in Nat
\* A copy that moves on stays where the invariants want it.
<1>5. ASSUME NEW c \in copies, ~Complete(c), NEW outcome \in Outcomes,
             NEW keys \in SUBSET Keys, Answer(c, outcome, keys)
      PROVE  /\ NothingSent'
             /\ CopiesBehind' /\ FlagsTell' /\ OneCopy'
             /\ \E d \in copies' : d.req = c.req /\ Turn(d)' > Turn(c)
             /\ \A b \in copies : \E d \in copies' : Follows(d, b)
  <2>1. PICK d \in CopyType :
          /\ copies' = (copies \ {c}) \union {d}
          /\ d.req = c.req /\ Len(d.answers) = Len(c.answers) + 1
    BY <1>5, AnswerFacts
  <2>2. NothingSent'
    BY <1>0, <1>3 DEF NothingSent
  <2>3. CopiesBehind'
    BY <1>0, <2>1 DEF Once, CopiesBehind
  <2>4. FlagsTell'
    BY <1>0, UnsafeSame DEF Once, FlagsTell
  <2>5. OneCopy'
    BY <1>0, <2>1, UnsafeSame DEF Once, OneCopy
  <2>6. \A b \in copies : Turn(b) \in Nat /\ Turn(b)' = Turn(b)
    BY <1>0, <1>1, <1>2, SeqFacts DEF Turn
  <2>7. Turn(d)' = Turn(c) + 1
    BY <1>0, <1>1, <1>2, <2>1, SeqFacts DEF Turn
  <2>8. \A b \in copies : \E e \in copies' : Follows(e, b)
    <3> SUFFICES ASSUME NEW b \in copies PROVE \E e \in copies' : Follows(e, b)
      OBVIOUS
    <3>1. CASE b = c
      BY <2>1, <2>6, <2>7, <3>1
    <3>2. CASE b # c
      BY <2>1, <2>6, <3>2
    <3> QED
      BY <3>1, <3>2
  <2> QED
    BY <2>1, <2>2, <2>3, <2>4, <2>5, <2>6, <2>7, <2>8
\* A call that left a trace still has it.
<1>6. ASSUME NEW i, IsGuarded(calls[i]) => calls[i].type \in Types, i \in Nat, Traced(i),
             \A t \in Types : state[t] > 0 => state'[t] > 0,
             \A b \in copies : \E d \in copies' : Follows(d, b)
      PROVE  Traced(i)'
  <2>1. CASE IsGuarded(calls[i])
    BY <1>0, <1>6, <2>1 DEF Traced, IsGuarded
  <2>2. CASE ~IsGuarded(calls[i])
    <3>1. PICK b \in copies : Covers(b.req, i) /\ Turn(b) > i
      BY <1>6, <2>2 DEF Traced
    <3>2. PICK d \in copies' : Follows(d, b)
      BY <1>6
    <3>3. Covers(d.req, i)'
      BY <1>0, <3>1, <3>2 DEF Covers
    <3>4. Turn(d)' > i
      BY <1>6, <3>1, <3>2
    <3> QED
      BY <1>0, <2>2, <3>3, <3>4 DEF Traced, IsGuarded
  <2> QED
    BY <2>1, <2>2
\* A step that logs nothing.
<1>7. ASSUME log' = log, \A t \in Types : state[t] > 0 => state'[t] > 0,
             \A b \in copies : \E d \in copies' : Follows(d, b)
      PROVE  LogTells' /\ AtMostOnce'
  <2>1. AtMostOnce'
    BY <1>7 DEF Once, AtMostOnce
  <2>2. LogTells'
    BY <1>0, <1>4, <1>6, <1>7 DEF Once, LogTells
  <2> QED
    BY <2>1, <2>2
<1>8. ASSUME NEW c \in copies, RefuseCall(c) PROVE Once'
  <2>1. Refusal(c, Turn(c)) \in Outcomes /\ {} \in SUBSET Keys
    BY <1>8 DEF RefuseCall, Refusal, Outcomes
  <2>2. ~Complete(c) /\ Answer(c, Refusal(c, Turn(c)), {}) /\ state' = state /\ log' = log
    BY <1>8 DEF RefuseCall
  <2>3. /\ NothingSent' /\ CopiesBehind' /\ FlagsTell' /\ OneCopy'
        /\ \A b \in copies : \E d \in copies' : Follows(d, b)
    BY <1>5, <2>1, <2>2
  <2> QED
    BY <1>7, <2>2, <2>3 DEF Once
<1>9. ASSUME NEW c \in copies, FailCall(c) \/ ReadCall(c) PROVE Once'
  <2>1. PICK outcome \in Outcomes : Answer(c, outcome, {})
    BY <1>9 DEF FailCall, ReadCall, Outcomes
  <2>2. ~Complete(c) /\ state' = state /\ log' = log /\ {} \in SUBSET Keys
    BY <1>9 DEF FailCall, ReadCall
  <2>3. /\ NothingSent' /\ CopiesBehind' /\ FlagsTell' /\ OneCopy'
        /\ \A b \in copies : \E d \in copies' : Follows(d, b)
    BY <1>5, <2>1, <2>2
  <2> QED
    BY <1>7, <2>2, <2>3 DEF Once
<1>10. ASSUME NEW t \in Types, OtherClientWrites(t) PROVE Once'
  <2>1. copies' = copies /\ log' = log /\ state' = [state EXCEPT ![t] = @ + 1]
        /\ state \in [Types -> Nat]
    BY <1>10 DEF OtherClientWrites, Base, TypeOK
  <2>2. \A u \in Types : state[u] > 0 => state'[u] > 0
    BY <2>1
  <2>3. \A b \in copies : Turn(b) \in Nat /\ Turn(b)' = Turn(b)
    BY <1>0, <1>1, <1>2, SeqFacts DEF Turn
  <2>4. \A b \in copies : \E d \in copies' : Follows(d, b)
    BY <2>1, <2>3
  <2>5. NothingSent' /\ CopiesBehind' /\ FlagsTell' /\ OneCopy'
    BY <1>0, <2>1, UnsafeSame DEF Once, NothingSent, CopiesBehind, FlagsTell, OneCopy
  <2> QED
    BY <1>7, <2>1, <2>2, <2>4, <2>5 DEF Once
<1>11. ASSUME NEW c \in copies, ApplyCall(c) PROVE Once'
  <2>0. PICK i : i = Turn(c)
    OBVIOUS
  <2> DEFINE type == calls[i].type
             entry == [call |-> i, req |-> c.req, attempt |-> c.attempt]
  <2>1. /\ ~Complete(c) /\ Refusal(c, i) = "none" /\ calls[i].mutating
        /\ state' = [state EXCEPT ![type] = @ + 1] /\ log' = Append(log, entry)
    BY <1>11, <2>0 DEF ApplyCall
  <2>2. /\ i \in Nat /\ i \in DOMAIN calls /\ type \in Types /\ i \in CallsOf(c.req)
        /\ {calls[i].creates} \ {NoKey} \in SUBSET Keys
    BY <2>0, <2>1, TurnInRequest DEF CallRecord
  <2>3. PICK outcome \in Outcomes, keys \in SUBSET Keys : Answer(c, outcome, keys)
    BY <1>11, <2>0, <2>2 DEF ApplyCall, Outcomes
  <2>4. /\ NothingSent' /\ CopiesBehind' /\ FlagsTell' /\ OneCopy'
        /\ \E d \in copies' : d.req = c.req /\ Turn(d)' > i
        /\ \A b \in copies : \E d \in copies' : Follows(d, b)
    BY <1>5, <2>0, <2>1, <2>3
  <2>5. /\ state \in [Types -> Nat] /\ state'[type] > 0
        /\ \A t \in Types : state[t] > 0 => state'[t] > 0
    BY <2>1, <2>2 DEF Base, TypeOK
  <2>6. /\ DOMAIN log' = DOMAIN log \union {Len(log) + 1} /\ Len(log) + 1 \notin DOMAIN log
        /\ \A n \in DOMAIN log : log'[n] = log[n]
        /\ log'[Len(log) + 1].call = i
    <3>1. log \in Seq([call : Nat, req : Nat, attempt : Nat])
      BY DEF Base, TypeOK
    <3> QED
      BY <2>1, <3>1
  <2>7. Traced(i)'
    <3>1. CASE IsGuarded(calls[i])
      BY <1>0, <2>5, <3>1 DEF Traced, IsGuarded
    <3>2. CASE ~IsGuarded(calls[i])
      <4>1. PICK d \in copies' : d.req = c.req /\ Turn(d)' > i
        BY <2>4
      <4>2. Covers(d.req, i)'
        BY <1>0, <2>2, <1>1, <1>2, <4>1 DEF Covers, CallsOf
      <4> QED
        BY <1>0, <3>2, <4>1, <4>2 DEF Traced, IsGuarded
    <3> QED
      BY <3>1, <3>2
  <2>8. LogTells'
    <3> SUFFICES ASSUME NEW n \in DOMAIN log', NEW j, j = log'[n].call
                 PROVE  j \in DOMAIN calls /\ calls[j].mutating /\ Traced(j)'
      BY <1>0 DEF LogTells, Traced, Covers
    <3>1. CASE n \in DOMAIN log
      <4>1. j = log[n].call
        BY <2>6, <3>1
      <4>2. j \in Nat /\ j \in DOMAIN calls /\ calls[j].mutating /\ Traced(j)
            /\ calls[j].type \in Types
        BY <1>4, <3>1, <4>1 DEF Once, LogTells
      <4> QED
        BY <1>6, <2>4, <2>5, <4>2
    <3>2. CASE n = Len(log) + 1
      BY <2>1, <2>2, <2>6, <2>7, <3>2
    <3> QED
      BY <2>6, <3>1, <3>2
  <2>9. ASSUME NEW n \in DOMAIN log, log[n].call = i PROVE FALSE
    <3>1. Traced(i)
      BY <2>9 DEF Once, LogTells
    <3>2. CASE IsGuarded(calls[i])
      <4>1. state[type] = 0
        BY <2>1, <3>2 DEF Refusal, IsGuarded
      <4> QED
        BY <3>1, <3>2, <4>1 DEF Traced
    <3>3. CASE ~IsGuarded(calls[i])
      <4>1. PICK b \in copies : Covers(b.req, i) /\ Turn(b) > i
        BY <3>1, <3>3 DEF Traced
      <4>2. plan[c.req].first <= i /\ i <= plan[c.req].last
        BY <1>1, <1>2, <2>2 DEF CallsOf
      <4>3. b.req = c.req
        <5>1. /\ b.req \in DOMAIN plan /\ c.req \in DOMAIN plan
              /\ b.req \in Nat /\ c.req \in Nat
          BY <1>1 DEF Base, TypeOK
        <5>2. ~(b.req < c.req) /\ ~(c.req < b.req)
          BY <1>2, <2>2, <4>1, <4>2, <5>1 DEF Covers, Base, PlanOrdered
        <5> QED
          BY <5>1, <5>2
      <4>4. Unsafe
        BY <2>1, <2>2, <3>3 DEF Unsafe
      <4>5. b = c
        BY <4>3, <4>4 DEF Once, OneCopy
      <4> QED
        BY <2>0, <2>2, <4>1, <4>5
    <3> QED
      BY <3>2, <3>3
  <2>10. AtMostOnce'
    BY <2>6, <2>9 DEF Once, AtMostOnce
  <2> QED
    BY <2>4, <2>8, <2>10 DEF Once
<1> QED
  BY <1>8, <1>9, <1>10, <1>11 DEF Server

LEMMA OnceNext ==
  ASSUME StableMethods, Base, Once, [Next]_vars PROVE Once'
<1>1. CASE Caller \/ Planner
  <2>1. pc \in {"open", "planning"} /\ UNCHANGED <<copies, log>>
        /\ pc' \notin {"posting", "waiting"}
    BY <1>1 DEF Caller, Queue, AbandonBlock, LeaveBlock, Raise, Planner, PlanRequest,
                BatchTooLarge, PlanComplete, serverVars
  <2> QED
    BY <2>1, OnceBefore DEF Once, NothingSent
<1>2. CASE Cancel
  <2>1. /\ pc \in {"posting", "waiting"} /\ pc' = "raised"
        /\ UNCHANGED <<calls, plan, next, mutating, guarded, copies, state, log>>
    BY <1>2 DEF Cancel, Raise, serverVars
  <2> QED
    BY <2>1, OnceQuiet
<1>3. CASE RefreshSession \/ UNCHANGED vars
  <2>1. UNCHANGED <<pc, calls, plan, next, mutating, guarded, copies, state, log>>
    BY <1>3 DEF RefreshSession, serverVars, vars
  <2>2. NothingSent' /\ CopiesBehind' /\ FlagsTell' /\ OneCopy'
    BY <2>1, UnsafeSame DEF Once, NothingSent, CopiesBehind, FlagsTell, OneCopy
  <2> QED
    BY <2>1, <2>2, LogFrame DEF Once
<1> QED
  BY <1>1, <1>2, <1>3, OncePoster, OnceServer DEF Next

\* No mutation is applied twice, whatever is lost, delayed, retried or cancelled
\* and however the batch is cut, as long as a refreshed session still resolves
\* the mutating methods a batch was queued with.
THEOREM MutationsApplyOnce ==
  ASSUME StableMethods PROVE Spec => []AtMostOnce
<1>1. Init => Base /\ Once
  BY BaseInit, OnceInit
<1>2. Base /\ Once /\ [Next]_vars => (Base /\ Once)'
  BY StableMethods, BaseNext, OnceNext
<1>3. Base /\ Once => AtMostOnce
  BY DEF Once
<1> QED
  BY <1>1, <1>2, <1>3, PTL DEF Spec

----------------------------------------------------------------------------
\* AnsweredPrefix.  What the poster absorbs is the whole of the next request, and the
\* requests together are the batch.

Progress ==
    /\ pc \in {"open", "abandoned", "planning"} => next = 1
    /\ next <= Len(plan) + 1
    /\ pc \in {"due", "posting", "waiting", "done"} => Planned = Len(calls)
    /\ pc = "done" => next = Len(plan) + 1
    /\ pc \in {"posting", "waiting"} => inFlight = CallsOf(next) /\ sent = created
    /\ \A i \in 1 .. MaxBatch : handle[i] = "pending" <=> i > Absorbed

\* Base, read as numbers.
LEMMA PlanFacts ==
  ASSUME Base
  PROVE  /\ DOMAIN plan = 1 .. Len(plan) /\ Len(plan) \in Nat /\ next \in Nat /\ next >= 1
         /\ DOMAIN calls = 1 .. Len(calls) /\ Len(calls) \in Nat
         /\ MaxBatch \in Nat /\ Len(calls) <= MaxBatch
         /\ \A r \in DOMAIN plan :
              /\ plan[r].first \in Nat /\ plan[r].last \in Nat
              /\ 1 <= plan[r].first /\ plan[r].first <= plan[r].last /\ plan[r].last <= Len(calls)
         /\ \A i \in DOMAIN calls : calls[i] \in CallRecord
<1>1. /\ plan \in Seq([first : Nat, last : Nat]) /\ calls \in Seq(CallKinds)
      /\ next \in Nat \ {0} /\ Len(calls) <= MaxBatch
  BY DEF Base, TypeOK
<1>2. \A r \in DOMAIN plan : plan[r] \in [first : Nat, last : Nat]
  BY <1>1, SeqFacts
<1>3. \A r \in DOMAIN plan :
        1 <= plan[r].first /\ plan[r].first <= plan[r].last /\ plan[r].last <= Len(calls)
  BY DEF Base, PlanOrdered, PlanSound
<1>4. \A i \in DOMAIN calls : calls[i] \in CallRecord
  BY <1>1, SeqFacts, CallKindsAssumption
<1> QED
  BY <1>1, <1>2, <1>3, <1>4, BoundsAssumption

\* The calls before the next request are the ones absorbed.
LEMMA AbsorbedFacts ==
  ASSUME Base, Progress
  PROVE  /\ Absorbed \in Nat
         /\ next \in DOMAIN plan => plan[next].first = Absorbed + 1
<1>1. next # 1 => next - 1 \in DOMAIN plan
  BY PlanFacts DEF Progress
<1> QED
  BY <1>1, PlanFacts DEF Absorbed, Base, PlanSound

LEMMA ProgressInit == Init => Progress
<1> SUFFICES ASSUME Init PROVE Progress
  OBVIOUS
<1>1. Len(plan) = 0 /\ next = 1 /\ pc = "open"
  BY DEF Init
<1>2. \A i \in 1 .. MaxBatch : handle[i] = "pending" <=> i > Absorbed
  BY <1>1, BoundsAssumption DEF Init, Absorbed
<1> QED
  BY <1>1, <1>2 DEF Progress

\* Before the first request, and in every step that answers none.
LEMMA ProgressBefore ==
  ASSUME Base, Progress, next = 1, UNCHANGED <<next, handle>>, Len(plan') \in Nat,
         pc' \notin {"due", "posting", "waiting", "done"}
  PROVE  Progress'
<1>1. Absorbed = 0 /\ Absorbed' = 0
  BY DEF Absorbed
<1> QED
  BY <1>1 DEF Progress

LEMMA ProgressQuiet ==
  ASSUME Base, Progress, UNCHANGED <<calls, plan, next, created, sent, inFlight, handle>>,
         pc \in {"due", "posting", "waiting", "done"},
         pc' \in {"posting", "waiting"} => pc \in {"posting", "waiting"},
         pc' \in {"due", "posting", "waiting", "raised"}
  PROVE  Progress'
<1>1. Absorbed' = Absorbed /\ Planned' = Planned /\ CallsOf(next)' = CallsOf(next)
  BY DEF Absorbed, Planned, CallsOf
<1> QED
  BY <1>1 DEF Progress

LEMMA ProgressNext ==
  ASSUME Base, Progress, [Next]_vars PROVE Progress'
<1>0. \A i : Absorbed \in Nat /\ Planned \in Nat
  BY AbsorbedFacts, LastPlanned DEF Base, TypeOK
<1>1. CASE Caller
  <2>1. /\ pc = "open" /\ UNCHANGED <<plan, next, handle>>
        /\ pc' \in {"open", "abandoned", "planning", "raised"}
    BY <1>1 DEF Caller, Queue, AbandonBlock, LeaveBlock, Raise, serverVars
  <2> QED
    BY <2>1, ProgressBefore, PlanFacts DEF Progress
<1>2. CASE PlanRequest \/ BatchTooLarge
  <2>1. pc = "planning" /\ UNCHANGED <<next, handle>> /\ pc' \in {"planning", "raised"}
    BY <1>2 DEF PlanRequest, BatchTooLarge, Raise, serverVars
  <2>2. Len(plan') \in Nat
    <3>1. Base'
      BY BaseNext
    <3> QED
      BY <3>1, SeqFacts DEF Base, TypeOK
  <2> QED
    BY <2>1, <2>2, ProgressBefore DEF Progress
<1>3. CASE PlanComplete
  <2>1. /\ pc = "planning" /\ pc' = "due" /\ Planned = Len(calls)
        /\ UNCHANGED <<calls, plan, next, handle>>
    BY <1>3 DEF PlanComplete, serverVars
  <2>2. Absorbed' = Absorbed /\ Planned' = Planned
    BY <2>1 DEF Absorbed, Planned
  <2> QED
    BY <2>1, <2>2 DEF Progress
<1>4. CASE NextRequest
  <2>1. /\ pc = "due" /\ pc' = "posting" /\ inFlight' = CallsOf(next) /\ sent' = created
        /\ UNCHANGED <<calls, plan, next, created, handle>>
    BY <1>4 DEF NextRequest, serverVars
  <2>2. Absorbed' = Absorbed /\ Planned' = Planned /\ CallsOf(next)' = CallsOf(next)
    BY <2>1 DEF Absorbed, Planned, CallsOf
  <2> QED
    BY <2>1, <2>2 DEF Progress
<1>5. CASE Finished
  <2>1. /\ pc = "due" /\ pc' = "done" /\ next > Len(plan)
        /\ UNCHANGED <<calls, plan, next, handle>>
    BY <1>5 DEF Finished, serverVars
  <2>2. Absorbed' = Absorbed /\ Planned' = Planned
    BY <2>1 DEF Absorbed, Planned
  <2> QED
    BY <2>1, <2>2, PlanFacts DEF Progress
<1>6. CASE ConnectFails \/ Post \/ Silence \/ Rejected \/ ServerError \/ MalformedResponse \/ Cancel
  <2>1. /\ pc \in {"posting", "waiting"} /\ pc' \in {"posting", "waiting", "raised"}
        /\ UNCHANGED <<calls, plan, next, created, sent, inFlight, handle>>
    BY <1>6, GoRound DEF ConnectFails, Post, Silence, Rejected, ServerError, MalformedResponse,
                         Cancel, OnProblem, Raise, serverVars
  <2> QED
    BY <2>1, ProgressQuiet
<1>7. CASE Absorb
  <2>1. /\ pc = "waiting" /\ pc' = "due" /\ next' = next + 1 /\ UNCHANGED <<calls, plan>>
        /\ inFlight = CallsOf(next) /\ next \in DOMAIN plan
    BY <1>7 DEF Absorb, Progress, Base, Bounded, serverVars
  <2>2. PICK c \in copies, h \in [inFlight -> HandleStates] :
          /\ Awaited(c) /\ Complete(c)
          /\ \A i \in inFlight : h[i] \in Routed(c.answers[i - plan[next].first + 1])
          /\ handle' = [i \in 1 .. MaxBatch |-> IF i \in inFlight THEN h[i] ELSE handle[i]]
    BY <1>7 DEF Absorb
  <2>3. Absorbed' = plan[next].last /\ plan[next].first = Absorbed + 1
    BY <2>1, AbsorbedFacts, PlanFacts DEF Absorbed
  <2>4. \A i \in inFlight : handle'[i] # "pending"
    <3> SUFFICES ASSUME NEW i \in inFlight PROVE h[i] # "pending"
      BY <2>1, <2>2, PlanFacts DEF CallsOf
    <3>1. i - plan[next].first + 1 \in DOMAIN c.answers /\ c.answers \in Seq(Outcomes)
      <4>1. c.answers \in Seq(Outcomes)
        BY DEF Base, TypeOK
      <4>2. Len(c.answers) = plan[next].last - plan[next].first + 1
        BY <2>2 DEF Complete, Awaited
      <4>3. i \in plan[next].first .. plan[next].last
        BY <2>1 DEF CallsOf
      <4>4. DOMAIN c.answers = 1 .. Len(c.answers)
        BY <4>1, SeqFacts
      <4>5. plan[next].first \in Nat /\ plan[next].last \in Nat
        BY <2>1, PlanFacts
      <4> QED
        BY <4>1, <4>2, <4>3, <4>4, <4>5
    <3>2. c.answers[i - plan[next].first + 1] \in Outcomes
      BY <3>1, ElementOfSeq
    <3> QED
      BY <2>2, <3>2 DEF Routed, Outcomes
  <2>5. \A i \in 1 .. MaxBatch : handle'[i] = "pending" <=> i > Absorbed'
    <3> SUFFICES ASSUME NEW i \in 1 .. MaxBatch
                 PROVE  handle'[i] = "pending" <=> i > plan[next].last
      BY <2>3
    <3>1. CASE i \in inFlight
      BY <2>1, <2>4, <3>1, PlanFacts DEF CallsOf
    <3>2. CASE i \notin inFlight
      <4>1. handle'[i] = handle[i] /\ (handle[i] = "pending" <=> i > Absorbed)
        BY <2>2, <3>2 DEF Progress
      <4> QED
        BY <1>0, <2>1, <2>3, <3>2, <4>1, PlanFacts DEF CallsOf
    <3> QED
      BY <3>1, <3>2
  <2>6. Planned' = Planned
    BY <2>1 DEF Planned
  <2> QED
    BY <2>1, <2>5, <2>6, PlanFacts DEF Progress
<1>8. CASE RefreshSession \/ Server \/ UNCHANGED vars
  <2>1. UNCHANGED <<pc, calls, plan, next, created, sent, inFlight, handle>>
    BY <1>8 DEF RefreshSession, Server, serverVars, vars
  <2>2. Absorbed' = Absorbed /\ Planned' = Planned /\ CallsOf(next)' = CallsOf(next)
    BY <2>1 DEF Absorbed, Planned, CallsOf
  <2> QED
    BY <2>1, <2>2 DEF Progress
<1>9. CASE Planner
  BY <1>2, <1>3, <1>9 DEF Planner
<1>10. CASE Poster
  BY <1>4, <1>5, <1>6, <1>7, <1>10 DEF Poster
<1> QED
  BY <1>1, <1>6, <1>8, <1>9, <1>10 DEF Next

\* Every handle of an answered request is resolved and no other is; when execute
\* returns none is left: for every batch, every cut and every way requests end.
THEOREM HandlesAreAnswered == Spec => []AnsweredPrefix
<1>1. Init => Base /\ Progress
  BY BaseInit, ProgressInit
<1>2. Base /\ Progress /\ [Next]_vars => (Base /\ Progress)'
  BY BaseNext, ProgressNext
<1>3. Base /\ Progress => AnsweredPrefix
  <2> SUFFICES ASSUME Base, Progress PROVE AnsweredPrefix
    OBVIOUS
  <2>1. \A i \in DOMAIN calls : i \in 1 .. MaxBatch
    BY PlanFacts
  <2>2. pc = "done" => Absorbed = Len(calls)
    <3> SUFFICES ASSUME pc = "done" PROVE Absorbed = Planned
      BY DEF Progress
    <3>1. next = Len(plan) + 1
      BY DEF Progress
    <3> QED
      BY <3>1, PlanFacts DEF Absorbed, Planned
  <2> QED
    BY <2>1, <2>2 DEF AnsweredPrefix, Progress
<1> QED
  BY <1>1, <1>2, <1>3, PTL DEF Spec

----------------------------------------------------------------------------
\* What the handles and the log say of the copies.

AnswerTo(c, i) == c.answers[i - plan[c.req].first + 1]

Distinct ==
    /\ \A c, d \in copies : c.req = d.req /\ c.attempt = d.attempt => c = d
    /\ pc \in {"posting", "waiting"} => \A c \in copies : c.req = next => c.attempt <= attempt

\* The copy whose answer the handle of call i was given: the last of its request.
Decides(d, i) ==
    /\ d.req < next /\ i \in CallsOf(d.req) /\ Complete(d)
    /\ \A c \in copies : c.req = d.req => c.attempt <= d.attempt
    /\ handle[i] \in Routed(AnswerTo(d, i))

HandlesTell == \A i \in 1 .. Absorbed : \E d \in copies : Decides(d, i)

\* The copy that applied a mutation has it behind it.
Applied(c, entry) ==
    /\ c.req = entry.req /\ c.attempt = entry.attempt
    /\ entry.call \in CallsOf(c.req) /\ entry.call < Turn(c)
    /\ AnswerTo(c, entry.call) \in {"ok", "partial"}

LogIsAnswered == \A n \in DOMAIN log : \E c \in copies : Applied(c, log[n])

\* Superseded, by a copy that will not be turned away any more.
Overtaken(entry) ==
    \E c \in copies : c.req = entry.req /\ c.attempt > entry.attempt /\ Started(c)

LogInOrder ==
    \A m, n \in DOMAIN log :
        m < n => log[m].call < log[n].call \/ Overtaken(log[m]) \/ Overtaken(log[n])

Trail == NothingSent /\ CopiesBehind /\ Distinct /\ HandlesTell /\ LogIsAnswered /\ LogInOrder

\* The requests cut the batch into stretches that follow one another.
LEMMA SegmentFacts ==
  ASSUME Base, NEW r \in DOMAIN plan, NEW s \in DOMAIN plan,
         NEW i \in CallsOf(r), NEW j \in CallsOf(s)
  PROVE  /\ i \in Nat /\ i \in DOMAIN calls
         /\ i < j => r <= s
         /\ r < s => i < j
<1>1. r \in Nat /\ s \in Nat /\ i \in Nat /\ j \in Nat
  BY PlanFacts DEF CallsOf
<1>2. /\ plan[r].first <= i /\ i <= plan[r].last /\ plan[s].first <= j /\ j <= plan[s].last
      /\ 1 <= plan[r].first /\ plan[r].last <= Len(calls)
  BY PlanFacts DEF CallsOf
<1>3. i \in DOMAIN calls
  BY <1>1, <1>2, PlanFacts
<1>4. (r < s => plan[r].last < plan[s].first) /\ (s < r => plan[s].last < plan[r].first)
  BY DEF Base, PlanOrdered
<1> QED
  BY <1>1, <1>2, <1>3, <1>4, PlanFacts

\* A copy, read as numbers.
LEMMA CopyFacts ==
  ASSUME Base, NEW c \in copies
  PROVE  /\ c.req \in DOMAIN plan /\ c.req \in Nat /\ c.attempt \in Nat
         /\ c.answers \in Seq(Outcomes) /\ Len(c.answers) \in Nat
         /\ DOMAIN c.answers = 1 .. Len(c.answers)
         /\ c.sent \subseteq Keys /\ c.known \subseteq Keys
         /\ Turn(c) = plan[c.req].first + Len(c.answers) /\ Turn(c) \in Nat
         /\ Complete(c) => Turn(c) = plan[c.req].last + 1
         /\ Started(c) <=> Turn(c) > plan[c.req].first
         /\ \A i \in CallsOf(c.req) : i < Turn(c) =>
              /\ i - plan[c.req].first + 1 \in DOMAIN c.answers
              /\ AnswerTo(c, i) \in Outcomes
<1>1. /\ c.req \in DOMAIN plan /\ c.req \in Nat /\ c.attempt \in Nat
      /\ c.answers \in Seq(Outcomes) /\ c.sent \subseteq Keys /\ c.known \subseteq Keys
  BY DEF Base, TypeOK, Bounded
<1>2. /\ Len(c.answers) \in Nat /\ DOMAIN c.answers = 1 .. Len(c.answers)
      /\ Len(c.answers) = 0 <=> c.answers = <<>>
  BY <1>1, EmptySeq, LenProperties
<1>3. plan[c.req].first \in Nat /\ plan[c.req].last \in Nat
  BY <1>1, PlanFacts
<1>4. Turn(c) = plan[c.req].first + Len(c.answers) /\ Turn(c) \in Nat
  BY <1>2, <1>3 DEF Turn
<1>5. Complete(c) => Turn(c) = plan[c.req].last + 1
  BY <1>3, <1>4 DEF Complete
<1>6. Started(c) <=> Turn(c) > plan[c.req].first
  BY <1>2, <1>3, <1>4 DEF Started
<1>7. ASSUME NEW i \in CallsOf(c.req), i < Turn(c)
      PROVE  i - plan[c.req].first + 1 \in DOMAIN c.answers /\ AnswerTo(c, i) \in Outcomes
  <2>1. i \in plan[c.req].first .. plan[c.req].last
    BY DEF CallsOf
  <2>2. i - plan[c.req].first + 1 \in DOMAIN c.answers
    BY <1>2, <1>3, <1>4, <1>7, <2>1
  <2> QED
    BY <1>1, <2>2, ElementOfSeq DEF AnswerTo
<1> QED
  BY <1>1, <1>2, <1>4, <1>5, <1>6, <1>7

\* An answer moves one copy on by one call, and changes no earlier answer.
LEMMA AnswerMoves ==
  ASSUME Base, NEW c \in copies, ~Complete(c), NEW outcome \in Outcomes, NEW keys \in SUBSET Keys,
         Answer(c, outcome, keys), UNCHANGED plan
  PROVE  \E d \in CopyType :
            /\ copies' = (copies \ {c}) \union {d}
            /\ d.req = c.req /\ d.attempt = c.attempt
            /\ d.sent = c.sent /\ d.known = c.known \union keys
            /\ Turn(d)' = Turn(c) + 1 /\ Started(d)
            /\ Turn(c) \in CallsOf(c.req) /\ AnswerTo(d, Turn(c))' = outcome
            /\ \A i \in CallsOf(c.req) : i < Turn(c) => AnswerTo(d, i)' = AnswerTo(c, i)
<1>1. PICK d \in CopyType :
          /\ copies' = (copies \ {c}) \union {d}
          /\ d.req = c.req /\ d.attempt = c.attempt
          /\ d.sent = c.sent /\ d.known = c.known \union keys
          /\ d.answers = Append(c.answers, outcome)
          /\ Len(d.answers) = Len(c.answers) + 1
  BY AnswerFacts
<1>2. /\ c.answers \in Seq(Outcomes) /\ Len(c.answers) \in Nat
      /\ Turn(c) = plan[c.req].first + Len(c.answers) /\ Turn(c) \in Nat
      /\ plan[c.req].first \in Nat
      /\ \A i \in CallsOf(c.req) : i < Turn(c) => i - plan[c.req].first + 1 \in DOMAIN c.answers
  BY CopyFacts, PlanFacts
<1>3. Turn(d)' = Turn(c) + 1
  <2>1. d.req = c.req /\ Len(d.answers) = Len(c.answers) + 1 /\ plan' = plan
    BY <1>1
  <2>2. Turn(d)' = plan[c.req].first + Len(d.answers)
    BY <2>1 DEF Turn
  <2> QED
    BY <1>2, <2>1, <2>2
<1>4. Started(d)
  BY <1>1, <1>2 DEF Started
<1>5. AnswerTo(d, Turn(c))' = outcome
  <2>1. Turn(c) - plan[c.req].first + 1 = Len(c.answers) + 1
    BY <1>2
  <2>2. Append(c.answers, outcome)[Len(c.answers) + 1] = outcome
    BY <1>2
  <2>3. AnswerTo(d, Turn(c))' = d.answers[Turn(c)' - plan[c.req].first + 1]
    BY <1>1 DEF AnswerTo
  <2>4. Turn(c)' = Turn(c)
    BY DEF Turn
  <2> QED
    BY <1>1, <2>1, <2>2, <2>3, <2>4
<1>6. ASSUME NEW i \in CallsOf(c.req), i < Turn(c)
      PROVE  AnswerTo(d, i)' = AnswerTo(c, i)
  <2>1. i - plan[c.req].first + 1 \in DOMAIN c.answers
    BY <1>2, <1>6
  <2>2. Append(c.answers, outcome)[i - plan[c.req].first + 1]
          = c.answers[i - plan[c.req].first + 1]
    BY <1>2, <2>1
  <2> QED
    BY <1>1, <2>2 DEF AnswerTo
<1>7. Turn(c) \in CallsOf(c.req)
  BY TurnInRequest
<1> QED
  BY <1>1, <1>3, <1>4, <1>5, <1>6, <1>7

LEMMA TrailInit == Init => Trail
<1> SUFFICES ASSUME Init PROVE Trail
  OBVIOUS
<1>1. copies = {} /\ log = <<>> /\ DOMAIN log = {} /\ pc = "open" /\ Absorbed = 0
  BY DEF Init, Absorbed
<1> QED
  BY <1>1 DEF Trail, NothingSent, CopiesBehind, Distinct, HandlesTell, LogIsAnswered, LogInOrder

LEMMA TrailBefore ==
  ASSUME copies' = {}, log' = <<>>, next' = 1, pc' \notin {"posting", "waiting"}
  PROVE  Trail'
<1>1. DOMAIN log' = {} /\ Absorbed' = 0
  BY DEF Absorbed
<1> QED
  BY <1>1 DEF Trail, NothingSent, CopiesBehind, Distinct, HandlesTell, LogIsAnswered, LogInOrder

\* What handles and log tell survives a step that takes away no copy that has run.
LEMMA TrailFrame ==
  ASSUME Base, Trail, UNCHANGED <<calls, plan, next, handle, log>>,
         \A c \in copies' : c \in copies \/ c.req >= next,
         \A c \in copies : Started(c) => c \in copies'
  PROVE  HandlesTell' /\ LogIsAnswered' /\ LogInOrder'
<1>1. \A c : Complete(c)' = Complete(c) /\ Turn(c)' = Turn(c)
  BY DEF Complete, Turn
<1>2. \A c, i : AnswerTo(c, i)' = AnswerTo(c, i)
  BY DEF AnswerTo
<1>3. HandlesTell'
  <2>1. Absorbed' = Absorbed
    BY DEF Absorbed
  <2> SUFFICES ASSUME NEW i \in 1 .. Absorbed PROVE \E d \in copies' : Decides(d, i)'
    BY <2>1 DEF HandlesTell
  <2>2. PICK d \in copies : Decides(d, i)
    BY DEF Trail, HandlesTell
  <2>3. d \in copies'
    <3>1. Turn(d) = plan[d.req].last + 1 /\ d.req \in DOMAIN plan
      BY <2>2, CopyFacts DEF Decides
    <3>2. Started(d)
      BY <3>1, CopyFacts, PlanFacts
    <3> QED
      BY <3>2
  <2>4. \A c \in copies' : c.req = d.req => c.attempt <= d.attempt
    <3> SUFFICES ASSUME NEW c \in copies', c.req = d.req PROVE c.attempt <= d.attempt
      OBVIOUS
    <3>1. c.req < next /\ next \in Nat /\ c.req \in Nat
      BY <2>2, CopyFacts, PlanFacts DEF Decides
    <3>2. c \in copies
      BY <3>1
    <3> QED
      BY <2>2, <3>2 DEF Decides
  <2>5. d.req < next /\ i \in CallsOf(d.req) /\ Complete(d)
        /\ handle[i] \in Routed(AnswerTo(d, i))
    BY <2>2 DEF Decides
  <2>6. Decides(d, i)'
    <3>1. handle'[i] \in Routed(AnswerTo(d, i)')
      BY <1>2, <2>5
    <3>2. i \in CallsOf(d.req)'
      BY <2>5 DEF CallsOf
    <3> QED
      BY <1>1, <2>4, <2>5, <3>1, <3>2 DEF Decides, Routed
  <2> QED
    BY <2>3, <2>6
<1>4. LogIsAnswered'
  <2> SUFFICES ASSUME NEW n \in DOMAIN log PROVE \E c \in copies' : Applied(c, log[n])'
    BY DEF LogIsAnswered, Applied, AnswerTo, CallsOf, Turn
  <2>1. PICK c \in copies : Applied(c, log[n])
    BY DEF Trail, LogIsAnswered
  <2>2. log[n].call \in CallsOf(c.req) /\ log[n].call < Turn(c)
    BY <2>1 DEF Applied
  <2>3. c \in copies'
    <3>1. Turn(c) > plan[c.req].first
      BY <2>2, CopyFacts, PlanFacts DEF CallsOf
    <3> QED
      BY <3>1, CopyFacts
  <2>4. Applied(c, log[n])'
    BY <1>1, <1>2, <2>1 DEF Applied, CallsOf
  <2> QED
    BY <2>3, <2>4
<1>5. LogInOrder'
  <2>1. \A entry : Overtaken(entry) => Overtaken(entry)'
    BY DEF Overtaken, Started
  <2> QED
    BY <2>1 DEF Trail, LogInOrder
<1> QED
  BY <1>3, <1>4, <1>5

\* Every step but those of the server, Post and Absorb.
LEMMA TrailQuiet ==
  ASSUME Base, Trail, UNCHANGED <<calls, plan, next, handle, log>>,
         copies' \subseteq copies,
         \A c \in copies : Started(c) => c \in copies',
         pc' \in {"open", "abandoned", "planning", "due"} => pc' = pc,
         pc' \in {"posting", "waiting"} =>
            \/ pc = "due"
            \/ pc \in {"posting", "waiting"} /\ attempt' \in Nat /\ attempt' >= attempt
  PROVE  Trail'
<1>1. HandlesTell' /\ LogIsAnswered' /\ LogInOrder'
  BY TrailFrame
<1>2. NothingSent' /\ CopiesBehind'
  BY DEF Trail, NothingSent, CopiesBehind
<1>3. Distinct'
  <2>1. ASSUME pc' \in {"posting", "waiting"}, NEW c \in copies', c.req = next'
        PROVE  c.attempt <= attempt'
    <3>1. c \in copies /\ c.req = next /\ next \in Nat
      BY <2>1, PlanFacts
    <3>2. pc # "due"
      BY <3>1 DEF Trail, CopiesBehind
    <3>3. c.attempt <= attempt /\ attempt' >= attempt /\ attempt' \in Nat
      BY <2>1, <3>1, <3>2 DEF Trail, Distinct
    <3>4. c.attempt \in Nat /\ attempt \in Nat
      BY <3>1, MaxAttemptsAssumption DEF Base, TypeOK
    <3> QED
      BY <3>3, <3>4
  <2> QED
    BY <2>1 DEF Trail, Distinct
<1> QED
  BY <1>1, <1>2, <1>3 DEF Trail

LEMMA TrailPost ==
  ASSUME Base, Trail, Post PROVE Trail'
<1> DEFINE new == Copy(next, attempt + 1)
<1>1. /\ pc = "posting" /\ pc' = "waiting" /\ copies' = copies \union {new}
      /\ UNCHANGED <<calls, plan, next, handle, log>> /\ attempt' = attempt + 1
      /\ new.req = next /\ new.attempt = attempt + 1
  BY DEF Post, Copy
<1>2. next \in Nat /\ attempt \in Nat /\ \A c \in copies : c.attempt \in Nat
  BY PlanFacts, MaxAttemptsAssumption DEF Base, TypeOK
<1> HIDE DEF new
<1>3. HandlesTell' /\ LogIsAnswered' /\ LogInOrder'
  BY <1>1, <1>2, TrailFrame
<1>4. NothingSent' /\ CopiesBehind'
  BY <1>1, <1>2 DEF Trail, NothingSent, CopiesBehind
<1>5. Distinct'
  BY <1>1, <1>2 DEF Trail, Distinct
<1> QED
  BY <1>3, <1>4, <1>5 DEF Trail

LEMMA TrailAbsorb ==
  ASSUME Base, Progress, Trail, Absorb PROVE Trail'
<1>1. /\ pc = "waiting" /\ pc' = "due" /\ next' = next + 1
      /\ UNCHANGED <<calls, plan, attempt, copies, log>>
      /\ inFlight = CallsOf(next) /\ next \in DOMAIN plan /\ next \in Nat
  BY PlanFacts DEF Absorb, Progress, Base, Bounded, serverVars
<1>2. PICK c \in copies, h \in [inFlight -> HandleStates] :
        /\ c.req = next /\ c.attempt = attempt /\ Complete(c)
        /\ \A i \in inFlight : h[i] \in Routed(c.answers[i - plan[next].first + 1])
        /\ handle' = [i \in 1 .. MaxBatch |-> IF i \in inFlight THEN h[i] ELSE handle[i]]
  BY DEF Absorb, Awaited
<1>3. NothingSent' /\ CopiesBehind' /\ Distinct'
  <2>1. \A d \in copies : d.req \in Nat
    BY CopyFacts
  <2> QED
    BY <1>1, <2>1 DEF Trail, NothingSent, CopiesBehind, Distinct
<1>4. LogIsAnswered' /\ LogInOrder'
  BY <1>1 DEF Trail, LogIsAnswered, LogInOrder, Applied, Overtaken, AnswerTo, Turn, Started, CallsOf
<1>5. HandlesTell'
  <2>1. Absorbed' = plan[next].last /\ plan[next].first = Absorbed + 1 /\ Absorbed \in Nat
    BY <1>1, AbsorbedFacts, PlanFacts DEF Absorbed
  <2> SUFFICES ASSUME NEW i \in 1 .. plan[next].last
               PROVE  \E d \in copies : Decides(d, i)'
    BY <1>1, <2>1 DEF HandlesTell
  <2>2. i \in 1 .. MaxBatch
    BY <1>1, PlanFacts
  <2>3. CASE i \in CallsOf(next)
    <3>1. handle'[i] \in Routed(AnswerTo(c, i)')
      BY <1>1, <1>2, <2>2, <2>3 DEF AnswerTo
    <3>2. \A d \in copies : d.req = next => d.attempt <= attempt
      BY <1>1 DEF Trail, Distinct
    <3>3. Decides(c, i)'
      BY <1>1, <1>2, <2>3, <3>1, <3>2 DEF Decides, CallsOf, Complete, Routed
    <3> QED
      BY <3>3
  <2>4. CASE i \notin CallsOf(next)
    <3>1. i \in 1 .. Absorbed
      BY <1>1, <2>1, <2>4, PlanFacts DEF CallsOf
    <3>2. PICK d \in copies : Decides(d, i)
      BY <3>1 DEF Trail, HandlesTell
    <3>3. handle'[i] = handle[i] /\ d.req \in Nat
      BY <1>1, <1>2, <2>2, <2>4, CopyFacts
    <3>4. handle'[i] \in Routed(AnswerTo(d, i)')
      BY <1>1, <3>2, <3>3 DEF Decides, AnswerTo
    <3>5. Decides(d, i)'
      BY <1>1, <3>2, <3>3, <3>4 DEF Decides, CallsOf, Complete, Routed
    <3> QED
      BY <3>5
  <2> QED
    BY <2>3, <2>4
<1> QED
  BY <1>3, <1>4, <1>5 DEF Trail

\* The server runs one call of one copy.
LEMMA TrailAnswer ==
  ASSUME Base, Progress, Trail,
         NEW c \in copies, ~Complete(c), NEW outcome \in Outcomes, NEW keys \in SUBSET Keys,
         Answer(c, outcome, keys), UNCHANGED <<pc, calls, plan, next, attempt, handle>>,
         \/ log' = log
         \/ /\ outcome \in {"ok", "partial"}
            /\ log' = Append(log, [call |-> Turn(c), req |-> c.req, attempt |-> c.attempt])
  PROVE  Trail'
<1>1. PICK d \in CopyType :
          /\ copies' = (copies \ {c}) \union {d}
          /\ d.req = c.req /\ d.attempt = c.attempt
          /\ Turn(d)' = Turn(c) + 1 /\ Started(d)
          /\ Turn(c) \in CallsOf(c.req) /\ AnswerTo(d, Turn(c))' = outcome
          /\ \A i \in CallsOf(c.req) : i < Turn(c) => AnswerTo(d, i)' = AnswerTo(c, i)
  BY AnswerMoves
<1>2. \A b : Complete(b)' = Complete(b) /\ Turn(b)' = Turn(b)
  BY DEF Complete, Turn
<1>3. \A b, i : AnswerTo(b, i)' = AnswerTo(b, i)
  BY DEF AnswerTo
<1>4. /\ c.req \in DOMAIN plan /\ c.req \in Nat /\ c.attempt \in Nat /\ Turn(c) \in Nat
      /\ \A b \in copies : b.req \in Nat /\ b.attempt \in Nat
  BY CopyFacts
<1>5. NothingSent' /\ CopiesBehind' /\ Distinct'
  BY <1>1 DEF Trail, NothingSent, CopiesBehind, Distinct
<1>6. HandlesTell'
  <2>1. Absorbed' = Absorbed
    BY DEF Absorbed
  <2> SUFFICES ASSUME NEW i \in 1 .. Absorbed PROVE \E e \in copies' : Decides(e, i)'
    BY <2>1 DEF HandlesTell
  <2>2. PICK e \in copies : Decides(e, i)
    BY DEF Trail, HandlesTell
  <2>3. e \in copies'
    BY <1>1, <2>2 DEF Decides
  <2>4. \A b \in copies' : b.req = e.req => b.attempt <= e.attempt
    BY <1>1, <2>2 DEF Decides
  <2>5. handle'[i] \in Routed(AnswerTo(e, i)') /\ i \in CallsOf(e.req)'
    BY <1>3, <2>2 DEF Decides, CallsOf
  <2>6. Decides(e, i)'
    BY <1>2, <2>2, <2>4, <2>5 DEF Decides, Routed
  <2> QED
    BY <2>3, <2>6
\* What a copy applied, its successor has applied.
<1>7. ASSUME NEW b \in copies, NEW entry, Applied(b, entry)
      PROVE  \E e \in copies' : Applied(e, entry)'
  <2>1. /\ b.req = entry.req /\ b.attempt = entry.attempt
        /\ entry.call \in CallsOf(b.req) /\ entry.call < Turn(b)
        /\ AnswerTo(b, entry.call) \in {"ok", "partial"}
    BY <1>7 DEF Applied
  <2>2. entry.call \in CallsOf(b.req)' /\ entry.call \in Nat
    BY <2>1, CopyFacts, PlanFacts DEF CallsOf
  <2>3. CASE b # c
    BY <1>1, <1>2, <1>3, <2>1, <2>2, <2>3 DEF Applied
  <2>4. CASE b = c
    <3>1. AnswerTo(d, entry.call)' \in {"ok", "partial"}
      BY <1>1, <2>1, <2>4
    <3>2. entry.call < Turn(d)'
      BY <1>1, <1>4, <2>1, <2>2, <2>4
    <3>3. Applied(d, entry)'
      BY <1>1, <2>1, <2>2, <2>4, <3>1, <3>2 DEF Applied
    <3> QED
      BY <1>1, <3>3
  <2> QED
    BY <2>3, <2>4
<1>8. ASSUME NEW entry, Overtaken(entry) PROVE Overtaken(entry)'
  BY <1>1, <1>8 DEF Overtaken, Started
<1>9. CASE log' = log
  <2>1. LogIsAnswered'
    BY <1>7, <1>9 DEF Trail, LogIsAnswered
  <2>2. LogInOrder'
    BY <1>8, <1>9 DEF Trail, LogInOrder
  <2> QED
    BY <1>5, <1>6, <2>1, <2>2 DEF Trail
<1>10. CASE log' # log
  <2>0. PICK i, entry : i = Turn(c) /\ entry = [call |-> i, req |-> c.req, attempt |-> c.attempt]
    OBVIOUS
  <2>1. outcome \in {"ok", "partial"} /\ log' = Append(log, entry)
    BY <1>10, <2>0
  <2>2. /\ DOMAIN log' = DOMAIN log \union {Len(log) + 1} /\ Len(log) + 1 \notin DOMAIN log
        /\ \A n \in DOMAIN log : log'[n] = log[n] /\ n \in Nat /\ n < Len(log) + 1
        /\ log'[Len(log) + 1] = entry
    <3>1. log \in Seq([call : Nat, req : Nat, attempt : Nat])
      BY DEF Base, TypeOK
    <3>2. entry \in [call : Nat, req : Nat, attempt : Nat]
      BY <1>4, <2>0
    <3> QED
      BY <2>1, <3>1, <3>2, AppendFacts
  <2>3. entry.call = i /\ entry.req = c.req /\ entry.attempt = c.attempt
    BY <2>0
  <2>4. LogIsAnswered'
    <3>1. Applied(d, entry)'
      <4>1. i \in CallsOf(d.req)' /\ i < Turn(d)'
        BY <1>1, <1>4, <2>0 DEF CallsOf
      <4>2. AnswerTo(d, i)' = outcome
        BY <1>1, <1>2, <2>0 DEF AnswerTo
      <4> QED
        BY <1>1, <2>1, <2>3, <4>1, <4>2 DEF Applied
    <3>2. d \in copies'
      BY <1>1
    <3>3. ASSUME NEW n \in DOMAIN log', NEW old, old = log'[n]
          PROVE  \E e \in copies' : Applied(e, old)'
      <4>1. CASE n \in DOMAIN log
        <5>1. old = log[n]
          BY <2>2, <3>3, <4>1
        <5>2. \E b \in copies : Applied(b, old)
          BY <4>1, <5>1 DEF Trail, LogIsAnswered
        <5> QED
          BY <1>7, <5>2
      <4>2. CASE n = Len(log) + 1
        <5>1. old = entry
          BY <2>2, <3>3, <4>2
        <5> QED
          BY <3>1, <3>2, <5>1
      <4> QED
        BY <2>2, <3>3, <4>1, <4>2
    <3> QED
      BY <3>3 DEF LogIsAnswered
\* Where the new entry lands among the older ones.
  <2>5. ASSUME NEW m \in DOMAIN log
        PROVE  log[m].call < i \/ Overtaken(log[m])' \/ Overtaken(entry)'
    <3>1. PICK b \in copies : Applied(b, log[m])
      BY DEF Trail, LogIsAnswered
    <3>2. /\ b.req = log[m].req /\ b.attempt = log[m].attempt
          /\ log[m].call \in CallsOf(b.req) /\ log[m].call < Turn(b)
      BY <3>1 DEF Applied
    <3>3. b.req \in DOMAIN plan /\ b.req \in Nat /\ b.attempt \in Nat /\ Started(b)
      <4>1. Turn(b) > plan[b.req].first
        BY <3>2, CopyFacts, PlanFacts DEF CallsOf
      <4> QED
        BY <4>1, CopyFacts
    <3>4. CASE b.req < c.req
      BY <1>1, <1>4, <2>0, <3>2, <3>3, <3>4, SegmentFacts
    <3>5. CASE c.req < b.req
      <4>1. c.req < next /\ next \in Nat
        BY <1>4, <3>3, <3>5, PlanFacts DEF Trail, CopiesBehind
      <4>2. i \in 1 .. Absorbed
        <5>1. i <= plan[c.req].last /\ 1 <= i
          BY <1>1, <1>4, <2>0, PlanFacts DEF CallsOf
        <5>2. next - 1 \in DOMAIN plan /\ Absorbed = plan[next - 1].last
          BY <1>4, <4>1, PlanFacts DEF Absorbed, Progress
        <5>3. plan[c.req].last <= plan[next - 1].last
          <6>1. CASE c.req = next - 1
            BY <6>1, <5>2, PlanFacts
          <6>2. CASE c.req < next - 1
            <7>1. plan[c.req].last < plan[next - 1].first
              BY <1>4, <5>2, <6>2 DEF Base, PlanOrdered
            <7> QED
              BY <1>4, <5>2, <7>1, PlanFacts
          <6> QED
            BY <1>4, <4>1, <6>1, <6>2
        <5>4. /\ plan[c.req].last \in Nat /\ plan[next - 1].last \in Nat /\ i \in Nat
              /\ plan[next - 1].last = Absorbed
          BY <1>4, <2>0, <5>2, PlanFacts
        <5> QED
          BY <5>1, <5>3, <5>4
      <4>3. PICK e \in copies : Decides(e, i)
        BY <4>2 DEF Trail, HandlesTell
      <4>4. e.req = c.req
        <5>1. i \in CallsOf(e.req) /\ e.req \in DOMAIN plan /\ e.req \in Nat
          BY <4>3, CopyFacts DEF Decides
        <5> QED
          BY <1>1, <1>4, <2>0, <5>1, SegmentFacts
      <4>5. e # c /\ c.attempt <= e.attempt /\ Complete(e)
        BY <4>3, <4>4 DEF Decides
      <4>6. c.attempt < e.attempt
        BY <1>4, <4>4, <4>5 DEF Trail, Distinct
      <4>7. Started(e)
        <5>1. Turn(e) = plan[e.req].last + 1 /\ e.req \in DOMAIN plan
          BY <4>5, CopyFacts
        <5> QED
          BY <5>1, CopyFacts, PlanFacts
      <4>8. e \in copies'
        BY <1>1, <4>5
      <4> QED
        BY <2>3, <4>4, <4>6, <4>7, <4>8 DEF Overtaken, Started
    <3>6. CASE b.req = c.req
      <4>1. CASE b.attempt = c.attempt
        <5>1. b = c
          BY <3>6, <4>1 DEF Trail, Distinct
        <5> QED
          BY <2>0, <3>2, <5>1
      <4>2. CASE c.attempt < b.attempt
        <5>1. b \in copies'
          BY <1>1, <1>4, <4>2
        <5> QED
          BY <2>3, <3>3, <3>6, <4>2, <5>1 DEF Overtaken, Started
      <4>3. CASE b.attempt < c.attempt
        <5>1. d \in copies' /\ d.req = log[m].req /\ log[m].attempt < d.attempt /\ Started(d)
          BY <1>1, <3>2, <3>6, <4>3
        <5>2. log'[m] = log[m]
          BY <2>2
        <5> QED
          BY <5>1, <5>2 DEF Overtaken, Started
      <4> QED
        BY <1>4, <3>3, <4>1, <4>2, <4>3
    <3> QED
      BY <1>4, <3>3, <3>4, <3>5, <3>6
  <2>6. LogInOrder'
    <3> SUFFICES ASSUME NEW m \in DOMAIN log', NEW n \in DOMAIN log', m < n
                 PROVE  log'[m].call < log'[n].call \/ Overtaken(log[m])' \/ Overtaken(log[n])'
      BY DEF LogInOrder
    <3>1. m \in DOMAIN log
      BY <2>2
    <3>2. CASE n \in DOMAIN log
      <4>1. log[m].call < log[n].call \/ Overtaken(log[m]) \/ Overtaken(log[n])
        BY <3>1, <3>2 DEF Trail, LogInOrder
      <4>2. log'[m] = log[m] /\ log'[n] = log[n]
        BY <2>2, <3>1, <3>2
      <4> QED
        BY <1>8, <4>1, <4>2
    <3>3. CASE n = Len(log) + 1
      <4>1. log'[m] = log[m] /\ log'[n] = entry
        BY <2>2, <3>1, <3>3
      <4> QED
        BY <2>3, <2>5, <3>1, <4>1
    <3> QED
      BY <2>2, <3>2, <3>3
  <2> QED
    BY <1>5, <1>6, <2>4, <2>6 DEF Trail
<1> QED
  BY <1>9, <1>10

LEMMA TrailServer ==
  ASSUME Base, Progress, Trail, Server PROVE Trail'
<1>0. UNCHANGED <<pc, calls, plan, next, attempt, handle>>
  BY DEF Server
<1>1. {} \in SUBSET Keys
  OBVIOUS
<1>2. ASSUME NEW c \in copies, RefuseCall(c) PROVE Trail'
  <2>1. Refusal(c, Turn(c)) \in Outcomes
    BY <1>2 DEF RefuseCall, Refusal, Outcomes
  <2>2. ~Complete(c) /\ Answer(c, Refusal(c, Turn(c)), {}) /\ log' = log
    BY <1>2 DEF RefuseCall
  <2> QED
    BY <1>0, <1>1, <2>1, <2>2, TrailAnswer
<1>3. ASSUME NEW c \in copies, FailCall(c) \/ ReadCall(c) PROVE Trail'
  <2>1. PICK outcome \in Outcomes : Answer(c, outcome, {})
    BY <1>3 DEF FailCall, ReadCall, Outcomes
  <2>2. ~Complete(c) /\ log' = log
    BY <1>3 DEF FailCall, ReadCall
  <2> QED
    BY <1>0, <1>1, <2>1, <2>2, TrailAnswer
<1>4. ASSUME NEW c \in copies, ApplyCall(c) PROVE Trail'
  <2>1. /\ ~Complete(c)
        /\ log' = Append(log, [call |-> Turn(c), req |-> c.req, attempt |-> c.attempt])
    BY <1>4 DEF ApplyCall
  <2>2. {calls[Turn(c)].creates} \ {NoKey} \in SUBSET Keys
    BY <2>1, TurnInRequest DEF CallRecord
  <2>3. PICK outcome \in {"ok", "partial"}, keys \in SUBSET Keys : Answer(c, outcome, keys)
    BY <1>1, <1>4, <2>2 DEF ApplyCall
  <2>4. outcome \in Outcomes
    BY DEF Outcomes
  <2> QED
    BY <1>0, <2>1, <2>3, <2>4, TrailAnswer
<1>5. ASSUME NEW t \in Types, OtherClientWrites(t) PROVE Trail'
  <2>1. copies' = copies /\ log' = log
    BY <1>5 DEF OtherClientWrites
  <2>2. attempt \in Nat
    BY MaxAttemptsAssumption DEF Base, TypeOK
  <2> QED
    BY <1>0, <2>1, <2>2, TrailQuiet
<1> QED
  BY <1>2, <1>3, <1>4, <1>5 DEF Server

LEMMA TrailNext ==
  ASSUME Base, Progress, Trail, [Next]_vars PROVE Trail'
<1>0. attempt \in Nat
  BY MaxAttemptsAssumption DEF Base, TypeOK
<1>1. CASE Caller \/ Planner
  <2>1. pc \in {"open", "planning"} /\ UNCHANGED <<copies, log, next>>
        /\ pc' \notin {"posting", "waiting"}
    BY <1>1 DEF Caller, Queue, AbandonBlock, LeaveBlock, Raise, Planner, PlanRequest,
                BatchTooLarge, PlanComplete, serverVars
  <2> QED
    BY <2>1, TrailBefore DEF Trail, NothingSent, Progress
<1>2. CASE NextRequest \/ Finished
  <2>1. /\ pc = "due" /\ pc' \in {"posting", "done"}
        /\ UNCHANGED <<calls, plan, next, handle, copies, log>>
    BY <1>2 DEF NextRequest, Finished, serverVars
  <2> QED
    BY <2>1, TrailQuiet
<1>3. CASE ConnectFails \/ Silence \/ ServerError \/ MalformedResponse \/ Cancel
  <2>1. /\ pc \in {"posting", "waiting"} /\ pc' \in {"posting", "waiting", "raised"}
        /\ UNCHANGED <<calls, plan, next, handle, copies, log>>
    BY <1>3, GoRound DEF ConnectFails, Silence, ServerError, MalformedResponse, Cancel,
                         OnProblem, Raise, serverVars
  <2>2. attempt' \in Nat /\ attempt' >= attempt
    BY <1>0, <1>3 DEF ConnectFails, Silence, ServerError, MalformedResponse, Cancel
  <2> QED
    BY <2>1, <2>2, TrailQuiet
<1>4. CASE Rejected
  <2>1. PICK c \in copies : ~Started(c) /\ copies' = copies \ {c}
    BY <1>4 DEF Rejected
  <2>2. /\ pc = "waiting" /\ pc' \in {"posting", "raised"}
        /\ UNCHANGED <<calls, plan, next, handle, attempt, log>>
    BY <1>4, GoRound DEF Rejected, OnProblem, Raise
  <2> QED
    BY <1>0, <2>1, <2>2, TrailQuiet
<1>5. CASE RefreshSession \/ UNCHANGED vars
  <2>1. UNCHANGED <<pc, calls, plan, next, attempt, handle, copies, log>>
    BY <1>5 DEF RefreshSession, serverVars, vars
  <2> QED
    BY <1>0, <2>1, TrailQuiet
<1>6. CASE Poster
  BY <1>2, <1>3, <1>4, <1>6, TrailPost, TrailAbsorb DEF Poster
<1>7. CASE Cancel
  BY <1>3, <1>7
<1> QED
  BY <1>1, <1>5, <1>6, <1>7, TrailServer DEF Next

\* Mutations land in the order they were queued, however the batch was cut and
\* whatever was lost, delayed or cancelled, except where a retry superseded the
\* copy that one of the two came with.
THEOREM MutationsKeepOrder == Spec => []AppliedInQueueOrder
<1>1. Init => Base /\ Progress /\ Trail
  BY BaseInit, ProgressInit, TrailInit
<1>2. Base /\ Progress /\ Trail /\ [Next]_vars => (Base /\ Progress /\ Trail)'
  BY BaseNext, ProgressNext, TrailNext
<1>3. Trail => AppliedInQueueOrder
  <2>1. \A entry : Overtaken(entry) => Superseded(entry.req, entry.attempt)
    BY DEF Overtaken, Superseded
  <2> QED
    BY <2>1 DEF Trail, LogInOrder, AppliedInQueueOrder
<1> QED
  BY <1>1, <1>2, <1>3, PTL DEF Spec

\* A handle that holds a method error tells the truth, "this call changed nothing":
\* whatever was lost, delayed or retried, except for a guarded mutation of which
\* another copy may have landed.  A refreshed session that lost a mutating method
\* could make the retry loop send an unguarded one again.
THEOREM ErrorsAreTrue ==
  ASSUME StableMethods PROVE Spec => []ErrorMeansUnapplied
<1>1. Init => Base /\ Progress /\ Trail /\ Once
  BY BaseInit, ProgressInit, TrailInit, OnceInit
<1>2. Base /\ Progress /\ Trail /\ Once /\ [Next]_vars => (Base /\ Progress /\ Trail /\ Once)'
  BY StableMethods, BaseNext, ProgressNext, TrailNext, OnceNext
<1>3. Base /\ Progress /\ Trail /\ Once => ErrorMeansUnapplied
  <2> SUFFICES ASSUME Base, Progress, Trail, Once, NEW n \in DOMAIN log, NEW i, i = log[n].call,
                      handle[i] \in {"error", "stateMismatch", "invalidResultReference",
                                     "unresolvedKey"}
               PROVE  /\ IsGuarded(calls[i])
                      /\ \E c \in copies : Covers(c.req, i) /\ c.attempt # log[n].attempt
    BY DEF ErrorMeansUnapplied
  <2>1. PICK b \in copies : Applied(b, log[n])
    BY DEF Trail, LogIsAnswered
  <2>2. /\ b.attempt = log[n].attempt /\ i \in CallsOf(b.req)
        /\ AnswerTo(b, i) \in {"ok", "partial"}
    BY <2>1 DEF Applied
  <2>3. b.req \in DOMAIN plan /\ i \in DOMAIN calls /\ i \in Nat
    BY <2>2, CopyFacts, SegmentFacts
  <2>4. i \in 1 .. Absorbed
    <3>1. i \in 1 .. MaxBatch
      BY <2>3, PlanFacts
    <3>2. ~(i > Absorbed)
      BY <3>1 DEF Progress
    <3> QED
      BY <3>1, <3>2, AbsorbedFacts
  <2>5. PICK d \in copies : Decides(d, i)
    BY <2>4 DEF Trail, HandlesTell
  <2>6. d.req = b.req
    <3>1. i \in CallsOf(d.req) /\ d.req \in DOMAIN plan /\ d.req \in Nat /\ b.req \in Nat
      BY <2>5, CopyFacts DEF Decides
    <3>2. ~(d.req < b.req) /\ ~(b.req < d.req)
      BY <2>2, <2>3, <3>1, SegmentFacts
    <3> QED
      BY <3>1, <3>2
  <2>7. d # b
    <3>1. AnswerTo(d, i) = handle[i]
      BY <2>5 DEF Decides, Routed
    <3> QED
      BY <2>2, <3>1
  <2>8. Covers(d.req, i) /\ d.attempt # log[n].attempt
    <3>1. d.attempt # b.attempt
      BY <2>6, <2>7 DEF Trail, Distinct
    <3>2. i \in CallsOf(d.req)
      BY <2>5 DEF Decides
    <3> QED
      BY <2>2, <2>3, <2>6, <3>1, <3>2, PlanFacts DEF CallsOf, Covers
  <2>9. IsGuarded(calls[i])
    <3> SUFFICES ASSUME ~IsGuarded(calls[i]) PROVE FALSE
      OBVIOUS
    <3>1. Unsafe
      BY <2>3 DEF Once, LogTells, Unsafe
    <3> QED
      BY <2>6, <2>7, <3>1 DEF Once, OneCopy
  <2> QED
    BY <2>8, <2>9
<1> QED
  BY <1>1, <1>2, <1>3, PTL DEF Spec

----------------------------------------------------------------------------
\* What the copies know of the creation ids.

Created(j) == handle[j] = "ok" /\ calls[j].creates # NoKey

KnowsKeys(c) ==
    /\ c.sent \subseteq c.known
    /\ \A j \in 1 .. (plan[c.req].first - 1) : Created(j) => calls[j].creates \in c.sent
    /\ \A i \in CallsOf(c.req) : i < Turn(c) =>
        /\ AnswerTo(c, i) = "ok" => calls[i].creates \in c.known \union {NoKey}
        /\ AnswerTo(c, i) = "unresolvedKey" =>
            /\ calls[i].uses # NoKey /\ calls[i].uses \notin c.sent
            /\ \A j \in CallsOf(c.req) :
                j < i /\ AnswerTo(c, j) = "ok" => calls[j].creates # calls[i].uses

KeysTell ==
    /\ \A c \in copies : KnowsKeys(c)
    /\ \A j \in DOMAIN calls : Created(j) => calls[j].creates \in created

LEMMA KeysBefore ==
  ASSUME Base', copies' = {}, \A j \in 1 .. MaxBatch : handle'[j] = "pending"
  PROVE  KeysTell'
<1>1. \A j \in DOMAIN calls' : j \in 1 .. MaxBatch
  BY SeqFacts, BoundsAssumption DEF Base, TypeOK
<1> QED
  BY <1>1 DEF KeysTell, Created

LEMMA KeysQuiet ==
  ASSUME KeysTell, UNCHANGED <<calls, plan, handle, created>>, copies' \subseteq copies
  PROVE  KeysTell'
  BY DEF KeysTell, KnowsKeys, Created, CallsOf, Turn, AnswerTo

LEMMA KeysPost ==
  ASSUME Base, Progress, KeysTell, Post PROVE KeysTell'
<1>1. PICK new : new = Copy(next, attempt + 1)
  OBVIOUS
<1>2. /\ pc = "posting" /\ copies' = copies \union {new}
      /\ UNCHANGED <<calls, plan, handle, created>>
      /\ new.req = next /\ new.sent = sent /\ new.known = sent /\ new.answers = <<>>
  BY <1>1 DEF Post, Copy
<1>3. next \in DOMAIN plan /\ sent = created
  BY <1>2 DEF Base, Bounded, Progress
<1>4. \A c \in copies : KnowsKeys(c)'
  BY <1>2 DEF KeysTell, KnowsKeys, Created, CallsOf, Turn, AnswerTo
<1>5. KnowsKeys(new)'
  <2>1. Turn(new)' = plan[next].first
    <3>1. Len(new.answers) = 0
      BY <1>2
    <3> QED
      BY <1>2, <1>3, <3>1, PlanFacts DEF Turn
  <2>2. \A i \in CallsOf(new.req)' : ~(i < Turn(new)')
    BY <1>2, <1>3, <2>1, PlanFacts DEF CallsOf
  <2>3. \A j \in 1 .. (plan[next].first - 1) : j \in DOMAIN calls
    BY <1>3, PlanFacts
  <2>4. \A j \in 1 .. (plan'[new.req].first - 1) : Created(j)' => calls'[j].creates \in new.sent
    BY <1>2, <1>3, <2>3 DEF KeysTell, Created
  <2> QED
    BY <1>2, <2>2, <2>4 DEF KnowsKeys
<1> QED
  BY <1>2, <1>4, <1>5 DEF KeysTell, Created

LEMMA KeysAbsorb ==
  ASSUME UnaskedCreatedIds, Base, Progress, Trail, KeysTell, Absorb PROVE KeysTell'
<1>1. /\ UNCHANGED <<calls, plan, copies>> /\ inFlight = CallsOf(next)
      /\ next \in DOMAIN plan /\ next \in Nat
  BY PlanFacts DEF Absorb, Progress, Base, Bounded, serverVars
<1>2. PICK c \in copies, h \in [inFlight -> HandleStates] :
        /\ c.req = next /\ Complete(c)
        /\ \A i \in inFlight : h[i] \in Routed(c.answers[i - plan[next].first + 1])
        /\ handle' = [i \in 1 .. MaxBatch |-> IF i \in inFlight THEN h[i] ELSE handle[i]]
        /\ created' = created \union ReturnedIds(c)
  BY DEF Absorb, Awaited
<1>3. created' = created \union c.known
  BY <1>2 DEF ReturnedIds
<1>4. ASSUME NEW j \in DOMAIN calls
      PROVE  handle'[j] = IF j \in CallsOf(next) THEN h[j] ELSE handle[j]
  <2>1. j \in 1 .. MaxBatch
    BY PlanFacts
  <2> QED
    BY <1>1, <1>2, <2>1
<1>5. ASSUME NEW j \in DOMAIN calls, Created(j)' PROVE calls[j].creates \in created'
  <2>1. CASE j \in CallsOf(next)
    <3>1. AnswerTo(c, j) = "ok"
      BY <1>1, <1>2, <1>4, <1>5, <2>1 DEF Created, Routed, AnswerTo
    <3>2. j < Turn(c)
      BY <1>1, <1>2, <2>1, CopyFacts, PlanFacts DEF CallsOf
    <3>3. calls[j].creates \in c.known \union {NoKey} /\ calls[j].creates # NoKey
      BY <1>1, <1>2, <1>5, <2>1, <3>1, <3>2 DEF KeysTell, KnowsKeys, Created
    <3> QED
      BY <1>3, <3>3
  <2>2. CASE j \notin CallsOf(next)
    BY <1>1, <1>3, <1>4, <1>5, <2>2 DEF KeysTell, Created
  <2> QED
    BY <2>1, <2>2
<1>6. ASSUME NEW d \in copies PROVE KnowsKeys(d)'
  <2>1. ASSUME NEW j \in 1 .. (plan[d.req].first - 1), Created(j)'
        PROVE  calls[j].creates \in d.sent
    <3>1. d.req \in DOMAIN plan /\ d.req \in Nat /\ d.req <= next
      BY CopyFacts DEF Trail, CopiesBehind
    <3>2. plan[d.req].first <= plan[next].first
      <4>1. CASE d.req = next
        BY <1>1, <4>1, PlanFacts
      <4>2. CASE d.req < next
        <5>1. plan[d.req].last < plan[next].first
          BY <1>1, <3>1, <4>2 DEF Base, PlanOrdered
        <5> QED
          BY <1>1, <3>1, <5>1, PlanFacts
      <4> QED
        BY <1>1, <3>1, <4>1, <4>2
    <3>3. j \in DOMAIN calls /\ j \notin CallsOf(next)
      <4>1. /\ plan[d.req].first \in Nat /\ plan[d.req].first <= Len(calls) /\ Len(calls) \in Nat
            /\ plan[next].first \in Nat /\ DOMAIN calls = 1 .. Len(calls)
        BY <1>1, <3>1, PlanFacts
      <4>2. j \in Nat /\ j >= 1 /\ j < plan[d.req].first
        BY <2>1, <4>1
      <4> QED
        BY <3>2, <4>1, <4>2 DEF CallsOf
    <3>4. Created(j)
      BY <1>1, <1>4, <2>1, <3>3 DEF Created
    <3> QED
      BY <3>4 DEF KeysTell, KnowsKeys
  <2>2. KnowsKeys(d)
    BY DEF KeysTell
  <2> QED
    BY <1>1, <2>1, <2>2 DEF KnowsKeys, CallsOf, Turn, AnswerTo
<1> QED
  BY <1>1, <1>5, <1>6 DEF KeysTell

\* The server runs one call of one copy: a creation that succeeds becomes known to
\* the copy, and a "#key" it does not know of is refused.
LEMMA KeysAnswer ==
  ASSUME Base, KeysTell, UNCHANGED <<calls, plan, handle, created>>,
         NEW c \in copies, ~Complete(c), NEW outcome \in Outcomes, NEW keys \in SUBSET Keys,
         Answer(c, outcome, keys),
         outcome = "ok" => calls[Turn(c)].creates \in keys \union {NoKey},
         outcome = "unresolvedKey" =>
            calls[Turn(c)].uses # NoKey /\ calls[Turn(c)].uses \notin c.known
  PROVE  KeysTell'
<1>0. PICK turn : turn = Turn(c)
  OBVIOUS
<1>1. PICK d \in CopyType :
          /\ copies' = (copies \ {c}) \union {d}
          /\ d.req = c.req /\ d.sent = c.sent /\ d.known = c.known \union keys
          /\ Turn(d)' = Turn(c) + 1
          /\ Turn(c) \in CallsOf(c.req) /\ AnswerTo(d, Turn(c))' = outcome
          /\ \A i \in CallsOf(c.req) : i < Turn(c) => AnswerTo(d, i)' = AnswerTo(c, i)
  BY AnswerMoves
<1>2. AnswerTo(d, turn)' = outcome
  <2>1. Turn(c)' = Turn(c)
    BY DEF Turn
  <2> QED
    BY <1>0, <1>1, <2>1 DEF AnswerTo
<1>3. \A b \in copies : KnowsKeys(b)'
  BY DEF KeysTell, KnowsKeys, Created, CallsOf, Turn, AnswerTo
<1>4. /\ c.sent \subseteq c.known
      /\ \A j \in 1 .. (plan[c.req].first - 1) : Created(j) => calls[j].creates \in c.sent
      /\ \A i \in CallsOf(c.req) : i < turn =>
          /\ AnswerTo(c, i) = "ok" => calls[i].creates \in c.known \union {NoKey}
          /\ AnswerTo(c, i) = "unresolvedKey" =>
              /\ calls[i].uses # NoKey /\ calls[i].uses \notin c.sent
              /\ \A j \in CallsOf(c.req) :
                  j < i /\ AnswerTo(c, j) = "ok" => calls[j].creates # calls[i].uses
  BY <1>0 DEF KeysTell, KnowsKeys
<1>5. turn \in Nat /\ turn \in CallsOf(c.req) /\ \A i \in CallsOf(c.req) : i \in Nat
  BY <1>0, <1>1, CopyFacts, PlanFacts DEF CallsOf
<1>6. ASSUME NEW i \in CallsOf(c.req), i < turn + 1
      PROVE  /\ AnswerTo(d, i)' = "ok" => calls[i].creates \in d.known \union {NoKey}
             /\ AnswerTo(d, i)' = "unresolvedKey" =>
                  /\ calls[i].uses # NoKey /\ calls[i].uses \notin d.sent
                  /\ \A j \in CallsOf(c.req) :
                      j < i /\ AnswerTo(d, j)' = "ok" => calls[j].creates # calls[i].uses
  <2>1. ASSUME NEW j \in CallsOf(c.req), j < i
        PROVE  j < turn /\ AnswerTo(d, j)' = AnswerTo(c, j)
    <3>1. j \in Nat /\ i \in Nat /\ turn \in Nat /\ j < i /\ i < turn + 1
      BY <1>5, <1>6, <2>1
    <3>2. j < turn
      BY ONLY <3>1
    <3> QED
      BY <1>0, <1>1, <2>1, <3>2
  <2>2. CASE i < turn
    <3>1. AnswerTo(d, i)' = AnswerTo(c, i)
      BY <1>0, <1>1, <2>2
    <3> QED
      BY <1>1, <1>4, <2>1, <2>2, <3>1
  <2>3. CASE i = turn
    <3>1. AnswerTo(d, i)' = outcome
      BY <1>2, <2>3
    <3>2. outcome = "ok" => calls[i].creates \in d.known \union {NoKey}
      BY <1>0, <1>1, <2>3
    <3>3. ASSUME outcome = "unresolvedKey"
          PROVE  calls[i].uses # NoKey /\ calls[i].uses \notin c.known
      BY <1>0, <2>3, <3>3
    <3>4. ASSUME outcome = "unresolvedKey", NEW j \in CallsOf(c.req), j < i,
                 AnswerTo(d, j)' = "ok"
          PROVE  calls[j].creates # calls[i].uses
      <4>1. j < turn /\ AnswerTo(c, j) = "ok"
        BY <2>1, <3>4
      <4>2. calls[j].creates \in c.known \union {NoKey}
        BY <1>4, <4>1
      <4> QED
        BY <3>3, <3>4, <4>2
    <3>5. outcome = "unresolvedKey" => calls[i].uses # NoKey /\ calls[i].uses \notin d.sent
      BY <1>1, <1>4, <3>3
    <3>6. outcome = "unresolvedKey" =>
            \A j \in CallsOf(c.req) :
                j < i /\ AnswerTo(d, j)' = "ok" => calls[j].creates # calls[i].uses
      BY <3>4
    <3> QED
      BY <3>1, <3>2, <3>5, <3>6, Zenon
  <2>4. i < turn \/ i = turn
    <3>1. i \in Nat /\ turn \in Nat /\ i < turn + 1
      BY <1>5, <1>6
    <3> QED
      BY <3>1
  <2> QED
    BY <2>2, <2>3, <2>4, Zenon
<1>7. KnowsKeys(d)'
  <2>1. d.sent \subseteq d.known
    BY <1>1, <1>4
  <2>2. \A j \in 1 .. (plan'[d.req].first - 1) : Created(j)' => calls'[j].creates \in d.sent
    BY <1>1, <1>4 DEF Created
  <2>3. CallsOf(d.req)' = CallsOf(c.req) /\ Turn(d)' = turn + 1
    BY <1>0, <1>1 DEF CallsOf
  <2> QED
    BY <1>6, <2>1, <2>2, <2>3 DEF KnowsKeys
<1> QED
  BY <1>1, <1>3, <1>7 DEF KeysTell, Created

LEMMA KeysServer ==
  ASSUME Base, KeysTell, Server PROVE KeysTell'
<1>0. UNCHANGED <<calls, plan, handle, created>> /\ {} \in SUBSET Keys
  BY DEF Server
<1>1. ASSUME NEW c \in copies, RefuseCall(c) PROVE KeysTell'
  <2>1. PICK outcome : outcome = Refusal(c, Turn(c))
    OBVIOUS
  <2>2. /\ outcome \in Outcomes /\ outcome # "ok"
        /\ outcome = "unresolvedKey" =>
             calls[Turn(c)].uses # NoKey /\ calls[Turn(c)].uses \notin c.known
    BY <1>1, <2>1 DEF RefuseCall, Refusal, Outcomes
  <2>3. ~Complete(c) /\ Answer(c, outcome, {})
    BY <1>1, <2>1 DEF RefuseCall
  <2> QED
    BY <1>0, <2>2, <2>3, KeysAnswer
<1>2. ASSUME NEW c \in copies, FailCall(c) PROVE KeysTell'
  <2>1. "error" \in Outcomes /\ ~Complete(c) /\ Answer(c, "error", {})
    BY <1>2 DEF FailCall, Outcomes
  <2> QED
    BY <1>0, <2>1, KeysAnswer
<1>3. ASSUME NEW c \in copies, ReadCall(c) PROVE KeysTell'
  <2>1. /\ "ok" \in Outcomes /\ ~Complete(c) /\ Answer(c, "ok", {})
        /\ ~calls[Turn(c)].mutating
    BY <1>3 DEF ReadCall, Outcomes
  <2>2. calls[Turn(c)] \in CallKinds
    BY <2>1, TurnInRequest, SeqFacts DEF Base, TypeOK
  <2>3. calls[Turn(c)].creates = NoKey
    BY <2>1, <2>2, CreationAssumption
  <2> QED
    BY <1>0, <2>1, <2>3, KeysAnswer
<1>4. ASSUME NEW c \in copies, ApplyCall(c) PROVE KeysTell'
  <2>1. ~Complete(c)
    BY <1>4 DEF ApplyCall
  <2>2. {calls[Turn(c)].creates} \ {NoKey} \in SUBSET Keys
    BY <2>1, TurnInRequest DEF CallRecord
  <2>3. CASE Answer(c, "ok", {calls[Turn(c)].creates} \ {NoKey})
    <3>1. "ok" \in Outcomes
      BY DEF Outcomes
    <3> QED
      BY <1>0, <2>1, <2>2, <2>3, <3>1, KeysAnswer
  <2>4. CASE Answer(c, "partial", {})
    <3>1. "partial" \in Outcomes
      BY DEF Outcomes
    <3> QED
      BY <1>0, <2>1, <2>4, <3>1, KeysAnswer
  <2> QED
    BY <1>4, <2>3, <2>4 DEF ApplyCall
<1>5. ASSUME NEW t \in Types, OtherClientWrites(t) PROVE KeysTell'
  BY <1>0, <1>5, KeysQuiet DEF OtherClientWrites
<1> QED
  BY <1>1, <1>2, <1>3, <1>4, <1>5 DEF Server

LEMMA KeysNext ==
  ASSUME UnaskedCreatedIds, Base, Progress, Trail, KeysTell, [Next]_vars PROVE KeysTell'
<1>1. CASE Caller \/ Planner
  <2>1. pc \in {"open", "planning"} /\ UNCHANGED <<copies, handle>>
    BY <1>1 DEF Caller, Queue, AbandonBlock, LeaveBlock, Planner, PlanRequest,
                BatchTooLarge, PlanComplete, serverVars
  <2>2. copies = {} /\ Absorbed = 0
    BY <2>1 DEF Trail, NothingSent, Progress, Absorbed
  <2>3. \A j \in 1 .. MaxBatch : handle[j] = "pending"
    BY <2>2, BoundsAssumption DEF Progress
  <2> QED
    BY <2>1, <2>2, <2>3, BaseNext, KeysBefore
<1>2. CASE NextRequest \/ Finished \/ ConnectFails \/ Silence \/ Rejected \/ ServerError
           \/ MalformedResponse \/ Cancel \/ RefreshSession \/ UNCHANGED vars
  <2>1. UNCHANGED <<calls, plan, handle, created>> /\ copies' \subseteq copies
    BY <1>2 DEF NextRequest, Finished, ConnectFails, Silence, Rejected, ServerError,
                MalformedResponse, Cancel, RefreshSession, vars, serverVars
  <2> QED
    BY <2>1, KeysQuiet
<1>3. CASE Poster
  BY <1>2, <1>3, KeysPost, KeysAbsorb DEF Poster
<1> QED
  BY <1>1, <1>2, <1>3, KeysServer DEF Next

\* A "#key" whose creation the client knows to have succeeded always resolves, in
\* whichever request of a split batch it is used, provided the server reports the
\* created ids unasked (the run `split` shows what becomes of it otherwise).
THEOREM CreationIdsResolve ==
  ASSUME UnaskedCreatedIds PROVE Spec => []CreationRefsResolve
<1>1. Init => Base /\ Progress /\ Trail /\ KeysTell
  <2>1. Init => KeysTell
    BY DEF Init, KeysTell
  <2> QED
    BY <2>1, BaseInit, ProgressInit, TrailInit
<1>2. Base /\ Progress /\ Trail /\ KeysTell /\ [Next]_vars
        => (Base /\ Progress /\ Trail /\ KeysTell)'
  BY UnaskedCreatedIds, BaseNext, ProgressNext, TrailNext, KeysNext
<1>3. Base /\ Progress /\ Trail /\ KeysTell => CreationRefsResolve
  <2> SUFFICES ASSUME Base, Progress, Trail, KeysTell,
                      NEW i \in DOMAIN calls, handle[i] = "unresolvedKey",
                      NEW j \in 1 .. (i - 1), calls[j].creates = calls[i].uses, handle[j] = "ok"
               PROVE  FALSE
    BY DEF CreationRefsResolve
  <2>1. i \in Nat /\ j \in Nat /\ j < i /\ j \in DOMAIN calls
    BY PlanFacts
  <2>2. i \in 1 .. Absorbed /\ j \in 1 .. Absorbed
    <3>1. i \in 1 .. MaxBatch
      BY PlanFacts
    <3> QED
      BY <2>1, <3>1, AbsorbedFacts DEF Progress
  <2>3. PICK d \in copies : Decides(d, i)
    BY <2>2 DEF Trail, HandlesTell
  <2>4. /\ d.req \in DOMAIN plan /\ i \in CallsOf(d.req) /\ i < Turn(d)
        /\ AnswerTo(d, i) = "unresolvedKey"
    <3>1. /\ i \in CallsOf(d.req) /\ Complete(d)
          /\ handle[i] \in Routed(AnswerTo(d, i))
      BY <2>3 DEF Decides
    <3> QED
      BY <3>1, CopyFacts, PlanFacts DEF CallsOf, Routed
  <2>5. /\ calls[i].uses # NoKey /\ calls[i].uses \notin d.sent
        /\ \A k \in CallsOf(d.req) :
              k < i /\ AnswerTo(d, k) = "ok" => calls[k].creates # calls[i].uses
        /\ \A k \in 1 .. (plan[d.req].first - 1) : Created(k) => calls[k].creates \in d.sent
    BY <2>4 DEF KeysTell, KnowsKeys
  <2>6. Created(j)
    BY <2>5 DEF Created
  <2>7. j \in CallsOf(d.req)
    <3>1. ~(j < plan[d.req].first)
      BY <2>1, <2>4, <2>5, <2>6, PlanFacts
    <3> QED
      BY <2>1, <2>4, <3>1, PlanFacts DEF CallsOf
  <2>8. PICK e \in copies : Decides(e, j)
    BY <2>2 DEF Trail, HandlesTell
  <2>9. e = d
    <3>1. j \in CallsOf(e.req) /\ e.req \in DOMAIN plan /\ e.req \in Nat /\ d.req \in Nat
          /\ e.attempt \in Nat /\ d.attempt \in Nat
      BY <2>8, CopyFacts DEF Decides
    <3>2. e.req = d.req
      <4>1. ~(d.req < e.req) /\ ~(e.req < d.req)
        BY <2>1, <2>4, <2>7, <3>1, SegmentFacts
      <4> QED
        BY <3>1, <4>1
    <3>3. e.attempt <= d.attempt /\ d.attempt <= e.attempt
      BY <2>3, <2>8, <3>2 DEF Decides
    <3> QED
      BY <3>1, <3>2, <3>3 DEF Trail, Distinct
  <2>10. AnswerTo(d, j) = "ok"
    BY <2>8, <2>9 DEF Decides, Routed
  <2> QED
    BY <2>1, <2>5, <2>7, <2>10
<1> QED
  BY <1>1, <1>2, <1>3, PTL DEF Spec

=============================================================================
