----------------------------- MODULE JmapClient -----------------------------
(***************************************************************************)
(* One batch of JMAP calls, from the first Batch.add to the last handle:   *)
(* src/jmap/batch.py queues, plans and absorbs, src/jmap/core/request.py   *)
(* cuts the batch into requests, src/jmap/client.py (and aio.py, the same  *)
(* code around `await`) posts each request with its retries, and           *)
(* src/jmap/core/response.py routes the answer back to the handles.        *)
(*                                                                         *)
(* The network and the server are the environment.  A posted request is a  *)
(* copy in `copies`; the server runs the calls of a copy one at a time, in *)
(* order, and independently of every other copy.  A client that stops      *)
(* waiting leaves its copy behind: it may have run, may be running, or may *)
(* run at any later time, which is what makes a retry dangerous.           *)
(***************************************************************************)
EXTENDS RetryPolicy, Integers, Sequences, FiniteSets

CONSTANTS
    CallKinds,          \* the calls a caller may queue, see CallKindsAssumption
    Types,              \* data types, each with a state of its own
    Keys, NoKey,        \* creation ids (the k of "#k"), and "none"
    MaxBatch,           \* bound: calls queued in the batch
    MaxCallsInRequest,  \* limits.max_calls_in_request
    MaxObjectsInSet,    \* limits.max_objects_in_set
    StatusCodes,        \* HTTP statuses other than 2xx the server answers with
    MaxState,           \* bound, per type: how far another client moves its state
    SessionViews,       \* the method sets a session fetched later may resolve to
    UnaskedCreatedIds   \* does the server return createdIds nobody sent it?

Guards == {"none", "literal", "backref"}

\* A call: its method, whether the method's spec is mutating, the type it acts
\* on, its ifInState, the creation id it defines and the one it uses, how many
\* calls back its back-reference points (0: it has none), and for a /set the
\* number of objects it names.
CallRecord == [method: STRING, mutating: BOOLEAN, type: Types, guard: Guards,
               creates: Keys \union {NoKey}, uses: Keys \union {NoKey},
               back: Nat, objects: Nat]

ASSUME CallKindsAssumption == CallKinds \subseteq CallRecord

\* Every method whose arguments define a creation id has a mutating spec.
ASSUME CreationAssumption == \A call \in CallKinds : call.creates # NoKey => call.mutating

ASSUME BoundsAssumption ==
    /\ MaxBatch \in Nat
    /\ MaxCallsInRequest \in Nat \ {0}
    /\ MaxObjectsInSet \in Nat
    /\ MaxState \in [Types -> Nat]
    /\ StatusCodes \subseteq Nat
    /\ NoKey \notin Keys
    /\ UnaskedCreatedIds \in BOOLEAN

VARIABLES
    pc,            \* where the caller's thread or task is
    calls,         \* Batch._handles: the queued calls, call id = position
    built,         \* Batch._capabilities: the methods the batch was made with
    view,          \* JMAPClient.capabilities: the methods it resolves now
    plan,          \* the requests plan_requests made: <<[first, last], ...>>
    next,          \* the request being sent
    created,       \* Batch._created_ids: the keys whose ids are known
    sent,          \* Request.created_ids of the request being sent
    inFlight,      \* Batch._in_flight
    attempt,       \* _post: attempts made at the current request
    mutating,      \* _post: is_mutating, computed once per request
    guarded,       \* _post: all_mutations_guarded, computed once per request
    handle,        \* what each handle holds
    error,         \* what execute raised, or "none"
    copies,        \* every copy of a request that was put on the wire
    state,         \* the server's state of each type; 0 is the caller's literal
    log            \* history: mutations in the order the server applied them

serverVars == <<copies, state, log>>
vars == <<pc, calls, built, view, plan, next, created, sent, inFlight, attempt,
          mutating, guarded, handle, error, copies, state, log>>

Outcomes == {"ok", "error", "partial", "stateMismatch",
             "invalidResultReference", "unresolvedKey"}
HandleStates == Outcomes \union {"pending", "missing", "malformed"}

----------------------------------------------------------------------------
\* What a batch of calls says about itself

IsMutating(view_) ==
    \E i \in DOMAIN calls : calls[i].method \in view_ /\ calls[i].mutating

\* Mutant: any ifInState argument taken for a guard.
IsGuardedByAnyState(call) == call.guard # "none"

\* Only a literal ifInState would fail a repeat of the call: a back-reference
\* is resolved afresh by every attempt.
IsGuarded(call) == call.guard = "literal"

AllMutationsGuarded(view_) ==
    \A i \in DOMAIN calls :
        calls[i].method \in view_ /\ calls[i].mutating => IsGuarded(calls[i])

HasTarget(i) == calls[i].back > 0
Target(i)    == i - calls[i].back

\* validate_references: every back-reference names an earlier call.
ReferencesValid == \A i \in DOMAIN calls : HasTarget(i) => Target(i) >= 1

\* _cut_points: a request may end after call e unless a later call references
\* call e or one before it.
LegalEnd(e) == \A i \in DOMAIN calls : i > e /\ HasTarget(i) => Target(i) > e

\* Mutant: one call too many in a request.
EndsOneMore(s) == {e \in (s + 1) .. Len(calls) : e <= s + MaxCallsInRequest + 1 /\ LegalEnd(e)}

\* The ends plan_requests may give the request that starts after call s.
Ends(s) == {e \in (s + 1) .. Len(calls) : e <= s + MaxCallsInRequest /\ LegalEnd(e)}

Planned == IF plan = <<>> THEN 0 ELSE plan[Len(plan)].last

Covers(r, i) == plan[r].first <= i /\ i <= plan[r].last
CallsOf(r)   == plan[r].first .. plan[r].last

----------------------------------------------------------------------------
Init ==
    /\ pc = "open"
    /\ calls = <<>>
    /\ built \in SessionViews
    /\ view = built
    /\ plan = <<>>
    /\ next = 1
    /\ created = {}
    /\ sent = {}
    /\ inFlight = {}
    /\ attempt = 0
    /\ mutating = FALSE
    /\ guarded = FALSE
    /\ handle = [i \in 1 .. MaxBatch |-> "pending"]
    /\ error = "none"
    /\ copies = {}
    /\ state = [t \in Types |-> 0]
    /\ log = <<>>

----------------------------------------------------------------------------
\* The caller's block: client.batch() ... with

\* Batch.add: the method must be one the batch's capabilities resolve.
Queue(call) ==
    /\ pc = "open"
    /\ Len(calls) < MaxBatch
    /\ call.method \in built
    /\ calls' = Append(calls, call)
    /\ UNCHANGED <<pc, built, view, plan, next, created, sent, inFlight, attempt,
                   mutating, guarded, handle, error, serverVars>>

\* __exit__ of a block that raised: nothing is sent.
AbandonBlock ==
    /\ pc = "open"
    /\ pc' = "abandoned"
    /\ UNCHANGED <<calls, built, view, plan, next, created, sent, inFlight, attempt,
                   mutating, guarded, handle, error, serverVars>>

Raise(kind) == pc' = "raised" /\ error' = kind

\* __exit__ of a block that did not: execute asks for the plan.  Batch.plan
\* refuses an oversized /set, plan_requests an invalid reference.
LeaveBlock ==
    /\ pc = "open"
    /\ IF \E i \in DOMAIN calls : calls[i].objects > MaxObjectsInSet
       THEN Raise("oversized")
       ELSE IF ~ReferencesValid
            THEN Raise("reference")
            ELSE pc' = "planning" /\ error' = error
    /\ UNCHANGED <<calls, built, view, plan, next, created, sent, inFlight, attempt,
                   mutating, guarded, handle, serverVars>>

----------------------------------------------------------------------------
\* plan_requests: one turn of its loop per step

PlanRequest ==
    /\ pc = "planning"
    /\ \E e \in Ends(Planned) :
        /\ \A f \in Ends(Planned) : f <= e
        /\ plan' = Append(plan, [first |-> Planned + 1, last |-> e])
    /\ UNCHANGED <<pc, calls, built, view, next, created, sent, inFlight, attempt,
                   mutating, guarded, handle, error, serverVars>>

\* Mutant: no end to cut at, and nobody told.
BatchTooLargeUnnoticed ==
    /\ pc = "planning"
    /\ Planned < Len(calls)
    /\ Ends(Planned) = {}
    /\ UNCHANGED vars

BatchTooLarge ==
    /\ pc = "planning"
    /\ Planned < Len(calls)
    /\ Ends(Planned) = {}
    /\ Raise("tooLarge")
    /\ UNCHANGED <<calls, built, view, plan, next, created, sent, inFlight, attempt,
                   mutating, guarded, handle, serverVars>>

PlanComplete ==
    /\ pc = "planning"
    /\ Planned = Len(calls)
    /\ pc' = "due"
    /\ UNCHANGED <<calls, built, view, plan, next, created, sent, inFlight, attempt,
                   mutating, guarded, handle, error, serverVars>>

----------------------------------------------------------------------------
\* Batch.requests hands out the next request, and _post starts on it

\* Mutant: the created ids of earlier requests left out.
NextRequestAlone ==
    /\ pc = "due"
    /\ next <= Len(plan)
    /\ sent' = {}
    /\ inFlight' = CallsOf(next)
    /\ mutating' = IsMutating(view)
    /\ guarded' = AllMutationsGuarded(view)
    /\ attempt' = 0
    /\ pc' = "posting"
    /\ UNCHANGED <<calls, built, view, plan, next, created, handle, error, serverVars>>

NextRequest ==
    /\ pc = "due"
    /\ next <= Len(plan)
    /\ sent' = created
    /\ inFlight' = CallsOf(next)
    /\ mutating' = IsMutating(view)
    /\ guarded' = AllMutationsGuarded(view)
    /\ attempt' = 0
    /\ pc' = "posting"
    /\ UNCHANGED <<calls, built, view, plan, next, created, handle, error, serverVars>>

Finished ==
    /\ pc = "due"
    /\ next > Len(plan)
    /\ inFlight' = {}
    /\ pc' = "done"
    /\ UNCHANGED <<calls, built, view, plan, next, created, sent, attempt, mutating,
                   guarded, handle, error, serverVars>>

\* The end of one turn of _post's loop: sleep and go round, or raise.
RetryOrRaise(safety, made, kind) ==
    IF ShouldRetry(safety, made, mutating, guarded)
    THEN pc' = "posting" /\ error' = error
    ELSE Raise(kind)

\* ConnectError, ConnectTimeout, PoolTimeout: no byte was sent.
ConnectFails ==
    /\ pc = "posting"
    /\ attempt' = attempt + 1
    /\ RetryOrRaise(ClassifyTransport("connect"), attempt + 1, "transport")
    /\ UNCHANGED <<calls, built, view, plan, next, created, sent, inFlight, mutating,
                   guarded, handle, serverVars>>

Copy(r, a) == [req |-> r, attempt |-> a, sent |-> sent, known |-> sent, answers |-> <<>>]

Post ==
    /\ pc = "posting"
    /\ attempt' = attempt + 1
    /\ copies' = copies \union {Copy(next, attempt + 1)}
    /\ pc' = "waiting"
    /\ UNCHANGED <<calls, built, view, plan, next, created, sent, inFlight, mutating,
                   guarded, handle, error, state, log>>

\* The copy whose answer _post is waiting for.
Awaited(c) == c.req = next /\ c.attempt = attempt
Started(c) == c.answers # <<>>
Complete(c) == Len(c.answers) = plan[c.req].last - plan[c.req].first + 1

\* Mutant: a request given up on, and the batch carried on with.
SilenceSkips ==
    /\ pc = "waiting"
    /\ pc' = "due"
    /\ next' = next + 1
    /\ UNCHANGED <<calls, built, view, plan, created, sent, inFlight, attempt,
                   mutating, guarded, handle, error, serverVars>>

\* TimeoutException, or any other httpx.HTTPError: silence, and the copy lives on.
Silence ==
    /\ pc = "waiting"
    /\ \E failure \in {"timeout", "interrupted"} :
        RetryOrRaise(ClassifyTransport(failure), attempt, "transport")
    /\ UNCHANGED <<calls, built, view, plan, next, created, sent, inFlight, attempt,
                   mutating, guarded, handle, serverVars>>

\* What _post does with a response that is not 2xx: a 401 and a Retry-After
\* past max_retry_after are raised, the rest goes through ShouldRetry.
OnProblem(status, type, waitTooLong) ==
    IF status = Unauthorized
    THEN Raise("authentication")
    ELSE IF waitTooLong
         THEN Raise("problem")
         ELSE RetryOrRaise(ClassifyStatus(status, type), attempt, "problem")

\* The server turns the request away before running any of its calls.  Every
\* 429, 503, 4xx and urn:ietf:params:jmap:error:limit answer is of this kind.
Rejected ==
    /\ pc = "waiting"
    /\ \E c \in copies, status \in StatusCodes, type \in ProblemTypes, long \in BOOLEAN :
        /\ Awaited(c) /\ ~Started(c)
        /\ ClassifyStatus(status, type) # "MaybeApplied"
        /\ copies' = copies \ {c}
        /\ OnProblem(status, type, long)
    /\ UNCHANGED <<calls, built, view, plan, next, created, sent, inFlight, attempt,
                   mutating, guarded, handle, state, log>>

\* A 5xx: from before, during or after the work.  The copy lives on.
ServerError ==
    /\ pc = "waiting"
    /\ \E status \in StatusCodes, type \in ProblemTypes, long \in BOOLEAN :
        /\ ClassifyStatus(status, type) = "MaybeApplied"
        /\ OnProblem(status, type, long)
    /\ UNCHANGED <<calls, built, view, plan, next, created, sent, inFlight, attempt,
                   mutating, guarded, handle, serverVars>>

\* A 2xx whose body is not a JMAP Response: raised, never retried.
MalformedResponse ==
    /\ pc = "waiting"
    /\ \E c \in copies : Awaited(c) /\ Complete(c)
    /\ Raise("malformed")
    /\ UNCHANGED <<calls, built, view, plan, next, created, sent, inFlight, attempt,
                   mutating, guarded, handle, serverVars>>

\* Mutant: a call the response says nothing of is left as it was.
RoutedOnlyIfAnswered(outcome) ==
    {outcome, "pending"} \union (IF outcome = "ok" THEN {"malformed"} ELSE {})

\* What dispatch and absorb may leave in a handle whose call came to `outcome`:
\* the server may omit the answer, and an answer may fail to parse.
Routed(outcome) ==
    {outcome, "missing"} \union (IF outcome = "ok" THEN {"malformed"} ELSE {})

ReturnedIds(c) == IF UnaskedCreatedIds \/ c.sent # {} THEN c.known ELSE {}

\* A 2xx: Response.from_wire, Batch.absorb, and on to the next request.
Absorb ==
    /\ pc = "waiting"
    /\ \E c \in copies :
        /\ Awaited(c) /\ Complete(c)
        /\ \E h \in [inFlight -> HandleStates] :
            /\ \A i \in inFlight : h[i] \in Routed(c.answers[i - plan[next].first + 1])
            /\ handle' = [i \in 1 .. MaxBatch |-> IF i \in inFlight THEN h[i] ELSE handle[i]]
        /\ created' = created \union ReturnedIds(c)
    /\ inFlight' = {}
    /\ next' = next + 1
    /\ pc' = "due"
    /\ UNCHANGED <<calls, built, view, plan, sent, attempt, mutating, guarded, error, serverVars>>

\* An asyncio task cancelled while it waits, or a KeyboardInterrupt.
Cancel ==
    /\ pc \in {"posting", "waiting"}
    /\ Raise("cancelled")
    /\ UNCHANGED <<calls, built, view, plan, next, created, sent, inFlight, attempt,
                   mutating, guarded, handle, serverVars>>

\* refresh_session, called inside the block or by another task of the client.
\* The batch keeps the capabilities it was made with; _post does not.
RefreshSession ==
    /\ pc \in {"open", "due", "posting", "waiting"}
    /\ view' \in SessionViews
    /\ UNCHANGED <<pc, calls, built, plan, next, created, sent, inFlight, attempt,
                   mutating, guarded, handle, error, serverVars>>

----------------------------------------------------------------------------
\* The server, and whoever else writes to it

Turn(c) == plan[c.req].first + Len(c.answers)

\* The server's verdict before it runs call i of copy c: a back-reference needs
\* a successful target in the same request, a "#key" a creation it knows of,
\* and a literal ifInState the state it names, which is 0.
Refusal(c, i) ==
    LET target == Target(i) - plan[c.req].first + 1 IN
    IF HasTarget(i) /\ ~(target \in DOMAIN c.answers /\ c.answers[target] = "ok")
    THEN "invalidResultReference"
    ELSE IF calls[i].uses # NoKey /\ calls[i].uses \notin c.known
    THEN "unresolvedKey"
    ELSE IF calls[i].mutating /\ calls[i].guard = "literal" /\ state[calls[i].type] # 0
    THEN "stateMismatch"
    ELSE "none"

Answer(c, outcome, keys) ==
    copies' = (copies \ {c}) \union
              {[c EXCEPT !.answers = Append(@, outcome), !.known = @ \union keys]}

RefuseCall(c) ==
    /\ ~Complete(c)
    /\ Refusal(c, Turn(c)) # "none"
    /\ Answer(c, Refusal(c, Turn(c)), {})
    /\ UNCHANGED <<state, log>>

\* A method error: nothing changed (RFC 8620 section 3.6.2).
FailCall(c) ==
    /\ ~Complete(c)
    /\ Refusal(c, Turn(c)) = "none"
    /\ Answer(c, "error", {})
    /\ UNCHANGED <<state, log>>

ReadCall(c) ==
    /\ ~Complete(c)
    /\ Refusal(c, Turn(c)) = "none"
    /\ ~calls[Turn(c)].mutating
    /\ Answer(c, "ok", {})
    /\ UNCHANGED <<state, log>>

\* A mutation, done or done in part (serverPartialFail).
ApplyCall(c) ==
    /\ ~Complete(c)
    /\ Refusal(c, Turn(c)) = "none"
    /\ calls[Turn(c)].mutating
    /\ \/ Answer(c, "ok", {calls[Turn(c)].creates} \ {NoKey})
       \/ Answer(c, "partial", {})
    /\ state' = [state EXCEPT ![calls[Turn(c)].type] = @ + 1]
    /\ log' = Append(log, [call |-> Turn(c), req |-> c.req, attempt |-> c.attempt])

OtherClientWrites(t) ==
    /\ state[t] < MaxState[t]
    /\ state' = [state EXCEPT ![t] = @ + 1]
    /\ UNCHANGED <<copies, log>>

Server ==
    /\ \/ \E c \in copies : RefuseCall(c) \/ FailCall(c) \/ ReadCall(c) \/ ApplyCall(c)
       \/ \E t \in Types : OtherClientWrites(t)
    /\ UNCHANGED <<pc, calls, built, view, plan, next, created, sent, inFlight,
                   attempt, mutating, guarded, handle, error>>

----------------------------------------------------------------------------
Caller  == (\E call \in CallKinds : Queue(call)) \/ AbandonBlock \/ LeaveBlock
Planner == PlanRequest \/ BatchTooLarge \/ PlanComplete
Poster  == \/ NextRequest \/ Finished \/ ConnectFails \/ Post
           \/ Silence \/ Rejected \/ ServerError \/ MalformedResponse \/ Absorb

Next == Caller \/ Planner \/ Poster \/ Cancel \/ RefreshSession \/ Server

Spec == Init /\ [][Next]_vars

\* The planner and the poster are straight-line code, and httpx ends every wait
\* with an answer or a timeout.  Nothing obliges the caller to leave its block,
\* the server to run a copy, or anybody to refresh the session.
FairSpec == Spec /\ WF_vars(Planner) /\ WF_vars(Poster)

----------------------------------------------------------------------------
\* Properties

TypeOK ==
    /\ pc \in {"open", "abandoned", "planning", "due", "posting", "waiting",
               "done", "raised"}
    /\ calls \in Seq(CallKinds) /\ Len(calls) <= MaxBatch
    /\ built \in SessionViews /\ view \in SessionViews
    /\ plan \in Seq([first : Nat, last : Nat])
    /\ next \in Nat \ {0}
    /\ created \subseteq Keys /\ sent \subseteq Keys
    /\ inFlight \subseteq 1 .. MaxBatch
    /\ attempt \in 0 .. MaxAttempts
    /\ mutating \in BOOLEAN /\ guarded \in BOOLEAN
    /\ handle \in [1 .. MaxBatch -> HandleStates]
    /\ error \in {"none", "oversized", "reference", "tooLarge", "transport", "problem",
                  "authentication", "malformed", "cancelled"}
    /\ copies \subseteq [req : Nat, attempt : Nat, sent : SUBSET Keys, known : SUBSET Keys,
                         answers : Seq(Outcomes)]
    /\ state \in [Types -> Nat]
    /\ log \in Seq([call : Nat, req : Nat, attempt : Nat])

\* No mutation of the batch is applied twice, whatever is lost, delayed or
\* retried: retry.py's reason to exist.
AtMostOnce ==
    \A m, n \in DOMAIN log : log[m].call = log[n].call => m = n

\* A copy the client gave up on and sent again.
Superseded(r, a) == \E c \in copies : c.req = r /\ c.attempt > a

\* A handle that holds a method error tells the truth, "this call changed
\* nothing", except for a guarded mutation whose earlier copy may have landed.
ErrorMeansUnapplied ==
    \A n \in DOMAIN log :
        handle[log[n].call] \in {"error", "stateMismatch", "invalidResultReference",
                                 "unresolvedKey"}
            => /\ IsGuarded(calls[log[n].call])
               /\ \E c \in copies : Covers(c.req, log[n].call) /\ c.attempt # log[n].attempt

\* Mutations land in the order they were queued, however the batch was cut, unless a
\* retry superseded the copy that one of the two came with: that copy lands late, or the
\* retry makes good what had failed in it.
AppliedInQueueOrder ==
    \A m, n \in DOMAIN log :
        m < n => \/ log[m].call < log[n].call
                 \/ \E entry \in {log[m], log[n]} : Superseded(entry.req, entry.attempt)

\* A "#key" whose creation the client knows to have succeeded always resolves,
\* in whichever request of a split batch it is used.
CreationRefsResolve ==
    \A i \in DOMAIN calls :
        handle[i] = "unresolvedKey" =>
            \A j \in 1 .. (i - 1) : calls[j].creates = calls[i].uses => handle[j] # "ok"

\* The plan covers a prefix of the batch in order, without a gap or an overlap,
\* within maxCallsInRequest, and no request needs a call of another one.
PlanSound ==
    \A r \in DOMAIN plan :
        /\ plan[r].first = IF r = 1 THEN 1 ELSE plan[r - 1].last + 1
        /\ plan[r].first <= plan[r].last /\ plan[r].last <= Len(calls)
        /\ plan[r].last - plan[r].first < MaxCallsInRequest
        /\ \A i \in CallsOf(r) : HasTarget(i) => Target(i) \in CallsOf(r)

\* Every handle of an answered request is resolved and no other is: when
\* execute returns, no result reads as "not executed yet".
Absorbed == IF next = 1 THEN 0 ELSE plan[next - 1].last
AnsweredPrefix ==
    /\ \A i \in DOMAIN calls : handle[i] = "pending" <=> i > Absorbed
    /\ pc = "done" => Absorbed = Len(calls)

\* execute always returns or raises.
Terminates == pc = "planning" ~> pc \in {"done", "raised"}

=============================================================================
