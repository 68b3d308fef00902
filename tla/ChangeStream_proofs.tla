------------------------- MODULE ChangeStream_proofs -------------------------
(***************************************************************************)
(* What a sync cursor promises, for any number of walks, records and       *)
(* changes.  Knowing that the stored cursor is accounted for does not tell *)
(* what a walk may write over it: the invariant adds that every open walk  *)
(* still stands where the caller is accounted for, which holds because     *)
(* what has been handed over stays so while a walk is open (WalksStand).   *)
(* Then what a ChangeSet promises: that the set of a walk tells of all     *)
(* changes since it began, without a gap (Gathers).                        *)
(***************************************************************************)
EXTENDS ChangeStream, SequenceTheorems, TLAPS

\* What an open walk has behind it is handed over or in the set it collects, and
\* its response continues from where it stands.
Stands(w) ==
    /\ walk[w].at = "answered" => walk[w].since <= walk[w].reach /\ walk[w].to <= walk[w].reach
    /\ walk[w].mode = "pages" => 1 .. walk[w].since \subseteq handed
    /\ walk[w].mode = "all" =>
            /\ 1 .. walk[w].began \subseteq handed
            /\ (walk[w].began + 1) .. walk[w].since \subseteq walk[w].told

WalksStand == \A w \in Walks : Open(w) => Stands(w)

Inductive == TypeOK /\ AccountedFor /\ WalksStand

----------------------------------------------------------------------------
\* Types

LEMMA WalkFacts ==
    ASSUME NEW w \in Walks, TypeOK
    PROVE  /\ walk[w] \in Walk
           /\ walk[w].began \in Nat /\ walk[w].since \in Nat /\ walk[w].reach \in Nat
           /\ walk[w].to \in Nat /\ walk[w].more \in BOOLEAN /\ walk[w].told \in SUBSET Nat
           /\ walk[w].visited \in SUBSET Nat /\ walk[w].set \in ChangeSets
           /\ walk[w].since <= Now /\ walk[w].reach <= Now /\ walk[w].to <= Now
           /\ walk[w].told \subseteq 1 .. Now
           /\ Now \in Nat
PROOF
<1>1. walk[w] \in Walk
    BY DEF TypeOK
<1>2. Now \in Nat
    BY DEF TypeOK, Now
<1> QED
    BY <1>1, <1>2 DEF TypeOK, Walk

LEMMA RestingIsWalk == Resting \in Walk
PROOF
<1>1. EmptySet \in ChangeSets
    BY DEF EmptySet, ChangeSets
<1> QED
    BY <1>1 DEF Resting, Walk

LEMMA PageIsSet == ASSUME NEW s, NEW t PROVE Page(s, t) \in ChangeSets
PROOF
BY DEF Page, ChangeSets

\* Every walk is a Walk within the server's history.
WalkOK(x) == /\ x \in Walk /\ x.told \subseteq 1 .. Now
             /\ x.since <= Now /\ x.reach <= Now /\ x.to <= Now

LEMMA RestingOK == ASSUME TypeOK PROVE WalkOK(Resting)
PROOF
<1>1. Now \in Nat
    BY DEF TypeOK, Now
<1> QED
    BY <1>1, RestingIsWalk DEF WalkOK, Resting

LEMMA AdvancedOK ==
    ASSUME NEW w \in Walks, TypeOK
    PROVE  WalkOK(Advanced(w)) /\ WalkOK(Gathered(w))
PROOF
<1>1. Advanced(w) \in Walk
    BY WalkFacts DEF Advanced, Walk
<1>2. WalkOK(Advanced(w))
    BY <1>1, WalkFacts DEF Advanced, WalkOK, Walk
<1>3. Absorbed(Advanced(w).set, Page(walk[w].since, walk[w].reach)) \in ChangeSets
    BY <1>1, PageIsSet DEF Absorbed, ChangeSets, Walk
<1>4. Covered(w) \subseteq 1 .. Now
    BY WalkFacts DEF Covered
<1>5. Gathered(w) \in Walk
  <2>1. Covered(w) \subseteq Nat
    BY WalkFacts DEF Covered
  <2> QED
    BY <1>1, <1>3, <2>1 DEF Gathered, Walk
<1>6. /\ Gathered(w).since = Advanced(w).since /\ Gathered(w).reach = Advanced(w).reach
      /\ Gathered(w).to = Advanced(w).to
      /\ Gathered(w).told = Advanced(w).told \union Covered(w)
    BY <1>1 DEF Gathered, Walk
<1>7. WalkOK(Gathered(w))
    BY <1>2, <1>4, <1>5, <1>6 DEF WalkOK
<1> QED
    BY <1>2, <1>7

Outcomes == {"none", "done", "caughtUp", "abandoned", "stuck", "resync", "failed"}

\* A step that sets one walk to a sound value, and the cursor and what has been
\* handed over within the server's history, keeps the types.
LEMMA TypeStep ==
    ASSUME TypeOK, history' = history,
           cursor' \in (0 .. Now) \union {NoCursor}, handed' \subseteq 1 .. Now,
           NEW w \in Walks, NEW x, WalkOK(x),
           walk' = [walk EXCEPT ![w] = x] \/ walk' = walk,
           NEW how \in Outcomes, outcome' = [outcome EXCEPT ![w] = how] \/ outcome' = outcome
    PROVE  TypeOK'
PROOF
<1>1. walk' \in [Walks -> Walk]
    BY DEF TypeOK, WalkOK
<1>2. outcome' \in [Walks -> Outcomes]
    BY DEF TypeOK, Outcomes
<1>3. Now' = Now
    BY DEF Now
<1>4. \A v \in Walks : /\ walk'[v].since <= Now' /\ walk'[v].reach <= Now'
                       /\ walk'[v].to <= Now' /\ walk'[v].told \subseteq 1 .. Now'
    BY <1>3 DEF TypeOK, WalkOK
<1> QED
    BY <1>1, <1>2, <1>3, <1>4 DEF TypeOK, Outcomes

LEMMA TypeInit == Init => TypeOK
PROOF
<1> SUFFICES ASSUME Init PROVE TypeOK
    OBVIOUS
<1>1. Now = 0 /\ history \in Seq([id : Ids, kind : Kinds])
    BY DEF Init, Now
<1>2. walk \in [Walks -> Walk]
    BY RestingIsWalk DEF Init
<1>3. \A w \in Walks : /\ walk[w].since <= Now /\ walk[w].reach <= Now
                       /\ walk[w].to <= Now /\ walk[w].told \subseteq 1 .. Now
  <2>1. /\ Resting.since <= Now /\ Resting.reach <= Now /\ Resting.to <= Now
        /\ Resting.told \subseteq 1 .. Now
    BY <1>1 DEF Resting
  <2>2. \A w \in Walks : walk[w] = Resting
    BY DEF Init
  <2> QED
    BY <2>1, <2>2
<1>4. outcome \in [Walks -> {"none", "done", "caughtUp", "abandoned", "stuck",
                              "resync", "failed"}]
    BY DEF Init
<1> QED
    BY <1>1, <1>2, <1>3, <1>4, ChangeStreamAssumption DEF Init, TypeOK


LEMMA TypeNext == TypeOK /\ [Next]_vars => TypeOK'
PROOF
<1> SUFFICES ASSUME TypeOK, [Next]_vars PROVE TypeOK'
    OBVIOUS
<1> USE DEF Outcomes
<1>0. Now \in Nat /\ handed \subseteq 1 .. Now /\ cursor \in (0 .. Now) \union {NoCursor}
    BY DEF TypeOK, Now
<1>1. ASSUME NEW id \in Ids, NEW kind \in Kinds, Change(id, kind) PROVE TypeOK'
  <2>1. history' \in Seq([id : Ids, kind : Kinds]) /\ Now' = Now + 1
    BY <1>1 DEF Change, TypeOK, Now
  <2>2. Now' <= MaxChanges
    BY <1>0, <1>1, <2>1, ChangeStreamAssumption DEF Change
  <2>3. handed' \subseteq 1 .. Now' /\ cursor' \in (0 .. Now') \union {NoCursor}
    BY <1>0, <1>1, <2>1 DEF Change
  <2>4. \A v \in Walks : /\ walk[v].since <= Now' /\ walk[v].reach <= Now'
                       /\ walk[v].to <= Now' /\ walk[v].told \subseteq 1 .. Now'
    BY <1>0, <2>1, WalkFacts
  <2> QED
    BY <1>1, <2>1, <2>2, <2>3, <2>4 DEF Change, TypeOK
<1>2. CASE Seed
  <2>1. cursor' \in 0 .. Now /\ handed' \subseteq 1 .. Now
    BY <1>0, <1>2 DEF Seed
  <2>2. Now' = Now
    BY <1>2 DEF Seed, Now
  <2> QED
    BY <1>2, <2>1, <2>2 DEF Seed, TypeOK
<1>3. CASE Reset
    BY <1>3 DEF Reset, TypeOK, Now
<1>4. CASE Crash
  <2>1. walk' \in [Walks -> Walk]
    BY <1>4, RestingIsWalk DEF Crash
  <2>2. \A v \in Walks : walk'[v] = Resting
    BY <1>4 DEF Crash
  <2>3. Now' = Now
    BY <1>4 DEF Crash, Now
  <2>4. \A v \in Walks : /\ walk'[v].since <= Now' /\ walk'[v].reach <= Now'
                       /\ walk'[v].to <= Now' /\ walk'[v].told \subseteq 1 .. Now'
    BY <2>2, <2>3, RestingOK DEF WalkOK
  <2>5. outcome' \in [Walks -> Outcomes]
    BY <1>4 DEF Crash
  <2> QED
    BY <1>4, <2>1, <2>3, <2>4, <2>5 DEF Crash, TypeOK
<1>5. ASSUME NEW w \in Walks, Stream(w) PROVE TypeOK'
  <2>0. WalkOK(Resting) /\ WalkOK(Advanced(w)) /\ WalkOK(Gathered(w)) /\ Covered(w) \subseteq 1 .. Now
    BY RestingOK, AdvancedOK, WalkFacts DEF Covered
  <2>1. ASSUME NEW mode \in {"pages", "all"}, Start(w, mode) PROVE TypeOK'
    <3>1. CASE cursor = NoCursor
        BY <1>0, <2>0, <2>1, <3>1, TypeStep DEF Start, End
    <3>2. CASE cursor # NoCursor
      <4> DEFINE x == [Resting EXCEPT !.mode = mode, !.at = "due", !.began = cursor,
                                      !.since = cursor, !.visited = {cursor}]
      <4>1. cursor \in Nat /\ cursor <= Now
        BY <1>0, <3>2
      <4>2. x \in Walk
        BY <4>1, RestingIsWalk DEF Walk
      <4>3. x.since = cursor /\ x.reach = Resting.reach /\ x.to = Resting.to
        BY DEF Resting
      <4>4. WalkOK(x)
        BY <2>0, <4>1, <4>2, <4>3 DEF WalkOK
      <4>5. walk' = [walk EXCEPT ![w] = x] /\ outcome' = [outcome EXCEPT ![w] = "none"]
        BY <2>1, <3>2 DEF Start
      <4> HIDE DEF x
      <4> QED
        BY <1>0, <2>1, <4>4, <4>5, TypeStep DEF Start
    <3> QED
        BY <3>1, <3>2
  <2>2. CASE Fetch(w)
    <3>1. PICK reach \in walk[w].since .. Now, more \in BOOLEAN :
            \E to \in walk[w].began .. reach :
                walk' = [walk EXCEPT ![w].at = "answered", ![w].reach = reach,
                                     ![w].to = to, ![w].more = more]
        BY <2>2 DEF Fetch
    <3>2. PICK to \in walk[w].began .. reach :
                walk' = [walk EXCEPT ![w].at = "answered", ![w].reach = reach,
                                     ![w].to = to, ![w].more = more]
        BY <3>1
    <3> DEFINE x == [walk[w] EXCEPT !.at = "answered", !.reach = reach, !.to = to, !.more = more]
    <3>3. walk' = [walk EXCEPT ![w] = x]
        BY <3>2 DEF TypeOK
    <3>4. reach \in Nat /\ to \in Nat /\ to <= reach /\ reach <= Now
        BY <1>0, WalkFacts
    <3>5. x \in Walk
        BY <3>4, WalkFacts DEF Walk
    <3>6. x.since = walk[w].since /\ x.reach = reach /\ x.to = to
        BY WalkFacts DEF Walk
    <3>7. WalkOK(x)
        BY <1>0, <3>4, <3>5, <3>6, WalkFacts DEF WalkOK
    <3> HIDE DEF x
    <3> QED
        BY <1>0, <2>2, <3>3, <3>7, TypeStep DEF Fetch
  <2>3. CASE FetchFails(w)
    <3>1. PICK how \in {"resync", "failed"} : End(w, how)
        BY <2>3 DEF FetchFails
    <3> QED
        BY <1>0, <2>0, <2>3, <3>1, TypeStep DEF FetchFails, End
  <2>4. CASE PullNext(w)
    <3>1. handed' \subseteq 1 .. Now
        BY <1>0, <2>0, <2>4 DEF PullNext
    <3>2. cursor' \in (0 .. Now) \union {NoCursor}
        BY <1>0, <2>4, WalkFacts DEF PullNext
    <3>3. CASE Circles(w) \/ ~walk[w].more
        BY <2>0, <2>4, <3>1, <3>2, <3>3, TypeStep DEF PullNext, End
    <3>4. CASE ~Circles(w) /\ walk[w].more
        BY <2>0, <2>4, <3>1, <3>2, <3>4, TypeStep DEF PullNext
    <3> QED
        BY <3>3, <3>4
  <2>5. CASE Abandon(w)
        BY <1>0, <2>0, <2>5, TypeStep DEF Abandon, End
  <2>6. CASE Collect(w)
    <3>1. CASE Circles(w)
        BY <1>0, <2>0, <2>6, <3>1, TypeStep DEF Collect, End
    <3>2. CASE ~Circles(w)
        BY <1>0, <2>0, <2>6, <3>2, TypeStep DEF Collect
    <3> QED
        BY <3>1, <3>2
  <2>7. CASE CaughtUp(w)
    <3> DEFINE x == [Gathered(w) EXCEPT !.at = "idle"]
    <3>1. x \in Walk
        BY <2>0 DEF WalkOK, Walk
    <3>2. /\ x.since = Gathered(w).since /\ x.reach = Gathered(w).reach
          /\ x.to = Gathered(w).to /\ x.told = Gathered(w).told
        BY <2>0 DEF WalkOK, Walk
    <3>3. WalkOK(x)
        BY <2>0, <3>1, <3>2 DEF WalkOK
    <3>4. cursor' \in 0 .. Now
        BY <2>7, WalkFacts DEF CaughtUp
    <3>5. handed' \subseteq 1 .. Now
        BY <1>0, <2>0, <2>7 DEF CaughtUp, WalkOK
    <3> HIDE DEF x
    <3>6. walk' = [walk EXCEPT ![w] = x]
        BY <2>7 DEF CaughtUp, x
    <3> QED
        BY <2>7, <3>3, <3>4, <3>5, <3>6, TypeStep DEF CaughtUp
  <2> QED
    BY <1>5, <2>1, <2>2, <2>3, <2>4, <2>5, <2>6, <2>7 DEF Stream
<1>6. CASE UNCHANGED vars
    BY <1>6 DEF vars, TypeOK, Now
<1> QED
    BY <1>1, <1>2, <1>3, <1>4, <1>5, <1>6 DEF Next


\* Every state of the stream, the stored cursor and the locals of the open walks
\* included, is of its type.
THEOREM TypeCorrect == Spec => []TypeOK
PROOF
BY TypeInit, TypeNext, PTL DEF Spec

----------------------------------------------------------------------------
\* The cursor

\* A walk nobody touches stands as long as what was handed over stays handed over.
LEMMA StandsStill ==
    ASSUME NEW v \in Walks, walk'[v] = walk[v], handed \subseteq handed', Stands(v)
    PROVE  Stands(v)'
PROOF
BY DEF Stands

\* One walk moves, to a value that stands; the rest stand still.
LEMMA StandsStep ==
    ASSUME TypeOK, WalksStand, NEW w \in Walks, NEW x,
           walk' = [walk EXCEPT ![w] = x], handed \subseteq handed',
           Open(w)' => Stands(w)'
    PROVE  WalksStand'
PROOF
<1> SUFFICES ASSUME NEW v \in Walks, Open(v)' PROVE Stands(v)'
    BY DEF WalksStand
<1>1. CASE v = w
    BY <1>1
<1>2. CASE v # w
  <2>1. walk'[v] = walk[v]
    BY <1>2 DEF TypeOK
  <2> QED
    BY <2>1, StandsStill DEF WalksStand, Open
<1> QED
    BY <1>1, <1>2

LEMMA InvariantInit == Init => AccountedFor /\ WalksStand
PROOF
<1> SUFFICES ASSUME Init PROVE AccountedFor /\ WalksStand
    OBVIOUS
<1>1. Resting.at = "idle"
    BY DEF Resting
<1>2. \A w \in Walks : ~Open(w)
    BY <1>1 DEF Init, Open
<1> QED
    BY <1>2 DEF Init, AccountedFor, WalksStand

\* A step of one walk: what it writes over the cursor is accounted for, and it still
\* stands where the caller is.
LEMMA StreamStep ==
    ASSUME TypeOK, AccountedFor, WalksStand, NEW w \in Walks, Stream(w)
    PROVE  AccountedFor' /\ WalksStand'
PROOF
<1>0. cursor \in (0 .. Now) \union {NoCursor} /\ Now \in Nat
    BY DEF TypeOK, Now
<1>1. Resting.at = "idle"
    BY DEF Resting
<1>2. ASSUME NEW how, End(w, how), handed \subseteq handed' PROVE WalksStand'
  <2>1. walk'[w] = Resting
    BY <1>2 DEF End, TypeOK
  <2> QED
    BY <1>1, <1>2, <2>1, StandsStep DEF End, Open
<1>3. Advanced(w) \in Walk /\ Advanced(w).since = walk[w].to /\ Advanced(w).at = "due"
        /\ Advanced(w).mode = walk[w].mode /\ Advanced(w).began = walk[w].began
        /\ Advanced(w).told = walk[w].told
    BY WalkFacts DEF Advanced, Walk
<1>4. /\ Gathered(w).since = walk[w].to /\ Gathered(w).at = "due"
      /\ Gathered(w).mode = walk[w].mode /\ Gathered(w).began = walk[w].began
      /\ Gathered(w).told = walk[w].told \union Covered(w)
    BY <1>3 DEF Gathered, Walk
<1>5. ASSUME NEW mode \in {"pages", "all"}, Start(w, mode) PROVE AccountedFor' /\ WalksStand'
  <2>1. AccountedFor'
    BY <1>5 DEF Start, AccountedFor
  <2>2. CASE cursor = NoCursor
    BY <1>2, <1>5, <2>1, <2>2 DEF Start
  <2>3. CASE cursor # NoCursor
    <3> DEFINE x == [Resting EXCEPT !.mode = mode, !.at = "due", !.began = cursor,
                                    !.since = cursor, !.visited = {cursor}]
    <3>1. walk' = [walk EXCEPT ![w] = x] /\ handed' = handed
        BY <1>5, <2>3 DEF Start
    <3>2. x.at = "due" /\ x.mode = mode /\ x.began = cursor /\ x.since = cursor
        BY DEF Resting
    <3>3. walk'[w] = x
        BY <3>1 DEF TypeOK
    <3>4. 1 .. cursor \subseteq handed /\ (cursor + 1) .. cursor = {}
        BY <1>0, <2>3 DEF AccountedFor
    <3> HIDE DEF x
    <3>5. Stands(w)'
        BY <3>1, <3>2, <3>3, <3>4 DEF Stands
    <3> QED
        BY <2>1, <3>1, <3>5, StandsStep
  <2> QED
    BY <2>2, <2>3
<1>6. CASE Fetch(w)
  <2>1. PICK reach \in walk[w].since .. Now, more \in BOOLEAN :
            \E to \in walk[w].began .. reach :
                walk' = [walk EXCEPT ![w].at = "answered", ![w].reach = reach,
                                     ![w].to = to, ![w].more = more]
        BY <1>6 DEF Fetch
  <2>2. PICK to \in walk[w].began .. reach :
                walk' = [walk EXCEPT ![w].at = "answered", ![w].reach = reach,
                                     ![w].to = to, ![w].more = more]
        BY <2>1
  <2> DEFINE x == [walk[w] EXCEPT !.at = "answered", !.reach = reach, !.to = to, !.more = more]
  <2>3. walk' = [walk EXCEPT ![w] = x] /\ walk'[w] = x
        BY <2>2 DEF TypeOK
  <2>4. walk[w].since <= reach /\ to <= reach
        BY <1>0, WalkFacts
  <2>5. /\ x.since = walk[w].since /\ x.reach = reach /\ x.to = to
        /\ x.mode = walk[w].mode /\ x.began = walk[w].began /\ x.told = walk[w].told
        BY WalkFacts DEF Walk
  <2>6. Stands(w)
        BY <1>6 DEF Fetch, WalksStand, Open
  <2> HIDE DEF x
  <2>7. handed' = handed /\ cursor' = cursor
        BY <1>6 DEF Fetch
  <2>8. Stands(w)'
        BY <2>3, <2>4, <2>5, <2>6, <2>7 DEF Stands
  <2> QED
        BY <2>3, <2>7, <2>8, StandsStep DEF AccountedFor
<1>7. CASE FetchFails(w)
    BY <1>2, <1>7 DEF FetchFails, AccountedFor
<1>8. CASE Abandon(w)
    BY <1>2, <1>8 DEF Abandon, AccountedFor
<1>9. CASE PullNext(w)
  <2>1. 1 .. walk[w].since \subseteq handed /\ walk[w].to <= walk[w].reach
    BY <1>9 DEF PullNext, WalksStand, Open, Stands
  <2>2. handed' = handed \union ((walk[w].since + 1) .. walk[w].reach)
    BY <1>9 DEF PullNext, Covered
  <2>3. 1 .. walk[w].to \subseteq handed'
    BY <2>1, <2>2, WalkFacts
  <2>4. AccountedFor'
    BY <1>9, <2>2, <2>3 DEF PullNext, AccountedFor
  <2>5. CASE Circles(w) \/ ~walk[w].more
    BY <1>2, <1>9, <2>2, <2>4, <2>5 DEF PullNext
  <2>6. CASE ~Circles(w) /\ walk[w].more
    <3>1. walk' = [walk EXCEPT ![w] = Advanced(w)] /\ walk'[w] = Advanced(w)
        BY <1>9, <2>6 DEF PullNext, TypeOK
    <3>2. Stands(w)'
        BY <1>3, <1>9, <2>3, <3>1 DEF Stands, PullNext
    <3> QED
        BY <2>2, <2>4, <3>1, <3>2, StandsStep
  <2> QED
    BY <2>5, <2>6
<1>10. CASE Collect(w)
  <2>1. AccountedFor' /\ handed' = handed
    BY <1>10 DEF Collect, AccountedFor
  <2>2. CASE Circles(w)
    BY <1>2, <1>10, <2>1, <2>2 DEF Collect
  <2>3. CASE ~Circles(w)
    <3>1. walk' = [walk EXCEPT ![w] = Gathered(w)] /\ walk'[w] = Gathered(w)
        BY <1>10, <2>3 DEF Collect, TypeOK
    <3>2. /\ 1 .. walk[w].began \subseteq handed /\ walk[w].to <= walk[w].reach
          /\ (walk[w].began + 1) .. walk[w].since \subseteq walk[w].told
        BY <1>10 DEF Collect, WalksStand, Open, Stands
    <3>3. (walk[w].began + 1) .. walk[w].to \subseteq walk[w].told \union Covered(w)
        BY <3>2, WalkFacts DEF Covered
    <3>4. Stands(w)'
        BY <1>4, <1>10, <2>1, <3>1, <3>2, <3>3 DEF Stands, Collect
    <3> QED
        BY <2>1, <3>1, <3>4, StandsStep
  <2> QED
    BY <2>2, <2>3
<1>11. CASE CaughtUp(w)
  <2>1. /\ 1 .. walk[w].began \subseteq handed /\ walk[w].to <= walk[w].reach
        /\ (walk[w].began + 1) .. walk[w].since \subseteq walk[w].told
    BY <1>11 DEF CaughtUp, WalksStand, Open, Stands
  <2>2. handed' = handed \union walk[w].told \union ((walk[w].since + 1) .. walk[w].reach)
    BY <1>4, <1>11 DEF CaughtUp, Covered
  <2>3. 1 .. walk[w].to \subseteq handed'
    BY <2>1, <2>2, WalkFacts
  <2>4. AccountedFor'
    BY <1>11, <2>3 DEF CaughtUp, AccountedFor
  <2>5. walk'[w].at = "idle"
    BY <1>11, WalkFacts DEF CaughtUp, TypeOK, Gathered, Advanced, Walk
  <2> QED
    BY <1>11, <2>2, <2>4, <2>5, StandsStep DEF CaughtUp, Open
<1> QED
    BY <1>5, <1>6, <1>7, <1>8, <1>9, <1>10, <1>11 DEF Stream


LEMMA InvariantNext ==
    ASSUME ~ResetMidWalk
    PROVE  Inductive /\ [Next]_vars => AccountedFor' /\ WalksStand'
PROOF
<1> SUFFICES ASSUME Inductive, [Next]_vars PROVE AccountedFor' /\ WalksStand'
    OBVIOUS
<1>0. TypeOK /\ AccountedFor /\ WalksStand
    BY DEF Inductive
<1>1. ASSUME walk' = walk, handed \subseteq handed' PROVE WalksStand'
    BY <1>0, <1>1, StandsStill DEF WalksStand, Open
<1>2. ASSUME NEW id \in Ids, NEW kind \in Kinds, Change(id, kind)
      PROVE  AccountedFor' /\ WalksStand'
    BY <1>0, <1>1, <1>2 DEF Change, AccountedFor
<1>3. CASE Seed
    BY <1>1, <1>3 DEF Seed, AccountedFor
<1>4. CASE Reset
    BY <1>4 DEF Reset, AccountedFor, WalksStand, Open
<1>5. CASE Crash
  <2>1. \A w \in Walks : walk'[w].at = "idle"
    BY <1>5 DEF Crash, Resting
  <2> QED
    BY <1>0, <1>5, <2>1 DEF Crash, AccountedFor, WalksStand, Open
<1>6. ASSUME NEW w \in Walks, Stream(w) PROVE AccountedFor' /\ WalksStand'
    BY <1>0, <1>6, StreamStep
<1>7. CASE UNCHANGED vars
    BY <1>0, <1>1, <1>7 DEF vars, AccountedFor
<1> QED
    BY <1>2, <1>3, <1>4, <1>5, <1>6, <1>7 DEF Next

LEMMA Invariant == ASSUME ~ResetMidWalk PROVE Spec => []Inductive
PROOF
<1>1. Init => Inductive
    BY TypeInit, InvariantInit DEF Inductive
<1>2. Inductive /\ [Next]_vars => Inductive'
    BY TypeNext, InvariantNext DEF Inductive
<1> QED
    BY <1>1, <1>2, PTL DEF Spec

\* At-least-once delivery: with no reset() inside an open walk, every change before
\* the stored cursor has been handed to the caller, for any number of walks over the
\* cursor, abandoned, failing, crashing or led in circles as they may be.
THEOREM NothingIsSkipped == ASSUME ~ResetMidWalk PROVE Spec => []AccountedFor
PROOF
<1>1. Inductive => AccountedFor
    BY DEF Inductive
<1> QED
    BY <1>1, Invariant, PTL

----------------------------------------------------------------------------
\* Refinement

\* A step that leaves the history alone and the cursor as it was or accounted for
\* is one that Delivery allows.
LEMMA SettleOrStutter ==
    ASSUME TypeOK, TypeOK', AccountedFor', history' = history, handed \subseteq handed',
           cursor' # NoCursor \/ cursor' = cursor
    PROVE  Promise!Settle
PROOF
<1>1. Now' = Now /\ Now \in Nat
    BY DEF Now, TypeOK
<1>2. handed' = handed \union handed' /\ handed' \in SUBSET (1 .. Now)
    BY <1>1 DEF TypeOK
<1>3. cursor' # NoCursor => cursor' \in 0 .. Now /\ 1 .. cursor' \subseteq handed'
    BY <1>1 DEF TypeOK, AccountedFor
<1> QED
    BY <1>1, <1>2, <1>3 DEF Promise!Settle

LEMMA StepKeepsPromise ==
    ASSUME ~ResetMidWalk
    PROVE  Inductive /\ Inductive' /\ [Next]_vars => [Promise!Next]_(Promise!vars)
PROOF
<1> SUFFICES ASSUME Inductive, Inductive', [Next]_vars
             PROVE  [Promise!Next]_(Promise!vars)
    OBVIOUS
<1>0. TypeOK /\ TypeOK' /\ AccountedFor'
    BY DEF Inductive
<1>1. ASSUME NEW id \in Ids, NEW kind \in Kinds, Change(id, kind) PROVE Promise!Happen
  <2>1. Now' = Now + 1
    BY <1>0, <1>1 DEF Change, TypeOK, Now
  <2> QED
    BY <1>1, <2>1 DEF Change, Promise!Happen
<1>2. CASE Seed
  <2>1. cursor' \in 0 .. Now /\ handed \subseteq handed' /\ history' = history
    BY <1>2 DEF Seed
  <2>2. cursor' # NoCursor
    BY <2>1, ChangeStreamAssumption
  <2> QED
    BY <1>0, <2>1, <2>2, SettleOrStutter DEF Promise!Next
<1>3. CASE Reset
    BY <1>3 DEF Reset, Promise!Next, Promise!Discard, Now
<1>4. CASE Crash
    BY <1>4 DEF Crash, Promise!vars, Now
<1>5. ASSUME NEW w \in Walks, Stream(w) PROVE Promise!Settle
  <2>1. walk[w].to # NoCursor
    BY <1>0, WalkFacts, ChangeStreamAssumption
  <2>2. /\ history' = history /\ handed \subseteq handed'
        /\ cursor' # NoCursor \/ cursor' = cursor
    BY <1>5, <2>1 DEF Stream, Start, Fetch, FetchFails, PullNext, Abandon, Collect, CaughtUp
  <2> QED
    BY <1>0, <2>2, SettleOrStutter
<1>6. CASE UNCHANGED vars
    BY <1>6 DEF vars, Promise!vars, Now
<1> QED
    BY <1>1, <1>2, <1>3, <1>4, <1>5, <1>6 DEF Next, Promise!Next

\* Sharing one cursor between walks implements Delivery: every step of the stream is
\* a step of the abstract cursor, or none.
THEOREM ImplementsDelivery == ASSUME ~ResetMidWalk PROVE Spec => KeepsPromise
PROOF
<1>1. Init => Promise!Init
    BY DEF Init, Promise!Init, Now
<1> QED
    BY <1>1, StepKeepsPromise, Invariant, PTL DEF Spec, KeepsPromise, Promise!Spec

----------------------------------------------------------------------------
\* ChangeSetSuffices, whatever the caller resets.  A record is created once and
\* destroyed once, and only what was created is updated or destroyed.

Lives ==
    /\ \A j, k \in 1 .. Now : /\ history[j].id = history[k].id
                              /\ history[j].kind = history[k].kind /\ history[k].kind # "update"
                              => j = k
    /\ \A k \in 1 .. Now : history[k].kind # "create" =>
            Happened(history[k].id, "create", 0, k - 1)

\* The set of a walk says what its records need to know of the changes it tells of.
Tells(x) ==
    \A k \in x.told :
        LET id == history[k].id IN
        /\ history[k].kind # "destroy" /\ ~Happened(id, "destroy", 0, Now) =>
                id \in x.set.created \union x.set.updated
        /\ history[k].kind = "destroy" /\ Happened(id, "create", 0, x.began) =>
                id \in x.set.destroyed

\* What a walk tells of has no gap before the place where it stands.
Gapless(x) ==
    /\ x.began <= x.since
    /\ x.mode = "all" => (x.began + 1) .. x.since \subseteq x.told
    /\ x.at = "answered" => x.since <= x.reach /\ x.began <= x.to /\ x.to <= x.reach

Gathers ==
    /\ \A w \in Walks : Tells(walk[w]) /\ Gapless(walk[w])
    /\ \A w \in Walks : outcome[w] = "caughtUp" =>
            walk[w].at = "idle" /\ walk[w].mode = "all" /\ walk[w].since = walk[w].to

LEMMA HistoryFacts ==
    ASSUME TypeOK
    PROVE  /\ Now \in Nat
           /\ \A k \in 1 .. Now : /\ history[k] \in [id : Ids, kind : Kinds]
                                 /\ history[k].id \in Ids /\ history[k].kind \in Kinds
           /\ history \in Seq([id : Ids, kind : Kinds])
PROOF
<1>1. history \in Seq([id : Ids, kind : Kinds])
    BY DEF TypeOK
<1>2. Now \in Nat /\ DOMAIN history = 1 .. Now
    BY <1>1 DEF Now
<1>3. \A k \in 1 .. Now : history[k] \in [id : Ids, kind : Kinds]
    BY <1>1, <1>2, ElementOfSeq DEF Now
<1> QED
    BY <1>1, <1>2, <1>3

\* What a page says of the changes it covers.
LEMMA PageTells ==
    ASSUME TypeOK, Lives, NEW s \in Nat, NEW t \in Nat, t <= Now, NEW k \in (s + 1) .. t,
           NEW began \in Nat, began <= s, NEW id, id = history[k].id
    PROVE  /\ history[k].kind # "destroy" /\ ~Happened(id, "destroy", 0, Now) =>
                id \in Page(s, t).created \union Page(s, t).updated
           /\ history[k].kind = "destroy" /\ Happened(id, "create", 0, began) =>
                id \in Page(s, t).destroyed
PROOF
<1>1. /\ Now \in Nat /\ k \in 1 .. Now /\ id \in Ids /\ history[k].kind \in Kinds
      /\ s < k /\ k <= t
    BY HistoryFacts
<1>2. history[k].kind # "update" =>
        \A j \in 1 .. Now : history[j].id = id /\ history[j].kind = history[k].kind => j = k
    BY <1>1 DEF Lives
<1>3. history[k].kind # "create" => Happened(id, "create", 0, k - 1)
    BY <1>1 DEF Lives
<1>4. ASSUME history[k].kind # "destroy", ~Happened(id, "destroy", 0, Now)
      PROVE  id \in Page(s, t).created \union Page(s, t).updated
  <2>1. Happened(id, "create", 0, t)
    <3>1. CASE history[k].kind = "create"
      <4>1. history[k] = [id |-> id, kind |-> "create"]
        <5>1. history[k] \in [id : Ids, kind : Kinds]
            BY <1>1, HistoryFacts
        <5> QED
            BY <3>1, <5>1
      <4>2. k \in (0 + 1) .. t
        BY <1>1
      <4> QED
        BY <4>1, <4>2 DEF Happened
    <3>2. CASE history[k].kind # "create"
        BY <1>1, <1>3, <3>2 DEF Happened
    <3> QED
        BY <3>1, <3>2
  <2>2. ~Happened(id, "destroy", 0, t) /\ ~Happened(id, "destroy", 0, s)
      BY <1>1, <1>4 DEF Happened
  <2>3. Alive(id, t) /\ (Alive(id, s) <=> Happened(id, "create", 0, s))
      BY <2>1, <2>2 DEF Alive
  <2>4. CASE Alive(id, s)
    <3>1. PICK j \in 1 .. s : history[j] = [id |-> id, kind |-> "create"]
        BY <2>3, <2>4 DEF Happened
    <3>2. history[k].kind # "create"
        BY <1>1, <1>2, <3>1
    <3>3. history[k] = [id |-> id, kind |-> "update"]
      <4>1. history[k] \in [id : Ids, kind : Kinds] /\ history[k].kind = "update"
          BY <1>1, <1>4, <3>2, HistoryFacts DEF Kinds
      <4> QED
          BY <4>1
    <3>4. Happened(id, "update", s, t)
        BY <1>1, <3>3 DEF Happened
    <3> QED
        BY <1>1, <2>3, <2>4, <3>4 DEF Page
  <2>5. CASE ~Alive(id, s)
      BY <1>1, <2>3, <2>5 DEF Page
  <2> QED
      BY <2>4, <2>5
<1>5. ASSUME history[k].kind = "destroy", Happened(id, "create", 0, began)
      PROVE  id \in Page(s, t).destroyed
  <2>1. Happened(id, "create", 0, s)
      BY <1>5 DEF Happened
  <2>2. ~Happened(id, "destroy", 0, s)
    <3>1. \A j \in 1 .. s : j \in 1 .. Now /\ j # k
        BY <1>1
    <3>2. \A j \in 1 .. s : history[j] # [id |-> id, kind |-> "destroy"]
        BY <1>2, <1>5, <3>1
    <3> QED
        BY <3>2 DEF Happened
  <2>3. Happened(id, "destroy", 0, t)
    <3>1. history[k] = [id |-> id, kind |-> "destroy"]
      <4>1. history[k] \in [id : Ids, kind : Kinds]
          BY <1>1, HistoryFacts
      <4> QED
          BY <1>5, <4>1
    <3>2. k \in (0 + 1) .. t
        BY <1>1
    <3> QED
        BY <3>1, <3>2 DEF Happened
  <2> QED
      BY <1>1, <2>1, <2>2, <2>3 DEF Page, Alive
<1> QED
    BY <1>4, <1>5

LEMMA RestingGathers == Tells(Resting) /\ Gapless(Resting)
PROOF
BY DEF Tells, Gapless, Resting

LEMMA GathersInit == Init => Lives /\ Gathers
PROOF
<1> SUFFICES ASSUME Init PROVE Lives /\ Gathers
    OBVIOUS
<1>1. Now = 0 /\ 1 .. Now = {}
    BY DEF Init, Now
<1>2. \A w \in Walks : walk[w] = Resting /\ outcome[w] # "caughtUp"
    BY DEF Init
<1> QED
    BY <1>1, <1>2, RestingGathers DEF Lives, Gathers

\* A new change: what was told stays so, and what it makes needless stays needless.
LEMMA GathersGrow ==
    ASSUME TypeOK, Lives, Gathers, NEW id \in Ids, NEW kind \in Kinds, Change(id, kind)
    PROVE  Lives' /\ Gathers'
PROOF
<1>1. PICK e : e = [id |-> id, kind |-> kind]
    OBVIOUS
<1>2. /\ Now \in Nat /\ Now' = Now + 1 /\ history'[Now + 1] = e
      /\ \A k \in 1 .. Now : history'[k] = history[k]
      /\ UNCHANGED <<walk, outcome>>
  <2>1. history \in Seq([id : Ids, kind : Kinds]) /\ e \in [id : Ids, kind : Kinds]
      BY <1>1, HistoryFacts
  <2>2. history' = Append(history, e)
      BY <1>1 DEF Change
  <2> QED
      BY <2>1, <2>2 DEF Now, Change
<1>3. \A i, what : \A t \in 0 .. Now : Happened(i, what, 0, t)' <=> Happened(i, what, 0, t)
    BY <1>2 DEF Happened
<1>4. \A i, what : Happened(i, what, 0, Now) => Happened(i, what, 0, Now)'
    BY <1>2 DEF Happened
<1>5. /\ kind = "create" => ~Happened(id, "create", 0, Now)
      /\ kind # "create" => Happened(id, "create", 0, Now) /\ ~Happened(id, "destroy", 0, Now)
    BY DEF Change, Alive
<1>6. Lives'
  <2>1. ASSUME NEW j \in 1 .. Now, history[j].id = id, history[j].kind = kind, kind # "update"
        PROVE  FALSE
    <3>1. history[j] = [id |-> id, kind |-> kind]
      <4>1. history[j] \in [id : Ids, kind : Kinds]
          BY HistoryFacts
      <4> QED
          BY <2>1, <4>1
    <3>2. Happened(id, kind, 0, Now)
        BY <1>2, <3>1 DEF Happened
    <3> QED
        BY <1>5, <2>1, <3>2 DEF Kinds
  <2>2. ASSUME NEW j \in 1 .. (Now + 1), NEW k \in 1 .. (Now + 1),
               history'[j].id = history'[k].id, history'[j].kind = history'[k].kind,
               history'[k].kind # "update"
        PROVE  j = k
    <3>1. CASE j \in 1 .. Now /\ k \in 1 .. Now
        BY <1>2, <2>2, <3>1 DEF Lives
    <3>2. CASE j = Now + 1 /\ k \in 1 .. Now
        BY <1>1, <1>2, <2>1, <2>2, <3>2
    <3>3. CASE k = Now + 1 /\ j \in 1 .. Now
        BY <1>1, <1>2, <2>1, <2>2, <3>3
    <3> QED
        BY <1>2, <3>1, <3>2, <3>3
  <2>3. ASSUME NEW k \in 1 .. (Now + 1), history'[k].kind # "create"
        PROVE  Happened(history[k].id, "create", 0, k - 1)'
    <3>1. CASE k \in 1 .. Now
      <4>1. Happened(history[k].id, "create", 0, k - 1)
          BY <1>2, <2>3, <3>1 DEF Lives
      <4> QED
          BY <1>2, <3>1, <4>1 DEF Happened
    <3>2. CASE k = Now + 1
      <4>1. Happened(id, "create", 0, Now) /\ history'[k].id = id
          BY <1>1, <1>2, <1>5, <2>3, <3>2
      <4> QED
          BY <1>2, <3>2, <4>1 DEF Happened
    <3> QED
        BY <1>2, <3>1, <3>2
  <2> QED
      BY <1>2, <2>2, <2>3 DEF Lives
<1>7. Gathers'
  <2>1. ASSUME NEW w \in Walks PROVE Tells(walk[w])'
    <3>1. /\ walk[w].told \subseteq 1 .. Now /\ walk[w].began \in 0 .. Now
          /\ Tells(walk[w])
        BY <1>2, WalkFacts DEF Gathers, Gapless
    <3>2. ASSUME NEW k \in walk[w].told, NEW i, i = history[k].id
          PROVE  /\ history'[k].id = i /\ history'[k].kind = history[k].kind
                 /\ ~Happened(i, "destroy", 0, Now)' => ~Happened(i, "destroy", 0, Now)
                 /\ Happened(i, "create", 0, walk[w].began)'
                        => Happened(i, "create", 0, walk[w].began)
        BY <1>2, <1>3, <1>4, <3>1, <3>2 DEF Happened
    <3> QED
        BY <1>2, <3>1, <3>2 DEF Tells, Happened
  <2> QED
      BY <1>2, <2>1 DEF Gathers, Gapless
<1> QED
    BY <1>6, <1>7

\* A step of one walk that leaves the server alone.
LEMMA GathersStep ==
    ASSUME TypeOK, Lives, Gathers, history' = history, NEW w \in Walks, NEW x,
           walk' = [walk EXCEPT ![w] = x], Tells(x), Gapless(x),
           NEW how, outcome' = [outcome EXCEPT ![w] = how] \/ (outcome' = outcome /\ how = outcome[w]),
           how = "caughtUp" => x.at = "idle" /\ x.mode = "all" /\ x.since = x.to
    PROVE  Lives' /\ Gathers'
PROOF
<1>1. Now' = Now
    BY DEF Now
<1>2. Lives'
    BY <1>1 DEF Lives, Happened
<1>3. \A v \in Walks : /\ walk'[v] = IF v = w THEN x ELSE walk[v]
                       /\ outcome'[v] = IF v = w THEN how ELSE outcome[v]
    BY DEF TypeOK
<1>4. \A v \in Walks : Tells(walk'[v])
    BY <1>3 DEF Gathers
<1>5. \A v \in Walks : Tells(walk[v])'
    BY <1>1, <1>4 DEF Tells, Happened
<1>6. \A v \in Walks : Gapless(walk[v])'
    BY <1>3 DEF Gathers, Gapless
<1>7. \A v \in Walks : outcome'[v] = "caughtUp" =>
            walk'[v].at = "idle" /\ walk'[v].mode = "all" /\ walk'[v].since = walk'[v].to
    BY <1>3 DEF Gathers
<1> QED
    BY <1>2, <1>5, <1>6, <1>7 DEF Gathers

\* catch_up's set after one more page.
LEMMA GatheredTells ==
    ASSUME TypeOK, Lives, Gathers, NEW w \in Walks,
           walk[w].at = "answered", walk[w].mode = "all"
    PROVE  /\ Tells(Gathered(w))
           /\ Gathered(w).began <= Gathered(w).since
           /\ (Gathered(w).began + 1) .. Gathered(w).since \subseteq Gathered(w).told
           /\ Gathered(w).at = "due" /\ Gathered(w).mode = "all" /\ Gathered(w) \in Walk
           /\ Gathered(w).since = walk[w].to /\ Gathered(w).to = walk[w].to
PROOF
<1> DEFINE page == Page(walk[w].since, walk[w].reach)
<1>0. /\ walk[w] \in Walk /\ walk[w].began \in Nat /\ walk[w].since \in Nat
      /\ walk[w].reach \in Nat /\ walk[w].to \in Nat /\ walk[w].reach <= Now /\ Now \in Nat
    BY WalkFacts
<1>1. /\ walk[w].began <= walk[w].since /\ walk[w].since <= walk[w].reach
      /\ walk[w].began <= walk[w].to /\ walk[w].to <= walk[w].reach
      /\ (walk[w].began + 1) .. walk[w].since \subseteq walk[w].told
    BY DEF Gathers, Gapless
<1>2. /\ Gathered(w).began = walk[w].began /\ Gathered(w).since = walk[w].to
      /\ Gathered(w).to = walk[w].to /\ Gathered(w).at = "due" /\ Gathered(w).mode = "all"
      /\ Gathered(w).told = walk[w].told \union Covered(w)
      /\ Gathered(w).set.created = walk[w].set.created \union page.created
      /\ Gathered(w).set.updated = walk[w].set.updated \union page.updated
      /\ Gathered(w).set.destroyed = walk[w].set.destroyed \union page.destroyed
    BY <1>0 DEF Gathered, Advanced, Absorbed, Walk
<1>3. Gathered(w) \in Walk
    BY AdvancedOK DEF WalkOK
<1>4. (walk[w].began + 1) .. walk[w].to \subseteq walk[w].told \union Covered(w)
    BY <1>0, <1>1 DEF Covered
<1>5. Tells(Gathered(w))
  <2> SUFFICES ASSUME NEW k \in walk[w].told \union Covered(w), NEW id, id = history[k].id
        PROVE /\ history[k].kind # "destroy" /\ ~Happened(id, "destroy", 0, Now) =>
                    id \in Gathered(w).set.created \union Gathered(w).set.updated
              /\ history[k].kind = "destroy" /\ Happened(id, "create", 0, walk[w].began) =>
                    id \in Gathered(w).set.destroyed
      BY <1>2 DEF Tells
  <2>1. CASE k \in walk[w].told
      BY <1>2, <2>1 DEF Gathers, Tells
  <2>2. CASE k \in Covered(w)
    <3>1. /\ history[k].kind # "destroy" /\ ~Happened(id, "destroy", 0, Now) =>
                id \in page.created \union page.updated
          /\ history[k].kind = "destroy" /\ Happened(id, "create", 0, walk[w].began) =>
                id \in page.destroyed
        BY <1>0, <1>1, <2>2, PageTells DEF Covered
    <3> QED
        BY <1>2, <3>1
  <2> QED
      BY <2>1, <2>2
<1> QED
    BY <1>1, <1>2, <1>3, <1>4, <1>5

LEMMA GathersStream ==
    ASSUME TypeOK, Lives, Gathers, NEW w \in Walks, Stream(w)
    PROVE  Lives' /\ Gathers'
PROOF
<1>0. /\ walk[w] \in Walk /\ walk[w].began \in Nat /\ walk[w].since \in Nat
      /\ walk[w].reach \in Nat /\ walk[w].to \in Nat /\ Now \in Nat
      /\ Tells(walk[w]) /\ Gapless(walk[w])
      /\ (outcome[w] = "caughtUp" => walk[w].at = "idle")
    BY WalkFacts DEF Gathers
<1>1. ASSUME NEW how, how # "caughtUp", End(w, how), history' = history
      PROVE  Lives' /\ Gathers'
    BY <1>1, RestingGathers, GathersStep DEF End
<1>2. ASSUME NEW mode \in {"pages", "all"}, Start(w, mode) PROVE Lives' /\ Gathers'
  <2>1. CASE cursor = NoCursor
      BY <1>1, <1>2, <2>1 DEF Start
  <2>2. CASE cursor # NoCursor
    <3>1. PICK x : x = [Resting EXCEPT !.mode = mode, !.at = "due", !.began = cursor,
                                       !.since = cursor, !.visited = {cursor}]
        OBVIOUS
    <3>2. cursor \in Nat
        BY <1>0, <2>2 DEF TypeOK
    <3>3. x.told = {} /\ x.began = cursor /\ x.since = cursor /\ x.at = "due"
        BY <3>1 DEF Resting
    <3>4. Tells(x) /\ Gapless(x)
        BY <3>2, <3>3 DEF Tells, Gapless
    <3>5. /\ walk' = [walk EXCEPT ![w] = x] /\ outcome' = [outcome EXCEPT ![w] = "none"]
          /\ history' = history
        BY <1>2, <2>2, <3>1 DEF Start
    <3> QED
        BY <3>4, <3>5, GathersStep
  <2> QED
      BY <2>1, <2>2
<1>3. CASE Fetch(w)
  <2>1. PICK reach \in walk[w].since .. Now, more \in BOOLEAN :
            \E to \in walk[w].began .. reach :
                walk' = [walk EXCEPT ![w].at = "answered", ![w].reach = reach,
                                     ![w].to = to, ![w].more = more]
      BY <1>3 DEF Fetch
  <2>0. PICK to \in walk[w].began .. reach :
            walk' = [walk EXCEPT ![w].at = "answered", ![w].reach = reach,
                                 ![w].to = to, ![w].more = more]
      BY <2>1
  <2>2. PICK x : x = [walk[w] EXCEPT !.at = "answered", !.reach = reach, !.to = to, !.more = more]
      OBVIOUS
  <2>3. walk' = [walk EXCEPT ![w] = x]
      BY <2>0, <2>2 DEF TypeOK
  <2>4. /\ x.told = walk[w].told /\ x.set = walk[w].set /\ x.began = walk[w].began
        /\ x.since = walk[w].since /\ x.mode = walk[w].mode /\ x.reach = reach /\ x.to = to
      BY <1>0, <2>2 DEF Walk
  <2>5. Tells(x) /\ Gapless(x)
      BY <1>0, <2>1, <2>4 DEF Tells, Gapless
  <2>6. outcome' = outcome /\ history' = history /\ outcome[w] # "caughtUp"
      BY <1>0, <1>3 DEF Fetch
  <2> QED
      BY <2>3, <2>5, <2>6, GathersStep
<1>4. CASE FetchFails(w)
    BY <1>1, <1>4 DEF FetchFails
<1>5. CASE Abandon(w)
    BY <1>1, <1>5 DEF Abandon
<1>6. CASE PullNext(w)
  <2>1. walk[w].at = "answered" /\ walk[w].mode = "pages" /\ history' = history
      BY <1>6 DEF PullNext
  <2>2. CASE walk' = [walk EXCEPT ![w] = Advanced(w)] /\ outcome' = outcome
    <3>1. /\ Advanced(w).told = walk[w].told /\ Advanced(w).set = walk[w].set
          /\ Advanced(w).began = walk[w].began /\ Advanced(w).since = walk[w].to
          /\ Advanced(w).mode = walk[w].mode /\ Advanced(w).at = "due"
        BY <1>0 DEF Advanced, Walk
    <3>2. Tells(Advanced(w)) /\ Gapless(Advanced(w))
        BY <1>0, <2>1, <3>1 DEF Tells, Gapless
    <3> QED
        BY <1>0, <2>1, <2>2, <3>2, GathersStep
  <2>3. CASE \E how \in {"stuck", "done"} : End(w, how)
      BY <1>1, <2>1, <2>3
  <2> QED
      BY <1>6, <2>2, <2>3 DEF PullNext
<1>7. CASE Collect(w)
  <2>1. walk[w].at = "answered" /\ walk[w].mode = "all" /\ history' = history
      BY <1>7 DEF Collect
  <2>2. CASE walk' = [walk EXCEPT ![w] = Gathered(w)] /\ outcome' = outcome
    <3>1. Tells(Gathered(w)) /\ Gapless(Gathered(w))
        BY <2>1, GatheredTells DEF Gapless
    <3> QED
        BY <1>0, <2>1, <2>2, <3>1, GathersStep
  <2> QED
      BY <1>1, <1>7, <2>1, <2>2 DEF Collect
<1>8. CASE CaughtUp(w)
  <2>1. /\ walk[w].at = "answered" /\ walk[w].mode = "all" /\ history' = history
        /\ outcome' = [outcome EXCEPT ![w] = "caughtUp"]
      BY <1>8 DEF CaughtUp
  <2>2. PICK x : x = [Gathered(w) EXCEPT !.at = "idle"]
      OBVIOUS
  <2>3. /\ x.told = Gathered(w).told /\ x.set = Gathered(w).set /\ x.began = Gathered(w).began
        /\ x.since = Gathered(w).since /\ x.to = Gathered(w).to /\ x.mode = "all" /\ x.at = "idle"
      BY <2>1, <2>2, GatheredTells DEF Walk
  <2>4. Tells(x) /\ Gapless(x) /\ x.since = x.to
      BY <2>1, <2>3, GatheredTells DEF Tells, Gapless
  <2>5. walk' = [walk EXCEPT ![w] = x]
      BY <1>8, <2>2 DEF CaughtUp
  <2> QED
      BY <2>1, <2>3, <2>4, <2>5, GathersStep
<1> QED
    BY <1>2, <1>3, <1>4, <1>5, <1>6, <1>7, <1>8 DEF Stream

LEMMA GathersNext ==
    ASSUME TypeOK, Lives, Gathers, [Next]_vars PROVE Lives' /\ Gathers'
PROOF
<1>1. CASE Seed \/ Reset \/ UNCHANGED vars
  <2>1. UNCHANGED <<history, walk, outcome>>
      BY <1>1 DEF Seed, Reset, vars
  <2>2. Now' = Now
      BY <2>1 DEF Now
  <2> QED
      BY <2>1, <2>2 DEF Lives, Gathers, Tells, Gapless, Happened
<1>2. CASE Crash
  <2>1. history' = history /\ \A w \in Walks : walk'[w] = Resting /\ outcome'[w] # "caughtUp"
      BY <1>2 DEF Crash
  <2>2. Now' = Now
      BY <2>1 DEF Now
  <2>3. Lives'
      BY <2>1, <2>2 DEF Lives, Happened
  <2>4. \A w \in Walks : Tells(walk[w])' /\ Gapless(walk[w])'
      BY <2>1 DEF Tells, Gapless, Resting
  <2> QED
      BY <2>1, <2>3, <2>4 DEF Gathers
<1> QED
    BY <1>1, <1>2, GathersGrow, GathersStream DEF Next

\* The ChangeSet catch_up returns is enough to bring a cache from the state it began
\* at to its newState, whatever the pages were, however often the server goes back and
\* forth and whatever other walks, seed() and reset() do: for any number of records,
\* changes and walks.
THEOREM CaughtUpSuffices == Spec => []ChangeSetSuffices
PROOF
<1>1. Init => TypeOK /\ Lives /\ Gathers
    BY TypeInit, GathersInit
<1>2. TypeOK /\ Lives /\ Gathers /\ [Next]_vars => (TypeOK /\ Lives /\ Gathers)'
    BY TypeNext, GathersNext
<1>3. TypeOK /\ Lives /\ Gathers => ChangeSetSuffices
  <2> SUFFICES ASSUME TypeOK, Lives, Gathers, NEW w \in Walks, outcome[w] = "caughtUp",
                      NEW id \in Ids, NEW r, r = walk[w]
        PROVE /\ \A kind \in {"create", "update"} :
                    Happened(id, kind, r.began, r.to) /\ Alive(id, Now) =>
                        id \in r.set.created \union r.set.updated
              /\ Happened(id, "destroy", r.began, r.to)
                 /\ ~Happened(id, "create", r.began, r.to) => id \in r.set.destroyed
      BY DEF ChangeSetSuffices
  <2>1. /\ r.began \in Nat /\ r.to \in Nat /\ r.to <= Now /\ Now \in Nat
        /\ (r.began + 1) .. r.to \subseteq r.told /\ Tells(r)
      BY WalkFacts DEF Gathers, Gapless
  <2>2. ASSUME NEW kind \in {"create", "update"}, Happened(id, kind, r.began, r.to), Alive(id, Now)
        PROVE  id \in r.set.created \union r.set.updated
    <3>1. PICK k \in (r.began + 1) .. r.to : history[k] = [id |-> id, kind |-> kind]
        BY <2>2 DEF Happened
    <3>2. k \in r.told /\ history[k].id = id /\ history[k].kind # "destroy"
        BY <2>1, <3>1
    <3> QED
        BY <2>1, <2>2, <3>2 DEF Tells, Alive
  <2>3. ASSUME Happened(id, "destroy", r.began, r.to), ~Happened(id, "create", r.began, r.to)
        PROVE  id \in r.set.destroyed
    <3>1. PICK k \in (r.began + 1) .. r.to : history[k] = [id |-> id, kind |-> "destroy"]
        BY <2>3 DEF Happened
    <3>2. k \in r.told /\ history[k].id = id /\ history[k].kind = "destroy" /\ k \in 1 .. Now
        BY <2>1, <3>1
    <3>3. Happened(id, "create", 0, k - 1)
        BY <3>2 DEF Lives
    <3>4. PICK j \in 1 .. (k - 1) : history[j] = [id |-> id, kind |-> "create"]
        BY <3>3 DEF Happened
    <3>5. j <= r.began
        BY <2>1, <2>3, <3>1, <3>4 DEF Happened
    <3>6. Happened(id, "create", 0, r.began)
        BY <2>1, <3>4, <3>5 DEF Happened
    <3> QED
        BY <2>1, <3>2, <3>6 DEF Tells
  <2> QED
      BY <2>2, <2>3
<1> QED
    BY <1>1, <1>2, <1>3, PTL DEF Spec

=============================================================================
