---------------------------- MODULE ChangeStream ----------------------------
(***************************************************************************)
(* Following Foo/changes: src/jmap/sync/changes.py and the StateStore of   *)
(* src/jmap/sync/state.py.                                                 *)
(*                                                                         *)
(* Several walks share one cursor, as two workers that sync the same type  *)
(* do: each is a pages() iterator its consumer drives, or a catch_up().    *)
(* The process may crash at any point; the store is durable.  The server   *)
(* is the environment: a state is the number of changes made so far, and a *)
(* restless server may go back to an earlier state of the walk.            *)
(***************************************************************************)
EXTENDS Naturals, Sequences

CONSTANTS
    Walks,          \* the pages() and catch_up() calls that may be open at once
    Ids,            \* the records of the type
    NoCursor,       \* StateStore.get's None
    MaxChanges,     \* bound: changes the server makes
    ResetMidWalk    \* does the caller reset() while a walk is open?

ASSUME ChangeStreamAssumption ==
    MaxChanges \in Nat /\ ResetMidWalk \in BOOLEAN /\ NoCursor \notin Nat

Kinds == {"create", "update", "destroy"}

VARIABLES
    history,    \* the server's changes to the type, in order
    cursor,     \* the state under the stream's key in the StateStore
    handed,     \* history: the changes the caller has been handed for good
    walk,       \* the open walks, see Walk
    outcome     \* how each walk ended last

vars == <<history, cursor, handed, walk, outcome>>

Now == Len(history)

\* ChangeSet's three lists; the order within a list is left out.
ChangeSets == [created : SUBSET Ids, updated : SUBSET Ids, destroyed : SUBSET Ids]
EmptySet   == [created |-> {}, updated |-> {}, destroyed |-> {}]

\* The locals of pages() and catch_up(): `since` and `visited`, the response
\* (it covers the changes after `since` up to `reach`, and names `to` and `more`),
\* and the ChangeSet being collected, which began at state `began` and tells of
\* the changes in `told`.
Walk == [mode : {"pages", "all"}, at : {"idle", "due", "answered"}, began : Nat,
         since : Nat, visited : SUBSET Nat, reach : Nat, to : Nat, more : BOOLEAN,
         set : ChangeSets, told : SUBSET Nat]

Resting == [mode |-> "all", at |-> "idle", began |-> 0, since |-> 0, visited |-> {},
            reach |-> 0, to |-> 0, more |-> FALSE, set |-> EmptySet,
            told |-> {}]

Open(w) == walk[w].at # "idle"

Init ==
    /\ history = <<>>
    /\ cursor = NoCursor
    /\ handed = {}
    /\ walk = [w \in Walks |-> Resting]
    /\ outcome = [w \in Walks |-> "none"]

----------------------------------------------------------------------------
\* The server

Happened(id, kind, s, t) == \E k \in (s + 1) .. t : history[k] = [id |-> id, kind |-> kind]
Alive(id, t) == Happened(id, "create", 0, t) /\ ~Happened(id, "destroy", 0, t)

Change(id, kind) ==
    /\ Now < MaxChanges
    /\ IF kind = "create" THEN ~Happened(id, "create", 0, Now) ELSE Alive(id, Now)
    /\ history' = Append(history, [id |-> id, kind |-> kind])
    /\ UNCHANGED <<cursor, handed, walk, outcome>>

\* The three lists of a Foo/changes response (RFC 8620 section 5.2).
Page(s, t) ==
    [created   |-> {id \in Ids : ~Alive(id, s) /\ Alive(id, t)},
     updated   |-> {id \in Ids : Alive(id, s) /\ Alive(id, t) /\ Happened(id, "update", s, t)},
     destroyed |-> {id \in Ids : Alive(id, s) /\ ~Alive(id, t)}]

----------------------------------------------------------------------------
\* The caller

\* seed(): the state of a full download the caller has just made.
Seed ==
    /\ \E s \in 0 .. Now : cursor' = s /\ handed' = handed \union 1 .. s
    /\ UNCHANGED <<history, walk, outcome>>

\* reset(): the caller has discarded what it had.
Reset ==
    /\ ResetMidWalk \/ \A w \in Walks : ~Open(w)
    /\ cursor' = NoCursor
    /\ handed' = {}
    /\ UNCHANGED <<history, walk, outcome>>

End(w, how) ==
    /\ walk' = [walk EXCEPT ![w] = Resting]
    /\ outcome' = [outcome EXCEPT ![w] = how]

\* The first step of pages() and of catch_up(): _cursor, and `visited`.
Start(w, mode) ==
    /\ ~Open(w)
    /\ IF cursor = NoCursor
       THEN End(w, "resync")
       ELSE /\ walk' = [walk EXCEPT ![w] =
                  [Resting EXCEPT !.mode = mode, !.at = "due", !.began = cursor,
                                  !.since = cursor, !.visited = {cursor}]]
            /\ outcome' = [outcome EXCEPT ![w] = "none"]
    /\ UNCHANGED <<history, cursor, handed>>

\* Mutant: pages() writes the cursor before it hands the page over.
FetchCommits(w) ==
    /\ walk[w].at = "due"
    /\ \E to \in walk[w].since .. Now, more \in BOOLEAN :
        /\ walk' = [walk EXCEPT ![w].at = "answered", ![w].reach = to,
                                ![w].to = to, ![w].more = more]
        /\ cursor' = to
    /\ UNCHANGED <<history, handed, outcome>>

\* _fetch: a response whose newState is the end of what it covers or, from a
\* restless server, any earlier one since the walk began (an empty newState counts
\* as sinceState).
Fetch(w) ==
    /\ walk[w].at = "due"
    /\ \E reach \in walk[w].since .. Now, more \in BOOLEAN : \E to \in walk[w].began .. reach :
        walk' = [walk EXCEPT ![w].at = "answered", ![w].reach = reach,
                             ![w].to = to, ![w].more = more]
    /\ UNCHANGED <<history, cursor, handed, outcome>>

\* _fetch: cannotCalculateChanges, or any other error of the call.
FetchFails(w) ==
    /\ walk[w].at = "due"
    /\ \E how \in {"resync", "failed"} : End(w, how)
    /\ UNCHANGED <<history, cursor, handed>>

\* Mutant: only a server that stays where it is gets noticed.
CirclesInPlace(w) == walk[w].more /\ walk[w].to = walk[w].since

\* _advance's test for a walk that is going round in circles.
Circles(w) == walk[w].more /\ walk[w].to \in walk[w].visited

Advanced(w) == [walk[w] EXCEPT !.at = "due", !.since = walk[w].to,
                               !.visited = @ \union {walk[w].to}]

Covered(w) == (walk[w].since + 1) .. walk[w].reach

\* The consumer of pages() is done with the page and asks for the next.
PullNext(w) ==
    /\ walk[w].at = "answered" /\ walk[w].mode = "pages"
    /\ handed' = handed \union Covered(w)
    /\ IF Circles(w)
       THEN End(w, "stuck") /\ cursor' = cursor
       ELSE /\ cursor' = walk[w].to
            /\ IF walk[w].more
               THEN walk' = [walk EXCEPT ![w] = Advanced(w)] /\ outcome' = outcome
               ELSE End(w, "done")
    /\ UNCHANGED history

\* The consumer of pages() drops the iterator with a page in its hands.
Abandon(w) ==
    /\ walk[w].at = "answered" /\ walk[w].mode = "pages"
    /\ End(w, "abandoned")
    /\ UNCHANGED <<history, cursor, handed>>

\* Mutant: the set of the last page stands for all.
AbsorbedLast(set, page) == page

\* ChangeSet.absorb
Absorbed(set, page) == [created   |-> set.created \union page.created,
                        updated   |-> set.updated \union page.updated,
                        destroyed |-> set.destroyed \union page.destroyed]

\* The locals of catch_up once the response is absorbed and the walk advanced.
Gathered(w) == [Advanced(w) EXCEPT
    !.set = Absorbed(@, Page(walk[w].since, walk[w].reach)),
    !.told = @ \union Covered(w)]

\* Mutant: catch_up moves the cursor page by page, as it once did.
CollectByPage(w) ==
    /\ walk[w].at = "answered" /\ walk[w].mode = "all" /\ walk[w].more
    /\ walk' = [walk EXCEPT ![w] = Gathered(w)]
    /\ cursor' = walk[w].to
    /\ UNCHANGED <<history, handed, outcome>>

\* catch_up has a response that says there is more.
Collect(w) ==
    /\ walk[w].at = "answered" /\ walk[w].mode = "all" /\ walk[w].more
    /\ IF Circles(w)
       THEN End(w, "stuck")
       ELSE walk' = [walk EXCEPT ![w] = Gathered(w)] /\ outcome' = outcome
    /\ UNCHANGED <<history, cursor, handed>>

\* catch_up has the last response: the cursor moves, once, and the set is returned.
CaughtUp(w) ==
    /\ walk[w].at = "answered" /\ walk[w].mode = "all" /\ ~walk[w].more
    /\ walk' = [walk EXCEPT ![w] = [Gathered(w) EXCEPT !.at = "idle"]]
    /\ outcome' = [outcome EXCEPT ![w] = "caughtUp"]
    /\ cursor' = walk[w].to
    /\ handed' = handed \union Gathered(w).told
    /\ UNCHANGED history

\* The process dies: the walks with it, the stored cursor not.
Crash ==
    /\ walk' = [w \in Walks |-> Resting]
    /\ outcome' = [w \in Walks |-> "none"]
    /\ UNCHANGED <<history, cursor, handed>>

----------------------------------------------------------------------------
Stream(w) == \/ \E mode \in {"pages", "all"} : Start(w, mode)
             \/ Fetch(w) \/ FetchFails(w) \/ PullNext(w) \/ Abandon(w)
             \/ Collect(w) \/ CaughtUp(w)

Next == \/ \E id \in Ids, kind \in Kinds : Change(id, kind)
        \/ Seed \/ Reset \/ Crash
        \/ \E w \in Walks : Stream(w)

Spec == Init /\ [][Next]_vars

\* catch_up is straight-line code around calls that return; a consumer of
\* pages() owes nobody the next page.
FairSpec == Spec /\ \A w \in Walks : WF_vars(Fetch(w) \/ FetchFails(w)) /\
                              WF_vars(Collect(w) \/ CaughtUp(w))

----------------------------------------------------------------------------
\* Properties

TypeOK ==
    /\ history \in Seq([id : Ids, kind : Kinds]) /\ Now <= MaxChanges
    /\ cursor \in (0 .. Now) \union {NoCursor}
    /\ handed \subseteq 1 .. Now
    /\ walk \in [Walks -> Walk]
    /\ \A w \in Walks : /\ walk[w].since <= Now /\ walk[w].reach <= Now
                         /\ walk[w].to <= Now /\ walk[w].told \subseteq 1 .. Now
    /\ outcome \in [Walks -> {"none", "done", "caughtUp", "abandoned", "stuck",
                              "resync", "failed"}]

\* At least once: whatever crashes, fails, is abandoned or runs side by side,
\* every change before the stored cursor has been handed to the caller, so the
\* next sync misses none.
AccountedFor == cursor # NoCursor => 1 .. cursor \subseteq handed

Promise == INSTANCE Delivery WITH happened <- Now

\* The same as a refinement: the stream is an implementation of Delivery.
KeepsPromise == Promise!Spec

\* A returned ChangeSet is enough to bring a cache from the state it began at to
\* its newState: what was created or updated between the two, and still is there,
\* is called touched, and a record that was there before and has gone is called
\* destroyed, whatever the pages were and however the server went back and forth.
ChangeSetSuffices ==
    \A w \in Walks : outcome[w] = "caughtUp" =>
        \A id \in Ids :
            LET r == walk[w]
                Was(kind) == Happened(id, kind, r.began, r.to)
            IN  /\ (Was("create") \/ Was("update")) /\ Alive(id, Now) =>
                        id \in r.set.created \union r.set.updated
                /\ Was("destroy") /\ ~Was("create") => id \in r.set.destroyed

\* catch_up returns or raises, even from a server that leads it in circles.
CatchUpEnds ==
    \A w \in Walks : (Open(w) /\ walk[w].mode = "all") ~> ~Open(w)
=============================================================================
