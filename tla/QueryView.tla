----------------------------- MODULE QueryView -----------------------------
(***************************************************************************)
(* A cached, sparse view of one query, kept current with                   *)
(* Foo/queryChanges: src/jmap/sync/query.py.                               *)
(*                                                                         *)
(* The server is the environment: its query state n is the list results[n] *)
(* and any list may follow any other.  A response may be handed to the     *)
(* view however late and in any order, as by two tasks that refresh one    *)
(* view: so it may be of any query state there has been, not only of the   *)
(* latest.                                                                 *)
(***************************************************************************)
EXTENDS Integers, JsonValue

CONSTANTS
    Records,        \* the records the query may find
    Gap,            \* SparseIds' None: a position known of and never fetched
    NoState,        \* the queryState of a view that was never seeded
    NoTotal,        \* a response without `total`
    MaxVersions     \* bound: query states of the server

ASSUME QueryViewAssumption ==
    /\ MaxVersions \in Nat \ {0} /\ IsFiniteSet(Records)
    /\ Gap \notin Records /\ NoState \notin Nat /\ NoTotal \notin Nat

VARIABLES
    results,    \* the server's query states, oldest first
    view,       \* the QueryView: ids, query_state, total, can_calculate_changes
    blind       \* history: a removal inside a gap has gone unnoticed

viewVars == <<results, view, blind>>

Lists  == {list \in UNION {[1 .. n -> Records] : n \in 0 .. Cardinality(Records)} : IsInjective(list)}
Now    == Len(results)
HeldIds(ids) == Range(ids) \ {Gap}

\* A position is counted from 0 on the wire.
PositionOf(list, id) == (CHOOSE i \in DOMAIN list : list[i] = id) - 1

Totals(v) == {Len(results[v]), NoTotal}

----------------------------------------------------------------------------
\* splice

InOrder(items) ==
    CHOOSE order \in [1 .. Cardinality(items) -> items] :
        \A i, j \in DOMAIN order : i < j => order[i].index < order[j].index

\* Mutant: an id in both lists stays removed.
InsertionsOfNew(added, removed) == InOrder({a \in added : a.id \notin removed})

\* `sorted(added)`: lowest index first.
Insertions(added, removed) == InOrder(added)

\* One turn of the merge: survivors up to the index, gaps if they do not reach
\* that far, then the added id.
MergeOne(survivors, acc, item) ==
    LET short == item.index - Len(acc.result)
        upTo  == Min({acc.consumed + short, Len(survivors)})
        taken == SubSeq(survivors, acc.consumed + 1, upTo)
        merged == acc.result \o taken
    IN  [result   |-> merged \o [i \in 1 .. (item.index - Len(merged)) |-> Gap] \o <<item.id>>,
         consumed |-> acc.consumed + Len(taken)]

Merge(survivors, items) ==
    LET acc[n \in 0 .. Len(items)] ==
            IF n = 0 THEN [result |-> <<>>, consumed |-> 0]
            ELSE MergeOne(survivors, acc[n - 1], items[n])
    IN  acc[Len(items)]

Splice(ids, removed, added) ==
    LET survivors == Without(ids, removed)
        acc == Merge(survivors, Insertions(added, removed))
    IN  acc.result \o SubSeq(survivors, acc.consumed + 1, Len(survivors))

----------------------------------------------------------------------------
\* The server

ViewInit ==
    /\ \E list \in Lists : results = <<list>>
    /\ view = [ids |-> <<>>, state |-> NoState, total |-> NoTotal, can |-> FALSE]
    /\ blind = FALSE

Change ==
    /\ Now < MaxVersions
    /\ \E list \in Lists : results' = Append(results, list)
    /\ UNCHANGED <<view, blind>>

\* Foo/query at query state v, from `position` on with any number of ids.
Windows(v) ==
    {[position |-> w[1], ids |-> SubSeq(results[v], w[1] + 1, w[2])] :
        w \in {w \in (0 .. Len(results[v])) \X (0 .. Len(results[v])) : w[1] <= w[2]}}

\* Foo/queryChanges from state s to state t (RFC 8620 section 5.6).  What moved is
\* in both lists, and an id that did not may be as well.
Deltas(s, t) ==
    LET old  == results[s]
        new  == results[t]
        both == Range(old) \intersect Range(new)
        gone(moved) == (Range(old) \ Range(new)) \union moved
        come(moved) == (Range(new) \ Range(old)) \union moved
    IN  {[removed |-> gone(moved),
          added   |-> {[id |-> id, index |-> PositionOf(new, id)] : id \in come(moved)}] :
             moved \in {m \in SUBSET both : Without(old, gone(m)) = Without(new, come(m))}}

----------------------------------------------------------------------------
\* The view

Truncated(ids, total) ==
    IF total # NoTotal /\ total < Len(ids) THEN SubSeq(ids, 1, total) ELSE ids

\* reset, and from_query for a view that is new.
Reset ==
    /\ \E v \in 1 .. Now : \E window \in Windows(v), total \in Totals(v), can \in BOOLEAN :
        view' = [ids |-> [i \in 1 .. window.position |-> Gap] \o window.ids,
                 state |-> v, total |-> total, can |-> can]
    /\ blind' = FALSE
    /\ UNCHANGED results

\* What a delta from the view's state removes from a gap with ids held after it.
InGap(removed) ==
    {id \in removed \ HeldIds(view.ids) :
        \E i \in DOMAIN view.ids :
            view.ids[i] # Gap /\ i - 1 > PositionOf(results[view.state], id)}

Become(delta, t, total) ==
    view' = [view EXCEPT !.ids = Truncated(Splice(@, delta.removed, delta.added), total),
                         !.total = total, !.state = t]

\* Mutant: the state a delta starts from is not looked at.
ApplyAny ==
    /\ view.can
    /\ \E s, t \in 1 .. Now : \E delta \in Deltas(s, t), total \in Totals(t) :
        s <= t /\ Become(delta, t, total)
    /\ UNCHANGED <<results, blind>>

\* apply.  It refuses a delta from another state than the view's, or for a view
\* that cannot calculate changes, and a refusal changes nothing.
Apply ==
    /\ view.can
    /\ \E t \in view.state .. Now : \E delta \in Deltas(view.state, t), total \in Totals(t) :
        /\ Become(delta, t, total)
        /\ blind' = (blind \/ InGap(delta.removed) # {})
    /\ UNCHANGED results

ViewNext == Change \/ Reset \/ Apply

ViewSpec == ViewInit /\ [][ViewNext]_viewVars

----------------------------------------------------------------------------
\* Properties

\* Every id the view holds stands where the server has it.
Placed == \A i \in DOMAIN view.ids :
    view.ids[i] # Gap => i <= Len(results[view.state]) /\ results[view.state][i] = view.ids[i]

\* An id is held once, and is a result of the view's query_state.
HeldOnce ==
    /\ \A i, j \in DOMAIN view.ids : view.ids[i] = view.ids[j] /\ i # j => view.ids[i] = Gap
    /\ HeldIds(view.ids) \subseteq Range(results[view.state])

\* The view is the server's list at its query_state, whatever order responses are
\* handed to it in: every id it holds is in its place and a total it has is right.
\* The one exception is what the RFC's own algorithm cannot see, a removal inside
\* a gap: then an id may be misplaced, but is still in the results, and held once.
ViewAgrees ==
    view.state # NoState =>
        /\ HeldOnce
        /\ ~blind => Placed /\ view.total \in {NoTotal, Len(results[view.state])}

\* A delta never costs the view an id that is still in the results, one that
\* moved included.
NothingHeldIsLost ==
    [][Apply /\ ~blind' =>
           HeldIds(view.ids) \intersect Range(results[view'.state]) \subseteq HeldIds(view'.ids)]_viewVars
=============================================================================
