------------------------------ MODULE Delivery ------------------------------
(***************************************************************************)
(* What a sync cursor promises, and nothing of how: the cursor never names *)
(* a state some change before which the caller has not been handed.  This  *)
(* is the at-least-once delivery the docstring of ChangeStream in          *)
(* src/jmap/sync/changes.py claims, with StateStore's contract.            *)
(***************************************************************************)
EXTENDS Naturals

CONSTANT NoCursor       \* StateStore.get's None

VARIABLES
    happened,   \* how many changes the server has made; a state is a number of them
    handed,     \* the changes the caller has been handed and may forget about
    cursor      \* the state the next sync resumes from, or NoCursor

vars == <<happened, handed, cursor>>

Init == happened = 0 /\ handed = {} /\ cursor = NoCursor

Happen == happened' = happened + 1 /\ UNCHANGED <<handed, cursor>>

\* Some changes are handed over, again or for the first time; the cursor stays
\* or moves, forward or back, to a state that is accounted for.
Settle ==
    /\ \E changes \in SUBSET (1 .. happened) : handed' = handed \union changes
    /\ \/ cursor' = cursor
       \/ \E c \in 0 .. happened : 1 .. c \subseteq handed' /\ cursor' = c
    /\ UNCHANGED happened

\* The caller throws its data away, and the cursor with it.
Discard == handed' = {} /\ cursor' = NoCursor /\ UNCHANGED happened

Next == Happen \/ Settle \/ Discard

Spec == Init /\ [][Next]_vars
=============================================================================
