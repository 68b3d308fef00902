---------------------------- MODULE MCJmapClient ----------------------------
(***************************************************************************)
(* Small instances of JmapClient for TLC.  The call kinds are the ones the *)
(* retry and splitting rules tell apart: a read, a creation, a guarded     *)
(* write that uses the created id, a write whose ifInState is a            *)
(* back-reference to the call before it, and a /set too large to send.     *)
(***************************************************************************)
EXTENDS JmapClient

Call(method, mutates, type, guard, creates, uses, back, objects) ==
    [method |-> method, mutating |-> mutates, type |-> type, guard |-> guard,
     creates |-> creates, uses |-> uses, back |-> back, objects |-> objects]

Get       == Call("get", FALSE, "Email", "none", NoKey, NoKey, 0, 0)
Create    == Call("set", TRUE, "Email", "none", "k", NoKey, 0, 1)
UseKey    == Call("set", TRUE, "Mailbox", "literal", NoKey, "k", 0, 1)
BackGuard == Call("set", TRUE, "Email", "backref", NoKey, NoKey, 1, 1)
Huge      == Call("set", TRUE, "Email", "none", NoKey, NoKey, 0, 2)

MCTypes    == {"Email", "Mailbox"}
MCKeys     == {"k"}
MCMaxState == [t \in MCTypes |-> IF t = "Email" THEN 0 ELSE 1]
MCStatuses == {400, 401, 429, 500, 503}

\* A refresh may lose "get", which no retry depends on, but never "set".
MCKinds      == {Get, Create, UseKey, BackGuard, Huge}
MCViews      == {{"get", "set"}, {"set"}}

\* The batches of the runs that look for one disagreement each.
MCSplitKinds == {Create, UseKey}
MCFewKinds   == {Get, Create}
MCLossyViews == {{"get", "set"}, {"get"}}
=============================================================================
