---------------------------- MODULE PushChannels ----------------------------
(***************************************************************************)
(* The ways a client hears of changes without asking, other than the event *)
(* source: over the WebSocket it holds open, or at a URL of its own.  An   *)
(* application uses the one or the other; they share nothing.              *)
(***************************************************************************)
EXTENDS SyncWebSocket, PushSubscriptions

VARIABLE channel     \* "socket" or "url"

vars == <<channel, socketVars, subscriptionVars>>

Init ==
    /\ SocketInit /\ SubscriptionInit
    /\ channel \in {"socket", "url"}
    /\ channel = "socket" => encrypted = FALSE /\ serverKey = NoKey

Next ==
    \/ channel = "socket" /\ SocketNext /\ UNCHANGED <<channel, subscriptionVars>>
    \/ channel = "url" /\ SubscriptionNext /\ UNCHANGED <<channel, socketVars>>

Spec == Init /\ [][Next]_vars
=============================================================================
