---------------------------- MODULE SyncWebSocket ----------------------------
(***************************************************************************)
(* push/websocket_client.py: WebSocketClient.  One thread sends a request  *)
(* and reads the socket until its answer comes, keeping the state changes  *)
(* it passes; or reads state changes.  A request that timed out leaves the *)
(* socket open, with its answer still to come.  The client may be closed   *)
(* and opened again, and keeps its protocol state and what it holds.       *)
(*                                                                         *)
(* The server answers what it was asked, once, in any order, and pushes    *)
(* its state, a number; the wire keeps the order.  An error may come       *)
(* without the id of its request, which the server could not read.         *)
(***************************************************************************)
EXTENDS Naturals, FiniteSets, SequencesExt

CONSTANTS
    MaxRequests,   \* bound: requests
    MaxChanges,    \* bound: changes the server makes
    MaxWire,       \* bound: messages on their way
    MaxSockets,    \* bound: times the socket is opened
    Closes         \* codes the server may close with: 1000, 1008 or another

ASSUME ClosesAssumption == Closes \subseteq Nat

NoId == 0

VARIABLES
    socket,       \* _socket is there
    opened,       \* how often it was opened
    calling,      \* where the thread is: "idle", "exchange" or "notifications"
    counter,      \* _protocol._counter
    outstanding,  \* _protocol.outstanding
    request,      \* the id of the exchange under way or done
    ended,        \* how the last call ended: [kind, of, id]
    pending,      \* _pending
    pushState,    \* _protocol.push_state; 0 is None
    told,         \* history: what notifications() has yielded last
    wire,         \* messages on their way to the client: [kind, of, id, n]
    asked,        \* requests the server has and has not answered
    timedOut,     \* history: requests whose answer was given up on this socket
    happened,     \* the server's state
    pushing,      \* whether push is on for this socket
    pushed        \* the state this socket has been sent

socketVars == <<socket, opened, calling, counter, outstanding, request, ended, pending,
                pushState, told, wire, asked, timedOut, happened, pushing, pushed>>

Message(kind, of, id, n) == [kind |-> kind, of |-> of, id |-> id, n |-> n]
Ended(kind) == Message(kind, NoId, NoId, 0)

SocketInit ==
    /\ socket = FALSE /\ opened = 0 /\ calling = "idle"
    /\ counter = 0 /\ outstanding = {} /\ request = NoId /\ ended = Ended("none")
    /\ pending = <<>> /\ pushState = 0 /\ told = 0
    /\ wire = <<>> /\ asked = {} /\ timedOut = {} /\ happened = 0 /\ pushing = FALSE /\ pushed = 0

-----------------------------------------------------------------------------
(* The server *)

Change ==
    /\ happened < MaxChanges /\ happened' = happened + 1
    /\ UNCHANGED <<socket, opened, calling, counter, outstanding, request, ended, pending,
                   pushState, told, wire, asked, timedOut, pushing, pushed>>

Push ==
    /\ socket /\ pushing /\ pushed < happened /\ Len(wire) < MaxWire
    /\ wire' = Append(wire, Message("change", NoId, NoId, happened))
    /\ pushed' = happened
    /\ UNCHANGED <<socket, opened, calling, counter, outstanding, request, ended, pending,
                   pushState, told, asked, timedOut, happened, pushing>>

Answer(of, kind, id) ==
    /\ socket /\ of \in asked /\ Len(wire) < MaxWire
    /\ kind = "response" => id = of
    /\ wire' = Append(wire, Message(kind, of, id, 0)) /\ asked' = asked \ {of}
    /\ UNCHANGED <<socket, opened, calling, counter, outstanding, request, ended, pending,
                   pushState, told, timedOut, happened, pushing, pushed>>

\* A close arrives after what was sent before it, as does a frame that is no message.
ServerSends(kind, code) ==
    /\ socket /\ Len(wire) < MaxWire /\ (wire # <<>> => Last(wire).kind \notin {"close", "junk"})
    /\ wire' = Append(wire, Message(kind, NoId, NoId, code))
    /\ UNCHANGED <<socket, opened, calling, counter, outstanding, request, ended, pending,
                   pushState, told, asked, timedOut, happened, pushing, pushed>>

-----------------------------------------------------------------------------
(* The client *)

\* open(): what was on the old connection is gone.
Open ==
    /\ ~socket /\ calling = "idle" /\ opened < MaxSockets
    /\ socket' = TRUE /\ opened' = opened + 1
    /\ wire' = <<>> /\ asked' = {} /\ timedOut' = {} /\ pushing' = FALSE /\ pushed' = 0
    /\ ended' = Ended("none")
    /\ UNCHANGED <<calling, counter, outstanding, request, pending, pushState, told, happened>>

Hangs == socket' = FALSE /\ calling' = "idle"

\* Mutant: closing drops the changes nobody has asked for yet.
KeptNothing == <<>>

\* close(): the changes it holds stay.
Kept == pending

Close ==
    /\ socket /\ calling = "idle"
    /\ Hangs /\ pending' = Kept
    /\ UNCHANGED <<opened, counter, outstanding, request, ended, pushState, told, wire, asked,
                   timedOut, happened, pushing, pushed>>

\* _exchange up to its loop: next_request_id skips the ids that are outstanding.
Send ==
    /\ socket /\ calling = "idle" /\ counter < MaxRequests
    /\ counter' = counter + 1
    /\ outstanding' = outstanding \cup {counter'} /\ request' = counter'
    /\ asked' = asked \cup {counter'}
    /\ calling' = "exchange" /\ ended' = Ended("none")
    /\ UNCHANGED <<socket, opened, pending, pushState, told, wire, timedOut, happened, pushing, pushed>>

\* The socket turns out to be gone: _send closes it, the request's id stays taken.
SendFails ==
    /\ socket /\ calling = "idle" /\ counter < MaxRequests
    /\ counter' = counter + 1
    /\ outstanding' = outstanding \cup {counter'} /\ request' = counter'
    /\ ended' = Ended("closed") /\ Hangs
    /\ UNCHANGED <<opened, pending, pushState, told, wire, asked, timedOut, happened, pushing, pushed>>

\* enable_push: resume sends push_state back; without it the server begins from now.
EnablePush(resume) ==
    /\ socket /\ calling = "idle"
    /\ pushing' = TRUE
    /\ pushed' = IF resume /\ pushState # 0 THEN pushState ELSE happened
    /\ UNCHANGED <<socket, opened, calling, counter, outstanding, request, ended, pending,
                   pushState, told, wire, asked, timedOut, happened>>

DisablePush ==
    /\ socket /\ calling = "idle" /\ pushing
    /\ pushing' = FALSE /\ pushed' = 0
    /\ UNCHANGED <<socket, opened, calling, counter, outstanding, request, ended, pending,
                   pushState, told, wire, asked, timedOut, happened>>

\* notifications(): it reads until it is left.
Listen ==
    /\ calling = "idle" /\ (socket \/ pending # <<>>)
    /\ calling' = "notifications" /\ ended' = Ended("none")
    /\ UNCHANGED <<socket, opened, counter, outstanding, request, pending, pushState, told, wire,
                   asked, timedOut, happened, pushing, pushed>>

StopListening ==
    /\ calling = "notifications" /\ calling' = "idle"
    /\ UNCHANGED <<socket, opened, counter, outstanding, request, ended, pending, pushState, told,
                   wire, asked, timedOut, happened, pushing, pushed>>

\* The changes an exchange passed come first.
YieldPending ==
    /\ calling = "notifications" /\ pending # <<>>
    /\ told' = Head(pending) /\ pending' = Tail(pending)
    /\ UNCHANGED <<socket, opened, calling, counter, outstanding, request, ended, pushState, wire,
                   asked, timedOut, happened, pushing, pushed>>

\* _receive needs a socket: without one the call is a mistake, and raises.
NothingToRead ==
    /\ calling = "notifications" /\ pending = <<>> /\ ~socket
    /\ calling' = "idle" /\ ended' = Ended("closed")
    /\ UNCHANGED <<socket, opened, counter, outstanding, request, pending, pushState, told, wire,
                   asked, timedOut, happened, pushing, pushed>>

Reading ==
    /\ socket /\ wire # <<>> /\ wire' = Tail(wire)
    /\ calling # "idle" /\ (calling = "notifications" => pending = <<>>)

\* decode() keeps the pushState of every change it reads.
ReadChange ==
    LET n == Head(wire).n IN
    /\ Reading /\ Head(wire).kind = "change"
    /\ pushState' = n
    /\ IF calling = "exchange" THEN pending' = Append(pending, n) /\ UNCHANGED told
       ELSE told' = n /\ UNCHANGED pending
    /\ UNCHANGED <<socket, opened, calling, counter, outstanding, request, ended, asked, timedOut,
                   happened, pushing, pushed>>

\* Mutant: whatever answers while a request is out is its answer.
IsOursAny(message) == TRUE

\* An answer naming no id is taken for the request in flight.
IsOurs(message) == message.id \in {request, NoId}

\* Another's answer, and any answer while listening, closes the socket (_reject).
ReadAnswer ==
    /\ Reading /\ Head(wire).kind \in {"response", "error"}
    /\ IF calling = "exchange"
       THEN /\ outstanding' = outstanding \ {Head(wire).id}
            /\ IF IsOurs(Head(wire))
               THEN ended' = Head(wire) /\ calling' = "idle" /\ UNCHANGED socket
               ELSE ended' = Ended("rejected") /\ Hangs
       ELSE ended' = Ended("rejected") /\ Hangs /\ UNCHANGED outstanding
    /\ UNCHANGED <<opened, counter, request, pending, pushState, told, asked, timedOut, happened,
                   pushing, pushed>>

\* A close, by its code, and a frame the subprotocol forbids.
ReadEnd ==
    LET message == Head(wire) IN
    /\ Reading /\ message.kind \in {"close", "junk"}
    /\ ended' = Ended(CASE message.kind = "junk" -> "rejected"
                        [] message.kind = "close" /\ message.n = 1008 -> "reauthenticate"
                        [] message.kind = "close" /\ message.n = 1000 /\ calling = "notifications" -> "over"
                        [] OTHER -> "closed")
    /\ Hangs
    /\ UNCHANGED <<opened, counter, outstanding, request, pending, pushState, told, asked, timedOut,
                   happened, pushing, pushed>>

\* The read timed out: the socket stays as it is.
Timeout ==
    /\ calling = "exchange" /\ socket /\ wire = <<>>
    /\ calling' = "idle" /\ ended' = Ended("timeout")
    /\ timedOut' = timedOut \cup {request}
    /\ UNCHANGED <<socket, opened, counter, outstanding, request, pending, pushState, told, wire,
                   asked, happened, pushing, pushed>>

SocketNext ==
    \/ Change \/ Push
    \/ \E of \in 1 .. MaxRequests : \E kind \in {"response", "error"}, id \in {of, NoId} : Answer(of, kind, id)
    \/ \E code \in Closes : ServerSends("close", code)
    \/ ServerSends("junk", 0)
    \/ Open \/ Close \/ Send \/ SendFails \/ (\E resume \in BOOLEAN : EnablePush(resume)) \/ DisablePush
    \/ Listen \/ StopListening \/ YieldPending \/ NothingToRead
    \/ ReadChange \/ ReadAnswer \/ ReadEnd \/ Timeout
-----------------------------------------------------------------------------
\* The socket is read by whoever waits, and still nothing on it is mistaken. A response
\* reaches the request it answers and no other, a timed-out request's late one closes the
\* socket instead; an error without an id is another request's only if one was given up
\* on this socket ("one request is in flight, so an answer naming no id is its answer"):
\* from then on each such error may be the one before's.
AnswersAreOwn ==
    ended.kind \in {"response", "error"} =>
        \/ ended.of = request
        \/ ended.kind = "error" /\ ended.id = NoId /\ timedOut # {}

\* No change that the client has read is lost between an exchange, which passes it, and
\* notifications(), whatever closes the socket in between: what it holds is in order, none
\* of it older than what was yielded, and reaches up to the pushState a resume starts from.
ChangesAreKept ==
    /\ \A i \in DOMAIN pending : pending[i] >= (IF i = 1 THEN told ELSE pending[i - 1])
    /\ pushState # 0 => pushState <= (IF pending = <<>> THEN told ELSE Last(pending))

SocketIsRead == AnswersAreOwn /\ ChangesAreKept
=============================================================================
