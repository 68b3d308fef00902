--------------------------- MODULE AsyncWebSocket ---------------------------
(***************************************************************************)
(* AsyncWebSocketClient (src/jmap/push/websocket_aio.py) and the protocol   *)
(* it speaks (websocket.py): tasks share one socket, a background task      *)
(* reads it, matches answers to requests by id and queues state changes.    *)
(*                                                                         *)
(* A step is what a task does between two awaits.  The server is the        *)
(* environment: it runs what it was asked at any time and answers in any    *)
(* order.  What is on the wire is not kept apart from what the server has   *)
(* not sent yet.  Every connection is a client object of its own, given the *)
(* push_state of the last one.                                              *)
(***************************************************************************)
EXTENDS Naturals, Sequences, FiniteSets

CONSTANTS
    Tasks,          \* tasks that exchange requests over the socket
    MaxRequests,    \* bound: requests of one connection
    MaxChanges,     \* bound: changes the server makes
    MaxSockets,     \* bound: connections
    MaxQueued,      \* bound: changes queued and not taken
    LateNameless,   \* whether the server leaves the id out of an answer that comes too late
    DrainFirst      \* whether the caller takes all it was pushed before it reconnects

ASSUME WebSocketAssumption ==
    /\ MaxRequests \in Nat /\ MaxChanges \in Nat /\ MaxSockets \in Nat
    /\ MaxQueued \in Nat
    /\ LateNameless \in BOOLEAN /\ DrainFirst \in BOOLEAN

Ids == 1 .. MaxRequests
NoId == 0

VARIABLES
    \* a task's _exchange
    pc,             \* where it is
    request,        \* its request_id
    outcome,        \* how its last exchange ended
    \* AsyncWebSocketClient
    counter,        \* _protocol._counter
    outstanding,    \* _protocol.outstanding
    waiting,        \* the keys of _waiting
    rung,           \* ids whose anyio.Event is set
    answers,        \* _answers
    opened,         \* whether _stack is there
    socket,         \* whether _socket is there
    reader,         \* where _read is
    changes,        \* what is in the _changes stream
    pushState,      \* _protocol.push_state; 0 is None
    told,           \* history: the latest state notifications() has yielded, or which a
                    \* push that did not resume began from
    \* the server and the network
    sockets,        \* how many connections there have been
    asked,          \* requests it has, or may come to have, and has not answered
    ran,            \* requests it has executed
    happened,       \* its state, which is also the pushState it sends
    pushing,        \* whether push is enabled on this connection
    sent            \* the state it has told this connection of

tasks    == <<pc, request, outcome>>
protocol == <<counter, outstanding>>
routing  == <<waiting, rung, answers>>
link     == <<opened, socket, reader, sockets>>
server   == <<asked, ran>>
push     == <<changes, pushState, told, happened, pushing, sent>>
vars     == <<tasks, protocol, routing, link, server, push>>

Larger(a, b) == IF a < b THEN b ELSE a

Nothing == [kind |-> "none", of |-> NoId]
Answer  == [kind : {"response", "error"}, of : Ids]

Init ==
    /\ pc = [t \in Tasks |-> "idle"] /\ request = [t \in Tasks |-> NoId]
    /\ outcome = [t \in Tasks |-> Nothing]
    /\ counter = 0 /\ outstanding = {} /\ waiting = {} /\ rung = {}
    /\ answers = [i \in Ids |-> Nothing]
    /\ opened = FALSE /\ socket = FALSE /\ reader = "ended" /\ sockets = 0
    /\ asked = {} /\ ran = {}
    /\ changes = <<>> /\ pushState = 0 /\ told = 0
    /\ happened = 0 /\ pushing = FALSE /\ sent = 0

----------------------------------------------------------------------------
\* The connection

\* A new client with the push_state of the last, opened.
Open ==
    /\ ~opened /\ reader = "ended" /\ sockets < MaxSockets
    /\ \A t \in Tasks : pc[t] = "idle"
    /\ DrainFirst => changes = <<>>
    /\ sockets' = sockets + 1
    /\ opened' = TRUE /\ socket' = TRUE /\ reader' = "reading"
    /\ counter' = 0 /\ outstanding' = {} /\ waiting' = {} /\ rung' = {}
    /\ answers' = [i \in Ids |-> Nothing]
    /\ request' = [t \in Tasks |-> NoId] /\ outcome' = [t \in Tasks |-> Nothing]
    /\ asked' = {} /\ ran' = {}
    /\ changes' = <<>> /\ pushing' = FALSE /\ sent' = 0
    /\ UNCHANGED <<pc, pushState, told, happened>>

\* close() hangs up and cancels the reader.
Close ==
    /\ opened
    /\ opened' = FALSE /\ socket' = FALSE
    /\ reader' = IF reader = "ended" THEN "ended" ELSE "cancelled"
    /\ UNCHANGED <<tasks, protocol, routing, sockets, server, push>>

\* _read's `finally` wakes whoever waits: nobody will be answered any more.
WakeAll == rung' = rung \cup waiting

ReaderEnds ==
    /\ reader' = "ended" /\ socket' = FALSE
    /\ WakeAll
    /\ UNCHANGED <<tasks, protocol, waiting, answers, opened, sockets, server, push>>

\* The server closes, with any code, or the network fails.
SocketEnds == reader = "reading" /\ ReaderEnds

\* The reader, cancelled by close() or done with closing after a bad frame.
ReaderStops == reader \in {"cancelled", "closing"} /\ ReaderEnds

\* A frame the subprotocol does not allow: the reader awaits socket.close(1007).
BadFrame ==
    /\ reader = "reading"
    /\ reader' = "closing"
    /\ UNCHANGED <<tasks, protocol, routing, opened, socket, sockets, server, push>>

----------------------------------------------------------------------------
\* A request

\* next_request_id skips the ids in flight.
IsNextId(i) ==
    /\ i > counter /\ i \notin outstanding
    /\ \A j \in Ids : counter < j /\ j < i => j \in outstanding

\* Mutant: only close() counts, not the end of the socket.
CanSendUntilClosed == opened

\* _send's two checks.
CanSend == opened /\ socket

\* _exchange up to the await in _send.  From here on the server may have the request.
Begin(t) ==
    /\ pc[t] = "idle" /\ CanSend
    /\ \E i \in Ids :
        /\ IsNextId(i)
        /\ counter' = i
        /\ outstanding' = outstanding \cup {i}
        /\ waiting' = waiting \cup {i}
        /\ asked' = asked \cup {i}
        /\ request' = [request EXCEPT ![t] = i]
    /\ pc' = [pc EXCEPT ![t] = "sending"]
    /\ outcome' = [outcome EXCEPT ![t] = Nothing]
    /\ UNCHANGED <<rung, answers, link, ran, push>>

\* _send raises, for want of a socket.  The id stays outstanding.  (Before open() it is
\* a mistake, and left out.)
BeginClosed(t) ==
    /\ pc[t] = "idle" /\ ~CanSend /\ sockets > 0
    /\ \E i \in Ids :
        /\ IsNextId(i)
        /\ counter' = i
        /\ outstanding' = outstanding \cup {i}
        /\ request' = [request EXCEPT ![t] = i]
    /\ outcome' = [outcome EXCEPT ![t] = Nothing]
    /\ UNCHANGED <<pc, routing, link, server, push>>

SendDone(t) ==
    /\ pc[t] = "sending"
    /\ pc' = [pc EXCEPT ![t] = "waiting"]
    /\ UNCHANGED <<request, outcome, protocol, routing, link, server, push>>

\* _exchange's `finally`, and the error that ends it.
Abandon(t) ==
    /\ pc' = [pc EXCEPT ![t] = "idle"]
    /\ waiting' = waiting \ {request[t]}
    /\ UNCHANGED <<request, outcome, protocol, rung, answers, link, server, push>>

SendFails(t) == pc[t] = "sending" /\ Abandon(t)

\* The deadline of fail_after passes, or the task is cancelled ...
Expire(t) ==
    /\ pc[t] = "waiting" /\ request[t] \notin rung
    /\ pc' = [pc EXCEPT ![t] = "expired"]
    /\ UNCHANGED <<request, outcome, protocol, routing, link, server, push>>

\* ... and it runs again; an answer that came in between is left behind.
GiveUp(t) == pc[t] = "expired" /\ Abandon(t)

\* The event was set: by an answer, or by the end of the socket.
Wake(t) ==
    /\ pc[t] = "waiting" /\ request[t] \in rung
    /\ pc' = [pc EXCEPT ![t] = "idle"]
    /\ waiting' = waiting \ {request[t]}
    /\ outcome' = [outcome EXCEPT ![t] = answers[request[t]]]
    /\ answers' = [answers EXCEPT ![request[t]] = Nothing]
    /\ UNCHANGED <<request, protocol, rung, link, server, push>>

----------------------------------------------------------------------------
\* Answers

Run(i) ==
    /\ i \in asked \ ran
    /\ ran' = ran \cup {i}
    /\ UNCHANGED <<tasks, protocol, routing, link, asked, push>>

\* Mutant: an answer that names nobody goes to the one who waits longest.
PlacesWithFirst(name, i) ==
    IF name = NoId THEN i \in waiting /\ \A j \in waiting : i <= j
    ELSE i = name /\ i \in waiting

\* Mutant: a sole waiter gets whatever comes.
PlacesWithSole(name, i) ==
    \/ waiting = {i}
    \/ i = name /\ i \in waiting

\* _deliver: whether an answer that names `name` goes to request i.
Places(name, i) ==
    \/ name = NoId /\ waiting = {i}
    \/ name # NoId /\ i = name /\ i \in waiting

\* A message that was there before close() may still be routed.
Reading == reader \in {"reading", "cancelled"}

\* The answer to request j, a response if it ran, with or without its id.
ReadAnswer(j, name) ==
    /\ Reading /\ j \in asked
    /\ name = NoId => LateNameless \/ j \in waiting
    /\ asked' = asked \ {j}
    /\ outstanding' = outstanding \ {name}
    /\ \/ \E i \in Ids :
            /\ Places(name, i)
            /\ answers' = [answers EXCEPT ![i] =
                    [kind |-> IF j \in ran THEN "response" ELSE "error", of |-> j]]
            /\ rung' = rung \cup {i}
       \/ /\ \A i \in Ids : ~Places(name, i)
          /\ UNCHANGED <<answers, rung>>
    /\ UNCHANGED <<tasks, counter, waiting, link, ran, push>>

----------------------------------------------------------------------------
\* Push

Change ==
    /\ happened < MaxChanges
    /\ happened' = happened + 1
    /\ UNCHANGED <<tasks, protocol, routing, link, server, changes, pushState, told,
                   pushing, sent>>

\* The server replays from the pushState, or starts from now without one.
EnablePush(resume) ==
    /\ CanSend
    /\ pushing' = TRUE
    /\ IF resume /\ pushState # 0
       THEN sent' = pushState /\ told' = told
       ELSE sent' = happened /\ told' = happened
    /\ UNCHANGED <<tasks, protocol, routing, link, server, changes, pushState, happened>>

DisablePush ==
    /\ CanSend /\ pushing
    /\ pushing' = FALSE /\ sent' = 0
    /\ UNCHANGED <<tasks, protocol, routing, link, server, changes, pushState, told, happened>>

\* Mutant: the stream holds one change.
QueueOne == changes' = IF changes = <<>> THEN <<happened>> ELSE changes

\* send_nowait into an unbounded stream.
Queue == changes' = Append(changes, happened)

\* A StateChange, with its pushState or without.
ReadChange ==
    /\ Reading /\ pushing /\ sent < happened /\ Len(changes) < MaxQueued
    /\ sent' = happened
    /\ Queue
    /\ pushState' \in {pushState, happened}
    /\ UNCHANGED <<tasks, protocol, routing, link, server, told, happened, pushing>>

\* notifications() yields.  What is queued when the socket ends can still be taken.
Take ==
    /\ changes # <<>>
    /\ told' = Larger(told, Head(changes))
    /\ changes' = Tail(changes)
    /\ UNCHANGED <<tasks, protocol, routing, link, server, pushState, happened, pushing, sent>>

----------------------------------------------------------------------------
Exchange(t) == \/ Begin(t) \/ BeginClosed(t) \/ SendDone(t) \/ SendFails(t)
               \/ Expire(t) \/ GiveUp(t) \/ Wake(t)

Next == \/ Open \/ Close \/ SocketEnds \/ ReaderStops \/ BadFrame
        \/ \E t \in Tasks : Exchange(t)
        \/ \E i \in Ids : Run(i) \/ \E name \in {i, NoId} : ReadAnswer(i, name)
        \/ Change \/ DisablePush \/ ReadChange \/ Take
        \/ \E resume \in BOOLEAN : EnablePush(resume)

Spec == Init /\ [][Next]_vars

----------------------------------------------------------------------------
\* Properties

TypeOK ==
    /\ pc \in [Tasks -> {"idle", "sending", "waiting", "expired"}]
    /\ request \in [Tasks -> Ids \cup {NoId}]
    /\ outcome \in [Tasks -> Answer \cup {Nothing}]
    /\ counter \in 0 .. MaxRequests /\ outstanding \subseteq Ids
    /\ waiting \subseteq Ids /\ rung \subseteq Ids
    /\ answers \in [Ids -> Answer \cup {Nothing}]
    /\ opened \in BOOLEAN /\ socket \in BOOLEAN
    /\ reader \in {"reading", "cancelled", "closing", "ended"}
    /\ sockets \in 0 .. MaxSockets
    /\ asked \subseteq Ids /\ ran \subseteq Ids
    /\ changes \in Seq(0 .. MaxChanges)
    /\ pushState \in 0 .. MaxChanges /\ told \in 0 .. MaxChanges
    /\ happened \in 0 .. MaxChanges /\ sent \in 0 .. MaxChanges
    /\ pushing \in BOOLEAN

InFlight == {request[t] : t \in {u \in Tasks : pc[u] # "idle"}}

\* The rule for an answer without an id counts the keys of _waiting: they are the
\* requests in flight, each of another task, whichever way an exchange ends.
WaitingIsExact ==
    /\ waiting = InFlight
    /\ \A t, u \in Tasks : t # u /\ pc[t] # "idle" /\ pc[u] # "idle" => request[t] # request[u]

\* "each answer is matched to its request by id": a task never returns the answer to
\* another task's request, in whatever order the server answers and whatever timed
\* out before, answers without an id included.
OwnAnswer == \A t \in Tasks : outcome[t] # Nothing => outcome[t].of = request[t]

\* A task that was told of a request error can send again: its request did not run.
ErrorMeansUnrun == \A t \in Tasks : outcome[t].kind = "error" => request[t] \notin ran

\* Whoever waits for an answer that can no longer come has been woken: the socket
\* never ends between a task's check and its wait.
NobodyWaitsOnTheDead ==
    reader = "ended" => \A t \in Tasks : pc[t] # "idle" => request[t] \in rung

\* The pushState the next connection resumes from is of a state that notifications()
\* has yielded, or that is queued for it.
ResumeCovers ==
    \/ pushState <= told
    \/ \E n \in DOMAIN changes : changes[n] >= pushState
=============================================================================
