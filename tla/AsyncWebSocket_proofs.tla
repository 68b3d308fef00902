----------------------- MODULE AsyncWebSocket_proofs -----------------------
(***************************************************************************)
(* Theorems about AsyncWebSocket: for any number of tasks, requests and     *)
(* connections a task gets the answer to its own request or none, and       *)
(* nobody waits on a socket that has ended.                                 *)
(***************************************************************************)
EXTENDS AsyncWebSocket, SequenceTheorems, TLAPS

Busy(t) == pc[t] # "idle"

\* What the theorems assume of the server: an answer that comes after its request
\* has timed out names it.
NamesLate == ~LateNameless

\* Ids are handed out in order, so nothing is known of one that is still to come.
Counted ==
    /\ \A t \in Tasks : request[t] <= counter
    /\ \A i \in asked \cup rung \cup waiting : i <= counter
    /\ \A i \in Ids : answers[i] # Nothing => i <= counter

\* The requests in flight and the keys of _waiting.
Registered ==
    /\ \A t \in Tasks : Busy(t) => request[t] \in waiting
    /\ \A i \in waiting : \E t \in Tasks : Busy(t) /\ request[t] = i
    /\ \A t, u \in Tasks : t # u /\ Busy(t) /\ Busy(u) => request[t] # request[u]

\* An answer is kept under the id of its request, and an error is final.
Matched ==
    /\ \A i \in Ids : answers[i] # Nothing =>
            answers[i].of = i /\ i \notin asked
    /\ \A i \in Ids : answers[i].kind = "error" => i \notin ran

Returned ==
    /\ OwnAnswer
    /\ \A t \in Tasks : outcome[t] # Nothing => request[t] \notin asked
    /\ ErrorMeansUnrun

\* A socket that can be sent on has a reader.
ReaderAlive == socket => reader # "ended"

IInv == /\ TypeOK /\ Counted /\ Registered /\ Matched /\ Returned
        /\ ReaderAlive /\ NobodyWaitsOnTheDead

----------------------------------------------------------------------------
LEMMA InitType == Init => TypeOK
<1> SUFFICES ASSUME Init PROVE TypeOK
  OBVIOUS
<1> USE WebSocketAssumption DEF WebSocketAssumption, Init
<1>1. /\ pc \in [Tasks -> {"idle", "sending", "waiting", "expired"}]
      /\ request \in [Tasks -> Ids \cup {NoId}]
      /\ outcome \in [Tasks -> Answer \cup {Nothing}]
      /\ answers \in [Ids -> Answer \cup {Nothing}]
  OBVIOUS
<1>2. /\ counter \in 0 .. MaxRequests /\ sockets \in 0 .. MaxSockets
      /\ pushState \in 0 .. MaxChanges /\ told \in 0 .. MaxChanges
      /\ happened \in 0 .. MaxChanges /\ sent \in 0 .. MaxChanges
  OBVIOUS
<1>3. changes \in Seq(0 .. MaxChanges)
  OBVIOUS
<1> QED BY <1>1, <1>2, <1>3 DEF TypeOK

LEMMA InitInv == Init => IInv
<1>1. Init => TypeOK
  BY InitType
<1>2. Init => Counted /\ Registered
  BY WebSocketAssumption DEF WebSocketAssumption, Init, Counted, Registered, Busy, Ids, NoId
<1>3. Init => Matched /\ Returned
  BY DEF Init, Matched, Returned, OwnAnswer, ErrorMeansUnrun, Nothing, Ids
<1>4. Init => ReaderAlive /\ NobodyWaitsOnTheDead
  BY DEF Init, ReaderAlive, NobodyWaitsOnTheDead
<1> QED BY <1>1, <1>2, <1>3, <1>4 DEF IInv

----------------------------------------------------------------------------
\* Types

LEMMA ConnectionType ==
    TypeOK /\ (Open \/ Close \/ SocketEnds \/ ReaderStops \/ BadFrame) => TypeOK'
<1> SUFFICES ASSUME TypeOK, Open \/ Close \/ SocketEnds \/ ReaderStops \/ BadFrame
             PROVE  TypeOK'
  OBVIOUS
<1>1. CASE Open
  <2> USE <1>1 DEF Open
  <2>1. /\ request' \in [Tasks -> Ids \cup {NoId}]
        /\ outcome' \in [Tasks -> Answer \cup {Nothing}]
        /\ answers' \in [Ids -> Answer \cup {Nothing}]
    OBVIOUS
  <2>2. counter' \in 0 .. MaxRequests /\ sockets' \in 0 .. MaxSockets /\ sent' \in 0 .. MaxChanges
    BY WebSocketAssumption DEF WebSocketAssumption, TypeOK
  <2>3. changes' \in Seq(0 .. MaxChanges)
    OBVIOUS
  <2> QED BY <2>1, <2>2, <2>3 DEF TypeOK
<1>2. CASE Close
  BY <1>2 DEF TypeOK, Close, tasks, protocol, routing, server, push
<1>3. CASE SocketEnds \/ ReaderStops
  BY <1>3 DEF TypeOK, SocketEnds, ReaderStops, ReaderEnds, WakeAll, tasks, protocol, server, push
<1>4. CASE BadFrame
  BY <1>4 DEF TypeOK, BadFrame, tasks, protocol, routing, server, push
<1> QED BY <1>1, <1>2, <1>3, <1>4

LEMMA ExchangeType ==
    ASSUME TypeOK, NEW t \in Tasks, Exchange(t)
    PROVE  TypeOK'
<1>1. CASE Begin(t)
  <2>1. PICK i \in Ids : /\ counter' = i /\ outstanding' = outstanding \cup {i}
                         /\ waiting' = waiting \cup {i} /\ asked' = asked \cup {i}
                         /\ request' = [request EXCEPT ![t] = i]
    BY <1>1 DEF Begin
  <2> QED BY <1>1, <2>1 DEF TypeOK, Begin, link, push, Ids
<1>2. CASE BeginClosed(t)
  <2>1. PICK i \in Ids : /\ counter' = i /\ outstanding' = outstanding \cup {i}
                         /\ request' = [request EXCEPT ![t] = i]
    BY <1>2 DEF BeginClosed
  <2> QED BY <1>2, <2>1 DEF TypeOK, BeginClosed, routing, link, server, push, Ids
<1>3. CASE SendDone(t) \/ Expire(t)
  BY <1>3 DEF TypeOK, SendDone, Expire, protocol, routing, link, server, push
<1>4. CASE SendFails(t) \/ GiveUp(t)
  BY <1>4 DEF TypeOK, SendFails, GiveUp, Abandon, protocol, link, server, push
<1>5. CASE Wake(t)
  <2>1. request[t] \in Ids
    BY <1>5 DEF TypeOK, Wake
  <2> QED BY <1>5, <2>1 DEF TypeOK, Wake, protocol, link, server, push
<1> QED BY <1>1, <1>2, <1>3, <1>4, <1>5 DEF Exchange

LEMMA ServerType ==
    ASSUME TypeOK, NEW j \in Ids, NEW name \in {j, NoId}, Run(j) \/ ReadAnswer(j, name)
    PROVE  TypeOK'
<1>1. CASE Run(j)
  BY <1>1 DEF TypeOK, Run, tasks, protocol, routing, link, push
<1>2. CASE ReadAnswer(j, name)
  <2> DEFINE a == [kind |-> IF j \in ran THEN "response" ELSE "error", of |-> j]
  <2>1. a \in Answer
    BY DEF Answer
  <2>2. answers' \in [Ids -> Answer \cup {Nothing}] /\ rung' \subseteq Ids
    <3>1. CASE \E i \in Ids : answers' = [answers EXCEPT ![i] = a] /\ rung' = rung \cup {i}
      BY <3>1, <2>1 DEF TypeOK
    <3>2. CASE UNCHANGED <<answers, rung>>
      BY <3>2 DEF TypeOK
    <3> QED BY <1>2, <3>1, <3>2 DEF ReadAnswer
  <2> QED BY <1>2, <2>2 DEF TypeOK, ReadAnswer, tasks, link, push
<1> QED BY <1>1, <1>2

LEMMA PushType ==
    ASSUME TypeOK, NEW resume \in BOOLEAN,
           Change \/ DisablePush \/ ReadChange \/ Take \/ EnablePush(resume)
    PROVE  TypeOK'
<1>1. CASE Change
  BY <1>1, WebSocketAssumption
     DEF WebSocketAssumption, TypeOK, Change, tasks, protocol, routing, link, server
<1>2. CASE DisablePush
  <2>1. sent' \in 0 .. MaxChanges
    BY <1>2, WebSocketAssumption DEF WebSocketAssumption, DisablePush
  <2>2. /\ pushing' \in BOOLEAN
        /\ UNCHANGED <<tasks, protocol, routing, link, server, changes, pushState, told, happened>>
    BY <1>2 DEF DisablePush
  <2> QED BY <2>1, <2>2 DEF TypeOK, tasks, protocol, routing, link, server
<1>3. CASE ReadChange
  <2>1. changes' \in Seq(0 .. MaxChanges)
    <3>1. changes \in Seq(0 .. MaxChanges) /\ happened \in 0 .. MaxChanges
      BY DEF TypeOK
    <3> QED BY <1>3, <3>1, AppendProperties DEF ReadChange, Queue
  <2>2. sent' \in 0 .. MaxChanges /\ pushState' \in 0 .. MaxChanges
    BY <1>3 DEF TypeOK, ReadChange
  <2>3. UNCHANGED <<tasks, protocol, routing, link, server, told, happened, pushing>>
    BY <1>3 DEF ReadChange
  <2> QED BY <2>1, <2>2, <2>3 DEF TypeOK, tasks, protocol, routing, link, server
<1>4. CASE Take
  <2>1. Head(changes) \in 0 .. MaxChanges /\ Tail(changes) \in Seq(0 .. MaxChanges)
    BY <1>4, HeadTailProperties DEF TypeOK, Take
  <2>2. told' \in 0 .. MaxChanges
    BY <1>4, <2>1 DEF TypeOK, Take, Larger
  <2>3. changes' \in Seq(0 .. MaxChanges)
    BY <1>4, <2>1 DEF Take
  <2>4. UNCHANGED <<tasks, protocol, routing, link, server, pushState, happened, pushing, sent>>
    BY <1>4 DEF Take
  <2> QED BY <2>2, <2>3, <2>4 DEF TypeOK, tasks, protocol, routing, link, server
<1>5. CASE EnablePush(resume)
  BY <1>5 DEF TypeOK, EnablePush, tasks, protocol, routing, link, server
<1> QED BY <1>1, <1>2, <1>3, <1>4, <1>5

LEMMA StutterType == TypeOK /\ UNCHANGED vars => TypeOK'
BY DEF TypeOK, vars, tasks, protocol, routing, link, server, push

LEMMA NextType == TypeOK /\ [Next]_vars => TypeOK'
<1> SUFFICES ASSUME TypeOK, [Next]_vars PROVE TypeOK'
  OBVIOUS
<1>1. CASE Open \/ Close \/ SocketEnds \/ ReaderStops \/ BadFrame
  BY <1>1, ConnectionType
<1>2. CASE \E t \in Tasks : Exchange(t)
  BY <1>2, ExchangeType
<1>3. CASE \E i \in Ids : Run(i) \/ \E name \in {i, NoId} : ReadAnswer(i, name)
  BY <1>3, ServerType
<1>4. CASE Change \/ DisablePush \/ ReadChange \/ Take
  BY <1>4, PushType
<1>5. CASE \E resume \in BOOLEAN : EnablePush(resume)
  BY <1>5, PushType
<1>6. CASE UNCHANGED vars
  BY <1>6, StutterType
<1> QED BY <1>1, <1>2, <1>3, <1>4, <1>5, <1>6 DEF Next

\* Every variable of the client keeps its type: the ids it hands out, the answers it
\* keeps and the states it is pushed are of the sets the code draws them from.
THEOREM TypeCorrect == Spec => []TypeOK
BY InitType, NextType, PTL DEF Spec

----------------------------------------------------------------------------
\* The invariant, which speaks of all but the push

routed == <<tasks, protocol, routing, link, server>>

LEMMA Unrouted == IInv /\ TypeOK' /\ UNCHANGED routed => IInv'
BY DEF IInv, Counted, Registered, Busy, Matched, Returned, OwnAnswer, ErrorMeansUnrun,
       ReaderAlive, NobodyWaitsOnTheDead, routed, tasks, protocol, routing, link, server

LEMMA ConnectionInv ==
    ASSUME IInv, TypeOK', Open \/ Close \/ SocketEnds \/ ReaderStops \/ BadFrame
    PROVE  IInv'
<1> USE DEF IInv
<1>1. CASE Open
  <2> USE <1>1 DEF Open
  <2>1. Counted' /\ Registered'
    BY DEF Counted, Registered, Busy, TypeOK, NoId, Ids
  <2>2. Matched' /\ Returned'
    BY DEF Matched, Returned, OwnAnswer, ErrorMeansUnrun, Nothing, Ids
  <2>3. ReaderAlive' /\ NobodyWaitsOnTheDead'
    BY DEF ReaderAlive, NobodyWaitsOnTheDead
  <2> QED BY <2>1, <2>2, <2>3
<1>2. CASE Close
  <2> USE <1>2 DEF Close, tasks, protocol, routing, server
  <2>1. Counted' /\ Registered'
    BY DEF Counted, Registered, Busy
  <2>2. Matched' /\ Returned'
    BY DEF Matched, Returned, OwnAnswer, ErrorMeansUnrun
  <2>3. ReaderAlive' /\ NobodyWaitsOnTheDead'
    BY DEF ReaderAlive, NobodyWaitsOnTheDead
  <2> QED BY <2>1, <2>2, <2>3
<1>3. CASE SocketEnds \/ ReaderStops
  <2> USE <1>3 DEF SocketEnds, ReaderStops, ReaderEnds, WakeAll, tasks, protocol, server
  <2>1. Counted' /\ Registered'
    BY DEF Counted, Registered, Busy
  <2>2. Matched' /\ Returned'
    BY DEF Matched, Returned, OwnAnswer, ErrorMeansUnrun
  <2>3. ReaderAlive' /\ NobodyWaitsOnTheDead'
    BY DEF ReaderAlive, NobodyWaitsOnTheDead, Registered, Busy
  <2> QED BY <2>1, <2>2, <2>3
<1>4. CASE BadFrame
  <2> USE <1>4 DEF BadFrame, tasks, protocol, routing, server
  <2>1. Counted' /\ Registered'
    BY DEF Counted, Registered, Busy
  <2>2. Matched' /\ Returned'
    BY DEF Matched, Returned, OwnAnswer, ErrorMeansUnrun
  <2>3. ReaderAlive' /\ NobodyWaitsOnTheDead'
    BY DEF ReaderAlive, NobodyWaitsOnTheDead
  <2> QED BY <2>1, <2>2, <2>3
<1> QED BY <1>1, <1>2, <1>3, <1>4

\* Ids are numbers.
LEMMA IdsAreNumbers ==
    ASSUME TypeOK
    PROVE  /\ counter \in Nat /\ \A i \in Ids : i \in Nat
           /\ \A t \in Tasks : request[t] \in Nat
           /\ \A i \in asked \cup rung \cup waiting : i \in Ids
<1>1. /\ counter \in Nat /\ \A i \in Ids \cup {NoId} : i \in Nat
  BY DEF TypeOK, Ids, NoId
<1>2. \A t \in Tasks : request[t] \in Ids \cup {NoId}
  BY DEF TypeOK
<1>3. \A i \in asked \cup rung \cup waiting : i \in Ids
  BY DEF TypeOK
<1> QED BY <1>1, <1>2, <1>3

LEMMA BeginInv ==
    ASSUME IInv, TypeOK', NEW t \in Tasks, Begin(t)
    PROVE  IInv'
<1> USE DEF IInv
<1>1. PICK i \in Ids : /\ i > counter /\ counter' = i
                       /\ waiting' = waiting \cup {i} /\ asked' = asked \cup {i}
                       /\ request' = [request EXCEPT ![t] = i]
  BY DEF Begin, IsNextId
<1>2. /\ ~Busy(t) /\ pc' = [pc EXCEPT ![t] = "sending"]
      /\ outcome' = [outcome EXCEPT ![t] = Nothing]
      /\ UNCHANGED <<rung, answers, ran, opened, socket, reader>>
      /\ opened /\ socket
  BY DEF Begin, Busy, CanSend, link
<1>3. request'[t] = i /\ \A u \in Tasks \ {t} : request'[u] = request[u]
  BY <1>1 DEF TypeOK
<1>4. Busy(t)' /\ \A u \in Tasks \ {t} : Busy(u)' <=> Busy(u)
  BY <1>2 DEF TypeOK, Busy
<1>5. outcome'[t] = Nothing /\ \A u \in Tasks \ {t} : outcome'[u] = outcome[u]
  BY <1>2 DEF TypeOK
<1>6. /\ i \notin waiting /\ i \notin rung /\ i \notin asked /\ answers[i] = Nothing
      /\ \A u \in Tasks : request[u] # i
  BY <1>1 DEF Counted, TypeOK, Ids
<1>7. Counted'
  <2>1. \A u \in Tasks : request'[u] <= counter'
    <3> SUFFICES ASSUME NEW u \in Tasks PROVE request'[u] <= counter'
      OBVIOUS
    <3>1. CASE u = t
      BY <3>1, <1>1, <1>3 DEF Ids
    <3>2. CASE u # t
      <4>1. request[u] <= counter /\ request[u] \in Nat /\ counter \in Nat /\ i \in Nat
        BY IdsAreNumbers DEF Counted
      <4> QED BY <3>2, <4>1, <1>1, <1>3
    <3> QED BY <3>1, <3>2
  <2>2. \A j \in asked' \cup rung' \cup waiting' : j <= counter'
    BY <1>1, <1>2, IdsAreNumbers DEF Counted
  <2>3. \A j \in Ids : answers'[j] # Nothing => j <= counter'
    BY <1>1, <1>2 DEF Counted, TypeOK, Ids
  <2> QED BY <2>1, <2>2, <2>3 DEF Counted
<1>8. Registered'
  <2>1. \A u \in Tasks : Busy(u)' => request'[u] \in waiting'
    BY <1>1, <1>3, <1>4 DEF Registered
  <2>2. \A j \in waiting' : \E u \in Tasks : Busy(u)' /\ request'[u] = j
    <3> SUFFICES ASSUME NEW j \in waiting' PROVE \E u \in Tasks : Busy(u)' /\ request'[u] = j
      OBVIOUS
    <3>1. CASE j = i
      BY <3>1, <1>3, <1>4
    <3>2. CASE j \in waiting
      <4>1. PICK u \in Tasks : Busy(u) /\ request[u] = j
        BY <3>2 DEF Registered
      <4>2. u # t
        BY <4>1, <1>2
      <4> QED BY <4>1, <4>2, <1>3, <1>4
    <3> QED BY <3>1, <3>2, <1>1
  <2>3. \A u, v \in Tasks : u # v /\ Busy(u)' /\ Busy(v)' => request'[u] # request'[v]
    BY <1>3, <1>4, <1>6 DEF Registered
  <2> QED BY <2>1, <2>2, <2>3 DEF Registered
<1>9. Matched'
  BY <1>1, <1>2, <1>6 DEF Matched
<1>10. Returned'
  BY <1>1, <1>2, <1>3, <1>5, <1>6 DEF Returned, OwnAnswer, ErrorMeansUnrun, Nothing
<1>11. ReaderAlive' /\ NobodyWaitsOnTheDead'
  BY <1>2 DEF ReaderAlive, NobodyWaitsOnTheDead
<1> QED BY <1>7, <1>8, <1>9, <1>10, <1>11

\* A request that never leaves _send.
LEMMA BeginClosedInv ==
    ASSUME IInv, TypeOK', NEW t \in Tasks, BeginClosed(t)
    PROVE  IInv'
<1> USE DEF IInv
<1>1. PICK i \in Ids : /\ i > counter /\ counter' = i
                       /\ request' = [request EXCEPT ![t] = i]
  BY DEF BeginClosed, IsNextId
<1>2. /\ ~Busy(t) /\ outcome' = [outcome EXCEPT ![t] = Nothing]
      /\ UNCHANGED <<pc, waiting, rung, answers, asked, ran, opened, socket, reader>>
  BY DEF BeginClosed, Busy, routing, server, link
<1>3. request'[t] = i /\ \A u \in Tasks \ {t} : request'[u] = request[u]
  BY <1>1 DEF TypeOK
<1>4. \A u \in Tasks : Busy(u) => u # t
  BY <1>2
<1>5. outcome'[t] = Nothing /\ \A u \in Tasks \ {t} : outcome'[u] = outcome[u]
  BY <1>2 DEF TypeOK
<1>6. counter \in Nat /\ i \in Nat /\ \A u \in Tasks : request[u] \in Nat
  BY IdsAreNumbers
<1>7. Counted'
  <2>1. \A u \in Tasks : request'[u] <= counter'
    BY <1>1, <1>3, <1>6 DEF Counted
  <2>2. \A j \in asked' \cup rung' \cup waiting' : j <= counter'
    BY <1>1, <1>2, IdsAreNumbers DEF Counted
  <2>3. \A j \in Ids : answers'[j] # Nothing => j <= counter'
    BY <1>1, <1>2 DEF Counted, TypeOK, Ids
  <2> QED BY <2>1, <2>2, <2>3 DEF Counted
<1>8. Registered'
  BY <1>2, <1>3, <1>4 DEF Registered, Busy
<1>9. Matched'
  BY <1>2 DEF Matched
<1>10. Returned'
  BY <1>2, <1>3, <1>5 DEF Returned, OwnAnswer, ErrorMeansUnrun, Nothing
<1>11. ReaderAlive' /\ NobodyWaitsOnTheDead'
  BY <1>2, <1>3, <1>4 DEF ReaderAlive, NobodyWaitsOnTheDead, Busy
<1> QED BY <1>7, <1>8, <1>9, <1>10, <1>11

\* A request in flight stays in flight.
LEMMA StayInv ==
    ASSUME IInv, TypeOK', NEW t \in Tasks, SendDone(t) \/ Expire(t)
    PROVE  IInv'
<1> USE DEF IInv
<1>1. UNCHANGED <<request, outcome, counter, waiting, rung, answers, asked, ran, socket, reader>>
  BY DEF SendDone, Expire, protocol, routing, server, link
<1>2. \A u \in Tasks : Busy(u)' <=> Busy(u)
  BY DEF SendDone, Expire, Busy, TypeOK
<1>3. Counted' /\ Registered'
  BY <1>1, <1>2 DEF Counted, Registered
<1>4. Matched' /\ Returned'
  BY <1>1 DEF Matched, Returned, OwnAnswer, ErrorMeansUnrun
<1>5. ReaderAlive' /\ NobodyWaitsOnTheDead'
  BY <1>1, <1>2 DEF ReaderAlive, NobodyWaitsOnTheDead, Busy
<1> QED BY <1>3, <1>4, <1>5

\* A request that leaves takes its key with it, and no other.
LEMMA LeavesRegistered ==
    ASSUME IInv, NEW t \in Tasks, Busy(t), pc' = [pc EXCEPT ![t] = "idle"],
           waiting' = waiting \ {request[t]}, request' = request
    PROVE  /\ Registered'
           /\ \A u \in Tasks : Busy(u)' => Busy(u)
<1> USE DEF IInv
<1>1. ~Busy(t)' /\ \A u \in Tasks \ {t} : Busy(u)' <=> Busy(u)
  BY DEF Busy, TypeOK
<1>2. \A u \in Tasks : Busy(u)' => request'[u] \in waiting'
  BY <1>1 DEF Registered
<1>3. \A j \in waiting' : \E u \in Tasks : Busy(u)' /\ request'[u] = j
  <2> SUFFICES ASSUME NEW j \in waiting' PROVE \E u \in Tasks : Busy(u)' /\ request'[u] = j
    OBVIOUS
  <2>1. PICK u \in Tasks : Busy(u) /\ request[u] = j
    BY DEF Registered
  <2>2. u # t
    BY <2>1
  <2> QED BY <2>1, <2>2, <1>1
<1>4. \A u, v \in Tasks : u # v /\ Busy(u)' /\ Busy(v)' => request'[u] # request'[v]
  BY <1>1 DEF Registered
<1> QED BY <1>1, <1>2, <1>3, <1>4 DEF Registered

LEMMA AbandonInv ==
    ASSUME IInv, TypeOK', NEW t \in Tasks, SendFails(t) \/ GiveUp(t)
    PROVE  IInv'
<1> USE DEF IInv
<1>1. /\ Busy(t) /\ pc' = [pc EXCEPT ![t] = "idle"] /\ waiting' = waiting \ {request[t]}
      /\ UNCHANGED <<request, outcome, counter, rung, answers, asked, ran, socket, reader>>
  BY DEF SendFails, GiveUp, Abandon, Busy, protocol, server, link
<1>2. Registered' /\ \A u \in Tasks : Busy(u)' => Busy(u)
  BY <1>1, LeavesRegistered
<1>3. Counted'
  BY <1>1 DEF Counted
<1>4. Matched' /\ Returned'
  BY <1>1 DEF Matched, Returned, OwnAnswer, ErrorMeansUnrun
<1>5. ReaderAlive' /\ NobodyWaitsOnTheDead'
  BY <1>1, <1>2 DEF ReaderAlive, NobodyWaitsOnTheDead, Busy
<1> QED BY <1>2, <1>3, <1>4, <1>5

LEMMA WakeInv ==
    ASSUME IInv, TypeOK', NEW t \in Tasks, Wake(t)
    PROVE  IInv'
<1> USE DEF IInv
<1>1. /\ Busy(t) /\ pc' = [pc EXCEPT ![t] = "idle"] /\ waiting' = waiting \ {request[t]}
      /\ request[t] \in Ids
      /\ outcome' = [outcome EXCEPT ![t] = answers[request[t]]]
      /\ answers' = [answers EXCEPT ![request[t]] = Nothing]
      /\ UNCHANGED <<request, counter, rung, asked, ran, socket, reader>>
  BY DEF Wake, Busy, TypeOK, protocol, server, link
<1>2. Registered' /\ \A u \in Tasks : Busy(u)' => Busy(u)
  BY <1>1, LeavesRegistered
<1>3. \A j \in Ids : answers'[j] # Nothing => answers'[j] = answers[j]
  BY <1>1 DEF TypeOK
<1>4. Counted'
  BY <1>1, <1>3 DEF Counted
<1>5. Matched'
  <2>1. \A j \in Ids : answers'[j] # Nothing => answers'[j].of = j /\ j \notin asked'
    BY <1>1, <1>3 DEF Matched
  <2>2. \A j \in Ids : answers'[j].kind = "error" => j \notin ran'
    BY <1>1, <1>3 DEF Matched, Nothing
  <2> QED BY <2>1, <2>2 DEF Matched
<1>6. Returned'
  <2>1. outcome'[t] = answers[request[t]] /\ \A u \in Tasks \ {t} : outcome'[u] = outcome[u]
    BY <1>1 DEF TypeOK
  <2>2. /\ outcome'[t] # Nothing => outcome'[t].of = request[t] /\ request[t] \notin asked
        /\ outcome'[t].kind = "error" => request[t] \notin ran
    BY <1>1, <2>1 DEF Matched
  <2> QED BY <1>1, <2>1, <2>2 DEF Returned, OwnAnswer, ErrorMeansUnrun
<1>7. ReaderAlive' /\ NobodyWaitsOnTheDead'
  BY <1>1, <1>2 DEF ReaderAlive, NobodyWaitsOnTheDead, Busy
<1> QED BY <1>2, <1>4, <1>5, <1>6, <1>7

LEMMA RunInv ==
    ASSUME IInv, TypeOK', NEW j \in Ids, Run(j)
    PROVE  IInv'
<1> USE DEF IInv
<1>1. /\ j \in asked /\ ran' = ran \cup {j}
      /\ UNCHANGED <<pc, request, outcome, counter, waiting, rung, answers, asked, socket, reader>>
  BY DEF Run, tasks, protocol, routing, link
<1>2. Counted' /\ Registered'
  BY <1>1 DEF Counted, Registered, Busy
<1>3. Matched'
  BY <1>1 DEF Matched, Nothing
<1>4. Returned'
  BY <1>1 DEF Returned, OwnAnswer, ErrorMeansUnrun, Nothing
<1>5. ReaderAlive' /\ NobodyWaitsOnTheDead'
  BY <1>1 DEF ReaderAlive, NobodyWaitsOnTheDead
<1> QED BY <1>2, <1>3, <1>4, <1>5

\* An answer is placed with its own request: the name says which, and an answer
\* without a name is of the one request that waits.
LEMMA PlacedRight ==
    ASSUME NamesLate, NEW j \in Ids, NEW name \in {j, NoId}, NEW i \in Ids,
           ReadAnswer(j, name), Places(name, i)
    PROVE  i = j /\ j \in waiting
BY DEF NamesLate, ReadAnswer, Places, NoId, Ids

LEMMA AnswerInv ==
    ASSUME IInv, TypeOK', NamesLate, NEW j \in Ids, NEW name \in {j, NoId}, ReadAnswer(j, name)
    PROVE  IInv'
<1> USE DEF IInv
<1> DEFINE a == [kind |-> IF j \in ran THEN "response" ELSE "error", of |-> j]
<1>1. /\ j \in asked /\ asked' = asked \ {j}
      /\ UNCHANGED <<pc, request, outcome, counter, waiting, ran, socket, reader>>
  BY DEF ReadAnswer, tasks, link
<1>2. \/ answers' = [answers EXCEPT ![j] = a] /\ rung' = rung \cup {j}
      \/ UNCHANGED <<answers, rung>>
  BY PlacedRight DEF ReadAnswer
<1>3. j <= counter
  BY <1>1 DEF Counted
<1>4. Counted'
  BY <1>1, <1>2, <1>3 DEF Counted, TypeOK
<1>5. Registered'
  BY <1>1 DEF Registered, Busy
<1>6. Matched'
  <2>1. CASE answers' = [answers EXCEPT ![j] = a]
    <3>1. answers'[j] = a /\ \A k \in Ids \ {j} : answers'[k] = answers[k]
      BY <2>1 DEF TypeOK
    <3>2. a.of = j /\ (a.kind = "error" => j \notin ran)
      OBVIOUS
    <3> QED BY <1>1, <3>1, <3>2 DEF Matched
  <2>2. CASE UNCHANGED answers
    BY <1>1, <2>2 DEF Matched
  <2> QED BY <1>2, <2>1, <2>2
<1>7. Returned'
  BY <1>1 DEF Returned, OwnAnswer, ErrorMeansUnrun
<1>8. ReaderAlive' /\ NobodyWaitsOnTheDead'
  BY <1>1, <1>2 DEF ReaderAlive, NobodyWaitsOnTheDead
<1> QED BY <1>4, <1>5, <1>6, <1>7, <1>8

LEMMA NextInv == IInv /\ NamesLate /\ [Next]_vars => IInv'
<1> SUFFICES ASSUME IInv, NamesLate, [Next]_vars PROVE IInv'
  OBVIOUS
<1>0. TypeOK'
  BY NextType DEF IInv
<1>1. CASE Open \/ Close \/ SocketEnds \/ ReaderStops \/ BadFrame
  BY <1>0, <1>1, ConnectionInv
<1>2. CASE \E t \in Tasks : Exchange(t)
  BY <1>0, <1>2, BeginInv, BeginClosedInv, StayInv, AbandonInv, WakeInv DEF Exchange
<1>3. CASE \E i \in Ids : Run(i) \/ \E name \in {i, NoId} : ReadAnswer(i, name)
  BY <1>0, <1>3, RunInv, AnswerInv
<1>4. CASE Change \/ DisablePush \/ ReadChange \/ Take \/ \E resume \in BOOLEAN : EnablePush(resume)
  BY <1>0, <1>4, Unrouted DEF Change, DisablePush, ReadChange, Take, EnablePush, routed
<1>5. CASE UNCHANGED vars
  BY <1>0, <1>5, Unrouted DEF vars, routed
<1> QED BY <1>1, <1>2, <1>3, <1>4, <1>5 DEF Next

LEMMA Invariant == ASSUME NamesLate PROVE Spec => []IInv
<1>1. IInv /\ [Next]_vars => IInv'
  BY NextInv
<1> QED BY <1>1, InitInv, PTL DEF Spec

\* Whatever times out, fails, is answered out of order or without its id, a task is
\* never given the answer to another task's request.
THEOREM AnswersAreMatched == ASSUME NamesLate PROVE Spec => []OwnAnswer
<1>1. IInv => OwnAnswer
  BY DEF IInv, Returned
<1> QED BY <1>1, Invariant, PTL

\* A task that gets a request error may send again: the server has not run, and will
\* not run, the request that it sent.
THEOREM ErrorsAreFinal == ASSUME NamesLate PROVE Spec => []ErrorMeansUnrun
<1>1. IInv => ErrorMeansUnrun
  BY DEF IInv, Returned
<1> QED BY <1>1, Invariant, PTL

\* No order of the steps of tasks, reader and close() leaves a task waiting for the
\* answer of a socket that has ended.
THEOREM NobodyIsStranded == ASSUME NamesLate PROVE Spec => []NobodyWaitsOnTheDead
<1>1. IInv => NobodyWaitsOnTheDead
  BY DEF IInv
<1> QED BY <1>1, Invariant, PTL

\* The keys of _waiting are the requests in flight, one for each task.
THEOREM WaitingIsKept == ASSUME NamesLate PROVE Spec => []WaitingIsExact
<1>1. IInv => WaitingIsExact
  BY DEF IInv, Registered, WaitingIsExact, InFlight, Busy, TypeOK
<1> QED BY <1>1, Invariant, PTL

----------------------------------------------------------------------------
\* Push

\* No state is known here that the server is not in or past.
Past == /\ told <= happened /\ pushState <= happened
        /\ \A n \in DOMAIN changes : changes[n] <= happened

PInv == TypeOK /\ Past /\ ResumeCovers

LEMMA StatesAreNumbers ==
    ASSUME TypeOK
    PROVE  /\ told \in Nat /\ pushState \in Nat /\ happened \in Nat
           /\ \A n \in DOMAIN changes : changes[n] \in Nat
<1>1. changes \in Seq(0 .. MaxChanges)
  BY DEF TypeOK
<1>2. \A n \in 1 .. Len(changes) : changes[n] \in 0 .. MaxChanges
  BY <1>1, ElementOfSeq
<1>3. DOMAIN changes = 1 .. Len(changes)
  BY <1>1
<1>4. told \in Nat /\ pushState \in Nat /\ happened \in Nat
  BY DEF TypeOK
<1> QED BY <1>2, <1>3, <1>4

LEMMA InitPush == Init => PInv
<1>1. Init => Past
  BY DEF Init, Past
<1>2. Init => ResumeCovers
  BY DEF Init, ResumeCovers
<1> QED BY <1>1, <1>2, InitType DEF PInv

LEMMA OpenPush == ASSUME PInv, TypeOK', DrainFirst, Open PROVE PInv'
<1>1. changes = <<>> /\ changes' = <<>> /\ UNCHANGED <<told, pushState, happened>>
  BY DEF Open
<1> QED BY <1>1 DEF PInv, Past, ResumeCovers

LEMMA TakePush == ASSUME PInv, TypeOK', Take PROVE PInv'
<1> USE DEF PInv
<1>1. /\ changes \in Seq(0 .. MaxChanges) /\ changes # <<>>
      /\ changes' = Tail(changes) /\ told' = Larger(told, Head(changes))
      /\ UNCHANGED <<pushState, happened>>
  BY DEF Take, TypeOK
<1>2. Len(changes) \in Nat \ {0} /\ Len(changes') = Len(changes) - 1
  BY <1>1, HeadTailProperties, EmptySeq
<1>3. \A n \in DOMAIN changes' : n + 1 \in DOMAIN changes /\ changes'[n] = changes[n + 1]
  BY <1>1, <1>2, HeadTailProperties
<1>4. Head(changes) = changes[1] /\ 1 \in DOMAIN changes
  BY <1>1, <1>2
<1>5. told \in Nat /\ pushState \in Nat /\ happened \in Nat
      /\ \A n \in DOMAIN changes : changes[n] \in Nat
  BY StatesAreNumbers
<1>6. told' \in Nat /\ told <= told' /\ changes[1] <= told' /\ told' <= happened
  BY <1>1, <1>4, <1>5 DEF Larger, Past
<1>7. Past'
  BY <1>1, <1>3, <1>6 DEF Past
<1>8. ResumeCovers'
  <2>1. CASE pushState <= told
    BY <2>1, <1>1, <1>5, <1>6 DEF ResumeCovers
  <2>2. CASE \E n \in DOMAIN changes : changes[n] >= pushState
    <3>1. PICK n \in DOMAIN changes : changes[n] >= pushState
      BY <2>2
    <3>2. CASE n = 1
      BY <3>1, <3>2, <1>1, <1>4, <1>5, <1>6 DEF ResumeCovers
    <3>3. CASE n # 1
      <4>1. n - 1 \in DOMAIN changes' /\ changes'[n - 1] = changes[n]
        BY <3>3, <1>1, <1>2, HeadTailProperties
      <4> QED BY <3>1, <4>1, <1>1 DEF ResumeCovers
    <3> QED BY <3>2, <3>3
  <2> QED BY <2>1, <2>2 DEF ResumeCovers
<1> QED BY <1>7, <1>8

LEMMA ReadChangePush == ASSUME PInv, TypeOK', ReadChange PROVE PInv'
<1> USE DEF PInv
<1>1. /\ changes' = Append(changes, happened) /\ pushState' \in {pushState, happened}
      /\ UNCHANGED <<told, happened>>
      /\ changes \in Seq(0 .. MaxChanges) /\ happened \in 0 .. MaxChanges
      /\ pushState <= happened /\ happened \in Nat /\ pushState \in Nat
  BY DEF ReadChange, Queue, TypeOK, Past
<1>2. /\ \A n \in DOMAIN changes' : n \in DOMAIN changes \/ changes'[n] = happened
      /\ \A n \in DOMAIN changes : n \in DOMAIN changes' /\ changes'[n] = changes[n]
      /\ Len(changes') \in DOMAIN changes' /\ changes'[Len(changes')] = happened
  BY <1>1, AppendProperties
<1>3. Past'
  BY <1>1, <1>2 DEF Past
<1>4. ResumeCovers'
  BY <1>1, <1>2 DEF ResumeCovers
<1> QED BY <1>3, <1>4

LEMMA EnablingPush ==
    ASSUME PInv, TypeOK', NEW resume \in BOOLEAN, EnablePush(resume)
    PROVE  PInv'
<1>1. /\ UNCHANGED <<changes, pushState, happened>>
      /\ told' = told \/ told' = happened
      /\ told \in Nat /\ happened \in Nat /\ pushState \in Nat
  BY DEF EnablePush, PInv, TypeOK
<1> QED BY <1>1 DEF PInv, Past, ResumeCovers

LEMMA ChangePush == ASSUME PInv, TypeOK', Change PROVE PInv'
<1>1. /\ UNCHANGED <<changes, pushState, told>> /\ happened' = happened + 1
      /\ told \in Nat /\ happened \in Nat /\ pushState \in Nat
      /\ \A n \in DOMAIN changes : changes[n] \in Nat
  BY StatesAreNumbers DEF Change, PInv
<1> QED BY <1>1 DEF PInv, Past, ResumeCovers

LEMMA OtherPush ==
    ASSUME PInv, TypeOK', UNCHANGED <<changes, pushState, told, happened>>
    PROVE  PInv'
BY DEF PInv, Past, ResumeCovers

LEMMA NextPush == PInv /\ DrainFirst /\ [Next]_vars => PInv'
<1> SUFFICES ASSUME PInv, DrainFirst, [Next]_vars PROVE PInv'
  OBVIOUS
<1>0. TypeOK'
  BY NextType DEF PInv
<1>1. CASE Open
  BY <1>0, <1>1, OpenPush
<1>2. CASE Close \/ SocketEnds \/ ReaderStops \/ BadFrame
  BY <1>0, <1>2, OtherPush DEF Close, SocketEnds, ReaderStops, ReaderEnds, BadFrame, push
<1>3. CASE \E t \in Tasks : Exchange(t)
  BY <1>0, <1>3, OtherPush
     DEF Exchange, Begin, BeginClosed, SendDone, SendFails, Expire, GiveUp, Abandon, Wake, push
<1>4. CASE \E i \in Ids : Run(i) \/ \E name \in {i, NoId} : ReadAnswer(i, name)
  BY <1>0, <1>4, OtherPush DEF Run, ReadAnswer, push
<1>5. CASE Change \/ ReadChange \/ Take \/ \E resume \in BOOLEAN : EnablePush(resume)
  BY <1>0, <1>5, ChangePush, ReadChangePush, TakePush, EnablingPush
<1>6. CASE DisablePush
  BY <1>0, <1>6, OtherPush DEF DisablePush
<1>7. CASE UNCHANGED vars
  BY <1>0, <1>7, OtherPush DEF vars, push
<1> QED BY <1>1, <1>2, <1>3, <1>4, <1>5, <1>6, <1>7 DEF Next

\* A caller that takes what was queued before it hands push_state to the next
\* connection is never resumed past a change it has not been told of.
THEOREM ResumeIsCovered == ASSUME DrainFirst PROVE Spec => []ResumeCovers
<1>1. PInv /\ [Next]_vars => PInv'
  BY NextPush
<1>2. PInv => ResumeCovers
  BY DEF PInv
<1> QED BY <1>1, <1>2, InitPush, PTL DEF Spec
=============================================================================
