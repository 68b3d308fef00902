------------------------ MODULE PushChannels_proofs ------------------------
(***************************************************************************)
(* Theorems about PushChannels: first the WebSocket (SyncWebSocket), for   *)
(* any number of requests, changes, sockets and messages on their way;     *)
(* then the push subscriptions (PushSubscriptions), for any number of      *)
(* subscriptions and keys, any bound of the table of codes and whatever    *)
(* strangers send.                                                         *)
(***************************************************************************)
EXTENDS PushChannels, TLAPS, FiniteSetTheorems

Kinds == {"none", "change", "response", "error", "close", "junk", "closed", "rejected",
          "reauthenticate", "over", "timeout"}
Messages == [kind : Kinds, of : Nat, id : Nat, n : Nat]
AnswerKinds == {"response", "error"}
Answers == {i \in DOMAIN wire : wire[i].kind \in AnswerKinds}

(***************************************************************************)
(* The parts of the invariant.                                             *)
(***************************************************************************)
SocketTypeOK ==
    /\ calling \in {"idle", "exchange", "notifications"}
    /\ counter \in Nat /\ request \in Nat /\ asked \subseteq Nat
    /\ ended \in Messages /\ wire \in Seq(Messages)
    /\ happened \in Nat

\* An answer says whose it is, or is an error that says nothing.
AnswersSay ==
    /\ \A of \in asked : of # NoId
    /\ \A i \in Answers :
         /\ wire[i].of # NoId /\ wire[i].id \in {wire[i].of, NoId}
         /\ wire[i].kind = "response" => wire[i].id = wire[i].of

\* On a socket where nothing was given up there is one answer to come at most, that of
\* the request under way.
OneToCome ==
    socket /\ timedOut = {} =>
        /\ \A of \in asked : calling = "exchange" /\ of = request /\ Answers = {}
        /\ \A i, j \in Answers : i = j
        /\ \A i \in Answers : calling = "exchange" /\ wire[i].of = request

AnswersOK == SocketTypeOK /\ AnswersSay /\ OneToCome /\ AnswersAreOwn

-----------------------------------------------------------------------------
(***************************************************************************)
(* Answers.                                                                *)
(***************************************************************************)
\* Putting a message on the wire that is no answer.
LEMMA OtherIsSent ==
    ASSUME SocketTypeOK, AnswersSay, OneToCome, NEW m \in Messages, m.kind \notin AnswerKinds,
           wire' = Append(wire, m),
           UNCHANGED <<socket, calling, counter, request, ended, asked, timedOut>>,
           happened' = happened
    PROVE  SocketTypeOK' /\ AnswersSay' /\ OneToCome'
  <1>1. /\ wire' \in Seq(Messages) /\ DOMAIN wire' = DOMAIN wire \cup {Len(wire) + 1}
        /\ wire'[Len(wire) + 1] = m /\ \A i \in DOMAIN wire : wire'[i] = wire[i]
    BY DEF SocketTypeOK
  <1>2. Answers' = Answers /\ \A i \in Answers : wire'[i] = wire[i]
    BY <1>1 DEF Answers
  <1>3. SocketTypeOK'
    BY <1>1 DEF SocketTypeOK
  <1>4. AnswersSay'
    BY <1>2 DEF AnswersSay
  <1>5. OneToCome'
    BY <1>2 DEF OneToCome
  <1> QED BY <1>3, <1>4, <1>5

\* The first message is read: what was behind it moves up by one.
LEMMA Read ==
    ASSUME SocketTypeOK, wire # <<>>, wire' = Tail(wire)
    PROVE  /\ Head(wire) = wire[1] /\ 1 \in DOMAIN wire /\ wire[1] \in Messages
           /\ wire' \in Seq(Messages)
           /\ \A i \in DOMAIN wire' : i + 1 \in DOMAIN wire /\ i # 0 /\ wire'[i] = wire[i + 1]
           /\ \A i \in Answers' : i + 1 \in Answers
  <1>1. /\ Head(wire) = wire[1] /\ 1 \in DOMAIN wire /\ wire[1] \in Messages
        /\ wire' \in Seq(Messages)
        /\ \A i \in DOMAIN wire' : i + 1 \in DOMAIN wire /\ i # 0 /\ wire'[i] = wire[i + 1]
    BY DEF SocketTypeOK
  <1> QED BY <1>1 DEF Answers

\* Reading keeps what is said and to come, if it is an answer ends the exchange.
LEMMA ReadKeeps ==
    ASSUME SocketTypeOK, AnswersSay, OneToCome, wire # <<>>, wire' = Tail(wire),
           UNCHANGED <<counter, request, asked, timedOut, happened>>,
           socket' => socket, calling' \in {calling, "idle"}, ended' \in Messages,
           socket' /\ calling' # calling => 1 \in Answers
    PROVE  SocketTypeOK' /\ AnswersSay' /\ OneToCome'
  <1>1. /\ wire' \in Seq(Messages)
        /\ \A i \in Answers' : i + 1 \in Answers /\ i \in Nat /\ i # 0 /\ wire'[i] = wire[i + 1]
    BY Read DEF Answers, SocketTypeOK
  <1>2. SocketTypeOK'
    BY <1>1 DEF SocketTypeOK
  <1>3. AnswersSay'
    BY <1>1 DEF AnswersSay
  <1>4. OneToCome'
    <2> SUFFICES ASSUME socket', timedOut' = {} PROVE OneToCome'
      BY DEF OneToCome
    <2>1. /\ \A of \in asked : calling = "exchange" /\ of = request /\ Answers = {}
          /\ \A i, j \in Answers : i = j
          /\ \A i \in Answers : calling = "exchange" /\ wire[i].of = request
      BY DEF OneToCome
    <2>2. \A i, j \in Answers' : i = j
      <3>1. \A i, j \in Answers' : i + 1 = j + 1
        BY <1>1, <2>1
      <3> QED BY <1>1, <3>1
    <2>3. CASE calling' = calling
      BY <1>1, <2>1, <2>2, <2>3 DEF OneToCome
    <2>4. CASE calling' # calling
      <3>1. 1 \in Answers
        BY <2>4
      <3>2. Answers' = {}
        <4>1. \A i \in Answers' : i + 1 = 1
          BY <1>1, <2>1, <3>1
        <4> QED BY <1>1, <4>1
      <3>3. asked = {}
        BY <2>1, <3>1
      <3> QED BY <3>2, <3>3 DEF OneToCome
    <2> QED BY <2>3, <2>4
  <1> QED BY <1>2, <1>3, <1>4

\* The exchange's own answer is taken, another's refused.
LEMMA ReadAnswerInv ==
    ASSUME AnswersOK, ReadAnswer
    PROVE  AnswersOK'
  <1> USE DEF AnswersOK
  <1>1. /\ socket /\ wire # <<>> /\ wire' = Tail(wire) /\ calling # "idle"
        /\ Head(wire).kind \in AnswerKinds
        /\ UNCHANGED <<counter, request, asked, timedOut, happened>>
    BY DEF ReadAnswer, Reading, AnswerKinds
  <1>2. Head(wire) = wire[1] /\ 1 \in DOMAIN wire /\ wire[1] \in Messages
    BY <1>1, Read
  <1>3. 1 \in Answers
    BY <1>1, <1>2 DEF Answers
  <1>4. Ended("rejected") \in Messages /\ Ended("rejected").kind \notin AnswerKinds
    BY DEF Ended, Message, Messages, Kinds, AnswerKinds, NoId
  <1>5. CASE calling = "exchange" /\ IsOurs(wire[1])
    <2>1. ended' = wire[1] /\ calling' = "idle" /\ socket' = socket
      BY <1>1, <1>2, <1>5 DEF ReadAnswer
    <2>2. SocketTypeOK' /\ AnswersSay' /\ OneToCome'
      BY <1>1, <1>2, <1>3, <2>1, ReadKeeps
    <2>3. /\ wire[1].id \in {request, NoId} /\ wire[1].of # NoId
          /\ wire[1].kind = "response" => wire[1].id = wire[1].of
          /\ wire[1].id \in {wire[1].of, NoId}
          /\ timedOut = {} => wire[1].of = request
      BY <1>1, <1>3, <1>5 DEF IsOurs, AnswersSay, OneToCome
    <2>4. wire[1].kind \in {"response", "error"}
      BY <1>1, <1>2 DEF AnswerKinds
    <2>5. AnswersAreOwn'
      BY <1>1, <2>1, <2>3, <2>4 DEF AnswersAreOwn
    <2> QED BY <2>2, <2>5
  <1>6. CASE ~(calling = "exchange" /\ IsOurs(wire[1]))
    <2>1. ended' = Ended("rejected") /\ calling' = "idle" /\ socket' = FALSE
      BY <1>1, <1>2, <1>6 DEF ReadAnswer, Hangs
    <2>2. SocketTypeOK' /\ AnswersSay' /\ OneToCome'
      BY <1>1, <1>4, <2>1, ReadKeeps
    <2>3. AnswersAreOwn'
      BY <1>4, <2>1 DEF AnswersAreOwn, AnswerKinds
    <2> QED BY <2>2, <2>3
  <1> QED BY <1>5, <1>6

\* Answering puts the one answer on the wire.
LEMMA AnswerInv ==
    ASSUME AnswersOK, NEW of \in Nat, NEW kind \in AnswerKinds, NEW id \in {of, NoId},
           Answer(of, kind, id)
    PROVE  AnswersOK'
  <1> USE DEF AnswersOK
  <1>1. /\ socket /\ of \in asked /\ asked' = asked \ {of} /\ (kind = "response" => id = of)
        /\ UNCHANGED <<socket, calling, counter, request, ended, timedOut, happened>>
    BY DEF Answer
  <1> DEFINE m == Message(kind, of, id, 0)
  <1>2. wire' = Append(wire, m) /\ m \in Messages /\ m.kind = kind /\ m.of = of /\ m.id = id
    BY DEF Answer, Message, Messages, Kinds, AnswerKinds, NoId
  <1> HIDE DEF m
  <1>3. /\ wire' \in Seq(Messages) /\ DOMAIN wire' = DOMAIN wire \cup {Len(wire) + 1}
        /\ wire'[Len(wire) + 1] = m /\ \A i \in DOMAIN wire : wire'[i] = wire[i]
    BY <1>2 DEF SocketTypeOK
  <1>4. /\ Answers' = Answers \cup {Len(wire) + 1}
        /\ \A i \in Answers : wire'[i] = wire[i]
    BY <1>2, <1>3 DEF Answers
  <1>5. SocketTypeOK'
    BY <1>1, <1>3 DEF SocketTypeOK
  <1>6. AnswersSay'
    BY <1>1, <1>2, <1>3, <1>4 DEF AnswersSay
  <1>7. OneToCome'
    <2> SUFFICES ASSUME timedOut' = {} PROVE OneToCome'
      BY DEF OneToCome
    <2>1. calling = "exchange" /\ of = request /\ Answers = {} /\ asked' = {}
      BY <1>1 DEF OneToCome
    <2>2. Answers' = {Len(wire) + 1}
      BY <1>4, <2>1
    <2> QED BY <1>1, <1>2, <1>3, <2>1, <2>2 DEF OneToCome
  <1>8. AnswersAreOwn'
    BY <1>1 DEF AnswersAreOwn
  <1> QED BY <1>5, <1>6, <1>7, <1>8

\* One step per action.
LEMMA AnswersInv ==
    ASSUME AnswersOK, SocketNext
    PROVE  AnswersOK'
  <1> USE DEF AnswersOK
  <1>1. CASE Change
    BY <1>1 DEF Change, SocketTypeOK, AnswersSay, OneToCome, AnswersAreOwn, Answers
  <1>2. CASE Push
    <2>1. Message("change", NoId, NoId, happened) \in Messages
      BY DEF Message, Messages, Kinds, NoId, SocketTypeOK
    <2>2. SocketTypeOK' /\ AnswersSay' /\ OneToCome'
      BY <1>2, <2>1, OtherIsSent DEF Push, Message, AnswerKinds
    <2> QED BY <1>2, <2>2 DEF Push, AnswersAreOwn
  <1>3. ASSUME NEW of \in 1 .. MaxRequests, NEW kind \in {"response", "error"}, NEW id \in {of, NoId},
               Answer(of, kind, id)
        PROVE  AnswersOK'
    BY <1>3, AnswerInv DEF AnswerKinds
  <1>4. ASSUME NEW kind \in {"close", "junk"}, NEW code \in Nat, ServerSends(kind, code)
        PROVE  AnswersOK'
    <2>1. Message(kind, NoId, NoId, code) \in Messages
      BY DEF Message, Messages, Kinds, NoId
    <2>2. SocketTypeOK' /\ AnswersSay' /\ OneToCome'
      BY <1>4, <2>1, OtherIsSent DEF ServerSends, Message, AnswerKinds
    <2> QED BY <1>4, <2>2 DEF ServerSends, AnswersAreOwn
  <1>5. Ended("none") \in Messages /\ Ended("closed") \in Messages /\ Ended("timeout") \in Messages
    BY DEF Ended, Message, Messages, Kinds, NoId
  <1>6. /\ Ended("none").kind \notin {"response", "error"}
        /\ Ended("closed").kind \notin {"response", "error"}
        /\ Ended("timeout").kind \notin {"response", "error"}
    BY DEF Ended, Message
  <1>7. CASE Open
    <2>1. /\ wire' = <<>> /\ asked' = {} /\ ended' = Ended("none")
          /\ UNCHANGED <<calling, counter, request, happened>>
      BY <1>7 DEF Open
    <2>2. Answers' = {}
      BY <2>1 DEF Answers
    <2>3. wire' \in Seq(Messages)
      BY <2>1
    <2> QED
      BY <1>5, <1>6, <2>1, <2>2, <2>3 DEF SocketTypeOK, AnswersSay, OneToCome, AnswersAreOwn
  <1>8. CASE Close
    BY <1>8 DEF Close, Hangs, SocketTypeOK, AnswersSay, OneToCome, AnswersAreOwn, Answers
  <1>9. CASE Send
    <2>1. /\ socket /\ calling = "idle" /\ counter' = counter + 1 /\ request' = counter'
          /\ asked' = asked \cup {counter'} /\ calling' = "exchange" /\ ended' = Ended("none")
          /\ UNCHANGED <<socket, wire, timedOut, happened>>
      BY <1>9 DEF Send
    <2>2. counter' \in Nat /\ counter' # NoId
      BY <2>1 DEF SocketTypeOK, NoId
    <2>3. Answers' = Answers
      BY <2>1 DEF Answers
    <2>4. OneToCome'
      BY <2>1, <2>3 DEF OneToCome
    <2>5. SocketTypeOK' /\ AnswersSay'
      BY <1>5, <2>1, <2>2, <2>3 DEF SocketTypeOK, AnswersSay
    <2>6. AnswersAreOwn'
      BY <1>6, <2>1 DEF AnswersAreOwn
    <2> QED BY <2>4, <2>5, <2>6
  <1>10. CASE SendFails
    <2>1. /\ counter' = counter + 1 /\ request' = counter' /\ socket' = FALSE
          /\ calling' = "idle" /\ ended' = Ended("closed")
          /\ UNCHANGED <<wire, asked, timedOut, happened>>
      BY <1>10 DEF SendFails, Hangs
    <2>2. SocketTypeOK'
      BY <1>5, <2>1 DEF SocketTypeOK
    <2> QED BY <1>6, <2>1, <2>2 DEF AnswersSay, OneToCome, AnswersAreOwn, Answers
  <1>11. CASE (\E resume \in BOOLEAN : EnablePush(resume)) \/ DisablePush
    BY <1>11 DEF EnablePush, DisablePush, SocketTypeOK, AnswersSay, OneToCome, AnswersAreOwn, Answers
  <1>12. CASE Listen
    BY <1>5, <1>6, <1>12 DEF Listen, SocketTypeOK, AnswersSay, OneToCome, AnswersAreOwn, Answers
  <1>13. CASE StopListening
    BY <1>13 DEF StopListening, SocketTypeOK, AnswersSay, OneToCome, AnswersAreOwn, Answers
  <1>14. CASE YieldPending
    BY <1>14 DEF YieldPending, SocketTypeOK, AnswersSay, OneToCome, AnswersAreOwn, Answers
  <1>15. CASE NothingToRead
    BY <1>5, <1>6, <1>15 DEF NothingToRead, SocketTypeOK, AnswersSay, OneToCome, AnswersAreOwn, Answers
  <1>16. CASE ReadChange
    <2>1. /\ wire # <<>> /\ wire' = Tail(wire)
          /\ UNCHANGED <<socket, calling, counter, request, ended, asked, timedOut, happened>>
      BY <1>16 DEF ReadChange, Reading
    <2>2. SocketTypeOK' /\ AnswersSay' /\ OneToCome'
      BY <2>1, ReadKeeps DEF SocketTypeOK
    <2> QED BY <2>1, <2>2 DEF AnswersAreOwn
  <1>17. CASE ReadAnswer
    BY <1>17, ReadAnswerInv
  <1>18. CASE ReadEnd
    <2>1. /\ wire # <<>> /\ wire' = Tail(wire) /\ socket' = FALSE /\ calling' = "idle"
          /\ UNCHANGED <<counter, request, asked, timedOut, happened>>
      BY <1>18 DEF ReadEnd, Reading, Hangs
    <2>2. \E kind \in {"rejected", "reauthenticate", "over", "closed"} : ended' = Ended(kind)
      BY <1>18 DEF ReadEnd
    <2>3. ended' \in Messages /\ ended'.kind \notin {"response", "error"}
      BY <2>2 DEF Ended, Message, Messages, Kinds, NoId
    <2>4. SocketTypeOK' /\ AnswersSay' /\ OneToCome'
      BY <2>1, <2>3, ReadKeeps
    <2> QED BY <2>3, <2>4 DEF AnswersAreOwn
  <1>19. CASE Timeout
    <2>1. /\ calling' = "idle" /\ ended' = Ended("timeout") /\ timedOut' # {}
          /\ UNCHANGED <<socket, counter, request, wire, asked, happened>>
      BY <1>19 DEF Timeout
    <2> QED BY <1>5, <1>6, <2>1 DEF SocketTypeOK, AnswersSay, OneToCome, AnswersAreOwn, Answers
  <1>20. 0 \in Nat /\ Closes \subseteq Nat
    BY ClosesAssumption DEF ClosesAssumption
  <1> QED
    BY <1>1, <1>2, <1>3, <1>4, <1>7, <1>8, <1>9, <1>10, <1>11, <1>12, <1>13, <1>14, <1>15,
       <1>16, <1>17, <1>18, <1>19, <1>20 DEF SocketNext

-----------------------------------------------------------------------------
(***************************************************************************)
(* Changes.  What the client has read last bounds from below all that is   *)
(* still on its way, on whichever socket it was read.                      *)
(***************************************************************************)
Newest == IF pending = <<>> THEN told ELSE Last(pending)
Changes == {i \in DOMAIN wire : wire[i].kind = "change"}

ChangeTypeOK == pending \in Seq(Nat) /\ told \in Nat /\ pushState \in Nat

WireInOrder ==
    /\ Newest <= happened
    /\ \A i \in Changes : Newest <= wire[i].n /\ wire[i].n <= happened
    /\ \A i, j \in Changes : i < j => wire[i].n <= wire[j].n

ChangesOK == ChangeTypeOK /\ WireInOrder /\ ChangesAreKept

LEMMA NewestIsNat ==
    ASSUME ChangeTypeOK PROVE Newest \in Nat
  BY DEF ChangeTypeOK, Newest, Last

\* The last one pending, once another is put behind them.
LEMMA AppendKeeps ==
    ASSUME ChangeTypeOK, ChangesAreKept, NEW n \in Nat, Newest <= n, pending' = Append(pending, n),
           told' = told, pushState' = n
    PROVE  ChangeTypeOK' /\ ChangesAreKept' /\ Newest' = n
  <1>1. /\ pending' \in Seq(Nat) /\ Len(pending') = Len(pending) + 1 /\ Len(pending) \in Nat
        /\ pending'[Len(pending) + 1] = n /\ \A i \in 1..Len(pending) : pending'[i] = pending[i]
        /\ pending' # <<>>
    BY DEF ChangeTypeOK
  <1>2. Newest' = n
    BY <1>1 DEF Newest, Last
  <1>3. ChangeTypeOK'
    BY <1>1 DEF ChangeTypeOK
  <1>4. ASSUME NEW i \in DOMAIN pending'
        PROVE  pending'[i] >= (IF i = 1 THEN told' ELSE pending'[i - 1])
    <2>1. i \in 1..(Len(pending) + 1)
      BY <1>1
    <2>2. CASE i \in 1..Len(pending)
      <3>1. pending[i] >= (IF i = 1 THEN told ELSE pending[i - 1])
        BY <2>2 DEF ChangesAreKept, ChangeTypeOK
      <3>2. i # 1 => i - 1 \in 1..Len(pending)
        BY <1>1, <2>2
      <3> QED BY <1>1, <2>2, <3>1, <3>2
    <2>3. CASE i = Len(pending) + 1 /\ pending = <<>>
      <3>1. i = 1 /\ pending'[i] = n /\ told <= n /\ told \in Nat
        BY <1>1, <2>3 DEF Newest, ChangeTypeOK
      <3> QED BY <3>1
    <2>4. CASE i = Len(pending) + 1 /\ pending # <<>>
      <3>1. Len(pending) \in 1..Len(pending) /\ i # 1 /\ i - 1 = Len(pending)
        BY <1>1, <2>4 DEF ChangeTypeOK
      <3>2. pending'[i] = n /\ pending'[i - 1] = pending[Len(pending)]
        BY <1>1, <2>4, <3>1
      <3>3. pending[Len(pending)] <= n /\ pending[Len(pending)] \in Nat
        BY <2>4, <3>1 DEF Newest, Last, ChangeTypeOK
      <3> QED BY <3>1, <3>2, <3>3
    <2> QED BY <1>1, <2>1, <2>2, <2>3, <2>4
  <1>5. pushState' <= (IF pending' = <<>> THEN told' ELSE Last(pending'))
    BY <1>1 DEF Last
  <1> QED BY <1>2, <1>3, <1>4, <1>5 DEF ChangesAreKept

LEMMA YieldKeeps ==
    ASSUME ChangeTypeOK, ChangesAreKept, YieldPending
    PROVE  ChangeTypeOK' /\ ChangesAreKept' /\ Newest' = Newest
  <1>1. /\ pending # <<>> /\ told' = pending[1] /\ pending' = Tail(pending) /\ pushState' = pushState
    BY DEF YieldPending
  <1>2. /\ Len(pending) \in Nat \ {0} /\ pending' \in Seq(Nat) /\ Len(pending') = Len(pending) - 1
        /\ \A i \in 1..Len(pending') : pending'[i] = pending[i + 1]
        /\ pending[1] \in Nat
    BY <1>1 DEF ChangeTypeOK
  <1>3. ChangeTypeOK'
    BY <1>1, <1>2 DEF ChangeTypeOK
  <1>4. Newest' = Newest
    <2>1. CASE Len(pending) = 1
      <3>1. pending' = <<>>
        BY <1>2, <2>1
      <3> QED BY <1>1, <2>1, <3>1 DEF Newest, Last
    <2>2. CASE Len(pending) # 1
      <3>1. pending' # <<>> /\ Len(pending') \in 1..Len(pending')
        BY <1>2, <2>2
      <3>2. pending'[Len(pending')] = pending[Len(pending)]
        BY <1>2, <3>1
      <3> QED BY <1>1, <3>1, <3>2 DEF Newest, Last
    <2> QED BY <2>1, <2>2
  <1>5. ASSUME NEW i \in DOMAIN pending'
        PROVE  pending'[i] >= (IF i = 1 THEN told' ELSE pending'[i - 1])
    <2>1. i \in 1..Len(pending') /\ i + 1 \in 1..Len(pending) /\ i + 1 # 1 /\ (i + 1) - 1 = i
      BY <1>2
    <2>2. pending[i + 1] >= pending[i]
      <3>1. i + 1 \in DOMAIN pending
        BY <2>1 DEF ChangeTypeOK
      <3> QED BY <2>1, <3>1 DEF ChangesAreKept
    <2>3. ASSUME i # 1  PROVE pending'[i - 1] = pending[i]
      <3>1. i - 1 \in 1..Len(pending') /\ (i - 1) + 1 = i
        BY <2>1, <2>3
      <3> QED BY <1>2, <3>1
    <2>4. pending'[i] = pending[i + 1] /\ told' = pending[1]
      BY <1>1, <1>2, <2>1
    <2> QED BY <2>2, <2>3, <2>4
  <1>6. pushState' # 0 => pushState' <= Newest'
    BY <1>1, <1>4 DEF ChangesAreKept, Newest
  <1> QED BY <1>3, <1>4, <1>5, <1>6 DEF ChangesAreKept, Newest

\* What is still to be read, after a message was.
LEMMA TailInOrder ==
    ASSUME SocketTypeOK, ChangeTypeOK, WireInOrder, wire # <<>>, wire' = Tail(wire), happened' = happened,
           Newest' = Newest \/ (1 \in Changes /\ Newest' = wire[1].n)
    PROVE  WireInOrder'
  <1>1. \A i \in Changes' : /\ i \in Nat /\ i # 0 /\ i + 1 \in Changes /\ 1 < i + 1
                            /\ wire'[i] = wire[i + 1]
    <2>1. \A i \in DOMAIN wire' : i \in Nat
      BY DEF SocketTypeOK
    <2> QED BY <2>1, Read DEF Changes
  <1>2. Newest' <= happened' /\ \A i \in Changes' : Newest' <= wire'[i].n
    BY <1>1 DEF WireInOrder
  <1>3. \A i \in Changes' : wire'[i].n <= happened'
    BY <1>1 DEF WireInOrder
  <1>4. ASSUME NEW i \in Changes', NEW j \in Changes', i < j PROVE wire'[i].n <= wire'[j].n
    <2>1. i + 1 < j + 1
      BY <1>1, <1>4
    <2> QED BY <1>1, <2>1 DEF WireInOrder
  <1> QED BY <1>2, <1>3, <1>4 DEF WireInOrder

\* What is put on the wire is no change, or the newest there is.
LEMMA AppendInOrder ==
    ASSUME SocketTypeOK, ChangeTypeOK, WireInOrder, NEW m \in Messages, wire' = Append(wire, m),
           m.kind = "change" => m.n = happened,
           UNCHANGED <<happened, pending, told>>
    PROVE  WireInOrder'
  <1>1. /\ wire' \in Seq(Messages) /\ DOMAIN wire' = DOMAIN wire \cup {Len(wire) + 1}
        /\ wire'[Len(wire) + 1] = m /\ \A i \in DOMAIN wire : wire'[i] = wire[i]
        /\ \A i \in DOMAIN wire : i \in Nat /\ ~(Len(wire) + 1 < i)
    BY DEF SocketTypeOK
  <1>2. Newest' = Newest /\ Newest \in Nat /\ happened \in Nat
    BY NewestIsNat DEF Newest, SocketTypeOK
  <1>3. \A i \in Changes' : i \in Changes \/ (i = Len(wire) + 1 /\ wire'[i].n = happened)
    BY <1>1 DEF Changes
  <1>4. \A i \in Changes : wire'[i] = wire[i] /\ i \in DOMAIN wire
    BY <1>1 DEF Changes
  <1>5. \A i \in Changes' : Newest' <= wire'[i].n /\ wire'[i].n <= happened'
    BY <1>2, <1>3, <1>4 DEF WireInOrder
  <1>6. ASSUME NEW i \in Changes', NEW j \in Changes', i < j PROVE wire'[i].n <= wire'[j].n
    <2>1. CASE i \in Changes /\ j \in Changes
      BY <1>4, <1>6, <2>1 DEF WireInOrder
    <2>2. CASE wire'[j].n = happened
      BY <1>5, <2>2
    <2>3. CASE i = Len(wire) + 1 /\ j \in Changes
      BY <1>1, <1>4, <1>6, <2>3
    <2>4. CASE i = Len(wire) + 1 /\ j = Len(wire) + 1
      BY <1>6, <2>4 DEF SocketTypeOK
    <2> QED BY <1>3, <2>1, <2>2, <2>3, <2>4
  <1> QED BY <1>2, <1>5, <1>6 DEF WireInOrder

LEMMA ReadChangeInv ==
    ASSUME AnswersOK, ChangesOK, ReadChange
    PROVE  ChangesOK'
  <1> USE DEF AnswersOK, ChangesOK
  <1>1. /\ wire # <<>> /\ wire' = Tail(wire) /\ happened' = happened
        /\ Head(wire).kind = "change" /\ pushState' = Head(wire).n
        /\ calling = "notifications" => pending = <<>>
        /\ calling # "idle"
    BY DEF ReadChange, Reading
  <1>2. Head(wire) = wire[1] /\ 1 \in DOMAIN wire /\ wire[1] \in Messages
    BY <1>1, Read
  <1> DEFINE n == wire[1].n
  <1>3. n \in Nat /\ 1 \in Changes /\ Newest <= n /\ Newest \in Nat /\ pushState' = n
    BY <1>1, <1>2, NewestIsNat DEF Messages, Changes, WireInOrder
  <1> HIDE DEF n
  <1>4. ChangeTypeOK' /\ ChangesAreKept' /\ Newest' = n
    <2>1. CASE calling = "exchange"
      <3>1. pending' = Append(pending, n) /\ told' = told
        BY <1>2, <2>1 DEF ReadChange, n
      <3> QED BY <1>3, <3>1, AppendKeeps
    <2>2. CASE calling = "notifications"
      <3>1. pending = <<>> /\ pending' = <<>> /\ told' = n
        BY <1>1, <1>2, <2>2 DEF ReadChange, n
      <3>2. ChangeTypeOK'
        BY <1>3, <3>1 DEF ChangeTypeOK
      <3>3. DOMAIN pending' = {} /\ pushState' <= told'
        BY <1>3, <3>1
      <3> QED BY <3>1, <3>2, <3>3 DEF ChangesAreKept, Newest
    <2> QED BY <1>1, <2>1, <2>2 DEF SocketTypeOK
  <1>5. WireInOrder'
    BY <1>1, <1>3, <1>4, TailInOrder DEF n
  <1> QED BY <1>4, <1>5

\* One step per action.
LEMMA ChangesInv ==
    ASSUME AnswersOK, ChangesOK, SocketNext
    PROVE  ChangesOK'
  <1> USE DEF AnswersOK, ChangesOK
  <1>1. ASSUME UNCHANGED <<pending, told, pushState, wire, happened>>
        PROVE  ChangesOK'
    BY <1>1 DEF ChangeTypeOK, WireInOrder, ChangesAreKept, Newest, Changes
  <1>2. ASSUME UNCHANGED <<pending, told, pushState, happened>>, NEW m \in Messages,
               wire' = Append(wire, m), m.kind = "change" => m.n = happened
        PROVE  ChangesOK'
    <2>1. WireInOrder'
      BY <1>2, AppendInOrder
    <2> QED BY <1>2, <2>1 DEF ChangeTypeOK, ChangesAreKept
  <1>3. ASSUME UNCHANGED <<pending, told, pushState, happened>>, wire # <<>>, wire' = Tail(wire)
        PROVE  ChangesOK'
    <2>1. Newest' = Newest
      BY <1>3 DEF Newest
    <2>2. WireInOrder'
      BY <1>3, <2>1, TailInOrder
    <2> QED BY <1>3, <2>2 DEF ChangeTypeOK, ChangesAreKept
  <1>4. CASE Change
    <2>1. happened' = happened + 1 /\ UNCHANGED <<pending, told, pushState, wire>>
      BY <1>4 DEF Change
    <2>2. happened \in Nat /\ Newest \in Nat
      BY NewestIsNat DEF SocketTypeOK
    <2>3. Newest' = Newest /\ Changes' = Changes
      BY <2>1 DEF Newest, Changes
    <2>4. \A i \in Changes : wire[i].n \in Nat
      <3>1. \A i \in DOMAIN wire : wire[i] \in Messages
        BY DEF SocketTypeOK
      <3> QED BY <3>1 DEF Messages, Changes
    <2>5. WireInOrder'
      BY <2>1, <2>2, <2>3, <2>4 DEF WireInOrder
    <2> QED BY <2>1, <2>5 DEF ChangeTypeOK, ChangesAreKept
  <1>5. CASE Push
    <2>1. /\ Message("change", NoId, NoId, happened) \in Messages
          /\ Message("change", NoId, NoId, happened).n = happened
      BY DEF Message, Messages, Kinds, NoId, SocketTypeOK
    <2> QED BY <1>2, <1>5, <2>1 DEF Push
  <1>6. ASSUME NEW of \in Nat, NEW kind \in {"response", "error"}, NEW id \in {of, NoId},
               Answer(of, kind, id)
        PROVE  ChangesOK'
    <2>1. Message(kind, of, id, 0) \in Messages /\ Message(kind, of, id, 0).kind # "change"
      BY DEF Message, Messages, Kinds, NoId
    <2> QED BY <1>2, <1>6, <2>1 DEF Answer
  <1>7. ASSUME NEW kind \in {"close", "junk"}, NEW code \in Nat, ServerSends(kind, code)
        PROVE  ChangesOK'
    <2>1. Message(kind, NoId, NoId, code) \in Messages /\ Message(kind, NoId, NoId, code).kind # "change"
      BY DEF Message, Messages, Kinds, NoId
    <2> QED BY <1>2, <1>7, <2>1 DEF ServerSends
  <1>8. CASE Open
    <2>1. wire' = <<>> /\ UNCHANGED <<pending, told, pushState, happened>>
      BY <1>8 DEF Open
    <2>2. Changes' = {} /\ Newest' = Newest
      BY <2>1 DEF Changes, Newest
    <2> QED BY <2>1, <2>2 DEF ChangeTypeOK, ChangesAreKept, WireInOrder
  <1>9. CASE Close \/ Send \/ SendFails \/ (\E resume \in BOOLEAN : EnablePush(resume)) \/ DisablePush
    BY <1>1, <1>9 DEF Close, Kept, Send, SendFails, EnablePush, DisablePush
  <1>10. CASE Listen \/ StopListening \/ NothingToRead \/ Timeout
    BY <1>1, <1>10 DEF Listen, StopListening, NothingToRead, Timeout
  <1>11. CASE YieldPending
    <2>1. ChangeTypeOK' /\ ChangesAreKept' /\ Newest' = Newest /\ UNCHANGED <<wire, happened>>
      BY <1>11, YieldKeeps DEF YieldPending
    <2> QED BY <2>1 DEF WireInOrder, Changes
  <1>12. CASE ReadChange
    BY <1>12, ReadChangeInv
  <1>13. CASE ReadAnswer \/ ReadEnd
    BY <1>3, <1>13 DEF ReadAnswer, ReadEnd, Reading
  <1>14. 0 \in Nat /\ Closes \subseteq Nat /\ \A of \in 1 .. MaxRequests : of \in Nat
    BY ClosesAssumption DEF ClosesAssumption
  <1> QED
    BY <1>4, <1>5, <1>6, <1>7, <1>8, <1>9, <1>10, <1>11, <1>12, <1>13, <1>14 DEF SocketNext

-----------------------------------------------------------------------------
(***************************************************************************)
(* Together.                                                               *)
(***************************************************************************)
SocketInv == AnswersOK /\ ChangesOK

LEMMA SocketInitInv == Init => SocketInv
  <1> SUFFICES ASSUME Init PROVE SocketInv
    OBVIOUS
  <1>1. Ended("none") \in Messages /\ Ended("none").kind \notin {"response", "error"}
    BY DEF Ended, Message, Messages, Kinds, NoId
  <1>2. wire = <<>> /\ pending = <<>> /\ told = 0 /\ pushState = 0 /\ happened = 0 /\ ended = Ended("none")
    BY DEF Init, SocketInit
  <1>3. Answers = {} /\ Changes = {}
    BY <1>2 DEF Answers, Changes
  <1>4. wire \in Seq(Messages) /\ pending \in Seq(Nat) /\ DOMAIN pending = {}
    BY <1>2
  <1>5. AnswersOK
    BY <1>1, <1>2, <1>3, <1>4
    DEF Init, SocketInit, AnswersOK, SocketTypeOK, AnswersSay, OneToCome, AnswersAreOwn, NoId
  <1>6. Newest = 0
    BY <1>2 DEF Newest
  <1>7. ChangesOK
    BY <1>2, <1>3, <1>4, <1>6 DEF ChangesOK, ChangeTypeOK, WireInOrder, ChangesAreKept
  <1> QED BY <1>5, <1>7 DEF SocketInv

LEMMA SocketNextInv == SocketInv /\ [Next]_vars => SocketInv'
  <1> SUFFICES ASSUME SocketInv, [Next]_vars PROVE SocketInv'
    OBVIOUS
  <1>1. CASE SocketNext
    BY <1>1, AnswersInv, ChangesInv DEF SocketInv
  <1>2. CASE UNCHANGED socketVars
    BY <1>2
    DEF socketVars, SocketInv, AnswersOK, SocketTypeOK, AnswersSay, OneToCome, AnswersAreOwn, Answers,
        ChangesOK, ChangeTypeOK, WireInOrder, ChangesAreKept, Newest, Changes
  <1> QED BY <1>1, <1>2 DEF Next, vars

\* The two parts of the invariant.
THEOREM SocketInvariant == Spec => []SocketInv
  <1> QED BY SocketInitInv, SocketNextInv, PTL DEF Spec

\* For any number of requests, timeouts and sockets, an answer taken is one's own unless
\* something was given up on this socket, and no change read is lost or out of order.
THEOREM SocketIsAlwaysRead == Spec => []SocketIsRead
  <1>1. SocketInv => SocketIsRead
    BY DEF SocketInv, AnswersOK, ChangesOK, SocketIsRead
  <1> QED BY <1>1, SocketInvariant, PTL

-----------------------------------------------------------------------------
(***************************************************************************)
(* PushSubscriptions.                                                      *)
(***************************************************************************)

Entries == [id : Ids \cup Strangers, code : Nat]
Issued == DOMAIN made \cup destroyed

(***************************************************************************)
(* The parts of the invariant: what exists and under which keys.           *)
(***************************************************************************)
SubscriptionTypeOK ==
    /\ serverKey \in Nat /\ sessionKey \in Nat
    /\ creating \in Seq(Nat)
    /\ made \in [DOMAIN made -> [with : Nat, verified : BOOLEAN]]
    /\ known \in [DOMAIN known -> Nat]
    /\ answered \subseteq [id : Ids, with : Nat]

\* Ids are given out in order, and what has one was made.
IssuedInOrder ==
    /\ \E n \in 0 .. MaxCreates : Issued = 1 .. n
    /\ DOMAIN made \cap destroyed = {}
    /\ DOMAIN known \subseteq Issued
    /\ \A answer \in answered : answer.id \in Issued

\* The key a subscription is believed to be made with: its own, and no longer the
\* server's when that is why it went.
MadeWith(id, key) ==
    \/ id \in DOMAIN made /\ key = made[id].with
    \/ id \in destroyed /\ key < serverKey

KeysAreOld ==
    /\ sessionKey <= serverKey
    /\ \A i \in DOMAIN creating : creating[i] <= serverKey
    /\ \A id \in DOMAIN made : made[id].with <= serverKey
    /\ \A id \in DOMAIN known : known[id] = NoKey \/ MadeWith(id, known[id])
    /\ \A answer \in answered : MadeWith(answer.id, answer.with)

KeysOK == SubscriptionTypeOK /\ IssuedInOrder /\ KeysAreOld

(***************************************************************************)
(* The parts of the invariant: codes.                                      *)
(***************************************************************************)
CodeTypeOK ==
    /\ codes \in Seq(Entries) /\ claimed \subseteq Entries
    /\ seen \subseteq Issued
    /\ since \in [Ids -> SUBSET (Ids \cup Strangers)]
    /\ \A id \in Ids : IsFiniteSet(since[id])

\* The code of a subscription of the client's is the server's.
CodesAreRight ==
    /\ \A body \in bodies : body.id \in Issued /\ body.code = body.id
    /\ \A i \in DOMAIN codes : codes[i].id \in Ids => codes[i].code = codes[i].id
    /\ \A entry \in claimed : entry.id \in Ids => entry.code = entry.id

Enough(T) == Cardinality(T) >= MaxPending

\* What is behind a code in the table was recorded since.
BehindIsLater ==
    \A i \in DOMAIN codes : codes[i].id \in Ids =>
        /\ codes[i].id \in seen
        /\ Enough(since[codes[i].id])
           \/ \A j \in DOMAIN codes : j > i => codes[j].id \in since[codes[i].id]

CodesOK == CodeTypeOK /\ CodesAreRight /\ BehindIsLater /\ CodesAreKept /\ CodesAreBounded

SubscriptionInv == KeysOK /\ CodesOK

-----------------------------------------------------------------------------
(***************************************************************************)
(* Keys.                                                                   *)
(***************************************************************************)
LEMMA PutIs ==
    ASSUME NEW table, NEW id, NEW value
    PROVE  /\ DOMAIN Put(table, id, value) = DOMAIN table \cup {id}
           /\ Put(table, id, value)[id] = value
           /\ \A key \in DOMAIN table : key # id => Put(table, id, value)[key] = table[key]
           /\ Put(table, id, value) \in [DOMAIN table \cup {id} -> {Put(table, id, value)[key] : key \in DOMAIN table \cup {id}}]
  BY DEF Put

\* The next id is one nobody has.
LEMMA NextIdIsNew ==
    ASSUME IssuedInOrder, NEW id \in Ids, id = Cardinality(Issued) + 1
    PROVE  id \notin Issued /\ Issued \cup {id} = 1 .. id
  <1>1. PICK n \in 0 .. MaxCreates : Issued = 1 .. n
    BY DEF IssuedInOrder
  <1>2. n \in Nat /\ Cardinality(1 .. n) = n
    BY FS_Interval, StrangersAssumption DEF StrangersAssumption
  <1> QED BY <1>1, <1>2

LEMMA MadeKeys ==
    ASSUME KeysOK, NEW id \in Ids, Made(id)
    PROVE  KeysOK'
  <1>0. PICK key : key = Head(creating)
    OBVIOUS
  <1>1. key \in Nat /\ key <= serverKey /\ creating' \in Seq(Nat)
        /\ \A i \in DOMAIN creating' : creating'[i] <= serverKey
    BY <1>0 DEF Made, KeysOK, SubscriptionTypeOK, KeysAreOld
  <1>2. id \notin Issued /\ Issued \cup {id} = 1 .. id
    BY NextIdIsNew DEF Made, KeysOK, Issued
  <1>3. /\ DOMAIN made' = DOMAIN made \cup {id}
        /\ made'[id] = [with |-> key, verified |-> FALSE]
        /\ \A other \in DOMAIN made : made'[other] = made[other]
        /\ made' = [other \in DOMAIN made' |-> made'[other]]
    BY <1>0, <1>2 DEF Made, Put, Issued
  <1>a. answered' = answered \cup {[id |-> id, with |-> key]}
        /\ UNCHANGED <<serverKey, sessionKey, known, destroyed>>
    BY <1>0 DEF Made
  <1>4. Issued' = Issued \cup {id} /\ id \in 0 .. MaxCreates
    BY <1>3, <1>a, StrangersAssumption DEF Issued, Ids, StrangersAssumption
  <1>5. SubscriptionTypeOK'
    <2>1. [with |-> key, verified |-> FALSE] \in [with : Nat, verified : BOOLEAN]
          /\ [id |-> id, with |-> key] \in [id : Ids, with : Nat]
      BY <1>1
    <2>2. \A other \in DOMAIN made' : made'[other] \in [with : Nat, verified : BOOLEAN]
      BY <1>3, <2>1 DEF KeysOK, SubscriptionTypeOK
    <2> QED BY <1>1, <1>3, <1>a, <2>1, <2>2 DEF KeysOK, SubscriptionTypeOK
  <1>6. IssuedInOrder'
    <2>1. DOMAIN made' \cap destroyed' = {}
      BY <1>2, <1>3, <1>a DEF KeysOK, IssuedInOrder, Issued
    <2>2. \E n \in 0 .. MaxCreates : Issued' = 1 .. n
      BY <1>2, <1>4
    <2> QED BY <1>4, <1>a, <2>1, <2>2 DEF KeysOK, IssuedInOrder
  <1>7. \A other, with : MadeWith(other, with) => MadeWith(other, with)'
    BY <1>3, <1>a DEF MadeWith
  <1>8. MadeWith(id, key)'
    BY <1>3 DEF MadeWith
  <1>9. KeysAreOld'
    <2>1. \A answer \in answered' : MadeWith(answer.id, answer.with)'
      BY <1>7, <1>8, <1>a DEF KeysOK, KeysAreOld
    <2>2. \A other \in DOMAIN known' : known'[other] = NoKey \/ MadeWith(other, known[other])'
      BY <1>7, <1>a DEF KeysOK, KeysAreOld
    <2>3. \A other \in DOMAIN made' : made'[other].with <= serverKey'
      BY <1>1, <1>3, <1>a DEF KeysOK, KeysAreOld
    <2> QED BY <1>1, <1>a, <2>1, <2>2, <2>3 DEF KeysOK, KeysAreOld
  <1> QED BY <1>5, <1>6, <1>9 DEF KeysOK

LEMMA DestroyKeys ==
    ASSUME KeysOK, NEW id \in Ids, Destroy(id)
    PROVE  KeysOK'
  <1>1. /\ DOMAIN made' = DOMAIN made \ {id} /\ destroyed' = destroyed \cup {id}
        /\ \A other \in DOMAIN made' : made'[other] = made[other]
        /\ made' = [other \in DOMAIN made' |-> made'[other]]
        /\ id \in DOMAIN made /\ made[id].with # serverKey
    BY DEF Destroy, Restrict
  <1>2. made[id].with \in Nat /\ made[id].with < serverKey
    BY <1>1 DEF KeysOK, SubscriptionTypeOK, KeysAreOld
  <1>3. Issued' = Issued
    BY <1>1 DEF Issued
  <1>u. UNCHANGED <<serverKey, sessionKey, creating, answered, known>>
    BY DEF Destroy
  <1>4. SubscriptionTypeOK'
    BY <1>1, <1>u DEF KeysOK, SubscriptionTypeOK
  <1>5. IssuedInOrder'
    BY <1>1, <1>u, <1>3 DEF KeysOK, IssuedInOrder
  <1>6. \A other, with : MadeWith(other, with) => MadeWith(other, with)'
    BY <1>1, <1>2 DEF Destroy, MadeWith
  <1>7. KeysAreOld'
    BY <1>1, <1>6 DEF Destroy, KeysOK, KeysAreOld
  <1> QED BY <1>4, <1>5, <1>7 DEF KeysOK

LEMMA VerifyKeys ==
    ASSUME KeysOK, NEW entry \in claimed, Verify(entry)
    PROVE  KeysOK'
  <1>1. /\ DOMAIN made' = DOMAIN made
        /\ \A id \in DOMAIN made : made'[id].with = made[id].with
        /\ made' \in [DOMAIN made' -> [with : Nat, verified : BOOLEAN]]
    BY DEF Verify, KeysOK, SubscriptionTypeOK
  <1>2. UNCHANGED <<serverKey, sessionKey, creating, answered, known, destroyed>>
    BY DEF Verify
  <1>3. SubscriptionTypeOK' /\ IssuedInOrder'
    BY <1>1, <1>2 DEF KeysOK, SubscriptionTypeOK, IssuedInOrder, Issued
  <1>4. ASSUME NEW id, NEW key, MadeWith(id, key)  PROVE MadeWith(id, key)'
    BY <1>1, <1>2, <1>4 DEF MadeWith
  <1>5. KeysAreOld'
    BY <1>1, <1>2, <1>4 DEF KeysOK, KeysAreOld
  <1> QED
    BY <1>3, <1>5 DEF KeysOK

\* The server's key only moves on.
LEMMA ServerAndSessionKeys ==
    ASSUME KeysOK, Rotate \/ RefreshSession \/ Create
    PROVE  KeysOK'
  <1>1. CASE Rotate
    <2>1. serverKey' \in Nat /\ serverKey < serverKey'
      BY <1>1 DEF Rotate, KeysOK, SubscriptionTypeOK
    <2>2. \A key \in Nat : key <= serverKey => key <= serverKey'
      BY <2>1 DEF KeysOK, SubscriptionTypeOK
    <2>3. \A id : \A key \in Nat : MadeWith(id, key) => MadeWith(id, key)'
      BY <1>1, <2>1 DEF Rotate, MadeWith, KeysOK, SubscriptionTypeOK
    <2>4. SubscriptionTypeOK' /\ IssuedInOrder'
      BY <1>1, <2>1 DEF Rotate, KeysOK, SubscriptionTypeOK, IssuedInOrder, Issued
    <2>5. KeysAreOld'
      BY <1>1, <2>2, <2>3 DEF Rotate, KeysOK, KeysAreOld, SubscriptionTypeOK
    <2> QED BY <2>4, <2>5 DEF KeysOK
  <1>2. CASE RefreshSession
    BY <1>2 DEF RefreshSession, KeysOK, SubscriptionTypeOK, IssuedInOrder, Issued, KeysAreOld, MadeWith
  <1>3. CASE Create
    <2>1. creating' \in Seq(Nat) /\ \A i \in DOMAIN creating' : creating'[i] <= serverKey
      BY <1>3 DEF Create, KeysOK, SubscriptionTypeOK, KeysAreOld
    <2> QED
      BY <1>3, <2>1 DEF Create, KeysOK, SubscriptionTypeOK, IssuedInOrder, Issued, KeysAreOld, MadeWith
  <1> QED BY <1>1, <1>2, <1>3

\* What the client knows.
LEMMA ClientKeys ==
    ASSUME KeysOK,
           \/ FindMine
           \/ \E answer \in answered : AnswerLost(answer) \/ CreateAnswered(answer)
           \/ \E id \in Ids : Recreate(id)
    PROVE  KeysOK'
  <1>1. CASE FindMine
    <2>1. /\ DOMAIN known' = DOMAIN made \cup DOMAIN known
          /\ \A id \in DOMAIN known' : known'[id] = NoKey \/ (id \in DOMAIN known /\ known'[id] = known[id])
          /\ known' \in [DOMAIN known' -> Nat]
      <3>1. known' = [id \in DOMAIN made \cup DOMAIN known |->
                         IF id \in DOMAIN known THEN known[id] ELSE NoKey]
        BY <1>1 DEF FindMine
      <3>2. DOMAIN known' = DOMAIN made \cup DOMAIN known
        BY <3>1
      <3>3. \A id \in DOMAIN known' : known'[id] = IF id \in DOMAIN known THEN known[id] ELSE NoKey
        BY <3>1
      <3>4. \A id \in DOMAIN made \cup DOMAIN known :
               (IF id \in DOMAIN known THEN known[id] ELSE NoKey) \in Nat
        BY DEF NoKey, KeysOK, SubscriptionTypeOK
      <3>5. known' \in [DOMAIN made \cup DOMAIN known -> Nat]
        BY <3>1, <3>4
      <3> QED BY <3>2, <3>3, <3>5
    <2> QED
      BY <1>1, <2>1
      DEF FindMine, KeysOK, SubscriptionTypeOK, IssuedInOrder, Issued, KeysAreOld, MadeWith
  <1>2. ASSUME NEW answer \in answered, AnswerLost(answer) PROVE KeysOK'
    BY <1>2 DEF AnswerLost, KeysOK, SubscriptionTypeOK, IssuedInOrder, Issued, KeysAreOld, MadeWith
  <1>3. ASSUME NEW answer \in answered, CreateAnswered(answer) PROVE KeysOK'
    <2>1. /\ DOMAIN known' = DOMAIN known \cup {answer.id}
          /\ known'[answer.id] = answer.with
          /\ \A id \in DOMAIN known : id # answer.id => known'[id] = known[id]
          /\ known' = [id \in DOMAIN known' |-> known'[id]]
      BY <1>3 DEF CreateAnswered, Put
    <2>2. answer.with \in Nat /\ answer.id \in Issued /\ MadeWith(answer.id, answer.with)
      BY DEF KeysOK, SubscriptionTypeOK, IssuedInOrder, KeysAreOld
    <2> QED
      BY <1>3, <2>1, <2>2
      DEF CreateAnswered, KeysOK, SubscriptionTypeOK, IssuedInOrder, Issued, KeysAreOld, MadeWith
  <1>4. ASSUME NEW id \in Ids, Recreate(id) PROVE KeysOK'
    <2>1. creating' \in Seq(Nat) /\ \A i \in DOMAIN creating' : creating'[i] <= serverKey
      BY <1>4 DEF Recreate, KeysOK, SubscriptionTypeOK, KeysAreOld
    <2>2. /\ DOMAIN known' \subseteq DOMAIN known
          /\ \A other \in DOMAIN known' : known'[other] = known[other]
          /\ known' = [other \in DOMAIN known' |-> known'[other]]
      BY <1>4 DEF Recreate, Restrict
    <2> QED
      BY <1>4, <2>1, <2>2
      DEF Recreate, KeysOK, SubscriptionTypeOK, IssuedInOrder, Issued, KeysAreOld, MadeWith
  <1> QED BY <1>1, <1>2, <1>3, <1>4

LEMMA KeysInv == KeysOK /\ SubscriptionNext => KeysOK'
  <1> SUFFICES ASSUME KeysOK, SubscriptionNext PROVE KeysOK'
    OBVIOUS
  <1>1. ASSUME NEW id \in Ids, Claim(id) PROVE KeysOK'
    BY <1>1 DEF Claim, KeysOK, SubscriptionTypeOK, IssuedInOrder, Issued, KeysAreOld, MadeWith
  <1>2. ASSUME NEW body, NEW again, Receive(body, again) PROVE KeysOK'
    BY <1>2 DEF Receive, KeysOK, SubscriptionTypeOK, IssuedInOrder, Issued, KeysAreOld, MadeWith
  <1> QED
    BY <1>1, <1>2, MadeKeys, DestroyKeys, VerifyKeys, ServerAndSessionKeys, ClientKeys DEF SubscriptionNext

-----------------------------------------------------------------------------
(***************************************************************************)
(* Codes.                                                                  *)
(***************************************************************************)
\* What is behind the first of a full table, and one more that is not in it, are as many
\* as the table holds.
LEMMA FullTableCounts ==
    ASSUME CodeTypeOK, CodesAreBounded, Len(codes) >= MaxPending,
           NEW T, IsFiniteSet(T), NEW new \in T,
           \A j \in DOMAIN codes : codes[j].id # new,
           \A j \in DOMAIN codes : j > 1 => codes[j].id \in T
    PROVE  Cardinality(T) >= MaxPending
  <1> DEFINE named == [j \in 1 .. MaxPending |-> IF j = 1 THEN new ELSE codes[j].id]
  <1>1. MaxPending \in Nat /\ MaxPending >= 1 /\ Len(codes) = MaxPending /\ DOMAIN codes = 1 .. MaxPending
    BY MaxPendingAssumption DEF MaxPendingAssumption, CodeTypeOK, CodesAreBounded
  <1>2. named \in [1 .. MaxPending -> T]
    BY <1>1
  <1>3. \A i, j \in 1 .. MaxPending : named[i] = named[j] => i = j
    BY <1>1 DEF CodesAreBounded
  <1>4. IsFiniteSet(1 .. MaxPending) /\ Cardinality(1 .. MaxPending) = MaxPending
    BY <1>1, FS_Interval
  <1>5. Cardinality(T) \in Nat
    BY FS_CardinalityType
  <1>6. CASE Cardinality(T) < MaxPending
    <2> HIDE DEF named
    <2>1. Cardinality(T) < Cardinality(1 .. MaxPending)
      BY <1>4, <1>6
    <2>2. \E i, j \in 1 .. MaxPending : i # j /\ named[i] = named[j]
      BY <1>2, <1>4, <2>1, FS_PigeonHole
    <2> QED BY <1>3, <2>2
  <1> QED BY <1>1, <1>5, <1>6

\* What is recorded since only grows, by one at most, until it is enough.
LEMMA SinceGrows ==
    ASSUME CodeTypeOK, NEW new \in Ids \cup Strangers,
           since' = [id \in Ids |-> IF id \in seen \ {new} /\ Cardinality(since[id]) < MaxPending
                                    THEN since[id] \cup {new} ELSE since[id]]
    PROVE  /\ since' \in [Ids -> SUBSET (Ids \cup Strangers)]
           /\ \A id \in Ids : /\ IsFiniteSet(since'[id])
                              /\ since[id] \subseteq since'[id]
                              /\ Enough(since[id]) => Enough(since'[id])
                              /\ id \in seen \ {new} /\ ~Enough(since[id]) => new \in since'[id]
  <1>1. \A id \in Ids : since'[id] \in {since[id], since[id] \cup {new}}
    BY DEF CodeTypeOK
  <1>2. since' \in [Ids -> SUBSET (Ids \cup Strangers)]
    BY DEF CodeTypeOK
  <1>3. ASSUME NEW id \in Ids
        PROVE  /\ IsFiniteSet(since'[id]) /\ since[id] \subseteq since'[id]
               /\ Enough(since[id]) => Enough(since'[id])
               /\ id \in seen \ {new} /\ ~Enough(since[id]) => new \in since'[id]
    <2>1. IsFiniteSet(since[id]) /\ Cardinality(since[id]) \in Nat /\ MaxPending \in Nat
      BY FS_CardinalityType, MaxPendingAssumption DEF CodeTypeOK, MaxPendingAssumption
    <2>2. IsFiniteSet(since'[id]) /\ since[id] \subseteq since'[id]
      BY <1>1, <2>1, FS_AddElement
    <2>3. Enough(since[id]) => Enough(since'[id])
      BY <2>1 DEF Enough
    <2>4. id \in seen \ {new} /\ ~Enough(since[id]) => new \in since'[id]
      BY <2>1 DEF Enough
    <2> QED BY <2>2, <2>3, <2>4
  <1> QED BY <1>2, <1>3

\* What Record makes of the table: the entry stands where its id stood, or is appended,
\* to all or to all but the first.
LEMMA RecordIs ==
    ASSUME CodeTypeOK, CodesAreBounded, NEW body, body.id \in Ids \cup Strangers, body.code \in Nat,
           codes' = Record(body)
    PROVE  LET entry == [id |-> body.id, code |-> body.code] IN
           \/ /\ Holds(body.id)
              /\ codes' = [i \in DOMAIN codes |-> IF codes[i].id = body.id THEN entry ELSE codes[i]]
           \/ /\ ~Holds(body.id) /\ Len(codes) < MaxPending
              /\ codes' = Append(codes, entry)
           \/ /\ ~Holds(body.id) /\ Len(codes) >= MaxPending /\ Len(codes) > 0
              /\ codes' = Append(Tail(codes), entry)
  <1>1. MaxPending \in Nat /\ MaxPending > 0 /\ Len(codes) \in Nat
    BY MaxPendingAssumption DEF MaxPendingAssumption, CodeTypeOK
  <1>2. CASE Holds(body.id)
    BY <1>2 DEF Record, Write, Holds
  <1>3. CASE ~Holds(body.id) /\ Len(codes) < MaxPending
    BY <1>1, <1>3 DEF Record, Write, Holds
  <1>4. CASE ~Holds(body.id) /\ Len(codes) >= MaxPending
    <2>1. ~Has(Tail(codes), body.id)
      BY <1>1, <1>4 DEF Has, Holds, CodeTypeOK
    <2> QED BY <1>1, <1>4, <2>1 DEF Record, Write
  <1> QED BY <1>1, <1>2, <1>3, <1>4

LEMMA IssuedAreIds == KeysOK => Issued \subseteq Ids /\ \A id \in Ids : id \in Nat /\ id \notin Strangers
  BY StrangersAssumption DEF KeysOK, IssuedInOrder, StrangersAssumption, Ids

\* A push that is read.
LEMMA RecordCodes ==
    ASSUME KeysOK, CodesOK, NEW body, NEW entry, entry = [id |-> body.id, code |-> body.code],
           entry \in Entries, body.code \in Nat,
           body.id \in Ids => entry.code = entry.id /\ body.id \in Issued,
           codes' = Record(body), seen' = seen \cup ({body.id} \cap Ids),
           since' = [id \in Ids |-> IF id \in seen \ {body.id} /\ Cardinality(since[id]) < MaxPending
                                    THEN since[id] \cup {body.id} ELSE since[id]],
           UNCHANGED <<made, claimed, destroyed>>, bodies' \subseteq bodies
    PROVE  CodesOK'
  <1>1. body.id \in Ids \cup Strangers /\ entry.id = body.id
    BY DEF Entries
  <1>2. /\ since' \in [Ids -> SUBSET (Ids \cup Strangers)]
        /\ \A id \in Ids : /\ IsFiniteSet(since'[id])
                           /\ since[id] \subseteq since'[id]
                           /\ Enough(since[id]) => Enough(since'[id])
                           /\ id \in seen \ {body.id} /\ ~Enough(since[id]) => body.id \in since'[id]
    BY <1>1, SinceGrows DEF CodesOK
  <1>3. MaxPending \in Nat /\ MaxPending > 0 /\ Len(codes) \in Nat /\ Len(codes) <= MaxPending
        /\ DOMAIN codes = 1 .. Len(codes)
    BY MaxPendingAssumption DEF MaxPendingAssumption, CodesOK, CodeTypeOK, CodesAreBounded
  <1>4. seen' \subseteq Issued' /\ Issued' = Issued /\ seen \subseteq Ids /\ seen \subseteq seen'
    BY <1>1, IssuedAreIds DEF Issued, CodesOK, CodeTypeOK
  <1>5. \/ /\ Holds(body.id)
           /\ codes' = [i \in DOMAIN codes |-> IF codes[i].id = body.id THEN entry ELSE codes[i]]
        \/ ~Holds(body.id) /\ Len(codes) < MaxPending /\ codes' = Append(codes, entry)
        \/ /\ ~Holds(body.id) /\ Len(codes) >= MaxPending /\ Len(codes) > 0
           /\ codes' = Append(Tail(codes), entry)
    BY <1>1, RecordIs DEF CodesOK
  <1> DEFINE Later(i) ==
        Enough(since'[codes'[i].id]) \/ \A j \in DOMAIN codes' : j > i => codes'[j].id \in since'[codes'[i].id]
      Table == /\ codes' \in Seq(Entries) /\ Len(codes') <= MaxPending
               /\ \A i, j \in DOMAIN codes' : codes'[i].id = codes'[j].id => i = j
               /\ \A i \in DOMAIN codes' : codes'[i] = entry \/ \E k \in DOMAIN codes : codes'[i] = codes[k]
               /\ \E i \in DOMAIN codes' : codes'[i] = entry
               /\ \A i \in DOMAIN codes' : codes'[i].id \in Ids => Later(i)
      Left == \A k \in DOMAIN codes : codes[k].id \in Ids =>
                  Enough(since'[codes[k].id]) \/ \E i \in DOMAIN codes' : codes'[i].id = codes[k].id
  <1> HIDE DEF Later, Table, Left
  <1>6. \A k \in DOMAIN codes : codes[k].id \in Ids =>
            /\ codes[k].id \in seen
            /\ Enough(since'[codes[k].id])
               \/ /\ \A j \in DOMAIN codes : j > k => codes[j].id \in since'[codes[k].id]
                  /\ codes[k].id # body.id => body.id \in since'[codes[k].id]
    BY <1>2 DEF CodesOK, BehindIsLater
  <1>7. ASSUME Holds(body.id),
               codes' = [i \in DOMAIN codes |-> IF codes[i].id = body.id THEN entry ELSE codes[i]]
        PROVE  Table /\ Left
    <2>1. /\ codes' \in Seq(Entries) /\ DOMAIN codes' = DOMAIN codes /\ Len(codes') = Len(codes)
          /\ \A i \in DOMAIN codes : codes'[i].id = codes[i].id
      BY <1>1, <1>3, <1>7 DEF CodesOK, CodeTypeOK
    <2>2. \E i \in DOMAIN codes' : codes'[i] = entry
      BY <1>7, <2>1 DEF Holds, Has
    <2>3. \A i \in DOMAIN codes' : codes'[i].id \in Ids => Later(i)
      BY <1>6, <2>1 DEF Later
    <2>4. Table
      BY <1>3, <1>7, <2>1, <2>2, <2>3 DEF CodesOK, CodesAreBounded, Table
    <2>5. Left
      BY <2>1 DEF Left
    <2> QED BY <2>4, <2>5
  <1>8. ASSUME ~Holds(body.id), Len(codes) < MaxPending, codes' = Append(codes, entry)
        PROVE  Table /\ Left
    <2>1. /\ codes' \in Seq(Entries) /\ DOMAIN codes' = 1 .. Len(codes) + 1 /\ Len(codes') = Len(codes) + 1
          /\ \A i \in DOMAIN codes : codes'[i] = codes[i] /\ codes[i].id # body.id
          /\ codes'[Len(codes) + 1] = entry
      BY <1>3, <1>8 DEF CodesOK, CodeTypeOK, Holds, Has
    <2>2. \A i \in DOMAIN codes' : i \in DOMAIN codes \/ i = Len(codes) + 1
      BY <1>3, <2>1
    <2>3. ASSUME NEW i \in DOMAIN codes', codes'[i].id \in Ids PROVE Later(i)
      <3>1. CASE i = Len(codes) + 1
        BY <1>3, <2>1, <3>1 DEF Later
      <3>2. CASE i \in DOMAIN codes
        BY <1>1, <1>6, <2>1, <2>2, <2>3, <3>2 DEF Later
      <3> QED BY <2>2, <3>1, <3>2
    <2>4. \A i, j \in DOMAIN codes' : codes'[i].id = codes'[j].id => i = j
      BY <1>1, <2>1, <2>2 DEF CodesOK, CodesAreBounded
    <2>5. Table
      <3>1. Len(codes') <= MaxPending
        BY <1>3, <1>8, <2>1
      <3>2. \E i \in DOMAIN codes' : codes'[i] = entry
        BY <1>3, <2>1
      <3> QED BY <2>1, <2>2, <2>3, <2>4, <3>1, <3>2 DEF Table
    <2>6. Left
      BY <1>3, <2>1 DEF Left
    <2> QED BY <2>5, <2>6
  <1>9. ASSUME ~Holds(body.id), Len(codes) >= MaxPending, Len(codes) > 0,
               codes' = Append(Tail(codes), entry)
        PROVE  Table /\ Left
    <2>1. /\ codes' \in Seq(Entries) /\ DOMAIN codes' = 1 .. Len(codes) /\ Len(codes') = Len(codes)
          /\ \A i \in 1 .. Len(codes) - 1 : codes'[i] = codes[i + 1]
          /\ codes'[Len(codes)] = entry
      <3>1. /\ Tail(codes) \in Seq(Entries) /\ Len(Tail(codes)) = Len(codes) - 1
            /\ \A i \in 1 .. Len(codes) - 1 : Tail(codes)[i] = codes[i + 1]
        BY <1>3, <1>9 DEF CodesOK, CodeTypeOK
      <3> DEFINE rest == Tail(codes)
      <3> HIDE DEF rest
      <3>2. /\ rest \in Seq(Entries) /\ Len(rest) = Len(codes) - 1 /\ codes' = Append(rest, entry)
            /\ \A i \in 1 .. Len(codes) - 1 : rest[i] = codes[i + 1]
        BY <1>9, <3>1 DEF rest
      <3>3. codes' \in Seq(Entries) /\ Len(codes') = Len(rest) + 1 /\ codes'[Len(rest) + 1] = entry
            /\ \A i \in 1 .. Len(rest) : codes'[i] = rest[i]
        BY <3>2
      <3>4. Len(codes') = Len(codes) /\ DOMAIN codes' = 1 .. Len(codes)
            /\ codes'[Len(codes)] = entry /\ 1 .. Len(rest) = 1 .. Len(codes) - 1
        <4>1. Len(rest) + 1 = Len(codes) /\ Len(rest) = Len(codes) - 1
          BY <1>3, <3>2
        <4>2. DOMAIN codes' = 1 .. Len(codes')
          BY <3>3
        <4> QED BY <3>3, <4>1, <4>2
      <3> QED BY <3>2, <3>3, <3>4
    <2>2. \A i \in DOMAIN codes : codes[i].id # body.id
      BY <1>9 DEF Holds, Has
    <2>3. \A i \in DOMAIN codes' : i \in 1 .. Len(codes) - 1 \/ i = Len(codes)
      BY <1>3, <2>1
    <2>4. ASSUME NEW i \in DOMAIN codes', codes'[i].id \in Ids PROVE Later(i)
      <3>1. CASE i = Len(codes)
        BY <1>3, <2>1, <3>1 DEF Later
      <3>2. CASE i \in 1 .. Len(codes) - 1
        <4>1. i + 1 \in DOMAIN codes /\ codes'[i] = codes[i + 1]
          BY <1>3, <2>1, <3>2
        <4>2. CASE Enough(since'[codes[i + 1].id])
          BY <4>1, <4>2 DEF Later
        <4>3. CASE ~Enough(since'[codes[i + 1].id])
          <5>1. body.id \in since'[codes[i + 1].id]
                /\ \A j \in DOMAIN codes : j > i + 1 => codes[j].id \in since'[codes[i + 1].id]
            BY <1>6, <2>2, <2>4, <4>1, <4>3
          <5>2. ASSUME NEW j \in DOMAIN codes', j > i PROVE codes'[j].id \in since'[codes'[i].id]
            <6>1. CASE j = Len(codes)
              BY <1>1, <2>1, <4>1, <5>1, <6>1
            <6>2. CASE j \in 1 .. Len(codes) - 1
              <7>1. j + 1 \in DOMAIN codes /\ j + 1 > i + 1 /\ codes'[j] = codes[j + 1]
                BY <1>3, <2>1, <3>2, <5>2, <6>2
              <7> QED BY <4>1, <5>1, <7>1
            <6> QED BY <2>3, <6>1, <6>2
          <5> QED BY <5>2 DEF Later
        <4> QED BY <4>2, <4>3
      <3> QED BY <2>3, <3>1, <3>2
    <2>5. \A i, j \in DOMAIN codes' : codes'[i].id = codes'[j].id => i = j
      <3>1. \A i \in 1 .. Len(codes) - 1 : i + 1 \in DOMAIN codes /\ codes'[i].id = codes[i + 1].id
        BY <1>3, <2>1
      <3>2. \A i, j \in 1 .. Len(codes) - 1 : codes'[i].id = codes'[j].id => i + 1 = j + 1
        BY <3>1 DEF CodesOK, CodesAreBounded
      <3>3. \A i \in 1 .. Len(codes) - 1 : codes'[i].id # codes'[Len(codes)].id
        BY <1>1, <2>1, <2>2, <3>1
      <3>4. \A i, j \in 1 .. Len(codes) - 1 : i + 1 = j + 1 => i = j
        OBVIOUS
      <3> QED BY <2>3, <3>2, <3>3, <3>4
    <2>6. \A i \in DOMAIN codes' : codes'[i] = entry \/ \E k \in DOMAIN codes : codes'[i] = codes[k]
      <3>1. \A i \in 1 .. Len(codes) - 1 : i + 1 \in DOMAIN codes /\ codes'[i] = codes[i + 1]
        BY <1>3, <2>1
      <3> QED BY <2>1, <2>3, <3>1
    <2>7. Table
      <3>1. \E i \in DOMAIN codes' : codes'[i] = entry
        BY <1>3, <1>9, <2>1
      <3> QED BY <1>3, <2>1, <2>4, <2>5, <2>6, <3>1 DEF Table
    <2>8. ASSUME NEW k \in DOMAIN codes, codes[k].id \in Ids
          PROVE  Enough(since'[codes[k].id]) \/ \E i \in DOMAIN codes' : codes'[i].id = codes[k].id
      <3>1. CASE k > 1
        <4>1. k - 1 \in 1 .. Len(codes) - 1 /\ k - 1 + 1 = k
          BY <1>3, <3>1
        <4> QED BY <1>3, <2>1, <4>1
      <3>2. CASE k = 1 /\ ~Enough(since'[codes[k].id])
        <4>1. body.id \in since'[codes[k].id]
              /\ \A j \in DOMAIN codes : j > 1 => codes[j].id \in since'[codes[k].id]
          BY <1>6, <2>2, <2>8, <3>2
        <4>2. Cardinality(since'[codes[k].id]) >= MaxPending
          BY <1>2, <1>9, <2>2, <2>8, <4>1, FullTableCounts DEF CodesOK
        <4> QED BY <3>2, <4>2 DEF Enough
      <3> QED BY <1>3, <3>1, <3>2
    <2>9. Left
      BY <2>8 DEF Left
    <2> QED BY <2>7, <2>9
  <1>10. Table /\ Left
    BY <1>5, <1>7, <1>8, <1>9
  <1>11. CodeTypeOK'
    BY <1>2, <1>4, <1>10 DEF CodesOK, CodeTypeOK, Table
  <1>12. CodesAreRight'
    BY <1>1, <1>4, <1>10 DEF CodesOK, CodesAreRight, Table
  <1>13. BehindIsLater'
    BY <1>1, <1>4, <1>6, <1>10 DEF BehindIsLater, Table, Later
  <1>14. CodesAreBounded'
    BY <1>10 DEF CodesAreBounded, Table
  <1>15. CodesAreKept'
    <2> SUFFICES ASSUME NEW id \in seen' \cap DOMAIN made'
                 PROVE  \/ made'[id].verified \/ Holds(id)' \/ \E e \in claimed' : e.id = id
                        \/ Enough(since'[id])
      BY DEF CodesAreKept, Enough
    <2>1. CASE id = body.id
      BY <1>1, <1>10, <2>1 DEF Holds, Has, Table
    <2>2. CASE id # body.id
      <3>1. id \in seen \cap DOMAIN made /\ id \in Ids
        BY <1>4, <2>2
      <3>2. made[id].verified \/ Holds(id) \/ (\E e \in claimed : e.id = id) \/ Enough(since[id])
        BY <3>1 DEF CodesOK, CodesAreKept, Enough
      <3>3. CASE Holds(id)
        BY <1>10, <3>1, <3>3 DEF Holds, Has, Left
      <3> QED BY <1>2, <3>1, <3>2, <3>3
    <2> QED BY <2>1, <2>2
  <1> QED BY <1>11, <1>12, <1>13, <1>14, <1>15 DEF CodesOK

LEMMA ReceiveCodes ==
    ASSUME KeysOK, CodesOK, NEW body \in bodies \cup Strays, NEW again \in BOOLEAN, Receive(body, again)
    PROVE  CodesOK'
  <1>1. bodies' \subseteq bodies /\ UNCHANGED <<made, claimed, destroyed>>
    BY DEF Receive
  <1>2. CASE Readable(body) /\ body.code # NoCode
    <2>1. PICK entry : entry = [id |-> body.id, code |-> body.code]
      OBVIOUS
    <2>2. body \in Strays => body.id \in Strangers /\ body.code \in Nat
      BY DEF Strays, Body, NoCode
    <2>3. body \in bodies => body.id \in Issued /\ body.code = body.id
      BY DEF CodesOK, CodesAreRight
    <2>4. /\ entry \in Entries /\ body.code \in Nat
          /\ body.id \in Ids => entry.code = entry.id /\ body.id \in Issued
      BY <2>1, <2>2, <2>3, IssuedAreIds DEF Entries
    <2>5. /\ codes' = Record(body) /\ seen' = seen \cup ({body.id} \cap Ids)
          /\ since' = [id \in Ids |-> IF id \in seen \ {body.id} /\ Cardinality(since[id]) < MaxPending
                                      THEN since[id] \cup {body.id} ELSE since[id]]
      BY <1>2 DEF Receive
    <2> QED BY <1>1, <2>1, <2>4, <2>5, RecordCodes
  <1>3. CASE ~(Readable(body) /\ body.code # NoCode)
    BY <1>1, <1>3
    DEF Receive, CodesOK, CodeTypeOK, CodesAreRight, BehindIsLater, CodesAreKept, CodesAreBounded,
        Holds, Has, Issued, Enough
  <1> QED BY <1>2, <1>3

\* A code taken from the table leaves the others in their order.
LEMMA RemoveAtIs ==
    ASSUME NEW S, NEW table \in Seq(S), NEW i \in DOMAIN table
    PROVE  /\ RemoveAt(table, i) \in Seq(S) /\ Len(RemoveAt(table, i)) = Len(table) - 1
           /\ \A j \in 1 .. Len(table) - 1 :
                 RemoveAt(table, i)[j] = table[IF j < i THEN j ELSE j + 1]
  <1> DEFINE before == SubSeq(table, 1, i - 1)
             after == SubSeq(table, i + 1, Len(table))
  <1>1. /\ before \in Seq(S) /\ Len(before) = i - 1
        /\ \A j \in 1 .. i - 1 : before[j] = table[j]
    OBVIOUS
  <1>2. /\ after \in Seq(S) /\ Len(after) = Len(table) - i
        /\ \A j \in 1 .. Len(table) - i : after[j] = table[i + j]
    OBVIOUS
  <1>3. RemoveAt(table, i) = before \o after
    BY DEF RemoveAt
  <1> HIDE DEF before, after
  <1>4. before \o after \in Seq(S) /\ Len(before \o after) = Len(table) - 1
    BY <1>1, <1>2
  <1>5. ASSUME NEW j \in 1 .. Len(table) - 1
        PROVE  (before \o after)[j] = table[IF j < i THEN j ELSE j + 1]
    <2>1. CASE j < i
      BY <1>1, <1>2, <2>1
    <2>2. CASE ~(j < i)
      <3>1. j - Len(before) \in 1 .. Len(table) - i /\ i + (j - Len(before)) = j + 1
        BY <1>1, <2>2
      <3>2. (before \o after)[j] = after[j - Len(before)]
        BY <1>1, <1>2, <2>2
      <3> QED BY <1>2, <2>2, <3>1, <3>2
    <2> QED BY <2>1, <2>2
  <1> QED BY <1>3, <1>4, <1>5

LEMMA ClaimCodes ==
    ASSUME CodesOK, NEW id \in Ids, Claim(id)
    PROVE  CodesOK'
  <1>1. PICK i \in DOMAIN codes : /\ codes[i].id = id
                                  /\ codes' = RemoveAt(codes, i) /\ claimed' = claimed \cup {codes[i]}
    BY DEF Claim
  <1>2. UNCHANGED <<made, bodies, destroyed, seen, since>>
    BY DEF Claim
  <1> DEFINE old(j) == IF j < i THEN j ELSE j + 1
  <1>3. /\ codes' \in Seq(Entries) /\ Len(codes') = Len(codes) - 1
        /\ \A j \in 1 .. Len(codes) - 1 : codes'[j] = codes[old(j)]
    BY <1>1, RemoveAtIs DEF CodesOK, CodeTypeOK
  <1>4. DOMAIN codes' = 1 .. Len(codes) - 1 /\ DOMAIN codes = 1 .. Len(codes) /\ Len(codes) \in Nat
    BY <1>3 DEF CodesOK, CodeTypeOK
  <1>5. \A j \in DOMAIN codes' : old(j) \in DOMAIN codes /\ codes'[j] = codes[old(j)] /\ old(j) # i
    BY <1>3, <1>4
  <1>6. \A j, k \in DOMAIN codes' : (j > k => old(j) > old(k)) /\ (old(j) = old(k) => j = k)
    BY <1>4
  <1>7. \A k \in DOMAIN codes : k # i => \E j \in DOMAIN codes' : old(j) = k
    <2>1. ASSUME NEW k \in DOMAIN codes, k # i PROVE \E j \in DOMAIN codes' : old(j) = k
      <3>1. CASE k < i
        BY <1>4, <3>1
      <3>2. CASE k > i
        <4>1. k - 1 \in DOMAIN codes' /\ old(k - 1) = k
          BY <1>4, <3>2
        <4> QED BY <4>1
      <3> QED BY <1>4, <2>1, <3>1, <3>2
    <2> QED BY <2>1
  <1> HIDE DEF old
  <1>8. CodeTypeOK'
    BY <1>1, <1>2, <1>3 DEF CodesOK, CodeTypeOK, Issued
  <1>9. CodesAreRight'
    BY <1>1, <1>2, <1>5 DEF CodesOK, CodesAreRight, Issued
  <1>10. BehindIsLater'
    <2> SUFFICES ASSUME NEW j \in DOMAIN codes', codes'[j].id \in Ids
                 PROVE  /\ codes'[j].id \in seen'
                        /\ Enough(since'[codes'[j].id])
                           \/ \A k \in DOMAIN codes' : k > j => codes'[k].id \in since'[codes'[j].id]
      BY DEF BehindIsLater, Enough
    <2>1. /\ codes[old(j)].id \in seen
          /\ Enough(since[codes[old(j)].id])
             \/ \A k \in DOMAIN codes : k > old(j) => codes[k].id \in since[codes[old(j)].id]
      BY <1>5 DEF CodesOK, BehindIsLater
    <2> QED BY <1>2, <1>5, <1>6, <2>1
  <1>11. CodesAreBounded'
    <2>1. Len(codes') <= MaxPending
      BY <1>3, <1>4, MaxPendingAssumption DEF CodesOK, CodesAreBounded, MaxPendingAssumption
    <2>2. \A j, k \in DOMAIN codes' : codes'[j].id = codes'[k].id => j = k
      BY <1>5, <1>6 DEF CodesOK, CodesAreBounded
    <2> QED BY <2>1, <2>2 DEF CodesAreBounded
  <1>12. CodesAreKept'
    <2> SUFFICES ASSUME NEW x \in seen \cap DOMAIN made
                 PROVE  \/ made[x].verified \/ Holds(x)' \/ \E e \in claimed' : e.id = x
                        \/ Cardinality(since[x]) >= MaxPending
      BY <1>2 DEF CodesAreKept
    <2>1. CASE \E k \in DOMAIN codes : codes[k].id = x /\ k # i
      BY <1>5, <1>7, <2>1 DEF Holds, Has
    <2>2. CASE x = id
      BY <1>1, <2>2
    <2> QED BY <1>1, <2>1, <2>2 DEF CodesOK, CodesAreKept, Holds, Has
  <1> QED BY <1>8, <1>9, <1>10, <1>11, <1>12 DEF CodesOK

\* The code that is sent is the right one, and verifies what is still there.
LEMMA VerifyCodes ==
    ASSUME KeysOK, CodesOK, NEW entry \in claimed, Verify(entry)
    PROVE  CodesOK'
  <1>1. /\ claimed' = claimed \ {entry} /\ DOMAIN made' = DOMAIN made
        /\ \A id \in DOMAIN made : made[id].verified => made'[id].verified
        /\ entry.id \in DOMAIN made /\ entry.code = entry.id => made'[entry.id].verified
        /\ UNCHANGED <<codes, bodies, destroyed, seen, since>>
    BY DEF Verify, KeysOK, SubscriptionTypeOK
  <1>2. entry.id \in DOMAIN made => made'[entry.id].verified
    BY <1>1, IssuedAreIds DEF Issued, CodesOK, CodesAreRight
  <1>3. CodesAreKept'
    BY <1>1, <1>2 DEF CodesOK, CodesAreKept, Holds, Has
  <1> QED
    BY <1>1, <1>3
    DEF CodesOK, CodeTypeOK, CodesAreRight, BehindIsLater, CodesAreBounded, Issued, Enough

LEMMA MadeCodes ==
    ASSUME KeysOK, CodesOK, NEW id \in Ids, Made(id)
    PROVE  CodesOK'
  <1>1. id \notin Issued
    BY NextIdIsNew DEF Made, KeysOK, Issued
  <1>2. /\ DOMAIN made' = DOMAIN made \cup {id}
        /\ \A other \in DOMAIN made : made'[other] = made[other]
        /\ bodies' = bodies \cup {Body(id, id, encrypted)}
        /\ UNCHANGED <<codes, claimed, destroyed, seen, since>>
    BY <1>1 DEF Made, Put, Issued
  <1>3. Issued' = Issued \cup {id} /\ Issued \subseteq Issued'
    BY <1>2 DEF Issued
  <1>4. CodesAreKept'
    <2>1. \A other \in seen' \cap DOMAIN made' : other \in seen \cap DOMAIN made
      BY <1>1, <1>2 DEF CodesOK, CodeTypeOK
    <2> QED BY <1>2, <2>1 DEF CodesOK, CodesAreKept, Holds, Has
  <1>5. CodesAreRight'
    BY <1>2, <1>3 DEF CodesOK, CodesAreRight, Body
  <1> QED
    BY <1>2, <1>3, <1>4, <1>5 DEF CodesOK, CodeTypeOK, BehindIsLater, CodesAreBounded, Enough

LEMMA DestroyCodes ==
    ASSUME CodesOK, NEW id \in Ids, Destroy(id)
    PROVE  CodesOK'
  <1>1. /\ DOMAIN made' \subseteq DOMAIN made /\ Issued' = Issued
        /\ \A other \in DOMAIN made' : made'[other] = made[other]
        /\ UNCHANGED <<bodies, codes, claimed, seen, since>>
    BY DEF Destroy, Restrict, Issued
  <1>2. CodesAreKept'
    BY <1>1 DEF CodesOK, CodesAreKept, Holds, Has
  <1> QED
    BY <1>1, <1>2 DEF CodesOK, CodeTypeOK, CodesAreRight, BehindIsLater, CodesAreBounded, Enough

LEMMA CodesStand ==
    ASSUME CodesOK, UNCHANGED <<made, bodies, codes, claimed, destroyed, seen, since>>
    PROVE  CodesOK'
  BY DEF CodesOK, CodeTypeOK, CodesAreRight, BehindIsLater, CodesAreKept, CodesAreBounded, Holds, Has,
         Issued, Enough

LEMMA CodesInv == KeysOK /\ CodesOK /\ SubscriptionNext => CodesOK'
  <1> SUFFICES ASSUME KeysOK, CodesOK, SubscriptionNext PROVE CodesOK'
    OBVIOUS
  <1>1. CASE Rotate \/ RefreshSession \/ Create \/ FindMine
    BY <1>1, CodesStand DEF Rotate, RefreshSession, Create, FindMine
  <1>2. ASSUME NEW id \in Ids, Recreate(id) PROVE CodesOK'
    BY <1>2, CodesStand DEF Recreate
  <1>3. ASSUME NEW answer \in answered, AnswerLost(answer) \/ CreateAnswered(answer) PROVE CodesOK'
    BY <1>3, CodesStand DEF AnswerLost, CreateAnswered
  <1> QED
    BY <1>1, <1>2, <1>3, MadeCodes, DestroyCodes, ClaimCodes, ReceiveCodes, VerifyCodes DEF SubscriptionNext

-----------------------------------------------------------------------------
(***************************************************************************)
(* Together.                                                               *)
(***************************************************************************)
LEMMA SubscriptionInitInv == Init => SubscriptionInv
  <1> SUFFICES ASSUME Init PROVE SubscriptionInv
    OBVIOUS
  <1>1. /\ serverKey \in Nat /\ sessionKey = serverKey
        /\ creating = <<>> /\ made = <<>> /\ known = <<>> /\ codes = <<>>
        /\ answered = {} /\ bodies = {} /\ claimed = {} /\ destroyed = {} /\ seen = {}
        /\ since = [id \in Ids |-> {}]
    BY DEF Init, SubscriptionInit, NoKey
  <1>2. DOMAIN made = {} /\ DOMAIN known = {} /\ DOMAIN codes = {} /\ DOMAIN creating = {}
    BY <1>1
  <1>3. Issued = {} /\ 1 .. 0 = {} /\ 0 \in 0 .. MaxCreates
    BY <1>1, <1>2, StrangersAssumption DEF Issued, StrangersAssumption
  <1>4. SubscriptionTypeOK
    BY <1>1, <1>2 DEF SubscriptionTypeOK
  <1>5. IssuedInOrder
    BY <1>1, <1>2, <1>3 DEF IssuedInOrder
  <1>6. KeysAreOld
    BY <1>1, <1>2 DEF KeysAreOld
  <1>7. CodeTypeOK
    BY <1>1, <1>3, FS_EmptySet DEF CodeTypeOK
  <1>8. CodesAreRight /\ BehindIsLater /\ CodesAreKept
    BY <1>1, <1>2 DEF CodesAreRight, BehindIsLater, CodesAreKept
  <1>9. CodesAreBounded
    BY <1>1, <1>2, MaxPendingAssumption DEF CodesAreBounded, MaxPendingAssumption
  <1> QED BY <1>4, <1>5, <1>6, <1>7, <1>8, <1>9 DEF SubscriptionInv, KeysOK, CodesOK

LEMMA SubscriptionNextInv == SubscriptionInv /\ [Next]_vars => SubscriptionInv'
  <1> SUFFICES ASSUME SubscriptionInv, [Next]_vars PROVE SubscriptionInv'
    OBVIOUS
  <1>1. CASE SubscriptionNext
    BY <1>1, KeysInv, CodesInv DEF SubscriptionInv
  <1>2. CASE UNCHANGED subscriptionVars
    <2>1. CodesOK'
      BY <1>2, CodesStand DEF subscriptionVars, SubscriptionInv
    <2>2. KeysOK'
      BY <1>2
      DEF subscriptionVars, SubscriptionInv, KeysOK, SubscriptionTypeOK, IssuedInOrder, Issued, KeysAreOld, MadeWith
    <2> QED BY <2>1, <2>2 DEF SubscriptionInv
  <1> QED BY <1>1, <1>2 DEF Next, vars

\* The two parts of the invariant.
THEOREM SubscriptionInvariant == Spec => []SubscriptionInv
  <1> QED BY SubscriptionInitInv, SubscriptionNextInv, PTL DEF Spec

\* A subscription the server destroyed was made with a key it no longer has.
LEMMA RotationsSeen == KeysOK => RotationsAreSeen
  BY DEF KeysOK, SubscriptionTypeOK, KeysAreOld, IssuedInOrder, MadeWith, RotationsAreSeen,
         NeedsRecreating, Rotated, NoKey

\* For any number of subscriptions, any bound of the table and whatever strangers send: a
\* code that was read waits for its subscription unless as many others as the table holds
\* came after it, and no rotation of the server's key goes unnoticed.
THEOREM SubscriptionsAreAlwaysKept == Spec => []SubscriptionsAreKept
  <1>1. SubscriptionInv => SubscriptionsAreKept
    BY RotationsSeen DEF SubscriptionInv, CodesOK, SubscriptionsAreKept
  <1> QED BY <1>1, SubscriptionInvariant, PTL
=============================================================================
