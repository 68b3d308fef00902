---------------------------- MODULE EventSource ----------------------------
(***************************************************************************)
(* The JMAP event source: src/jmap/push/sse.py takes the stream apart,     *)
(* eventsource.py makes events of it and keeps the resume cursor, and      *)
(* listener.py dials, resumes, backs off and hands the events over.        *)
(*                                                                         *)
(* The server and the network are the environment.  A state is the number  *)
(* of changes made so far and also the id of the event that announces it,  *)
(* which tells of every change up to it.  The stream arrives in chunks cut *)
(* anywhere, and a connection may end at any point of it.                  *)
(***************************************************************************)
EXTENDS Naturals, SequencesExt

CONSTANTS
    MaxChanges,     \* bound: changes the server makes
    MaxFaults,      \* bound: connections that fail or end
    MaxWire,        \* bound: symbols on their way to the client
    MaxChatter,     \* bound: pings, checkpoints and garbled events the server sends
    Unsendable      \* states whose id cannot go into a Last-Event-ID header

ASSUME EventSourceAssumption ==
    /\ MaxChanges \in Nat /\ MaxFaults \in Nat /\ MaxWire \in Nat /\ MaxChatter \in Nat
    /\ Unsendable \subseteq 1 .. MaxChanges

\* A symbol of the stream: one field of a line ("id", "data", "more", "ping" or
\* "junk"), or a character that ends lines.  A state event has two data lines, so
\* that a lost half shows.
S(kind, n) == [kind |-> kind, n |-> n]
CR == S("CR", 0)
LF == S("LF", 0)

VARIABLES
    happened,   \* the server's state
    known,      \* what the open connection's events have told, as the server has it
    wire,       \* symbols sent and not received
    chatter,    \* pings, checkpoints and garbled events sent
    pc,         \* where listen() is
    parser,     \* SSEParser
    event,      \* the data of the event handed to parse_event last
    cursor,     \* EventStream._cursor
    resume,     \* PushListener._last_event_id; 0 is the empty id
    delivered,  \* listen's local
    failures,   \* PushListener._failures
    faults,     \* how many connections have failed or ended
    told,       \* history: the latest state the caller has been told of
    missed,     \* history: the state a connection without a cursor started from
    fruitless   \* history: connections in a row that showed no sign of working

server == <<happened, known, wire, chatter>>
stream == <<parser, event, cursor>>
vars == <<happened, known, wire, chatter, pc, parser, event, cursor, resume, delivered,
          failures, faults, told, missed, fruitless>>

Larger(a, b) == IF a < b THEN b ELSE a

\* SSEParser: a partial line, the data of the event under way, its id, the id of
\* the last event dispatched, and a CR that ended the last chunk.
Fresh(id) == [buffer |-> <<>>, data |-> <<>>, idBuffer |-> id, lastId |-> id,
              pendingCR |-> FALSE]

Init ==
    /\ happened = 0 /\ known = 0 /\ wire = <<>> /\ chatter = 0
    /\ pc = "dialing"
    /\ parser = Fresh(0) /\ event = <<>> /\ cursor = 0 /\ resume = 0
    /\ delivered = FALSE /\ failures = 0 /\ faults = 0
    /\ told = 0 /\ missed = 0 /\ fruitless = 0

----------------------------------------------------------------------------
\* The server

Change ==
    /\ happened < MaxChanges
    /\ happened' = happened + 1
    /\ UNCHANGED <<known, wire, chatter, pc, stream, resume, delivered, failures, faults,
                   told, missed, fruitless>>

Connected == pc \in {"open", "feeding", "yielded"}

\* A line and what closes it; an event is its lines and a blank one.
Endings == {<<LF>>, <<CR>>, <<CR, LF>>}
Line(kind, n, ending) == <<S(kind, n)>> \o ending

Emit(text) ==
    /\ Connected
    /\ Len(wire) + Len(text) <= MaxWire
    /\ wire' = wire \o text
    /\ UNCHANGED <<happened, pc, stream, resume, delivered, failures, faults,
                   told, missed, fruitless>>

Chat == chatter < MaxChatter /\ chatter' = chatter + 1

\* A state event ...
EmitState ==
    /\ known < happened
    /\ \E ending \in Endings :
        Emit(Line("id", happened, ending) \o Line("data", happened, ending)
             \o Line("more", happened, ending) \o ending)
    /\ known' = happened /\ chatter' = chatter

\* ... and one whose payload makes no sense.
EmitJunk ==
    /\ known < happened
    /\ \E ending \in Endings :
        Emit(Line("id", happened, ending) \o Line("junk", happened, ending) \o ending)
    /\ known' = happened /\ Chat

\* A ping has no id.
EmitPing ==
    /\ \E ending \in Endings : Emit(Line("ping", 0, ending) \o ending)
    /\ known' = known /\ Chat

\* A bare id, which moves the cursor and delivers nothing.
EmitCheckpoint ==
    /\ known > 0
    /\ \E ending \in Endings : Emit(Line("id", known, ending) \o ending)
    /\ known' = known /\ Chat

----------------------------------------------------------------------------
\* The connection

\* 200 with text/event-stream.  The server starts from Last-Event-ID, and from now
\* on if there is none.
Connect ==
    /\ pc = "dialing"
    /\ pc' = "open"
    /\ parser' = Fresh(resume) /\ cursor' = resume
    /\ delivered' = FALSE
    /\ known' = IF resume = 0 THEN happened ELSE resume
    /\ missed' = IF resume = 0 THEN happened ELSE missed
    /\ UNCHANGED <<happened, wire, chatter, event, resume, failures, faults, told, fruitless>>

Fault == faults < MaxFaults /\ faults' = faults + 1

\* A TransportError, or a RequestError that says "not now".
DialFails ==
    /\ pc = "dialing" /\ Fault
    /\ pc' = "sleeping"
    /\ failures' = failures + 1 /\ fruitless' = fruitless + 1
    /\ UNCHANGED <<server, stream, resume, delivered, told, missed>>

\* A 401 or another 4xx: raised to the caller.
DialRefused ==
    /\ pc = "dialing" /\ Fault
    /\ pc' = "raised"
    /\ UNCHANGED <<server, stream, resume, delivered, failures, told, missed, fruitless>>

\* events' `finally`, whatever ends the connection: the cursor outlives the stream
\* object, and what is on the wire is lost.
Absorb ==
    /\ resume' = cursor
    /\ parser' = Fresh(cursor) /\ event' = <<>> /\ cursor' = cursor
    /\ wire' = <<>> /\ known' = 0

\* The connection dies: a reset, or the deadline of the pings.
Drop ==
    /\ pc = "open" /\ Fault
    /\ pc' = "sleeping"
    /\ Absorb
    /\ failures' = failures + 1
    /\ fruitless' = IF delivered THEN 0 ELSE fruitless + 1
    /\ UNCHANGED <<happened, chatter, delivered, told, missed>>

\* Mutant: a clean end is a sign of life whatever came before it.
EndAlwaysWell ==
    /\ pc = "open" /\ Fault
    /\ pc' = "sleeping"
    /\ Absorb
    /\ \E lasted \in BOOLEAN :
        fruitless' = IF delivered \/ lasted THEN 0 ELSE fruitless + 1
    /\ failures' = 0
    /\ UNCHANGED <<happened, chatter, delivered, told, missed>>

\* The response ends, as after closeafter=state: note_end.
End ==
    /\ pc = "open" /\ Fault
    /\ pc' = "sleeping"
    /\ Absorb
    /\ \E lasted \in BOOLEAN :
        /\ failures'  = IF delivered \/ lasted THEN 0 ELSE failures + 1
        /\ fruitless' = IF delivered \/ lasted THEN 0 ELSE fruitless + 1
    /\ UNCHANGED <<happened, chatter, delivered, told, missed>>

\* Mutant: the second failure in a row is the last.
RedialOnce ==
    /\ pc = "sleeping" /\ failures < 2
    /\ pc' = "dialing"
    /\ UNCHANGED <<server, stream, resume, delivered, failures, faults, told, missed, fruitless>>

\* After the pause.
Redial ==
    /\ pc = "sleeping"
    /\ pc' = "dialing"
    /\ UNCHANGED <<server, stream, resume, delivered, failures, faults, told, missed, fruitless>>

\* listen() once more, after it raised or was closed.
ListenAgain ==
    /\ pc \in {"raised", "closed"} /\ Fault
    /\ pc' = "dialing"
    /\ event' = <<>>
    /\ UNCHANGED <<server, parser, cursor, resume, delivered, failures, told, missed,
                   fruitless>>

----------------------------------------------------------------------------
\* The stream, taken apart

\* Mutant: the CR at the end of a chunk is forgotten.
HeldOverForgotten(chunk) == chunk

\* feed: an LF right after the CR that ended the last chunk belongs to it.
HeldOver(chunk) ==
    IF parser.pendingCR /\ chunk[1] = LF THEN Tail(chunk) ELSE chunk

\* A chunk of any length.
Receive ==
    /\ pc = "open"
    /\ \E k \in 1 .. Len(wire) :
        /\ parser' = [parser EXCEPT !.buffer = @ \o HeldOver(SubSeq(wire, 1, k)),
                                    !.pendingCR = FALSE]
        /\ wire' = SubSeq(wire, k + 1, Len(wire))
    /\ pc' = "feeding"
    /\ UNCHANGED <<happened, known, chatter, event, cursor, resume, delivered, failures, faults,
                   told, missed, fruitless>>

EndsLine(symbol) == symbol \in {CR, LF}
LineEnd == SelectInSeq(parser.buffer, EndsLine)

\* Where the next line starts: CR LF is one ending.
NextLine ==
    IF parser.buffer[LineEnd] = CR /\ LineEnd < Len(parser.buffer)
       /\ parser.buffer[LineEnd + 1] = LF
    THEN LineEnd + 2 ELSE LineEnd + 1

\* The parser with the line, and its ending, gone from the buffer.
Rest == [parser EXCEPT
    !.buffer = SubSeq(@, NextLine, Len(@)),
    !.pendingCR = parser.buffer[LineEnd] = CR /\ LineEnd = Len(parser.buffer)]

\* Mutant: an id takes effect at its own line.
FieldAtOnce ==
    /\ pc = "feeding" /\ LineEnd > 1
    /\ LET field == parser.buffer[1] IN
        parser' = IF field.kind = "id"
                  THEN [Rest EXCEPT !.idBuffer = field.n, !.lastId = field.n]
                  ELSE [Rest EXCEPT !.data = Append(@, field)]
    /\ UNCHANGED <<server, pc, event, cursor, resume, delivered, failures, faults,
                   told, missed, fruitless>>

\* _field
Field ==
    /\ pc = "feeding" /\ LineEnd > 1
    /\ LET field == parser.buffer[1] IN
        parser' = IF field.kind = "id"
                  THEN [Rest EXCEPT !.idBuffer = field.n]
                  ELSE [Rest EXCEPT !.data = Append(@, field)]
    /\ UNCHANGED <<server, pc, event, cursor, resume, delivered, failures, faults,
                   told, missed, fruitless>>

\* _track: an id that cannot be sent leaves the cursor where it is.
Tracked(id) == IF id \in Unsendable THEN cursor ELSE id

\* _dispatch of an event without data.
DispatchNothing ==
    /\ pc = "feeding" /\ LineEnd = 1 /\ parser.data = <<>>
    /\ parser' = [Rest EXCEPT !.lastId = parser.idBuffer]
    /\ UNCHANGED <<server, pc, event, cursor, resume, delivered, failures, faults,
                   told, missed, fruitless>>

IsState(data) == Len(data) = 2 /\ data[1].kind = "data" /\ data[2] = S("more", data[1].n)
IsPing(data)  == data = <<S("ping", 0)>>

\* Mutant: the rest of the chunk goes with the event.
DispatchedAlone == [Rest EXCEPT !.lastId = parser.idBuffer, !.data = <<>>, !.buffer = <<>>]

\* The parser once the event is out; the rest of the chunk stays in the buffer.
Dispatched == [Rest EXCEPT !.lastId = parser.idBuffer, !.data = <<>>]

\* _dispatch, _track, parse_event, note_delivery; the event goes to the caller.
Deliver ==
    /\ pc = "feeding" /\ LineEnd = 1
    /\ IsState(parser.data) \/ IsPing(parser.data)
    /\ parser' = Dispatched
    /\ event' = parser.data
    /\ cursor' = Tracked(parser.idBuffer)
    /\ told' = Larger(told, parser.data[1].n)
    /\ pc' = "yielded"
    /\ delivered' = TRUE /\ failures' = 0 /\ fruitless' = 0
    /\ UNCHANGED <<server, resume, faults, missed>>

\* parse_event raises, which ends the connection and listen().  The caller has an
\* exception for the event.
Malformed ==
    /\ pc = "feeding" /\ LineEnd = 1 /\ parser.data # <<>>
    /\ ~IsState(parser.data) /\ ~IsPing(parser.data)
    /\ event' = parser.data
    /\ cursor' = Tracked(parser.idBuffer)
    /\ resume' = cursor' /\ parser' = Fresh(cursor')
    /\ wire' = <<>> /\ known' = 0
    /\ told' = Larger(told, parser.data[1].n)
    /\ pc' = "raised"
    /\ UNCHANGED <<happened, chatter, delivered, failures, faults, missed, fruitless>>

\* The chunk is used up; a checkpoint in it moves the cursor now.
ChunkDone ==
    /\ pc = "feeding" /\ LineEnd = 0
    /\ cursor' = Tracked(parser.lastId)
    /\ pc' = "open"
    /\ UNCHANGED <<server, parser, event, resume, delivered, failures, faults,
                   told, missed, fruitless>>

\* The caller comes back for the next event ...
PullNext ==
    /\ pc = "yielded"
    /\ pc' = "feeding"
    /\ event' = <<>>
    /\ UNCHANGED <<server, parser, cursor, resume, delivered, failures, faults, told,
                   missed, fruitless>>

\* ... or closes the generator.
Close ==
    /\ pc = "yielded"
    /\ pc' = "closed"
    /\ Absorb
    /\ UNCHANGED <<happened, chatter, delivered, failures, faults, told, missed, fruitless>>

----------------------------------------------------------------------------
Listen == \/ Connect \/ Redial
          \/ Receive \/ Field \/ DispatchNothing \/ Deliver \/ Malformed \/ ChunkDone

Next == \/ Change \/ EmitState \/ EmitJunk \/ EmitPing \/ EmitCheckpoint
        \/ Listen \/ DialFails \/ DialRefused \/ Drop \/ End
        \/ PullNext \/ Close \/ ListenAgain

Spec == Init /\ [][Next]_vars

\* listen() is a loop; the server sends what it owes; a caller of listen() comes
\* back.  Faults are bounded, so a connection is left alone in the end.
FairSpec == Spec /\ WF_vars(Listen) /\ WF_vars(EmitState) /\ WF_vars(PullNext)

----------------------------------------------------------------------------
\* Properties

\* The id the next connection resumes from is of a state the caller has been told of
\* (or one it was on its own to find out about, having had no cursor).
ResumesFromTheTold == Larger(cursor, resume) <= Larger(told, missed)

\* A connection that has nothing more to say leaves nothing untold.
NothingUntold ==
    /\ pc = "open" /\ wire = <<>> /\ known = happened
    /\ parser.buffer = <<>> /\ parser.data = <<>>
    => Larger(told, missed) = happened

\* "A client that instead tracked the last thing it received would resume from it
\* and lose every change before": wherever a chunk or a connection ends, what the
\* cursor says is known has been told; and so a drop costs latency and not data:
\* when a connection has nothing more to say, the caller knows the server's state,
\* drops and restarts notwithstanding.
CursorIsHonest == ResumesFromTheTold /\ NothingUntold

\* An event reaches the caller whole, however the stream was cut into chunks and
\* whichever way its lines end: only one the server garbled fails to parse.
EventsArriveWhole ==
    event # <<>> => \/ IsState(event) \/ IsPing(event)
                    \/ \E i \in DOMAIN event : event[i].kind = "junk"

\* The pause grows with the connections in a row that show no sign of working, a
\* server that answers and hangs up at once included, and with nothing else (a
\* connection that worked and then broke counts as one).
BackoffFits == pc = "sleeping" => failures \in {fruitless, fruitless + 1}

\* Every change is announced in the end, unless the caller stops listening.
EventuallyTold ==
    \A n \in 1 .. MaxChanges :
        happened = n ~> Larger(told, missed) >= n \/ pc \in {"raised", "closed"}
=============================================================================
