----------------------------- MODULE DeviceFlow -----------------------------
(***************************************************************************)
(* auth/acquire.py poll_device_flow() and auth/flows.py: polling for a     *)
(* token while a user types a code somewhere else.  The clock is a         *)
(* variable: a poll takes as long as its answer does, a sleep as long as   *)
(* it says.                                                                *)
(***************************************************************************)
EXTENDS Naturals, Integers

CONSTANTS
    Intervals,          \* poll intervals a server may name
    Lifetimes,          \* expires_in a server may name: 0 is one of them
    Latencies,          \* how long a poll's answer may take
    MaxPollInterval,    \* MAX_POLL_INTERVAL
    DefaultInterval,    \* DEFAULT_POLL_INTERVAL
    SlowDownIncrement,  \* SLOW_DOWN_INCREMENT
    Forever,            \* no deadline
    MaxPolls            \* bound: polls of a flow that has no deadline

ASSUME DeviceAssumption ==
    /\ Lifetimes \subseteq Nat /\ Latencies \subseteq Nat
    /\ MaxPollInterval \in Nat \ {0} /\ DefaultInterval \in Nat \ {0}
    /\ SlowDownIncrement \in Nat
    /\ Forever \notin Int

VARIABLES
    polling,    \* "none", "poll" (one is out), "sleep" (until the next) or how it ended
    clock,      \* time.monotonic()
    interval,   \* seconds until the next poll
    deadline,   \* when the device code expires, or Forever
    answeredAt, \* when the last poll was answered
    slowed,     \* slow_downs received
    offered,    \* the interval the server named, as read
    polls       \* polls made, up to MaxPolls

deviceVars == <<polling, clock, interval, deadline, answeredAt, slowed, offered, polls>>

\* Mutant: what the server names is taken as it is.
PollIntervalAsNamed(named) == IF named \notin Int THEN DefaultInterval ELSE named

\* DeviceAuthorization.of: a number is clamped, anything else is the default.
PollInterval(named) ==
    IF named \notin Int THEN DefaultInterval
    ELSE IF named < 1 THEN 1
    ELSE IF named > MaxPollInterval THEN MaxPollInterval ELSE named

\* expires_in: absent and zero both mean that no deadline is kept.
Deadline(lifetime) == IF lifetime = 0 THEN Forever ELSE clock + lifetime

DeviceInit ==
    /\ polling = "none" /\ clock = 0 /\ interval = 0 /\ deadline = Forever
    /\ answeredAt = 0 /\ slowed = 0 /\ offered = 0 /\ polls = 0

\* begin_device_flow() and the first lines of poll_device_flow().
BeginDevice(named, lifetime) ==
    /\ polling = "none"
    /\ interval' = PollInterval(named) /\ offered' = PollInterval(named)
    /\ deadline' = Deadline(lifetime)
    /\ polling' = "poll" /\ polls' = 1
    /\ UNCHANGED <<clock, answeredAt, slowed>>

\* classify_poll: granted, denied (every error but two), pending and slow_down; a lost
\* answer is a TransportError, and leaves the loop as well.
PollEnds(how, latency) ==
    /\ polling = "poll"
    /\ clock' = clock + latency /\ answeredAt' = clock'
    /\ polling' = how
    /\ UNCHANGED <<interval, deadline, slowed, offered, polls>>

\* Mutant: slow_down is good for one poll.
NextIntervalOnce(answer) ==
    IF answer = "slow_down" THEN offered + SlowDownIncrement ELSE offered

NextInterval(answer) ==
    IF answer = "slow_down" THEN interval + SlowDownIncrement ELSE interval

\* Whether a sleep of wait seconds from at would outlast the code.
Outlasts(at, wait) == deadline # Forever /\ at + wait > deadline

\* Not yet: sleep, unless the code would have expired by the time of the next poll.
PollAgain(answer, latency) ==
    /\ polling = "poll"
    /\ clock' = clock + latency /\ answeredAt' = clock'
    /\ interval' = NextInterval(answer)
    /\ slowed' = slowed + (IF answer = "slow_down" THEN 1 ELSE 0)
    /\ polling' = IF Outlasts(clock', interval') THEN "expired" ELSE "sleep"
    /\ UNCHANGED <<deadline, offered, polls>>

\* time.sleep(interval), and the next poll.
Wake ==
    /\ polling = "sleep"
    /\ deadline = Forever => polls < MaxPolls
    /\ clock' = clock + interval
    /\ polling' = "poll"
    /\ polls' = IF polls < MaxPolls THEN polls + 1 ELSE polls
    /\ UNCHANGED <<interval, deadline, answeredAt, slowed, offered>>

Endings == {"granted", "denied", "lost", "expired"}

DeviceStep ==
    \/ \E how \in {"granted", "denied", "lost"}, d \in Latencies : PollEnds(how, d)
    \/ \E answer \in {"pending", "slow_down"}, d \in Latencies : PollAgain(answer, d)
    \/ Wake

DeviceNext ==
    \/ \E named \in Intervals, life \in Lifetimes : BeginDevice(named, life)
    \/ DeviceStep
-----------------------------------------------------------------------------
\* The server's pace and the code's lifetime are both kept. Every poll but the first
\* waits for all that the server has asked for, the interval it named and every
\* slow_down since, from the moment it last answered (RFC 8628 section 3.5; "raises it
\* permanently rather than for one poll"); no poll is made of a code that has expired,
\* and a flow is given up as expired only when the next poll would have been late.
PollsKeepTime ==
    /\ polls > 1 /\ polling = "poll" => clock - answeredAt >= offered + slowed * SlowDownIncrement
    /\ polling = "poll" /\ deadline # Forever => clock <= deadline
    /\ polling = "expired" => clock + offered + slowed * SlowDownIncrement > deadline

\* Polling ends, if the server put a lifetime on the code: slow answers and slow_downs
\* only bring the deadline nearer.
DeviceFlowEnds == polling = "poll" /\ deadline # Forever ~> polling \in Endings
=============================================================================
