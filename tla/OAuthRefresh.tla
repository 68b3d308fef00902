---------------------------- MODULE OAuthRefresh ----------------------------
(***************************************************************************)
(* A credential that renews itself, shared by the threads of a process:    *)
(* OAuth2Auth in src/jmap/auth/credentials.py.                             *)
(*                                                                         *)
(* Each thread runs sync_auth_flow for one request after another, and any  *)
(* two reads of the credential may have another thread's writes between    *)
(* them; async_auth_flow is the same code with fewer interleavings.        *)
(* Tokens are numbered in the order the authorization server issues them.  *)
(* It rotates the refresh token on every use and, as the module's comment  *)
(* says of Fastmail, revokes the grant when an old one is replayed.        *)
(***************************************************************************)
EXTENDS Naturals

CONSTANTS
    Threads, NoThread,
    MaxTokens           \* bound: tokens the authorization server issues

ASSUME OAuthAssumption == MaxTokens \in Nat /\ NoThread \notin Threads

VARIABLES
    token,          \* _token, shared
    generation,     \* _generation, shared
    lock,           \* the holder of _lock (and the value of _refreshing)
    stored,         \* the token the TokenStore keeps, durable
    flow,           \* each thread's auth flow: see Flow
    issued,         \* the authorization server's last token
    revoked,        \* it has revoked the grant
    aging,          \* tokens within the lead of their expiry by the client's clock
    expired,        \* access tokens the server no longer takes
    unsaved,        \* history: tokens whose save raised
    lost            \* history: a token was issued that the client cannot know of

server == <<issued, revoked, aging, expired>>
renewVars == <<token, generation, lock, stored, flow, issued, revoked, aging, expired, unsaved, lost>>

\* The locals of a flow: where it is, why it is renewing, `seen`, the token of the
\* request it sent, the token refresh() returned, and how often it has sent.
Flow == [at : {"idle", "start", "renew", "ready", "seen", "sent", "wait", "refresh", "save",
               "adopt", "count", "release"},
         why : {"ahead", "refused"}, seen : Nat, used : Nat, got : Nat, sends : 0 .. 2]

Idle == [at |-> "idle", why |-> "ahead", seen |-> 0, used |-> 0, got |-> 0, sends |-> 0]

RenewInit ==
    /\ token = 0 /\ generation = 0 /\ stored = 0 /\ issued = 0
    /\ lock = NoThread
    /\ flow = [t \in Threads |-> Idle]
    /\ revoked = FALSE /\ lost = FALSE
    /\ aging = {} /\ expired = {} /\ unsaved = {}

At(t, place) == flow[t].at = place
GoTo(t, place) == flow' = [flow EXCEPT ![t].at = place]
End(t) == flow' = [flow EXCEPT ![t] = Idle]

----------------------------------------------------------------------------
\* sync_auth_flow, up to the answer

Request(t) ==
    /\ At(t, "idle")
    /\ GoTo(t, "start")
    /\ UNCHANGED <<token, generation, lock, stored, server, unsaved, lost>>

\* _refresh_if_expiring: its test of the token.
CheckExpiry(t) ==
    /\ At(t, "start")
    /\ GoTo(t, IF token \in aging THEN "renew" ELSE "ready")
    /\ UNCHANGED <<token, generation, lock, stored, server, unsaved, lost>>

\* _refresh_if_expiring: the generation it hands to _refresh_once.
RenewAhead(t) ==
    /\ At(t, "renew")
    /\ flow' = [flow EXCEPT ![t].at = "wait", ![t].why = "ahead", ![t].seen = generation]
    /\ UNCHANGED <<token, generation, lock, stored, server, unsaved, lost>>

\* seen = self._generation
ReadGeneration(t) ==
    /\ At(t, "ready")
    /\ flow' = [flow EXCEPT ![t].at = "seen", ![t].seen = generation]
    /\ UNCHANGED <<token, generation, lock, stored, server, unsaved, lost>>

\* apply, and the request is on its way.
Send(t) ==
    /\ At(t, "seen")
    /\ flow' = [flow EXCEPT ![t].at = "sent", ![t].used = token, ![t].sends = @ + 1]
    /\ UNCHANGED <<token, generation, lock, stored, server, unsaved, lost>>

\* An answer that ends the flow: anything but a 401 with a Bearer challenge, a
\* missing scope (which raises), or the answer to the second try.
Answered(t) ==
    /\ At(t, "sent")
    /\ End(t)
    /\ UNCHANGED <<token, generation, lock, stored, server, unsaved, lost>>

Refuses(n) == revoked \/ n \in expired

\* _should_retry: a 401 with a Bearer challenge, to the first try.
Refused(t) ==
    /\ At(t, "sent") /\ Refuses(flow[t].used) /\ flow[t].sends = 1
    /\ flow' = [flow EXCEPT ![t].at = "wait", ![t].why = "refused"]
    /\ UNCHANGED <<token, generation, lock, stored, server, unsaved, lost>>

----------------------------------------------------------------------------
\* _refresh_once

\* Where a flow goes on once _refresh_once has returned.
Resume(t) == GoTo(t, IF flow[t].why = "ahead" THEN "ready" ELSE "seen")

\* Someone else refreshed while this thread waited for the lock.
AlreadyDone(t) ==
    /\ At(t, "wait") /\ lock = NoThread
    /\ generation # flow[t].seen
    /\ Resume(t)
    /\ UNCHANGED <<token, generation, lock, stored, server, unsaved, lost>>

\* Mutant: whoever gets the lock refreshes.
BeginAnyway(t) ==
    /\ At(t, "wait") /\ lock = NoThread
    /\ lock' = t
    /\ GoTo(t, "refresh")
    /\ UNCHANGED <<token, generation, stored, server, unsaved, lost>>

Begin(t) ==
    /\ At(t, "wait") /\ lock = NoThread
    /\ generation = flow[t].seen
    /\ lock' = t
    /\ GoTo(t, "refresh")
    /\ UNCHANGED <<token, generation, stored, server, unsaved, lost>>

\* The refresh callable, at the authorization server: a new token comes back.
Rotate(t) ==
    /\ At(t, "refresh") /\ ~revoked /\ token = issued /\ issued < MaxTokens
    /\ issued' = issued + 1
    /\ flow' = [flow EXCEPT ![t].at = "save", ![t].got = issued + 1]
    /\ UNCHANGED <<token, generation, lock, stored, revoked, aging, expired, unsaved, lost>>

\* Mutant: an exception that leaves the lock held.
FailLocked(t) ==
    /\ At(t, "refresh")
    /\ End(t)
    /\ revoked' = (revoked \/ token # issued)
    /\ UNCHANGED <<token, generation, lock, stored, issued, aging, expired, unsaved, lost>>

\* The callable raises: no answer, a refusal (which an old refresh token gets, and
\* the whole grant with it), or its own request led back here to _refreshing.
RenewFails(t) ==
    /\ At(t, "refresh")
    /\ End(t)
    /\ lock' = NoThread
    /\ revoked' = (revoked \/ token # issued)
    /\ UNCHANGED <<token, generation, stored, issued, aging, expired, unsaved, lost>>

\* The callable raises, but the server has rotated: its answer was lost.
AnswerLost(t) ==
    /\ At(t, "refresh") /\ ~revoked /\ token = issued /\ issued < MaxTokens
    /\ issued' = issued + 1
    /\ lost' = TRUE
    /\ End(t)
    /\ lock' = NoThread
    /\ UNCHANGED <<token, generation, stored, revoked, aging, expired, unsaved>>

\* Mutant: _apply_token swaps the token first, and saves it next.
SaveAfterSwap(t) ==
    /\ At(t, "save") /\ token # flow[t].got
    /\ token' = flow[t].got
    /\ UNCHANGED <<generation, lock, stored, flow, server, unsaved, lost>>

\* Mutant: a token whose save raised is not adopted.
SaveOrForget(t) ==
    /\ At(t, "save")
    /\ \/ stored' = flow[t].got /\ unsaved' = unsaved /\ lock' = lock /\ GoTo(t, "adopt")
       \/ unsaved' = unsaved \union {flow[t].got} /\ stored' = stored
          /\ lock' = NoThread /\ End(t)
    /\ UNCHANGED <<token, generation, server, lost>>

\* _apply_token: store.save returns, or raises.
Save(t) ==
    /\ At(t, "save")
    /\ \/ stored' = flow[t].got /\ unsaved' = unsaved
       \/ unsaved' = unsaved \union {flow[t].got} /\ stored' = stored
    /\ GoTo(t, "adopt")
    /\ UNCHANGED <<token, generation, lock, server, lost>>

\* _apply_token: its finally clause, whose assignments other threads see one by one.
Adopt(t) ==
    /\ At(t, "adopt")
    /\ token' = flow[t].got
    /\ GoTo(t, "count")
    /\ UNCHANGED <<generation, lock, stored, server, unsaved, lost>>

Count(t) ==
    /\ At(t, "count")
    /\ generation' = generation + 1
    /\ GoTo(t, "release")
    /\ UNCHANGED <<token, lock, stored, server, unsaved, lost>>

\* The lock is let go; what save raised goes to the caller of the request.
Release(t) ==
    /\ At(t, "release")
    /\ lock' = NoThread
    /\ IF flow[t].got \in unsaved THEN End(t) ELSE Resume(t)
    /\ UNCHANGED <<token, generation, stored, server, unsaved, lost>>

----------------------------------------------------------------------------
\* The world

\* The clock reaches the lead of the token in use.
Age ==
    /\ aging' = aging \union {token}
    /\ UNCHANGED <<token, generation, lock, stored, flow, issued, revoked, expired, unsaved, lost>>

Expire ==
    /\ \E n \in 0 .. issued : expired' = expired \union {n}
    /\ UNCHANGED <<token, generation, lock, stored, flow, issued, revoked, aging, unsaved, lost>>

\* The process dies and another starts with what the store has.
Crash ==
    /\ token' = stored /\ generation' = 0 /\ lock' = NoThread
    /\ flow' = [t \in Threads |-> Idle]
    /\ lost' = (lost \/ stored # issued)
    /\ UNCHANGED <<stored, server, unsaved>>

----------------------------------------------------------------------------
Sending(t)    == \/ CheckExpiry(t) \/ RenewAhead(t) \/ ReadGeneration(t) \/ Send(t)
                 \/ Answered(t) \/ Refused(t) \/ AlreadyDone(t) \/ Begin(t)
Refreshing(t) == \/ Rotate(t) \/ RenewFails(t) \/ AnswerLost(t)
                 \/ Save(t) \/ Adopt(t) \/ Count(t) \/ Release(t)

RenewNext == \/ \E t \in Threads : Request(t) \/ Sending(t) \/ Refreshing(t)
        \/ Age \/ Expire \/ Crash

RenewSpec == RenewInit /\ [][RenewNext]_renewVars

\* The thread that holds the lock goes on, and the refresh callable comes back.
FairRenewSpec == RenewSpec /\ \A t \in Threads : WF_renewVars(Refreshing(t))

----------------------------------------------------------------------------
\* Properties

TypeOK ==
    /\ token \in 0 .. MaxTokens /\ stored \in 0 .. MaxTokens /\ issued \in 0 .. MaxTokens
    /\ generation \in 0 .. MaxTokens
    /\ lock \in Threads \union {NoThread}
    /\ flow \in [Threads -> Flow]
    /\ revoked \in BOOLEAN /\ lost \in BOOLEAN
    /\ aging \subseteq 0 .. MaxTokens /\ expired \subseteq 0 .. MaxTokens
    /\ unsaved \subseteq 0 .. MaxTokens

\* However many requests are refused at once, whatever refresh, save or threads do,
\* no refresh token is presented twice: the grant is only ever lost to a token whose
\* issue the client never learnt of (an answer lost, or a crash before save).
NoReplay == revoked => lost

\* "The new token must reach the store before the old one is dropped": a token in
\* use that the store has not got is one it failed to save.
PersistedFirst == token > stored => token \in unsaved

\* A 401 costs a refresh only while the token it refused is still the one in use.
OnlyTheRefusedIsRenewed ==
    \A t \in Threads : At(t, "refresh") /\ flow[t].why = "refused" => flow[t].used = token

\* No refresh, failed or not, leaves the credential locked.
LockReleased == \A t \in Threads : lock = t ~> lock # t
=============================================================================
