-------------------------- MODULE PushSubscriptions --------------------------
(***************************************************************************)
(* push/subscription.py: the life of a PushSubscription, with the bodies   *)
(* read_push makes sense of (push/webpush.py) and the VAPID key of         *)
(* capabilities/push.py.  The server sends the code of a subscription to   *)
(* its URL as it makes it, so the code may arrive before the answer to the *)
(* create.  A push may come late, twice or never; the same URL hears of    *)
(* subscriptions that are not this client's; an answer may be lost, and    *)
(* the subscription found by the device's id.  The server changes its key, *)
(* and destroys what was subscribed with the old one.                      *)
(***************************************************************************)
EXTENDS Naturals, FiniteSets, SequencesExt

CONSTANTS
    MaxPending,   \* MAX_PENDING
    Strangers,    \* bound: subscriptions others have the server send codes of
    MaxCreates,   \* bound: subscriptions the client makes
    MaxKeys       \* bound: keys of the server

ASSUME MaxPendingAssumption == MaxPending \in Nat \ {0}

Ids == 1 .. MaxCreates

\* Ids are the server's, and no two subscriptions have one.
ASSUME StrangersAssumption == MaxCreates \in Nat /\ Strangers \cap Ids = {}

NoKey == 0      \* the capability is not there, or has no key
NoCode == 0

VARIABLES
    encrypted,    \* whether subscriptions are made with keys, which reads what comes
    serverKey,    \* the server's VAPID key
    sessionKey,   \* application_server_key(session)
    creating,     \* the creates on their way: the keys they subscribe with
    made,         \* the server's subscriptions: [with, verified], by id
    answered,     \* the answers to creates on their way: [id, with]
    bodies,       \* pushes on their way to the URL: [id, code, sealed]
    known,        \* the client's subscriptions: the key each was subscribed with
    codes,        \* _codes, oldest first: [id, code]
    claimed,      \* the codes taken and not yet accepted
    destroyed,    \* history: what the server destroyed for its key
    seen,         \* history: the client's a code was ever recorded for
    since         \* history: what else was recorded since, up to MaxPending, for each of those

subscriptionVars == <<encrypted, serverKey, sessionKey, creating, made, answered, bodies, known,
                      codes, claimed, destroyed, seen, since>>

SubscriptionInit ==
    /\ encrypted \in BOOLEAN
    /\ serverKey \in {NoKey, 1} /\ sessionKey = serverKey
    /\ creating = <<>> /\ made = <<>> /\ answered = {} /\ bodies = {}
    /\ known = <<>> /\ codes = <<>> /\ claimed = {}
    /\ destroyed = {} /\ seen = {} /\ since = [id \in Ids |-> {}]

-----------------------------------------------------------------------------
(* The server *)

Rotate ==
    /\ serverKey < MaxKeys /\ serverKey' = serverKey + 1
    /\ UNCHANGED <<encrypted, sessionKey, creating, made, answered, bodies, known, codes, claimed,
                   destroyed, seen, since>>

\* At once or in a while: the server may keep the old key's for some time.
Destroy(id) ==
    /\ id \in DOMAIN made /\ made[id].with \notin {NoKey, serverKey}
    /\ made' = Restrict(made, DOMAIN made \ {id}) /\ destroyed' = destroyed \cup {id}
    /\ UNCHANGED <<encrypted, serverKey, sessionKey, creating, answered, bodies, known, codes,
                   claimed, seen, since>>

\* The table with an entry written.
Put(table, id, value) == [key \in DOMAIN table \cup {id} |-> IF key = id THEN value ELSE table[key]]

Body(id, code, sealed) == [id |-> id, code |-> code, sealed |-> sealed]

Made(id) ==
    /\ creating # <<>> /\ id = Cardinality(DOMAIN made \cup destroyed) + 1
    /\ made' = Put(made, id, [with |-> Head(creating), verified |-> FALSE])
    /\ creating' = Tail(creating)
    /\ answered' = answered \cup {[id |-> id, with |-> Head(creating)]}
    /\ bodies' = bodies \cup {Body(id, id, encrypted)}
    /\ UNCHANGED <<encrypted, serverKey, sessionKey, known, codes, claimed, destroyed, seen, since>>

\* Of others' subscriptions at this URL; and a verification that says too little.
Strays == {Body(id, code, FALSE) : id \in Strangers, code \in {NoCode, 1}}

AnswerLost(answer) ==
    /\ answer \in answered /\ answered' = answered \ {answer}
    /\ UNCHANGED <<encrypted, serverKey, sessionKey, creating, made, bodies, known, codes, claimed,
                   destroyed, seen, since>>

-----------------------------------------------------------------------------
(* The client *)

RefreshSession ==
    /\ sessionKey # serverKey /\ sessionKey' = serverKey
    /\ UNCHANGED <<encrypted, serverKey, creating, made, answered, bodies, known, codes, claimed,
                   destroyed, seen, since>>

Creates == Len(creating) + Cardinality(DOMAIN made \cup destroyed)

\* new_subscription, with the key the session advertises.
Create ==
    /\ Creates < MaxCreates
    /\ creating' = Append(creating, sessionKey)
    /\ UNCHANGED <<encrypted, serverKey, sessionKey, made, answered, bodies, known, codes, claimed,
                   destroyed, seen, since>>

\* The answer tells the id; what it was subscribed with is the client's to remember. That
\* the server has destroyed it since, nothing tells.
CreateAnswered(answer) ==
    /\ answer \in answered /\ answered' = answered \ {answer}
    /\ known' = Put(known, answer.id, answer.with)
    /\ UNCHANGED <<encrypted, serverKey, sessionKey, creating, made, bodies, codes, claimed,
                   destroyed, seen, since>>

\* mine(): those the server has under this device's id. Their key is not among what
\* PushSubscription/get returns, and one that is not known is no rotation.
FindMine ==
    /\ DOMAIN made \ DOMAIN known # {}
    /\ known' = [id \in DOMAIN made \cup DOMAIN known |->
                    IF id \in DOMAIN known THEN known[id] ELSE NoKey]
    /\ UNCHANGED <<encrypted, serverKey, sessionKey, creating, made, answered, bodies, codes,
                   claimed, destroyed, seen, since>>

\* read_push: what does not decrypt with these keys is discarded.
Readable(body) == body.sealed = encrypted

Has(table, id) == \E i \in DOMAIN table : table[i].id = id
Holds(id) == Has(codes, id)

\* A dict keeps the place of a key it has.
Write(table, body) ==
    LET entry == [id |-> body.id, code |-> body.code] IN
    IF Has(table, body.id)
    THEN [i \in DOMAIN table |-> IF table[i].id = body.id THEN entry ELSE table[i]]
    ELSE Append(table, entry)

\* Mutant: a table that is full makes room even for a code it holds already.
RecordAnyway(body) == Write(IF Len(codes) >= MaxPending THEN Tail(codes) ELSE codes, body)

\* record(): the oldest leaves for a new one.
Record(body) ==
    Write(IF ~Holds(body.id) /\ Len(codes) >= MaxPending THEN Tail(codes) ELSE codes, body)

Receive(body, again) ==
    /\ body \in bodies \cup Strays /\ bodies' = IF again THEN bodies ELSE bodies \ {body}
    /\ IF Readable(body) /\ body.code # NoCode
       THEN /\ codes' = Record(body)
            /\ seen' = seen \cup ({body.id} \cap Ids)
            /\ since' = [id \in Ids |->
                            IF id \in seen \ {body.id} /\ Cardinality(since[id]) < MaxPending
                            THEN since[id] \cup {body.id} ELSE since[id]]
       ELSE UNCHANGED <<codes, seen, since>>
    /\ UNCHANGED <<encrypted, serverKey, sessionKey, creating, made, answered, known, claimed, destroyed>>

\* claim(), on the answer or on the push, whichever comes second.
Claim(id) ==
    /\ id \in DOMAIN known
    /\ \E i \in DOMAIN codes :
          /\ codes[i].id = id
          /\ codes' = RemoveAt(codes, i) /\ claimed' = claimed \cup {codes[i]}
    /\ UNCHANGED <<encrypted, serverKey, sessionKey, creating, made, answered, bodies, known,
                   destroyed, seen, since>>

\* verification_update, tried until it is answered.
Verify(entry) ==
    LET id == entry.id IN
    /\ entry \in claimed /\ claimed' = claimed \ {entry}
    /\ made' = IF id \in DOMAIN made /\ entry.code = id THEN [made EXCEPT ![id].verified = TRUE] ELSE made
    /\ UNCHANGED <<encrypted, serverKey, sessionKey, creating, answered, bodies, known, codes,
                   destroyed, seen, since>>

\* vapid_key_rotated: not knowing either key is no rotation.
Rotated(advertised, with) ==
    with # NoKey /\ advertised # NoKey /\ advertised # with

NeedsRecreating(id) == id \in DOMAIN known /\ Rotated(sessionKey, known[id])

\* What the rotation took is given up, and made again.
Recreate(id) ==
    /\ NeedsRecreating(id) /\ Creates < MaxCreates
    /\ known' = Restrict(known, DOMAIN known \ {id})
    /\ creating' = Append(creating, sessionKey)
    /\ UNCHANGED <<encrypted, serverKey, sessionKey, made, answered, bodies, codes, claimed,
                   destroyed, seen, since>>

SubscriptionNext ==
    \/ Rotate \/ RefreshSession \/ Create \/ FindMine
    \/ \E id \in Ids : Destroy(id) \/ Made(id) \/ Claim(id) \/ Recreate(id)
    \/ \E answer \in answered : AnswerLost(answer) \/ CreateAnswered(answer)
    \/ \E body \in bodies \cup Strays, again \in BOOLEAN : Receive(body, again)
    \/ \E entry \in claimed : Verify(entry)
-----------------------------------------------------------------------------
\* A code is there when its subscription is known, whichever of the two came first: one
\* that was read waits, is in hand or has verified it (what the server destroyed apart),
\* unless as many others as the table holds came after it. "A code that sat unclaimed
\* behind 64 later ones belongs to a create that is not coming back for it."
CodesAreKept ==
    \A id \in seen \cap DOMAIN made :
        \/ made[id].verified \/ Holds(id) \/ \E entry \in claimed : entry.id = id
        \/ Cardinality(since[id]) >= MaxPending

\* The table stays within its bound, and holds a subscription's code once.
CodesAreBounded ==
    /\ Len(codes) <= MaxPending
    /\ \A i, j \in DOMAIN codes : codes[i].id = codes[j].id => i = j

\* Nothing tells the client that a rotation destroyed its subscription, but the session
\* it has: with the server's own key in it, every one destroyed is to be made again that
\* the client remembers the key of.
RotationsAreSeen ==
    sessionKey = serverKey =>
        \A id \in DOMAIN known \cap destroyed : known[id] # NoKey => NeedsRecreating(id)

SubscriptionsAreKept == CodesAreKept /\ CodesAreBounded /\ RotationsAreSeen
=============================================================================
