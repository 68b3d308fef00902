--------------------------- MODULE ClientSession ---------------------------
(***************************************************************************)
(* client.py and aio.py from the session on: what a connected client holds *)
(* of the server, how it notices that this is out of date and replaces it, *)
(* and the batches it opens meanwhile.  The answers to several requests    *)
(* may arrive in any order, and while a refetch is under way.              *)
(***************************************************************************)
EXTENDS ConnectionSearch, ChunkedGet, Builders

CONSTANTS
    AccountIds,   \* what a caller may pass connect() as account_id; NoSpec is no account
    Calls,        \* calls a caller may queue
    Extra,        \* what a caller may pass as extra_using
    Sizes,        \* sizes of the blobs a caller may upload
    States,       \* session states a response may name; "" is none
    MaxCalls,     \* bound: calls queued in one batch
    MaxOut        \* bound: requests out at once

\* The fields of a call, and what a document may say of the limits that are asked for: a
\* value that is no number reads as one that is absent (_uint).
CallFields == {"method", "account", "properties", "filters", "sorts", "collations", "typeNames",
               "size", "ids", "builder", "given"}

\* The methods whose builders judge the objects of a call by the URN of their capability.
JudgedBy == [method \in {"Mailbox/set", "Email/set", "SieveScript/set", "FileNode/set",
                         "EmailSubmission/set"} |->
    CASE method \in {"Mailbox/set", "Email/set"} -> "mail"
      [] method = "SieveScript/set" -> "sieve"
      [] method = "FileNode/set" -> "files"
      [] method = "EmailSubmission/set" -> "submission"]

ASSUME ClientAssumption ==
    /\ \A call \in Calls : DOMAIN call = CallFields /\ call.ids \in Seq(ToSet(call.ids))
    /\ \A document \in Documents :
         \A objects \in {document.capabilities} \cup
                {document.accounts[id].capabilities : id \in DOMAIN document.accounts} :
            Holds(objects, Core) => Field(objects[Core], "maxObjectsInGet", 0) \in Int
    /\ \A spec \in ToSet(Specs) : \A name \in DOMAIN spec.methods \cap DOMAIN JudgedBy :
         spec.urn = JudgedBy[name] /\ spec.methods[name].scoped

VARIABLES
    capabilities,   \* ActiveCapabilities: [document, account, specs]
    session_stale,
    batch,          \* the open batch: the capabilities it was opened with, and its calls
    request,        \* the request sent last: [active, calls, using, blob]
    out,            \* requests that are not answered
    noticed         \* history: the states named by responses since the last refetch ended

clientVars == <<capabilities, session_stale, batch, request, out, noticed>>

vars == <<searchVars, chunkVars, clientVars>>

NoBatch == [active |-> NoSession, calls |-> <<>>]

Init ==
    /\ SearchInit /\ ChunkInit
    /\ capabilities = NoSession /\ session_stale = FALSE
    /\ batch = NoBatch /\ request = NoSession /\ out = 0 /\ noticed = {}

Active(document, account) ==
    [document |-> document, account |-> account,
     specs |-> Resolve(document, account, Experimental)]

\* connect(): account_id or _primary_account(session).
DefaultAccount(document, named) ==
    IF named # NoSpec THEN named ELSE PrimaryAccount(document, Core)

Connects(document, named) ==
    /\ FetchSession(document, DefaultAccount(document, named))
    /\ IF phase' = "found" THEN capabilities' = Active(document, DefaultAccount(document, named))
       ELSE UNCHANGED capabilities
    /\ UNCHANGED <<session_stale, batch, request, out, noticed, chunkVars>>

\* connect() and discover() return: what the search knew is gone.
Returns ==
    /\ phase = "found" /\ phase' = "connected"
    /\ confirmed' = {} /\ candidates' = <<>> /\ untried' = {} /\ tried' = <<>>
    /\ UNCHANGED <<chain, session, raised, clientVars, chunkVars>>

Connected == phase = "connected"

-----------------------------------------------------------------------------
(* refresh_session *)

\* Called by the application when session_stale is set; one refetch at a time.
Refresh ==
    /\ Connected /\ session_stale /\ chain = <<>>
    /\ chain' = <<session.url>>
    /\ UNCHANGED <<phase, confirmed, candidates, untried, session, tried, raised>>
    /\ UNCHANGED <<clientVars, chunkVars>>

\* Whatever fails before the session is parsed changes nothing.
RefreshFails ==
    /\ Connected /\ chain # <<>>
    /\ chain' = <<>>
    /\ UNCHANGED <<phase, confirmed, candidates, untried, session, tried, raised>>
    /\ UNCHANGED <<clientVars, chunkVars>>

\* The session is replaced first; a resolve() that refuses it leaves the capabilities
\* and the flag as they were.
RefreshAnswered(document) ==
    /\ Connected /\ chain # <<>> /\ ~Downgraded /\ ~Refused(document, Last(chain))
    /\ chain' = <<>>
    /\ session' = [document |-> document, base |-> Last(chain), url |-> session.url]
    /\ IF Conflicts(Resolve(document, capabilities.account, Experimental))
       THEN UNCHANGED <<capabilities, session_stale, noticed>>
       ELSE /\ capabilities' = Active(document, capabilities.account)
            /\ session_stale' = FALSE
            /\ noticed' = {}
    /\ UNCHANGED <<phase, confirmed, candidates, untried, tried, raised>>
    /\ UNCHANGED <<batch, request, out, chunkVars>>

-----------------------------------------------------------------------------
(* batch() and execute *)

\* A batch keeps the capabilities it was opened with. The handles of the one before it
\* are read by now.
OpenBatch ==
    /\ Connected /\ batch = NoBatch /\ ~Pending
    /\ batch' = [active |-> capabilities, calls |-> <<>>]
    /\ request' = NoSession /\ ForgetChunks
    /\ UNCHANGED <<capabilities, session_stale, out, noticed, searchVars>>

\* Batch.add, by a builder or called by itself: refused, or queued with its account, as
\* several calls if it is oversized.
Add(call) ==
    LET limit == Limit(batch.active.document, "maxObjectsInGet", batch.active.account)
        ids   == IF MethodOf(batch.active.specs, call.method).kind = "get"
                 THEN CallsFor(call.ids, limit) ELSE <<call.ids>>
        named == [call EXCEPT !.account = AccountFor(batch.active, call)]
    IN  /\ batch # NoBatch /\ Accepts(batch.active, call)
        /\ call.builder => Builds(batch.active, call)
        /\ Len(batch.calls) + Len(ids) <= MaxCalls
        /\ batch' = [batch EXCEPT !.calls =
                        @ \o [i \in DOMAIN ids |-> [named EXCEPT !.ids = ids[i]]]]
        /\ IF Len(ids) > 1 THEN chunks = <<>> /\ QueueChunks(call.ids, ids) ELSE UNCHANGED chunkVars
        /\ UNCHANGED <<capabilities, session_stale, request, out, noticed, searchVars>>

\* plan(): an oversized /set and a `using` the server does not offer raise, and nothing
\* is sent.
Execute(extra) ==
    LET using == UsingFor(batch.active, batch.calls, extra)
    IN  /\ batch.calls # <<>> /\ out < MaxOut
        /\ FitsSets(batch.active, batch.calls)
        /\ using \subseteq Advertised(batch.active.document, batch.active.account)
        /\ request' = [active |-> batch.active, calls |-> batch.calls, using |-> using, blob |-> NoSpec]
        /\ batch' = NoBatch /\ out' = out + 1
        /\ SendChunks
        /\ UNCHANGED <<capabilities, session_stale, noticed, searchVars>>

\* The block raised, or the plan did: nothing goes out.
Abandon ==
    /\ batch # NoBatch
    /\ batch' = NoBatch /\ ForgetChunks
    /\ UNCHANGED <<capabilities, session_stale, request, out, noticed, searchVars>>

\* session_is_stale: an unknown state on either side is fresh.
IsStale(state) == state # "" /\ session.document.state # "" /\ state # session.document.state

\* Mutant: the flag says what the last response said.
StaleAfterLast(state) == IsStale(state)

StaleAfter(state) == session_stale \/ IsStale(state)

\* execute: the answer is absorbed and looked at, in whatever order answers arrive.
Absorb(state) ==
    /\ out > 0 /\ out' = out - 1
    /\ session_stale' = StaleAfter(state)
    /\ noticed' = noticed \cup ({state} \ {""})
    /\ UNCHANGED <<capabilities, batch, request, searchVars, chunkVars>>

\* The request failed: nothing is learnt of the session.
ExecuteFails ==
    /\ out > 0 /\ out' = out - 1
    /\ UNCHANGED <<capabilities, session_stale, batch, request, noticed>>
    /\ UNCHANGED <<searchVars, chunkVars>>

\* upload() and download(): named, the default, or the one the session implies.
BlobAccount(named) ==
    IF named # NoSpec THEN named
    ELSE IF capabilities.account # NoSpec THEN capabilities.account
    ELSE ImpliedAccount(session.document)

\* Bound: not while a batch is open, with which a blob shares nothing.
Blob(named) ==
    /\ batch = NoBatch /\ ~Pending /\ BlobAccount(named) # NoSpec
    /\ request' = [active |-> capabilities, calls |-> <<>>, using |-> {}, blob |-> BlobAccount(named)]
    /\ UNCHANGED <<capabilities, session_stale, batch, out, noticed, searchVars, chunkVars>>

Upload(named, size) ==
    /\ Connected /\ size <= Limit(capabilities.document, "maxSizeUpload", capabilities.account)
    /\ Blob(named)

Download(named) == Connected /\ Blob(named)

-----------------------------------------------------------------------------
Next ==
    \/ SearchNext /\ UNCHANGED <<clientVars, chunkVars>>
    \/ \E document \in Documents, named \in AccountIds : Connects(document, named)
    \/ Returns
    \/ Refresh \/ RefreshFails
    \/ \E document \in Documents : RefreshAnswered(document)
    \/ OpenBatch \/ Abandon
    \/ \E call \in Calls : Add(call)
    \/ \E extra \in Extra : Execute(extra)
    \/ \E state \in States : Absorb(state)
    \/ ExecuteFails
    \/ \E named \in AccountIds : Download(named) \/ \E size \in Sizes : Upload(named, size)
    \/ ChunkNext /\ UNCHANGED <<searchVars, clientVars>>

Spec == Init /\ [][Next]_vars
-----------------------------------------------------------------------------
\* Every name that a gate holds back is let through by `using`.
Ungated(names, gates, using) == \A name \in names \cap DOMAIN gates : gates[name] \in using

\* What a server that offers the specs of the URNs in `using` does with a call (RFC 8620
\* 1.8): it knows the methods, types and names of those and of no other.
Serves(spoken, using, call) ==
    \E spec \in spoken :
        /\ call.method \in DOMAIN spec.methods
        /\ spec.requires \cup spec.methods[call.method].also \subseteq using
        /\ LET method == spec.methods[call.method] IN
           /\ \A other \in spoken :
                 /\ method.type \in DOMAIN other.types =>
                      /\ Ungated(call.properties, other.types[method.type].properties, using)
                      /\ Ungated(call.sorts, other.types[method.type].sorts, using)
                 /\ method.filterType \in DOMAIN other.types =>
                      Ungated(call.filters, other.types[method.filterType].filters, using)

\* What the server does with a call's objects: it refuses those past a limit that the
\* object of the call's account names (RFC 8621 1.3, RFC 9661 1.2.1), and the arguments it
\* would have to ignore or miss.
NameLimits == [method \in {"Mailbox/set", "SieveScript/set", "FileNode/set"} |->
    CASE method = "Mailbox/set" -> "maxSizeMailboxName"
      [] method = "SieveScript/set" -> "maxSizeScriptName"
      [] method = "FileNode/set" -> "maxSizeFileNodeName"]

Bears(call, kind, value) ==
    /\ \A object \in Changed(call.given) :
         /\ call.method \in DOMAIN NameLimits /\ Gives(object, "name") =>
              Within(object.name.octets, value, NameLimits[call.method])
         /\ call.method = "Email/set" /\ Gives(object, "mailboxes") =>
              Within(object.mailboxes, value, "maxMailboxesPerEmail")
    /\ call.method = "EmailSubmission/set" =>
         \A object \in Objects(call.given, {"create"}) : Within(Hold(object), value, "maxDelayedSend")
    /\ kind = "query" /\ Gives(call.given, "anchor") /\ call.given.anchor # NoSpec =>
         ~Gives(call.given, "position")

\* A request that is sent is one the server it was planned for takes (registry.py:
\* under-declaring "degrades silently", over-declaring destroys "every unrelated call
\* batched alongside it"): all of `using` is advertised, every call is served under it by
\* the capabilities its document shows, none changes a read-only account or asks for more
\* objects than the server allows; and what a builder queued for the batch's own account
\* is within the limits of that account.
RequestsAreServed ==
    request # NoSession =>
        LET document == request.active.document
            account  == request.active.account
            specs    == request.active.specs
            spoken   == {specs[urn] : urn \in request.using \cap DOMAIN specs}
        IN  /\ specs = Resolve(document, account, Experimental)
            /\ request.using \subseteq Advertised(document, account)
            /\ \A i \in DOMAIN request.calls :
                 LET call == request.calls[i]
                     method == MethodOf(specs, call.method)
                     urn == OwnerOf(specs, call.method).urn
                     value == CapabilityValue(document, urn, call.account)
                 IN
                 /\ Serves(spoken, request.using, call)
                 /\ method.names => \A type \in call.typeNames : Defining(specs, type) # NoSpec =>
                      \E other \in spoken : type \in DOMAIN other.types
                 /\ method.mutating => ~ReadOnly(document, call.account)
                 /\ method.kind = "get" =>
                      Cardinality(ToSet(call.ids)) <= Limit(document, "maxObjectsInGet", account)
                 /\ call.builder /\ Parsed(value) = value
                      /\ call.account = AccountFor(request.active, [call EXCEPT !.account = NoSpec])
                    => Bears(call, method.kind, value)

\* The client does not forget that it is out of date: while the flag is down, every
\* response since the last refetch named the session it holds, in whatever order they
\* came; and the capabilities that gate its calls are those of that session, a refetch
\* that failed halfway included.
StalenessKept ==
    /\ phase = "connected" /\ ~session_stale =>
         /\ session.document.state # "" => noticed \subseteq {session.document.state}
         /\ capabilities.document = session.document
=============================================================================
