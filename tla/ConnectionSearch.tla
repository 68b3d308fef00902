-------------------------- MODULE ConnectionSearch --------------------------
(***************************************************************************)
(* discovery.py, JMAPClient.discover and connect, _fetch_session, and the  *)
(* channel checks of core/session.py: from an address to a session whose   *)
(* endpoints may be sent credentials.  The async client does the same.     *)
(*                                                                         *)
(* Hosts are numbers, in the order of their names; a URL is a scheme and a *)
(* host.  Schemes: "https", "http", "loopback" (http on a loopback host)   *)
(* and "other".  A session document gives each endpoint a URL, or Relative *)
(* for one to be resolved against where the document came from.            *)
(***************************************************************************)
EXTENDS Capabilities

CONSTANTS
    Domain,       \* the host of the address's domain
    InDomain,     \* the hosts that are the domain or under it (_in_domain)
    SRVRecords,   \* targets DNS may answer with: [host, priority, weight]
    Direct,       \* URLs a caller may pass to connect()
    Hops,         \* URLs a fetch may be redirected to
    Documents,    \* session documents; endpoints: field -> URL or Relative
    Experimental, \* whether the caller opts into draft-tracking capabilities
    MaxHops,      \* bound: redirects of one fetch
    Relative,
    NoSession     \* no session, no URL, no request

Schemes == {"https", "http", "loopback", "other"}
URLs == [scheme : Schemes, host : Nat]

ASSUME SearchAssumption ==
    /\ Domain \in InDomain /\ InDomain \subseteq Nat
    /\ SRVRecords \subseteq [host : Nat, priority : Nat, weight : Nat] /\ IsFiniteSet(SRVRecords)
    /\ Direct \subseteq URLs /\ Hops \subseteq URLs
    /\ \A document \in Documents : \A field \in DOMAIN document.endpoints :
          document.endpoints[field] \in URLs \cup {Relative}

VARIABLES
    phase,      \* "idle", "connecting", "searching", "found", "connected" or "failed"
    confirmed,  \* the targets confirm_srv_target says yes to
    candidates, \* the URLs still to be tried, best first
    untried,    \* SrvConfirmation.untried
    chain,      \* the URLs of the fetch that is out, the requested one first
    session,    \* the Session: its document, where it came from, the URL it was asked of
    tried,      \* every URL sent credentials, with what came of it
    raised      \* what a search that failed raises

searchVars == <<phase, confirmed, candidates, untried, chain, session, tried, raised>>

\* RFC 2782 preference.
Preferred(a, b) ==
    \/ a.priority < b.priority
    \/ a.priority = b.priority /\ a.weight > b.weight
    \/ a.priority = b.priority /\ a.weight = b.weight /\ a.host < b.host

\* candidate_urls: which targets are tried.
MayTry(target, yes) == target.host \in InDomain \/ target \in yes

WellKnown(host) == [scheme |-> "https", host |-> host]

\* order_targets: each of the targets once, the preferred before the others.
Ordered(targets) ==
    CHOOSE order \in [1 .. Cardinality(targets) -> targets] :
        \A i, j \in DOMAIN order : i < j => Preferred(order[i], order[j])

\* candidate_urls: the targets in order, the domain's own well-known URL last.
CandidateURLs(records, yes) ==
    LET targets == Ordered({r \in records : MayTry(r, yes)})
        urls    == [i \in DOMAIN targets |-> WellKnown(targets[i].host)]
    IN  IF WellKnown(Domain) \in ToSet(urls) THEN urls ELSE Append(urls, WellKnown(Domain))

\* _is_downgrade: a channel weaker than the scheme of another.
Weaker(url, scheme) ==
    url.scheme = "other" \/ (scheme = "https" /\ url.scheme = "http")

\* Session.from_wire: endpoints made absolute against where the document came from.
Endpoint(document, field, base) ==
    IF document.endpoints[field] = Relative THEN base ELSE document.endpoints[field]

Refused(document, base) ==
    \E field \in DOMAIN document.endpoints : Weaker(Endpoint(document, field, base), base.scheme)

-----------------------------------------------------------------------------
SearchInit ==
    /\ phase = "idle" /\ confirmed = {} /\ candidates = <<>> /\ untried = {}
    /\ chain = <<>> /\ session = NoSession /\ tried = <<>> /\ raised = "nothing"

\* discover(address, use_srv=, confirm_srv_target=). Without dnspython, without
\* records and with a lookup that fails, the answer is empty.
Discover(records, yes) ==
    /\ phase = "idle"
    /\ phase' = "searching" /\ confirmed' = yes
    /\ candidates' = CandidateURLs(records, yes)
    /\ untried' = {r \in records : r.host \notin InDomain /\ r \notin yes}
    /\ UNCHANGED <<chain, session, tried, raised>>

\* connect(url): no search, so whatever fails is raised.
Connect(url) ==
    /\ phase = "idle"
    /\ phase' = "connecting" /\ candidates' = <<url>>
    /\ UNCHANGED <<confirmed, untried, chain, session, tried, raised>>

\* _fetch_session: GET with the credentials.
Try ==
    /\ phase \in {"connecting", "searching"} /\ chain = <<>> /\ candidates # <<>>
    /\ chain' = <<Head(candidates)>> /\ candidates' = Tail(candidates)
    /\ UNCHANGED <<phase, confirmed, untried, session, tried, raised>>

FetchHop(url) ==
    /\ chain # <<>> /\ Len(chain) <= MaxHops
    /\ chain' = Append(chain, url)
    /\ UNCHANGED <<phase, confirmed, candidates, untried, session, tried, raised>>

\* check_session_redirects, of every hop and before anything is read.
Downgraded == \E i \in DOMAIN chain : Weaker(chain[i], chain[1].scheme)

Record(result) ==
    tried' = Append(tried, [url |-> chain[1], result |-> result]) /\ chain' = <<>>

\* SrvConfirmation.failure: a target that went unasked, or else the last failure.
Failure(last) == IF untried # {} THEN "unconfirmed" ELSE last

\* TransportError, RequestError and ValueError: the search moves on, and fails when there
\* is nothing left to try.
MovesOn(result) ==
    /\ Record(result)
    /\ IF candidates # <<>> THEN UNCHANGED <<phase, raised>>
       ELSE phase' = "failed" /\ raised' = Failure(result)
    /\ UNCHANGED <<confirmed, candidates, untried, session>>

\* Mutant: no failure of one candidate stops the search.
StopsNever(result) == MovesOn(result)

\* Anything else leaves discover().
Stops(result) ==
    /\ Record(result)
    /\ phase' = "failed" /\ raised' = result
    /\ UNCHANGED <<confirmed, candidates, untried, session>>

Connecting == phase \in {"connecting", "searching"} /\ chain # <<>>

\* Nothing came back: no hop is looked at.
FetchUnreachable == Connecting /\ MovesOn("unreachable")

\* An answer that is no session, after the hops: "unauthorized", "problem" (any other
\* status) or "malformed".
FetchAnswered(answer) ==
    /\ Connecting
    /\ IF Downgraded THEN Stops("insecure")
       ELSE IF answer = "unauthorized" THEN Stops(answer)
       ELSE MovesOn(answer)

\* A session: resolve() may still refuse it (ConflictingMethodError, a ValueError).
FetchSession(document, account) ==
    /\ Connecting
    /\ IF Downgraded \/ Refused(document, Last(chain)) THEN Stops("insecure")
       ELSE IF Conflicts(Resolve(document, account, Experimental)) THEN MovesOn("conflict")
       ELSE /\ Record("session")
            /\ session' = [document |-> document, base |-> Last(chain), url |-> chain[1]]
            /\ phase' = "found"
            /\ UNCHANGED <<confirmed, candidates, untried, raised>>

SearchNext ==
    \/ \E records \in SUBSET SRVRecords : \E yes \in SUBSET records : Discover(records, yes)
    \/ \E url \in Direct : Connect(url)
    \/ Try
    \/ \E url \in Hops : FetchHop(url)
    \/ FetchUnreachable
    \/ \E answer \in {"unauthorized", "problem", "malformed"} : FetchAnswered(answer)
-----------------------------------------------------------------------------
\* Two records name the host of a URL: candidate_urls keeps both.
NamedTwice(url) ==
    \E one, two \in SRVRecords : one # two /\ one.host = url.host /\ two.host = url.host

\* Credentials go where the caller let them. A search sends them only to hosts of the
\* address's domain and to confirmed ones, to no URL twice unless two records name its
\* host, and to none after a refusal or a downgrade (discover: "trying the next candidate would
\* hand it the same credentials"); a search that fails without having asked about a
\* target says so instead of its last failure.
SearchIsOrderly ==
    /\ phase = "searching" \/ untried # {} \/ confirmed # {} =>
         \A i \in DOMAIN tried :
            tried[i].url.host \in InDomain \cup {t.host : t \in confirmed}
    /\ \A i \in DOMAIN tried :
         /\ tried[i].result \in {"unauthorized", "insecure", "session"}
              => i = Len(tried) /\ phase \notin {"connecting", "searching"}
         /\ \A j \in DOMAIN tried : tried[i].url = tried[j].url => i = j \/ NamedTwice(tried[i].url)
    /\ phase = "failed" =>
         (raised = "unconfirmed") =
            (untried # {} /\ Last(tried).result \notin {"unauthorized", "insecure"})

\* No endpoint of a session is a weaker channel than the one the session was asked for
\* over, whichever redirects and refetches it came through, unless a hop to this very
\* machine answered for it (check_session_redirects: "only sound if that is the channel
\* the caller asked for").
ChannelKept ==
    session # NoSession /\ session.base.scheme # "loopback" =>
        \A field \in DOMAIN session.document.endpoints :
            ~Weaker(Endpoint(session.document, field, session.base), session.url.scheme)

CredentialsStayPut == SearchIsOrderly /\ ChannelKept
=============================================================================
