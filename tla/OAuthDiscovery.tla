--------------------------- MODULE OAuthDiscovery ---------------------------
(***************************************************************************)
(* auth/acquire.py discover() and auth/metadata.py: from the pointer of a  *)
(* 401 to the endpoints of an authorization server.                        *)
(*                                                                         *)
(* A URL is a record.  Its scheme is "https", "http", "loopback" (http on  *)
(* a loopback host) or "none" (a relative pointer); its doc is the         *)
(* well-known document it is the location of, "" if it is not one; its     *)
(* path is what is left of the path, as segments.                          *)
(***************************************************************************)
EXTENDS Naturals, Sequences, SequencesExt

CONSTANTS
    Pointers,        \* resource_metadata pointers a caller may start from
    Requested,       \* URLs being signed in to (resource=), and None
    Overrides,       \* issuers the caller may have chosen (issuer=), and None
    Targets,         \* URLs a fetch may be redirected to
    ResourceDocs,    \* [resource, servers]: what RFC 9728 metadata may say
    ServerDocs,      \* [issuer, endpoint, pkce]: what RFC 8414 metadata may say
    MaxRedirects,    \* _MAX_REDIRECTS
    None

VARIABLES
    stage,      \* "start", "resource", "server", "openid", "found" or "failed"
    fetching,   \* the URL of the request that is out
    hops,       \* redirects this fetch has followed
    asked,      \* what discover() was called with
    issuer,     \* the issuer chosen
    metadata,   \* the AuthorizationServerMetadata found
    told,       \* the resource document the issuer was taken from
    fetched     \* every URL requested so far

discoveryVars == <<stage, fetching, hops, asked, issuer, metadata, told, fetched>>

IsURL(url) == {"scheme", "host", "doc", "path"} \subseteq DOMAIN url

ASSUME DocumentsAssumption ==
    /\ \A url \in Overrides \ {None} : IsURL(url)
    /\ \A doc \in ResourceDocs :
         /\ doc.servers \in Seq({doc.servers[i] : i \in DOMAIN doc.servers})
         /\ \A i \in DOMAIN doc.servers : IsURL(doc.servers[i])
    /\ \A doc \in ServerDocs :
         DOMAIN doc.endpoint = {"authorize", "token", "register", "device"}
    /\ None \notin ServerDocs

\* _require_https.
Secure(url) == url.scheme \in {"https", "loopback"}

\* well_known_url, openid_url and protected_resource_url: three places for three documents.
Located(url, doc) == [url EXCEPT !.doc = doc]

\* _absolute: a relative pointer takes its origin from the URL that was challenged.
CanResolve(pointer, resource) == pointer.scheme # "none" \/ resource # None

Absolute(pointer, resource) ==
    IF pointer.scheme # "none" THEN pointer
    ELSE [pointer EXCEPT !.scheme = resource.scheme, !.host = resource.host]

\* _covers: the origin and a run of the leading path segments.
Covers(resource, url) ==
    /\ resource.scheme = url.scheme /\ resource.host = url.host
    /\ IsPrefix(resource.path, url.path)

\* _check_resource. The location compared is the one the fetch began at, whatever
\* redirects it followed.
CheckResource(doc, from, requested) ==
    /\ doc.resource # None
    /\ from.doc = "resource" => Located(doc.resource, "resource") = from
    /\ requested # None => Covers(doc.resource, requested)

-----------------------------------------------------------------------------
DiscoveryInit ==
    /\ stage = "start"
    /\ fetching = None /\ hops = 0
    /\ asked = None /\ issuer = None /\ metadata = None /\ told = None
    /\ fetched = {}

Fetch(url) == fetching' = url /\ hops' = 0 /\ fetched' = fetched \cup {url}

Fail ==
    /\ stage' = "failed" /\ fetching' = None
    /\ UNCHANGED <<hops, asked, issuer, metadata, told, fetched>>

\* discover(resource_metadata_url, resource=, issuer=): up to its first request.
Discover(pointer, requested, chosen) ==
    /\ stage = "start"
    /\ IF CanResolve(pointer, requested) /\ Secure(Absolute(pointer, requested))
       THEN /\ Fetch(Absolute(pointer, requested))
            /\ asked' = [from |-> Absolute(pointer, requested),
                         requested |-> requested, issuer |-> chosen]
            /\ stage' = "resource"
            /\ UNCHANGED <<issuer, metadata, told>>
       ELSE Fail

\* _fetch_server_metadata, and discover_from_issuer, which is that alone.
AskServer(iss) ==
    /\ issuer' = iss
    /\ Secure(iss)
    /\ stage' = "server"
    /\ Fetch(Located(iss, "server"))
    /\ UNCHANGED metadata

DiscoverFromIssuer(iss) ==
    /\ stage = "start"
    /\ IF Secure(iss)
       THEN /\ AskServer(iss)
            /\ asked' = [from |-> None, requested |-> None, issuer |-> iss]
            /\ UNCHANGED told
       ELSE Fail

\* What discover() does with the issuer it settles on.
Settle(doc, iss) ==
    IF Secure(iss) THEN AskServer(iss) /\ told' = doc /\ UNCHANGED asked ELSE Fail

\* ProtectedResourceMetadata.of() and issuer(): one server named, or one chosen.
ResourceAnswer(doc) ==
    /\ stage = "resource"
    /\ IF ~CheckResource(doc, asked.from, asked.requested) THEN Fail
       ELSE IF asked.issuer # None THEN Settle(doc, asked.issuer)
       ELSE IF Len(doc.servers) = 1 THEN Settle(doc, doc.servers[1])
       ELSE Fail

\* A DiscoveryError of the first location leads to the second, of the second out.
NextLocation ==
    IF stage = "server"
    THEN /\ Fetch(Located(issuer, "openid")) /\ stage' = "openid"
         /\ UNCHANGED <<asked, issuer, metadata, told>>
    ELSE Fail

ServerAnswer(doc) ==
    /\ stage \in {"server", "openid"}
    /\ IF doc.issuer = issuer
       THEN /\ metadata' = doc /\ stage' = "found" /\ fetching' = None
            /\ UNCHANGED <<hops, asked, issuer, told, fetched>>
       ELSE NextLocation

\* _fetch_json: one checked hop.
RedirectIsTaken(url) == hops < MaxRedirects /\ Secure(url)

FetchRedirected(url) ==
    /\ stage \in {"resource", "server", "openid"}
    /\ IF RedirectIsTaken(url)
       THEN /\ fetching' = url /\ hops' = hops + 1 /\ fetched' = fetched \cup {url}
            /\ UNCHANGED <<stage, asked, issuer, metadata, told>>
       ELSE IF stage = "resource" THEN Fail ELSE NextLocation

\* Unreachable, an HTTP error, or not a JSON object of the right shape.
FetchFailed ==
    /\ stage \in {"resource", "server", "openid"}
    /\ IF stage = "resource" THEN Fail ELSE NextLocation

DiscoveryNext ==
    \/ \E p \in Pointers, r \in Requested, i \in Overrides : Discover(p, r, i)
    \/ \E i \in Overrides \ {None} : DiscoverFromIssuer(i)
    \/ \E doc \in ResourceDocs : ResourceAnswer(doc)
    \/ \E doc \in ServerDocs : ServerAnswer(doc)
    \/ \E url \in Targets : FetchRedirected(url)
    \/ FetchFailed
-----------------------------------------------------------------------------
\* Metadata that was found speaks for the right server: its issuer is the one the
\* caller chose or the only one the resource named, the resource document is about
\* what is being signed in to and was published where its resource says, and no
\* request of the chain went out in the clear (RFC 9728 section 3.3, RFC 8414
\* section 3.3, and the module comment of metadata.py).
EndpointsVouchedFor ==
    metadata # None =>
        /\ metadata.issuer = issuer
        /\ asked.issuer \in {None, issuer}
        /\ asked.from # None =>
             /\ asked.issuer = None => told.servers = <<issuer>>
             /\ asked.requested # None => Covers(told.resource, asked.requested)
             /\ asked.from.doc = "resource" => asked.from = Located(told.resource, "resource")
        /\ \A url \in fetched : Secure(url)
=============================================================================
