---------------------------- MODULE OAuthAcquire ----------------------------
(***************************************************************************)
(* auth/acquire.py: OAuthClient.  Discovery finds the metadata of an       *)
(* authorization server; the client registers, runs the authorization-code *)
(* flow or the device flow against its endpoints, and renews what it got.  *)
(***************************************************************************)
EXTENDS OAuthDiscovery, LoopbackRedirect, DeviceFlow

VARIABLES
    client,  \* registered here: "given" (by the caller), "registered" or "failed"
    use,     \* the flow under way: "none", "code", "device" or "ended"
    obtained,   \* the OAuth2Token: its refresh token, or None without a token
    sent     \* what was posted, and where: [what, to]

acquireVars == <<client, use, obtained, sent>>

vars == <<discoveryVars, redirectVars, deviceVars, acquireVars>>

NoRefresh == "no refresh token"

ASSUME TokensAssumption == None # "rotated"

Init ==
    /\ DiscoveryInit /\ RedirectInit /\ DeviceInit
    /\ client = "given" /\ use = "none" /\ obtained = None /\ sent = {}

\* require() and _require_https together: an endpoint that may be posted to.
Usable(name) == metadata.endpoint[name] # None /\ Secure(metadata.endpoint[name])

\* Mutant: an answer that redirects is followed, body and all.
PostFollowed(what, name) ==
    \E url \in Targets : sent' = sent \cup {[what |-> what, to |-> url]}

\* _post: to the endpoint and nowhere else, whatever the answer redirects to.
Post(what, name) == sent' = sent \cup {[what |-> what, to |-> metadata.endpoint[name]]}

\* authorization_url: PKCE and a usable endpoint, before any URL exists.
CanAuthorize == metadata.pkce /\ Usable("authorize")

FlowEnds == use' = "ended" /\ UNCHANGED <<client, sent>>

\* _token_request: the answer is a token with or without a refresh token, or an error
\* that ends the flow.
TokenAnswer(held) ==
    \/ \E refresh \in {"rotated", held} : obtained' = refresh
    \/ UNCHANGED obtained

\* register(): the client id is replaced only by one that was returned.
Register ==
    /\ stage = "found" /\ use = "none" /\ client = "given"
    /\ Usable("register")
    /\ Post(<<"registration">>, "register")
    /\ client' \in {"registered", "failed"}
    /\ UNCHANGED <<use, obtained, discoveryVars, redirectVars, deviceVars>>

\* authorize(): the listener is open before the URL is built, and closed if it cannot be.
Authorize ==
    /\ stage = "found" /\ use = "none"
    /\ OpenListener /\ use' = "code"
    /\ UNCHANGED <<client, obtained, sent, discoveryVars, deviceVars>>

AuthorizeRefused ==
    /\ use = "code" /\ step = "open" /\ ~CanAuthorize
    /\ step' = "over"
    /\ FlowEnds
    /\ UNCHANGED <<obtained, expected, slot, waiting, arrivals, outcome, answered,
                   discoveryVars, deviceVars>>

Listen ==
    /\ use = "code"
    /\ \/ CanAuthorize /\ ExpectState
       \/ SendBrowser
       \/ \E request \in Strays \cup Genuine : Arrive(request)
       \/ \E thread \in waiting : Handle(thread)
       \/ Redirected
       \/ RedirectTimeout
    /\ UNCHANGED <<acquireVars, discoveryVars, deviceVars>>

\* exchange_code, with the code that the redirect brought.
ExchangeCode ==
    /\ use = "code" /\ step = "over"
    /\ IF outcome = "code" /\ Usable("token")
       THEN Post(<<"code", slot>>, "token") /\ TokenAnswer(NoRefresh)
       ELSE UNCHANGED <<obtained, sent>>
    /\ use' = "ended"
    /\ UNCHANGED <<client, discoveryVars, redirectVars, deviceVars>>

\* device_flow(): begin_device_flow, whose answer may be no device authorization, then
\* poll_device_flow, which checks the token endpoint before its first poll.
Device ==
    /\ stage = "found" /\ use = "none"
    /\ Usable("device")
    /\ \/ /\ Usable("token")
          /\ sent' = sent \cup {[what |-> <<"device code">>, to |-> metadata.endpoint[name]] :
                                  name \in {"device", "token"}}
          /\ \E named \in Intervals, life \in Lifetimes : BeginDevice(named, life)
          /\ use' = "device"
       \/ /\ Post(<<"client id">>, "device")
          /\ use' = "ended" /\ UNCHANGED deviceVars
    /\ UNCHANGED <<client, obtained, discoveryVars, redirectVars>>

Poll ==
    /\ use = "device"
    /\ DeviceStep
    /\ UNCHANGED <<acquireVars, discoveryVars, redirectVars>>

DeviceOver ==
    /\ use = "device" /\ polling \in Endings
    /\ IF polling = "granted" THEN TokenAnswer(NoRefresh) ELSE UNCHANGED obtained
    /\ FlowEnds
    /\ UNCHANGED <<discoveryVars, redirectVars, deviceVars>>

\* Mutant: it is forgotten.
CarriedNone(presented) == NoRefresh

\* What a refresh leaves held: the refresh token presented, if no new one came.
Carried(presented) == presented

\* refresh().
Refresh ==
    /\ use = "ended" /\ obtained \notin {None, NoRefresh}
    /\ Usable("token")
    /\ Post(<<"refresh token">>, "token")
    /\ TokenAnswer(Carried(obtained))
    /\ UNCHANGED <<client, use, discoveryVars, redirectVars, deviceVars>>

Next ==
    \/ DiscoveryNext /\ UNCHANGED <<redirectVars, deviceVars, acquireVars>>
    \/ Register \/ Authorize \/ AuthorizeRefused \/ Listen \/ ExchangeCode
    \/ Device \/ Poll \/ DeviceOver \/ Refresh

Spec == Init /\ [][Next]_vars

\* The poll loop runs on: an answer comes or the HTTP client's timeout does.
FairSpec == Spec /\ WF_vars(Poll)
-----------------------------------------------------------------------------
(***************************************************************************)
(* Properties.                                                             *)
(***************************************************************************)
\* Secrets - the code with its verifier, the device code, the refresh token - go only
\* to endpoints vouched for by the whole chain of discovery, never in the clear, and
\* the code is one of this flow's (_post and _require_https: "cleartext hands them to
\* the network").
SecretsGoToTheVouched ==
    /\ EndpointsVouchedFor
    /\ \A s \in sent :
         /\ s.to \in {metadata.endpoint[name] : name \in DOMAIN metadata.endpoint}
         /\ Secure(s.to)
         /\ s.what[1] = "code" => s.what[2] \in Genuine

\* A grant that can be renewed stays one, whether or not the server rotates
\* (refresh(): "stranding the grant on every server that does not rotate").
GrantKept == [][obtained \notin {None, NoRefresh} => obtained' \notin {None, NoRefresh}]_vars
=============================================================================
