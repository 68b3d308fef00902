--------------------------- MODULE MCOAuthAcquire ---------------------------
(***************************************************************************)
(* One resource and another, two authorization servers, documents that     *)
(* agree and disagree with where they were found, and redirects to https   *)
(* and http.  Strays without a state, with another flow's, and off the     *)
(* path.  Poll intervals below, at and above the clamp, with lifetimes     *)
(* that cut the polling between two polls.                                 *)
(***************************************************************************)
EXTENDS OAuthAcquire

URL(scheme, host, doc, path) == [scheme |-> scheme, host |-> host, doc |-> doc, path |-> path]

Mail == URL("https", "mail", "", <<"jmap">>)
Issuer == URL("https", "idp", "", <<>>)
Clear == URL("http", "idp", "", <<>>)
Other == URL("https", "other", "", <<>>)

MCPointers == {URL("none", "", "resource", <<>>), URL("https", "other", "", <<>>)}
MCRequested == {Mail, None}
MCOverrides == {None, Issuer}
MCTargets == {Clear, Other}
MCResourceDocs == {[resource |-> URL("https", "mail", "", <<>>), servers |-> <<Issuer>>],
                   [resource |-> Other, servers |-> <<Issuer>>],
                   [resource |-> Mail, servers |-> <<Issuer, Other>>],
                   [resource |-> None, servers |-> <<Clear>>]}

Endpoints(scheme) ==
    [authorize |-> URL("https", "idp", "", <<"a">>), token |-> URL(scheme, "idp", "", <<"t">>),
     register |-> None, device |-> URL("https", "idp", "", <<"d">>)]

MCServerDocs == {[issuer |-> Issuer, pkce |-> TRUE,
                  endpoint |-> [Endpoints("https") EXCEPT !.register = URL("https", "idp", "", <<"r">>)]],
                 [issuer |-> Issuer, pkce |-> FALSE, endpoint |-> Endpoints("http")],
                 [issuer |-> Other, pkce |-> TRUE, endpoint |-> Endpoints("https")]}

Request(onPath, state, brings) == [onPath |-> onPath, state |-> state, brings |-> brings]

MCStrays == {Request(TRUE, "none", "nothing"), Request(TRUE, "other", "code"),
             Request(FALSE, "none", "nothing")}
MCGenuine == {Request(TRUE, "mine", "code"), Request(TRUE, "mine", "access_denied")}
=============================================================================
