-------------------------- MODULE MCClientSession --------------------------
(***************************************************************************)
(* A small registry: core, mail, submission (which requires mail), blob in *)
(* two flavours, smime (properties and no methods), and a vendor's that    *)
(* describes Email/get differently.  Four documents: one with everything   *)
(* per account, one with relative endpoints and one account, one whose     *)
(* methods conflict, and one that names a cleartext endpoint.              *)
(***************************************************************************)
EXTENDS ClientSession

NoFields == <<>>

Type(properties, never, sortable) ==
    [properties |-> properties, never |-> never, sortable |-> sortable,
     filters |-> properties, sorts |-> NoFields, pushOnly |-> FALSE]

Method(type, kind, mutating) ==
    [type |-> type, kind |-> kind, mutating |-> mutating, filterType |-> type,
     scoped |-> type # "Push", also |-> {}, names |-> FALSE]

Spec0(urn, requires, types, methods) ==
    [urn |-> urn, requires |-> requires, types |-> types, methods |-> methods,
     experimental |-> FALSE, matches |-> {},
     attr |-> IF urn \in {"smime", "vendor"} THEN NoSpec ELSE urn]

MCURNs == <<"blob", "core", "mail", "smime", "submission", "vendor">>

MCSpecs == <<
    Spec0("core", {}, [Push |-> Type(NoFields, {"url"}, FALSE)],
          "Push/get" :> Method("Push", "get", FALSE)),
    Spec0("mail", {}, [Email |-> Type([smimeStatus |-> "smime"], {}, TRUE),
                       Mailbox |-> Type(NoFields, {}, FALSE)],
          "Email/get" :> Method("Email", "get", FALSE)
          @@ "Email/set" :> Method("Email", "set", TRUE)
          @@ "Email/query" :> Method("Email", "query", FALSE)
          @@ "Mailbox/set" :> Method("Mailbox", "set", TRUE)),
    Spec0("submission", {"mail"}, [EmailSubmission |-> Type(NoFields, {}, FALSE)],
          "EmailSubmission/set" :> Method("EmailSubmission", "set", TRUE)),
    [Spec0("blob", {}, NoFields, NoFields) EXCEPT !.matches = {"draft"}],
    [Spec0("blob", {}, [Blob |-> Type(NoFields, {}, FALSE)],
          "Blob/lookup" :> [Method("Blob", "custom", FALSE) EXCEPT !.names = TRUE]) EXCEPT !.matches = {"lookup"}],
    Spec0("smime", {}, NoFields, NoFields),
    Spec0("vendor", {}, NoFields, "Email/get" :> Method("Email", "custom", FALSE))>>

URL(scheme, host) == [scheme |-> scheme, host |-> host]

MCRecords == {[host |-> 2, priority |-> 1, weight |-> 0], [host |-> 9, priority |-> 0, weight |-> 5]}
MCDirect == {URL("https", 7), URL("http", 7)}
MCHops == {URL("http", 8), URL("loopback", 8)}

\* What a mail account allows: its limits, and NoSpec where it sets none.
MCLimits == [sorts |-> {"size"}, maxSizeMailboxName |-> 20, maxMailboxesPerEmail |-> 2,
             mayCreateTopLevelMailbox |-> FALSE, maxDelayedSend |-> 60]

Each(urns, value) == [urn \in urns |-> value]

MCDocuments == {
    [state |-> "s1", endpoints |-> [api |-> URL("https", 3)],
     capabilities |-> Each({"core"}, [maxObjectsInGet |-> 2, maxObjectsInSet |-> 1, collations |-> {"ascii"}])
                      @@ Each({"mail"}, NoFields),
     accounts |-> [me |-> [capabilities |-> Each({"mail", "submission"}, MCLimits),
                           readOnly |-> FALSE],
                   shared |-> [capabilities |-> Each({"mail"}, Junk), readOnly |-> TRUE]],
     primary |-> [mail |-> "me", submission |-> "me"]],
    [state |-> "s2", endpoints |-> [api |-> Relative],
     capabilities |-> Each({"core"}, [maxObjectsInGet |-> 0]) @@ Each({"mail", "smime"}, NoFields)
                      @@ Each({"blob"}, [lookup |-> TRUE]),
     accounts |-> [me |-> [capabilities |-> NoFields, readOnly |-> FALSE]],
     primary |-> [core |-> "me"]],
    [state |-> "", endpoints |-> [api |-> URL("https", 3)],
     capabilities |-> Each({"core", "mail", "vendor"}, NoFields),
     accounts |-> NoFields, primary |-> NoFields],
    [state |-> "s2", endpoints |-> [api |-> URL("http", 3)],
     capabilities |-> Each({"core"}, NoFields), accounts |-> NoFields, primary |-> NoFields]}

Call(method, account, properties, ids) ==
    [properties |-> properties, filters |-> {}, sorts |-> {}, collations |-> {},
     method |-> method, account |-> account, ids |-> ids, typeNames |-> {}, size |-> 0,
     builder |-> FALSE, given |-> NoFields]

Set(method, account, size) == [Call(method, account, {}, <<>>) EXCEPT !.size = size]

Built(call, given) == [call EXCEPT !.builder = TRUE, !.given = given]

Query == Call("Email/query", NoSpec, {}, <<>>)

Name(octets) == [octets |-> octets, chars |-> {}, folded |-> "a"]

MCCalls == {
    Call("Email/get", NoSpec, {}, <<"a", "b", "a", "c", "a">>),
    Call("Email/get", "shared", {"smimeStatus"}, <<"a", "b", "a">>),
    Built(Set("Email/set", NoSpec, 1), [create |-> {[mailboxes |-> 2]}]),
    Built(Set("Email/set", NoSpec, 1), [update |-> {[mailboxes |-> 3]}]),
    Set("Email/set", "shared", 2),
    Built(Set("Mailbox/set", NoSpec, 1), [create |-> {[name |-> Name(50), parent |-> "p"]}]),
    Built(Set("Mailbox/set", NoSpec, 1), [create |-> {[name |-> Name(20)]}]),
    Built([Query EXCEPT !.filters = {"smimeStatus"}, !.sorts = {"size"}, !.collations = {"ascii"}],
          [anchor |-> "a", anchorOffset |-> 1]),
    Built(Query, [anchor |-> "a", position |-> 1]),
    [Query EXCEPT !.sorts = {"from"}],
    [Query EXCEPT !.sorts = {"size"}, !.collations = {"unicode"}],
    Built(Set("EmailSubmission/set", NoSpec, 1), [create |-> {[holdFor |-> 60], [holdUntil |-> 5]}]),
    Built(Set("EmailSubmission/set", NoSpec, 1), [create |-> {[holdUntil |-> 171]}]),
    [Call("Blob/lookup", NoSpec, {}, <<>>) EXCEPT !.typeNames = {"Email", "Unknown"}],
    Call("Push/get", NoSpec, {"url"}, <<>>),
    Call("Push/get", NoSpec, {"types"}, <<>>)}
=============================================================================
