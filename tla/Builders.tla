------------------------------ MODULE Builders ------------------------------
(***************************************************************************)
(* api/: the attributes of a batch (client.mail.email.set), which builders *)
(* they offer against one server, and what a builder refuses before it     *)
(* calls Batch.add, by the limits of capabilities/*.py.                    *)
(*                                                                         *)
(* A call made by a builder is a call of Capabilities with two fields      *)
(* more: builder, which is TRUE, and given, the arguments that were        *)
(* passed.  One that was left out, or is a back-reference, is not in its   *)
(* domain.  The objects of a create or an update are records of what the   *)
(* builders read: name: [octets, chars, folded], parent, mailboxes (in how *)
(* many it is filed), holdFor and holdUntil, in seconds.                   *)
(***************************************************************************)
EXTENDS Integers, Capabilities

CONSTANTS
    Now,             \* the clock, when a submission is queued
    ControlChars     \* the characters no Sieve script's name may have

-----------------------------------------------------------------------------
(* Which builders there are *)

\* A capability without an attribute lends its methods to the types of the others.
Companions(specs) == {urn \in DOMAIN specs : specs[urn].attr = NoSpec}

\* ActiveCapabilities.attrs: one capability per attribute, the last of a shared one.
Namespaces(specs) ==
    LET sharing(urn) == SelectSeq(URNs, LAMBDA u : u \in DOMAIN specs /\ specs[u].attr = specs[urn].attr)
    IN  {urn \in DOMAIN specs \ Companions(specs) : urn = Last(sharing(urn))}

\* _MIXINS and CUSTOM_BUILDERS: the standard shapes, and the methods with a builder of
\* their own.
StandardKinds == MethodKinds \ {"custom"}
CustomBuilders ==
    {"Blob/upload", "Blob/get", "Blob/lookup", "Blob/copy", "SieveScript/validate",
     "SieveScript/set", "Mailbox/set", "FileNode/set", "MDN/send", "MDN/parse",
     "Email/import", "Email/set", "EmailSubmission/set", "Email/parse", "SearchSnippet/get",
     "CalendarEvent/query", "CalendarEvent/parse", "ContactCard/parse",
     "Principal/getAvailability"}

\* entity_for: what the facade of a type has builders for, its own capability's methods
\* and the companions'.
Facade(specs, urn, type) ==
    UNION {LET methods == specs[owner].methods
           IN  {name \in DOMAIN methods : methods[name].type = type
                   /\ (methods[name].kind \in StandardKinds \/ name \in CustomBuilders)} :
           owner \in {urn} \cup Companions(specs)}

\* CapabilityNamespace: a push-only type has no facade.
Offered(specs, urn) ==
    UNION {Facade(specs, urn, type) :
           type \in {t \in DOMAIN specs[urn].types : ~specs[urn].types[t].pushOnly}}

HasBuilder(specs, method) == \E urn \in Namespaces(specs) : method \in Offered(specs, urn)

-----------------------------------------------------------------------------
(* What a builder refuses *)

Gives(record, field) == field \in DOMAIN record

\* The arguments without which a builder of a standard shape is not called.
Required == [changes |-> {"sinceState"}, queryChanges |-> {"sinceQueryState"},
             copy |-> {"fromAccountId", "create"}]

\* Queryable.query: an anchor makes the server ignore a position, and an offset means
\* nothing without one.  NoSpec is null.
QueryPasses(given) ==
    /\ Gives(given, "anchor") /\ given.anchor # NoSpec => ~Gives(given, "position")
    /\ Gives(given, "anchorOffset") => Gives(given, "anchor")

\* Changeable.changes, and the other shapes.
ShapePasses(kind, given) ==
    /\ kind \in DOMAIN Required => Required[kind] \subseteq DOMAIN given
    /\ kind = "changes" /\ Gives(given, "maxChanges") => given.maxChanges > 0
    /\ kind = "query" => QueryPasses(given)

\* wire_objects
Objects(given, arguments) == UNION {given[name] : name \in arguments \cap DOMAIN given}
Changed(given) == Objects(given, {"create", "update"})

\* MailCapability.of and its like: an object with a field that does not parse reads as
\* an empty one.
Parsed(value) == IF \E field \in DOMAIN value : value[field] = Junk THEN <<>> ELSE value

\* A limit that is not advertised, or null, is none.
Within(amount, value, field) == Field(value, field, NoSpec) # NoSpec => amount <= value[field]

\* check_mailbox_name, check_script_name and check_node_name.
MailboxName(name, value) ==
    name.octets >= 1 /\ name.octets <= Field(value, "maxSizeMailboxName", 100)

ScriptName(name, value) ==
    name.chars \cap ControlChars = {} /\ name.octets <= Field(value, "maxSizeScriptName", 512)

NodeName(name, value) ==
    /\ name.octets >= 1 /\ name.octets <= Field(value, "maxSizeFileNodeName", 100)
    /\ name.chars \cap Field(value, "forbiddenNameChars", {}) = {}
    /\ name.folded \notin Field(value, "forbiddenNodeNames", {})

\* _NameChecked.set: the names that are checked.
NamesGiven(given) == {object.name : object \in {o \in Changed(given) : Gives(o, "name")}}

\* MailboxSettable._check_created
MayCreate(given, value) ==
    Field(value, "mayCreateTopLevelMailbox", TRUE)
    \/ \A object \in Objects(given, {"create"}) : Gives(object, "parent")

\* _check_mailbox_counts, for a set and an import.
MailboxCounts(objects, value) ==
    \A object \in objects :
        Gives(object, "mailboxes") => Within(object.mailboxes, value, "maxMailboxesPerEmail")

\* _hold_seconds: a hold for some seconds, or until a time that may have passed.
Hold(object) ==
    IF Gives(object, "holdFor") THEN object.holdFor
    ELSE IF Gives(object, "holdUntil") /\ object.holdUntil > Now THEN object.holdUntil - Now
    ELSE 0

\* EmailSubmissionSettable.set
HoldsPass(given, value) ==
    \A object \in Objects(given, {"create"}) : Within(Hold(object), value, "maxDelayedSend")

\* check_expand_window and check_availability_window. A limit is a duration, here in
\* seconds; one that cannot be read is NoSpec, and none.
SpanPasses(from, until, value, field) == Within(until - from, value, field)

\* check_expand_filter
ExpandFilter(filter) == ~Gives(filter, "operator") /\ {"before", "after"} \subseteq DOMAIN filter

\* CalendarEventQueryable.query; a filter that is a back-reference is NoSpec.
ExpandPasses(given, value) ==
    Gives(given, "expandRecurrences") =>
        /\ Gives(given, "filter")
        /\ given.filter # NoSpec =>
              /\ ExpandFilter(given.filter)
              /\ SpanPasses(given.filter.after, given.filter.before, value, "maxExpandedQueryDuration")

\* AvailabilityGettable.get_availability
AvailabilityPasses(given, value) ==
    SpanPasses(given.utcStart, given.utcEnd, value, "maxAvailabilityDuration")

\* Mutant: an account that was not named is no account.
JudgedAccountNamed(active, urn) == active.account

\* Session.capability_account: whose object the builders of a batch read.
JudgedAccount(active, urn) ==
    IF active.account # NoSpec THEN active.account
    ELSE IF PrimaryAccount(active.document, urn) # NoSpec THEN PrimaryAccount(active.document, urn)
    ELSE ImpliedAccount(active.document)

\* Batch.capability_value
Judged(active, urn) == Parsed(CapabilityValue(active.document, urn, JudgedAccount(active, urn)))

\* The builders with a check of their own, by method; those of blobs are in Blobs.
CustomPasses(active, method, given) ==
    LET judged(urn) == Judged(active, urn) IN
    CASE method = "Mailbox/set" ->
            /\ \A name \in NamesGiven(given) : MailboxName(name, judged("mail"))
            /\ MayCreate(given, judged("mail"))
      [] method = "SieveScript/set" -> (\A name \in NamesGiven(given) : ScriptName(name, judged("sieve")))
      [] method = "FileNode/set" -> (\A name \in NamesGiven(given) : NodeName(name, judged("files")))
      [] method = "Email/set" -> MailboxCounts(Changed(given), judged("mail"))
      [] method = "Email/import" -> MailboxCounts(Objects(given, {"emails"}), judged("mail"))
      [] method = "EmailSubmission/set" -> HoldsPass(given, judged("submission"))
      [] method = "CalendarEvent/query" -> ExpandPasses(given, judged("calendars"))
      [] method = "Principal/getAvailability" -> AvailabilityPasses(given, judged("availability"))
      [] OTHER -> TRUE

\* A call a caller can make through the attributes of a batch.
Builds(active, call) ==
    /\ HasBuilder(active.specs, call.method)
    /\ ShapePasses(MethodOf(active.specs, call.method).kind, call.given)
    /\ CustomPasses(active, call.method, call.given)
=============================================================================
