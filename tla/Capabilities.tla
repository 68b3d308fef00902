---------------------------- MODULE Capabilities ----------------------------
(***************************************************************************)
(* capabilities/registry.py and spec.py, the account rules of              *)
(* core/session.py, the limits of core/limits.py and the gates of batch.py *)
(* that stand between a queued call and the wire.                          *)
(*                                                                         *)
(* A session document is a record                                          *)
(*   [state, endpoints, capabilities, accounts, primary]                   *)
(* with capabilities: URN -> object, accounts: id -> [readOnly,            *)
(* capabilities], primary: URN -> id, each with the domain the server sent.*)
(* A capability object maps the fields it has; Junk is a value that is no  *)
(* object.  A spec is a record [urn, requires, experimental, matches,      *)
(* types, methods, attr]: CapabilitySpec, its matches the fields a flavour *)
(* wants and its attr the attribute it has on a batch, or NoSpec.          *)
(***************************************************************************)
EXTENDS Naturals, FiniteSets, SequencesExt

CONSTANTS
    Specs,         \* the registry: a sequence of specs, as registered
    URNs,          \* every URN, in the order of the names
    Core,          \* CORE_URN
    Suggested,     \* what a limit falls back to (MIN_OBJECTS_IN_GET, ...)
    NoSpec,        \* no spec, no account, nothing named
    Junk           \* a capability value that is no object

-----------------------------------------------------------------------------
(* Specs: what the library knows of a capability *)

MethodKinds == {"get", "changes", "set", "query", "queryChanges", "copy", "custom"}

\* MethodSpec: `names` is type_names_argument, `also` is also_requires.
IsMethod(method) ==
    /\ method.kind \in MethodKinds
    /\ {method.scoped, method.mutating, method.names} \subseteq BOOLEAN
    /\ method.also \subseteq ToSet(URNs)

\* DataTypeSpec: a gate (adds_properties, adds_filter_fields, adds_sort_options) names the
\* URN a name needs; what is never returned is not gated.
IsType(type) ==
    /\ \A gates \in {type.properties, type.filters, type.sorts} :
         \A name \in DOMAIN gates : gates[name] \in ToSet(URNs)
    /\ type.never \cap DOMAIN type.properties = {}
    /\ {type.sortable, type.pushOnly} \subseteq BOOLEAN

\* CapabilitySpec: a method's type may be another capability's.
IsSpec(spec) ==
    /\ spec.urn \in ToSet(URNs) /\ spec.requires \subseteq ToSet(URNs) \ {spec.urn}
    /\ spec.experimental \in BOOLEAN
    /\ \A type \in DOMAIN spec.types : IsType(spec.types[type])
    /\ \A method \in DOMAIN spec.methods : IsMethod(spec.methods[method])

ASSUME SpecsAssumption ==
    /\ Specs \in Seq(ToSet(Specs)) /\ URNs \in Seq(ToSet(URNs))
    /\ \A i \in DOMAIN Specs : IsSpec(Specs[i])
    /\ Suggested \in Nat \ {0}

-----------------------------------------------------------------------------
(* Session: what a document says about an account *)

Account(document, account) == account \in DOMAIN document.accounts

\* advertised_for: a union, never a containment.
Advertised(document, account) ==
    DOMAIN document.capabilities \cup
        UNION {DOMAIN document.accounts[id].capabilities : id \in {account} \cap DOMAIN document.accounts}

\* capability_value: the account's object wins, the session's is the fallback.
Holds(objects, urn) == urn \in DOMAIN objects /\ objects[urn] # Junk

CapabilityValue(document, urn, account) ==
    IF Account(document, account) /\ Holds(document.accounts[account].capabilities, urn)
    THEN document.accounts[account].capabilities[urn]
    ELSE IF Holds(document.capabilities, urn) THEN document.capabilities[urn] ELSE <<>>

Field(value, name, otherwise) == IF name \in DOMAIN value THEN value[name] ELSE otherwise

\* _uint: an absent limit, and one below 1, reads as the suggested minimum.
Limit(document, name, account) ==
    LET value == Field(CapabilityValue(document, Core, account), name, 0)
    IN  IF value < 1 THEN Suggested ELSE value

PrimaryAccount(document, urn) == Field(document.primary, urn, NoSpec)

\* implied_account: one account every primary names, or the only one there is.
ImpliedAccount(document) ==
    LET primaries == {document.primary[urn] : urn \in DOMAIN document.primary}
        unanimous == IF Cardinality(primaries) = 1 THEN primaries \cap DOMAIN document.accounts ELSE {}
        implied   == IF unanimous # {} THEN unanimous ELSE DOMAIN document.accounts
    IN  IF Cardinality(implied) = 1 THEN CHOOSE account \in implied : TRUE ELSE NoSpec

ReadOnly(document, account) == Account(document, account) /\ document.accounts[account].readOnly

-----------------------------------------------------------------------------
(* Registry.resolve: what a document and an account support *)

\* _choose: the only spec of a URN, or the first flavour that matches the object.
Choose(urn, value) ==
    LET first    == SelectInSeq(Specs, LAMBDA spec : spec.urn = urn)
        last     == SelectLastInSeq(Specs, LAMBDA spec : spec.urn = urn)
        matching == SelectInSeq(Specs, LAMBDA spec :
                       spec.urn = urn /\ spec.matches # {} /\ spec.matches \subseteq DOMAIN value)
        chosen   == IF first = last THEN first ELSE matching
    IN  IF chosen = 0 THEN NoSpec ELSE Specs[chosen]

Resolve(document, account, experimental) ==
    LET chosen == [urn \in Advertised(document, account) |->
                     Choose(urn, CapabilityValue(document, urn, account))]
    IN  Restrict(chosen, {urn \in DOMAIN chosen :
            chosen[urn] # NoSpec /\ (chosen[urn].experimental => experimental)})

\* ConflictingMethodError: one name, two different methods.
Conflicts(specs) ==
    \E one, two \in DOMAIN specs :
        \E name \in DOMAIN specs[one].methods \cap DOMAIN specs[two].methods :
            specs[one].methods[name] # specs[two].methods[name]

\* The first of some specs, in the order of the URNs.
FirstSpec(specs, urns) ==
    LET first == SelectInSeq(URNs, LAMBDA urn : urn \in urns)
    IN  IF first = 0 THEN NoSpec ELSE specs[URNs[first]]

OwnerOf(specs, method) == FirstSpec(specs, {urn \in DOMAIN specs : method \in DOMAIN specs[urn].methods})
Defining(specs, type) == FirstSpec(specs, {urn \in DOMAIN specs : type \in DOMAIN specs[urn].types})

MethodOf(specs, name) == OwnerOf(specs, name).methods[name]

\* _urns_adding: the URNs that gate a property, a filter condition or a comparator.
Adding(specs, type, names, attribute) ==
    UNION {LET gates == specs[urn].types[type][attribute]
           IN  {gates[name] : name \in names \cap DOMAIN gates} :
           urn \in {u \in DOMAIN specs : type \in DOMAIN specs[u].types}}

-----------------------------------------------------------------------------
(* ActiveCapabilities: [document, account, specs].  A call is a record     *)
(* [method, account, properties, filters, sorts, collations, typeNames,    *)
(* size, ids], the names it gives literally (a back-reference names        *)
(* nothing yet).                                                           *)

\* Mutant: a method needs its owner's URN and no other.
CallNeedsOwnerOnly(specs, call) == {OwnerOf(specs, call.method).urn}

\* using_for, for one call.
CallNeeds(specs, call) ==
    LET owner == OwnerOf(specs, call.method)
        method == owner.methods[call.method]
    IN  {owner.urn} \cup owner.requires \cup method.also
        \cup (IF method.names
              THEN {Defining(specs, type).urn : type \in {t \in call.typeNames : Defining(specs, t) # NoSpec}}
              ELSE {})
        \cup Adding(specs, method.type, call.properties, "properties")
        \cup Adding(specs, method.filterType, call.filters, "filters")
        \cup Adding(specs, method.type, call.sorts, "sorts")

UsingFor(active, calls, extra) ==
    {Core} \cup UNION {CallNeeds(active.specs, calls[i]) : i \in DOMAIN calls} \cup extra

\* _resolve_account: named, or the default, or the primary of the method's capability.
AccountFor(active, call) ==
    LET unnamed == IF active.account # NoSpec THEN active.account
                   ELSE PrimaryAccount(active.document, OwnerOf(active.specs, call.method).urn)
    IN  IF call.account # NoSpec \/ ~MethodOf(active.specs, call.method).scoped
        THEN call.account ELSE unnamed

\* _check_properties: what the server never returns is not asked for.
MayRead(active, call) ==
    LET type == MethodOf(active.specs, call.method).type
        defining == Defining(active.specs, type)
    IN  defining # NoSpec => call.properties \cap defining.types[type].never = {}

\* _check_collations: against the session's list, if it has one.
MayCollate(active, call) ==
    LET value == CapabilityValue(active.document, Core, NoSpec)
    IN  "collations" \in DOMAIN value => call.collations \subseteq value.collations

\* _check_sort_options: against the list of the account the call targets, if it has one.
MaySort(active, call) ==
    LET type == MethodOf(active.specs, call.method).type
        defining == Defining(active.specs, type)
        value == CapabilityValue(active.document, OwnerOf(active.specs, call.method).urn,
                                 AccountFor(active, call))
    IN  defining # NoSpec /\ defining.types[type].sortable /\ "sorts" \in DOMAIN value =>
            call.sorts \subseteq value.sorts

\* Batch.add: the gates a call passes before it has a handle.
Accepts(active, call) ==
    /\ OwnerOf(active.specs, call.method) # NoSpec
    /\ LET method == MethodOf(active.specs, call.method)
           account == AccountFor(active, call)
       IN  /\ method.scoped => account # NoSpec
           /\ method.mutating => ~ReadOnly(active.document, account)
           /\ MayRead(active, call)
           /\ call.sorts # {} => MayCollate(active, call) /\ MaySort(active, call)

\* _check_set_sizes.
FitsSets(active, calls) ==
    \A i \in DOMAIN calls : MethodOf(active.specs, calls[i].method).kind = "set" =>
        calls[i].size <= Limit(active.document, "maxObjectsInSet", active.account)
=============================================================================
