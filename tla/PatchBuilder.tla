---------------------------- MODULE PatchBuilder ----------------------------
(***************************************************************************)
(* core/patch.py: building the PatchObject of a /set update.               *)
(*                                                                         *)
(* A patch key is a pointer written without its leading slash.  What the   *)
(* builder compares is the decoded pointer, so a key is modelled as the    *)
(* tokens it decodes to and the spelling it was given: two spellings of    *)
(* the same tokens are two different keys of the dict, and a spelling with *)
(* a slash is the one the server would misread.                            *)
(*                                                                         *)
(* The builder keeps two indexes beside the edits, so that an addition     *)
(* costs a few lookups instead of a sweep over every key held.  That these *)
(* stand in for the sweep is what has to be shown.                         *)
(***************************************************************************)
EXTENDS Sequences, Naturals

CONSTANTS
    Keys,            \* patch keys: [tokens: a sequence, spelling: ...]
    Values,          \* what a property can be set to
    Null,            \* the null that removes a property
    ArrayTokens,     \* tokens an array index could be written as, and "-"
    MapProperties,   \* properties declared to be maps (map_properties)
    AllowArrayIndex, \* DialectRules.allow_array_index
    AllowWhole,      \* DialectRules.allow_whole_object
    Patches,         \* patches a caller may merge: sequences of <<key, value>>
    Memberships,     \* what a caller may add and remove: [add, remove], sequences of names
    Parsed,          \* what a name is parsed to: a keyword lowercased, an id itself
    Map,             \* the map property they are members of: keywords, mailboxIds
    Set,             \* the value true, which makes a name a member
    ShareWith,       \* the map of Principals to their rights
    Principals,      \* Principal ids
    Rights,          \* rights, or a map of Principals to rights, as a value
    Owner            \* owner_principal_id, or a value that is no Principal

Slashed == "slashed"

\* patch_key(Map, name): escaped, so never misread.
Member(name) == [tokens |-> <<Map, Parsed[name]>>, spelling |-> "plain"]

\* _pointer: the entry of one Principal, escaped; and the whole map.
Entry(principal) == [tokens |-> <<ShareWith, principal>>, spelling |-> "plain"]
Everyone == [tokens |-> <<ShareWith>>, spelling |-> "plain"]

ASSUME KeysAssumption ==
    /\ \A k \in Keys : k.tokens \in Seq({k.tokens[i] : i \in DOMAIN k.tokens})
    /\ Null \notin Values

ASSUME PatchesAssumption ==
    /\ Patches \subseteq Seq(Keys \X (Values \cup {Null}))
    /\ \A m \in Memberships :
         /\ m.add \in Seq(DOMAIN Parsed) /\ m.remove \in Seq(DOMAIN Parsed)
    /\ \A name \in DOMAIN Parsed : Member(name) \in Keys
    /\ Set \in Values

ASSUME SharingAssumption ==
    /\ {Entry(p) : p \in Principals} \cup {Everyone} \subseteq Keys
    /\ Rights \in Values

VARIABLES
    edits,      \* _edits: the value given to each key held
    owners,     \* _owners: the key that owns a decoded pointer
    ancestors,  \* _ancestors: a key beneath each proper prefix
    merging,    \* what merge() has still to add
    refused,    \* the keys the last InvalidPatchError names, none if none
    built       \* the patch build() last handed out, empty at first

vars == <<edits, owners, ancestors, merging, refused, built>>

Held == DOMAIN edits

\* Mutant: the parent alone.
ProperPrefixesParentOnly(tokens) ==
    IF tokens = <<>> THEN {} ELSE {SubSeq(tokens, 1, Len(tokens) - 1)}

\* The proper prefixes of a pointer, the whole object first.
ProperPrefixes(tokens) == {SubSeq(tokens, 1, n) : n \in 0..(Len(tokens) - 1)}

\* _key_tokens: the rules that read a key by itself.
InArray(tokens, i) ==
    /\ tokens[i] \in ArrayTokens
    /\ ~(i > 1 /\ tokens[i - 1] \in MapProperties)

WellFormed(k) ==
    /\ k.spelling # Slashed
    /\ k.tokens # <<>> \/ AllowWhole
    /\ AllowArrayIndex \/ \A i \in DOMAIN k.tokens : ~InArray(k.tokens, i)

\* _check_overlap: no two keys decode alike, and none is above another.
OverlapFree(ks) ==
    /\ \A a, b \in ks : a.tokens = b.tokens => a = b
    /\ \A a, b \in ks : a.tokens \notin ProperPrefixes(b.tokens)

\* _check_addition: the pairs of keys it would name, at most one of which it does.
SameProperty(k) == IF k.tokens \in DOMAIN owners THEN {<<owners[k.tokens], k>>} ELSE {}

AboveHeld(k) == IF k.tokens \in DOMAIN ancestors THEN {<<k, ancestors[k.tokens]>>} ELSE {}

\* Mutant: a key beside a held one is taken to be below it.
BelowHeldSiblings(k) ==
    {<<owners[p], k>> : p \in {q \in DOMAIN owners :
                                 q # <<>> /\ k.tokens # <<>> /\ q[1] = k.tokens[1]}}

BelowHeld(k) == {<<owners[p], k>> : p \in ProperPrefixes(k.tokens) \cap DOMAIN owners}

\* Mutant: the index of what lies beneath is not consulted.
ComplaintsAboveForgotten(k) == SameProperty(k) \cup BelowHeld(k)

Complaints(k) == SameProperty(k) \cup AboveHeld(k) \cup BelowHeld(k)
-----------------------------------------------------------------------------
Init ==
    /\ edits = <<>>
    /\ owners = <<>>
    /\ ancestors = <<>>
    /\ merging = <<>>
    /\ refused = {}
    /\ built = <<>>

With(f, x, v) == [y \in DOMAIN f \cup {x} |-> IF y = x THEN v ELSE f[y]]

\* _add, of a key that passes.
Accept(k, v) ==
    /\ WellFormed(k)
    /\ k \notin Held => Complaints(k) = {}
    /\ edits' = With(edits, k, v)
    /\ owners' = IF k \in Held THEN owners ELSE With(owners, k.tokens, k)
    /\ ancestors' =
         IF k \in Held THEN ancestors
         ELSE [p \in DOMAIN ancestors \cup ProperPrefixes(k.tokens) |->
                 IF p \in DOMAIN ancestors THEN ancestors[p] ELSE k]
    /\ refused' = {}

\* _add, of a key that does not: the error names the key, or the overlapping pair.
Refuse(k) ==
    /\ \/ ~WellFormed(k) /\ refused' = {k}
       \/ /\ WellFormed(k) /\ k \notin Held
          /\ \E c \in Complaints(k) : refused' = {c[1], c[2]}
    /\ UNCHANGED <<edits, owners, ancestors>>

\* keyword_patch and mailbox_patch: the additions, then the removals.
MemberPatch(add, remove) ==
    [i \in 1..Len(add) |-> <<Member(add[i]), Set>>]
        \o [i \in 1..Len(remove) |-> <<Member(remove[i]), Null>>]

\* _conflicts: a name on both sides, once parsed.
Conflict(add, remove) ==
    \E i \in DOMAIN add, j \in DOMAIN remove : Parsed[add[i]] = Parsed[remove[j]]

\* set(path, value), and remove(path), which sets null.
SetPath(k, v) ==
    /\ merging = <<>>
    /\ Accept(k, v) \/ Refuse(k)
    /\ UNCHANGED <<merging, built>>

\* merge(patch), key by key.
BeginMerge(patch) ==
    /\ merging = <<>> /\ patch # <<>>
    /\ merging' = patch
    /\ UNCHANGED <<edits, owners, ancestors, refused, built>>

\* merge(keyword_patch(add, remove)). A conflict is raised before there is a patch,
\* and leaves the builder as it was.
BeginMembership(m) ==
    /\ merging = <<>>
    /\ ~Conflict(m.add, m.remove)
    /\ merging' = MemberPatch(m.add, m.remove)
    /\ UNCHANGED <<edits, owners, ancestors, refused, built>>

\* merge(grant(...)), merge(revoke(...)), merge(unshare()) and merge(replace(...)) of
\* sharing.py. OwnerInShareMapError is raised before there is a patch; revoking asks nothing.
BeginSharing ==
    /\ merging = <<>>
    /\ \/ \E p \in Principals \ {Owner} : merging' = <<<<Entry(p), Rights>>>>
       \/ \E p \in Principals : merging' = <<<<Entry(p), Null>>>>
       \/ merging' = <<<<Everyone, Null>>>>
       \/ \E map \in SUBSET Principals : Owner \notin map /\ merging' = <<<<Everyone, Rights>>>>
    /\ UNCHANGED <<edits, owners, ancestors, refused, built>>

\* The keys before a refused one stay, those after it are not tried.
MergeNext ==
    /\ merging # <<>>
    /\ \/ Accept(merging[1][1], merging[1][2]) /\ merging' = Tail(merging)
       \/ Refuse(merging[1][1]) /\ merging' = <<>>
    /\ UNCHANGED built

\* build(): sweeps what is held, and hands out a copy.
Build ==
    /\ merging = <<>>
    /\ IF OverlapFree(Held)
       THEN built' = edits /\ refused' = {}
       ELSE refused' = Held /\ UNCHANGED built
    /\ UNCHANGED <<edits, owners, ancestors, merging>>

Next ==
    \/ \E k \in Keys, v \in Values \cup {Null} : SetPath(k, v)
    \/ \E patch \in Patches : BeginMerge(patch)
    \/ \E m \in Memberships : BeginMembership(m)
    \/ BeginSharing
    \/ MergeNext
    \/ Build

Spec == Init /\ [][Next]_vars
-----------------------------------------------------------------------------
(***************************************************************************)
(* Properties.                                                             *)
(***************************************************************************)
\* The edits are of patch keys, and the two indexes hold what they are said to: each
\* decoded pointer under its owner, each proper prefix under a key beneath it.
TypeOK ==
    /\ edits \in [Held -> Values \cup {Null}] /\ Held \subseteq Keys
    /\ DOMAIN owners = {k.tokens : k \in Held}
    /\ \A t \in DOMAIN owners : owners[t] \in Held /\ owners[t].tokens = t
    /\ DOMAIN ancestors = UNION {ProperPrefixes(k.tokens) : k \in Held}
    /\ \A p \in DOMAIN ancestors : ancestors[p] \in Held /\ p \in ProperPrefixes(ancestors[p].tokens)
    /\ merging \in Seq(Keys \X (Values \cup {Null}))
    /\ refused \subseteq Keys

\* The lookups of an addition agree with the sweep (the promise of the comment in
\* build()): whatever was added in whatever order, the sweep finds nothing.
SweepAgrees == OverlapFree(Held)

\* No key is refused without cause: a pair an error names is of a key held and a key
\* that overlaps it, and a single key is one that is malformed.
RefusalsAreJust ==
    [][ refused' # refused /\ refused' # {} =>
          \/ \E k \in refused' : refused' = {k} /\ ~WellFormed(k)
          \/ \E a \in refused' \cap Held, b \in refused' : refused' = {a, b} /\ ~OverlapFree({a, b}) ]_vars

\* What the server makes of one edit: the property and all below it give way.
\* A document is the set of its leaves.
Beneath(p, q) == Len(p) <= Len(q) /\ SubSeq(q, 1, Len(p)) = p

Edited(document, k, v) ==
    {leaf \in document : ~Beneath(k.tokens, leaf[1])}
        \cup (IF v = Null THEN {} ELSE {<<k.tokens, v>>})

EditsCommute(patch, document) ==
    \A a, b \in DOMAIN patch :
        Edited(Edited(document, a, patch[a]), b, patch[b]) =
        Edited(Edited(document, b, patch[b]), a, patch[a])

\* A patch handed out means one thing: a PatchObject is a JSON object, whose keys have
\* no order, so any two of its edits must give the same document whichever is made
\* first - of an empty document, and of one with a leaf wherever a key could point.
PatchMeansOneThing ==
    /\ EditsCommute(built, {})
    /\ EditsCommute(built, {<<k.tokens, Null>> : k \in Keys})

\* Both: what the indexes let in is what the sweep would, and what is built of it is sound.
PatchIsSound == SweepAgrees /\ PatchMeansOneThing
=============================================================================
