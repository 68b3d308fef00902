------------------------------ MODULE FakeServer ------------------------------
(***************************************************************************)
(* testing/fake.py: the server the library's tests run against.  It        *)
(* answers a request call by call, resolves back-references with the       *)
(* library's own evaluator (Pointer), and really stores, splices and reads *)
(* blobs.                                                                  *)
(*                                                                         *)
(* Octets: 1 is a character by itself, 2 and 3 are the halves of another.  *)
(***************************************************************************)
EXTENDS JsonValue, Integers, FiniteSets

CONSTANTS
    Advertised,       \* the capabilities of the session and its accounts
    Failing,          \* the methods that fail() was called for
    Algorithms,       \* DIGEST_ALGORITHMS
    CallLimit,        \* quirks.max_calls_in_request
    NotRequestQuirk,  \* quirks.unknown_using_is_not_request
    None,             \* what is not there, or null
    Evaluate(_, _)    \* resolve(): what a pointer names in a value, or Unresolved

Octets == 1 .. 3

ASSUME NoneAssumption == None \notin Nat /\ None \notin Seq(Nat)

\* A digest is asked for and answered by a name that is no other property's.
ASSUME AlgorithmsAssumption ==
    Algorithms \cap {"id", "size", "data", "data:asText", "data:asBase64",
                     "isEncodingProblem", "isTruncated"} = {}

VARIABLES
    scripted,     \* quirks.scripted_failures: how many are left
    blobs,        \* blobs, in the order of their ids
    createdIds,   \* created_ids: the blob a creation id names
    serving,      \* the calls of a request still to be answered, and whether there are
    answered,     \* results by call id, of the calls that succeeded
    reply         \* the answers so far, or a problem

serverVars == <<scripted, blobs, createdIds, serving, answered, reply>>

ServerInit ==
    /\ scripted \in {0, 1}
    /\ blobs = <<>> /\ createdIds = <<>>
    /\ serving = [on |-> FALSE, calls |-> <<>>] /\ answered = <<>>
    /\ reply = [problem |-> None, answers |-> <<>>]

Set1(f, x, v) == [y \in DOMAIN f \cup {x} |-> IF y = x THEN v ELSE f[y]]

-----------------------------------------------------------------------------
(* Blobs *)

Bad == <<0>>           \* the ValueError of concatenate and _slice
NoBlob == 0

\* resolve_blob_id: a creation reference, or an id as it is.
Named(ids, ref) ==
    IF ref.creation = None THEN ref.id
    ELSE IF ref.creation \in DOMAIN ids THEN ids[ref.creation] ELSE NoBlob

BlobNamed(ref) == Named(createdIds, ref)

Found(store, id) == id \in DOMAIN store

\* _slice, with the rule that a range past the end is no range.
Slice(store, id, source) ==
    LET offset == IF source.offset = None THEN 0 ELSE source.offset
        end == IF source.length = None THEN Len(store[id]) ELSE offset + source.length
    IN IF offset > Len(store[id]) \/ end > Len(store[id]) THEN Bad
       ELSE SubSeq(store[id], offset + 1, end)

\* What one source contributes: the first of its forms that is there.
Contribution(store, ids, source) ==
    CASE source.text # None -> source.text
      [] source.text = None /\ source.base64 # None ->
           IF source.base64.valid THEN source.base64.octets ELSE Bad
      [] source.text = None /\ source.base64 = None /\ source.blob # None ->
           IF Found(store, Named(ids, source.blob)) THEN Slice(store, Named(ids, source.blob), source)
           ELSE Bad
      [] OTHER -> Bad

\* concatenate
Concatenate(store, ids, sources) ==
    LET part(i) == Contribution(store, ids, sources[i])
        joined[i \in 0 .. Len(sources)] ==
            IF i = 0 THEN <<>>
            ELSE IF joined[i - 1] = Bad \/ part(i) = Bad THEN Bad ELSE joined[i - 1] \o part(i)
    IN joined[Len(sources)]

Create(done, creation) ==
    LET content == Concatenate(done.store, done.ids, creation.data)
        id == Len(done.store) + 1
    IN IF content = Bad
       THEN [store |-> done.store, ids |-> done.ids, created |-> done.created,
             notCreated |-> done.notCreated \cup {creation.id}]
       ELSE [store |-> Append(done.store, content), ids |-> Set1(done.ids, creation.id, id),
             created |-> Set1(done.created, creation.id, [id |-> id, size |-> Len(content)]),
             notCreated |-> done.notCreated]

\* _blob_upload: creation by creation, each of which may name those before it.
Uploaded(creations) ==
    LET done[i \in 0 .. Len(creations)] ==
            IF i = 0
            THEN [store |-> blobs, ids |-> createdIds, created |-> <<>>, notCreated |-> {}]
            ELSE Create(done[i - 1], creations[i])
    IN done[Len(creations)]

\* Whether octets are text: no half of a character without the other.
Decodes(octets) ==
    \A i \in DOMAIN octets :
        /\ octets[i] = 2 => i < Len(octets) /\ octets[i + 1] = 3
        /\ octets[i] = 3 => i > 1 /\ octets[i - 1] = 2

Selected(octets, offset, length) ==
    SubSeq(octets, offset + 1,
           IF length = None \/ offset + length > Len(octets) THEN Len(octets) ELSE offset + length)

\* Mutant: compared with what was selected.
IsTruncatedIfShort(octets, offset, length) ==
    Selected(octets, offset, length) # octets

\* isTruncated: the range ran past the end.
IsTruncated(octets, offset, length) ==
    IF length = None THEN offset > Len(octets) ELSE offset + length > Len(octets)

\* The properties asked for, each as it is answered; "data" is whichever fits.
Answer(octets, properties, offset, length) ==
    LET selected == Selected(octets, offset, length)
        text == Decodes(selected)
        names == {"id"}
            \cup (properties \cap {"size", "data:asBase64"})
            \cup (IF properties \cap {"data", "data:asText"} # {} /\ text THEN {"data:asText"} ELSE {})
            \cup (IF "data" \in properties /\ ~text THEN {"data:asBase64"} ELSE {})
            \cup (IF properties \cap {"data", "data:asText"} # {} /\ ~text
                  THEN {"isEncodingProblem"} ELSE {})
            \cup {p \in properties : p \in Algorithms}
            \cup (IF IsTruncated(octets, offset, length) THEN {"isTruncated"} ELSE {})
    IN [names |-> names, selected |-> selected]

\* _blob_properties
BlobItem(id, octets, properties, offset, length) ==
    LET answer == Answer(octets, properties, offset, length)
    IN Object([name \in answer.names |->
         CASE name = "id" -> Scalar([id |-> id, creation |-> None])
           [] name = "size" -> Scalar(Len(octets))
           [] name \in {"isEncodingProblem", "isTruncated"} -> Scalar(TRUE)
           [] OTHER -> Scalar(answer.selected)])

\* _blob_get
BlobGot(ids, arguments) ==
    LET found == {ref \in Range(ids) : Found(blobs, BlobNamed(ref[2]))}
        here == Without(ids, Range(ids) \ found)
        properties == IF arguments.properties = {} THEN {"data", "size"} ELSE arguments.properties
        offset == IF arguments.offset = None THEN 0 ELSE arguments.offset
    IN Object(
        [name \in {"list", "notFound"} |->
           IF name = "list"
           THEN Array([i \in DOMAIN here |->
                   LET id == BlobNamed(here[i][2])
                   IN BlobItem(id, blobs[id], properties, offset, arguments.length)])
           ELSE Array(Without(ids, found))])

-----------------------------------------------------------------------------
(* Requests *)

\* _api, until the calls: a scripted failure, a capability nobody advertises, too many calls.
Problem(request) ==
    CASE scripted > 0 -> "scripted"
      [] scripted = 0 /\ request.using \ Advertised # {} ->
           IF NotRequestQuirk THEN "notRequest" ELSE "unknownCapability"
      [] scripted = 0 /\ request.using \subseteq Advertised /\ Len(request.calls) > CallLimit -> "limit"
      [] OTHER -> None

Receive(request) ==
    /\ scripted' = IF scripted > 0 THEN scripted - 1 ELSE 0
    /\ reply' = [problem |-> Problem(request), answers |-> <<>>]
    /\ serving' = IF Problem(request) = None
                  THEN [on |-> TRUE, calls |-> request.calls] ELSE [on |-> FALSE, calls |-> <<>>]
    /\ answered' = <<>>
    /\ UNCHANGED <<blobs, createdIds>>

\* _resolve_references: the ids a call is given, or names in an earlier answer.
IdsOf(arguments) ==
    CASE arguments.resultOf = None -> Array(arguments.ids)
      [] arguments.resultOf # None /\ arguments.resultOf \in DOMAIN answered ->
           Evaluate(answered[arguments.resultOf], arguments.path)
      [] OTHER -> Unresolved

Say(call, name, result) ==
    reply' = [reply EXCEPT !.answers =
                Append(@, [id |-> call.id, name |-> name, call |-> call, result |-> result])]

Error(type) == Object([t \in {"type"} |-> Scalar(type)])

\* Bound: what a Blob/get is given to read is a list (a loop over anything else is left out).
IsList(v) == IsArray(v) /\ v[2] \in Seq(Range(v[2]))

\* The next call: its references, then whether its method fails, is known, and its handler.
AnswerNext ==
    /\ serving.on /\ serving.calls # <<>>
    /\ serving' = [serving EXCEPT !.calls = Tail(@)]
    /\ LET call == Head(serving.calls) IN
         \/ /\ IdsOf(call.arguments) = Unresolved
            /\ Say(call, "error", Error("invalidResultReference"))
            /\ UNCHANGED <<blobs, createdIds, answered>>
         \/ /\ IdsOf(call.arguments) # Unresolved
            /\ call.name \in Failing \/ call.name \notin {"Blob/upload", "Blob/get", "Core/echo"}
            /\ Say(call, "error", Error(IF call.name \in Failing THEN "scripted" ELSE "unknownMethod"))
            /\ UNCHANGED <<blobs, createdIds, answered>>
         \/ /\ IdsOf(call.arguments) # Unresolved
            /\ call.name = "Blob/upload" /\ call.name \notin Failing
            /\ LET done == Uploaded(call.arguments.create)
                   result == Object([name \in {"created", "notCreated"} |->
                               IF name = "created"
                               THEN Object([c \in DOMAIN done.created |-> Scalar(done.created[c])])
                               ELSE Scalar(done.notCreated)])
               IN /\ blobs' = done.store /\ createdIds' = done.ids
                  /\ Say(call, call.name, result)
                  /\ answered' = Set1(answered, call.id, result)
         \/ /\ IdsOf(call.arguments) # Unresolved
            /\ call.name \in {"Blob/get", "Core/echo"} /\ call.name \notin Failing
            /\ call.name = "Blob/get" => IsList(IdsOf(call.arguments))
            /\ LET result == IF call.name = "Blob/get"
                             THEN BlobGot(IdsOf(call.arguments)[2], call.arguments)
                             ELSE Object([name \in {"ids"} |-> IdsOf(call.arguments)])
               IN /\ Say(call, call.name, result)
                  /\ answered' = Set1(answered, call.id, result)
            /\ UNCHANGED <<blobs, createdIds>>
    /\ UNCHANGED scripted

\* _upload: a POST to the upload endpoint.
Store(octets) == blobs' = Append(blobs, octets)
=============================================================================
