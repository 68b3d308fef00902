-------------------------------- MODULE Blobs --------------------------------
(***************************************************************************)
(* Blobs, from the builders a caller has (api/irregular.py, models/blob.py *)
(* and blobs.py) to a server that splices and reads them.  The builders    *)
(* refuse what the account's capability (capabilities/blob.py) says the    *)
(* server would.  Calls are queued for one request; one builder may be     *)
(* given the accountId of another account than the batch's.                *)
(***************************************************************************)
EXTENDS FakeServer

CONSTANTS
    Creations,    \* what an upload may create: sequences of [id, typed, data]
    Reads,        \* what a Blob/get may ask: [ids, resultOf, path, properties, offset, length]
    Lookups,      \* type names a Blob/lookup may ask for
    Digests,      \* the properties that start with "digest:"
    Contents,     \* what may be sent to the upload endpoint
    Accounts,     \* what accountId a call may be given
    DefaultAccount,   \* the account of the batch
    Capability,   \* by account: [maxSize, maxSources, types, digests], as advertised
    MaxUpload,    \* maxSizeUpload
    MaxCalls      \* bound: calls of a request

\* One of a creation's sources: what it has of the three forms, and of the range of a blob.
IsSource(source) ==
    /\ source.text \in {None} \cup Seq(Octets)
    /\ source.base64 = None \/ source.base64.octets \in Seq(Octets)
    /\ {source.offset, source.length} \subseteq {None} \cup Nat

ASSUME CreationsAssumption ==
    \A create \in Creations :
        /\ create \in Seq(Range(create))
        /\ \A i \in DOMAIN create :
             LET data == create[i].data
             IN data \in Seq(Range(data)) /\ \A j \in DOMAIN data : IsSource(data[j])

ASSUME ReadsAssumption ==
    \A read \in Reads : {read.offset, read.length} \subseteq {None} \cup Nat

ASSUME ContentsAssumption == Contents \subseteq Seq(Octets)

ASSUME CapabilityAssumption ==
    \A account \in Accounts : Capability[account].maxSize \in {None} \cup Nat

VARIABLES
    calls,        \* the calls queued
    rejected,      \* the call the last CapabilityFieldError or ValueError was of
    sent          \* how often a request was sent

blobVars == <<serverVars, calls, rejected, sent>>

BlobInit == ServerInit /\ calls = <<>> /\ rejected = None /\ sent = 0

Limits(account) == Capability[account]

Forms(source) ==
    {form \in {"text", "base64", "blob"} :
       CASE form = "text" -> source.text # None
         [] form = "base64" -> source.base64 # None
         [] form = "blob" -> source.blob # None}

\* Mutant: base64 is counted as it is written.
InlineAsWritten(source) ==
    CASE source.text # None -> Len(source.text)
      [] source.text = None /\ source.base64 # None -> source.base64.written
      [] OTHER -> 0

\* _inline_octets, of one source: what it is known to add.
Inline(source) ==
    CASE source.text # None -> Len(source.text)
      [] source.text = None /\ source.base64 # None -> Len(source.base64.octets)
      [] OTHER -> 0

InlineOctets(sources) ==
    LET total[i \in 0 .. Len(sources)] ==
            IF i = 0 THEN 0 ELSE total[i - 1] + Inline(sources[i])
    IN total[Len(sources)]

\* What the builders check against: the batch's account, whichever the call is of.
Checked == Limits(DefaultAccount)

\* check_data_sources and check_blob_size; a typed source has one form, or is not made.
UploadPasses(create) ==
    \A i \in DOMAIN create :
        LET data == create[i].data IN
        /\ create[i].typed => \A j \in DOMAIN data : Cardinality(Forms(data[j])) = 1
        /\ Len(data) <= Checked.maxSources
        /\ Checked.maxSize = None \/ InlineOctets(data) <= Checked.maxSize

\* check_digest_algorithm, of each digest asked for by name.
GetPasses(read) == read.properties \cap Digests \subseteq Checked.digests

\* check_lookup_types
LookupPasses(types) == types \subseteq Checked.types

Arguments(ids, resultOf, path, properties, offset, length, create) ==
    [ids |-> ids, resultOf |-> resultOf, path |-> path, properties |-> properties,
     offset |-> offset, length |-> length, create |-> create]

Call(name, account, arguments) ==
    [name |-> name, id |-> Len(calls) + 1, account |-> account, arguments |-> arguments]

Plain(create) == Arguments(<<>>, None, None, {}, None, None, create)

\* A builder: the check, then Batch.add.
Add(call, passes) ==
    /\ ~serving.on /\ sent = 0 /\ Len(calls) < MaxCalls
    /\ IF passes THEN calls' = Append(calls, call) /\ rejected' = None
       ELSE rejected' = call /\ UNCHANGED calls
    /\ UNCHANGED <<serverVars, sent>>

AddUpload(create, account) ==
    Add(Call("Blob/upload", account, Plain(create)), UploadPasses(create))

AddGet(read, account) ==
    Add(Call("Blob/get", account,
             Arguments(read.ids, read.resultOf, read.path, read.properties, read.offset, read.length, <<>>)),
        GetPasses(read))

AddLookup(types, account) ==
    Add(Call("Blob/lookup", account, Arguments(<<>>, None, None, types, None, None, <<>>)),
        LookupPasses(types))

AddEcho(ids) ==
    Add(Call("Core/echo", DefaultAccount, Arguments(ids, None, None, {}, None, None, <<>>)), TRUE)

\* The request goes out, and again if the server fails it as a whole.
Send ==
    /\ ~serving.on /\ calls # <<>> /\ sent < 2
    /\ sent = 1 => reply.problem = "scripted"
    /\ \E using \in {Advertised, Advertised \cup {"unknown"}} :
          Receive([using |-> using, calls |-> calls])
    /\ sent' = sent + 1 /\ rejected' = None
    /\ UNCHANGED calls

ServeCall == AnswerNext /\ UNCHANGED <<calls, rejected, sent>>

Served ==
    /\ serving.on /\ serving.calls = <<>>
    /\ serving' = [serving EXCEPT !.on = FALSE]
    /\ UNCHANGED <<scripted, blobs, createdIds, answered, reply, calls, rejected, sent>>

\* upload(): check_upload_size, and a POST to the upload endpoint.
Upload(octets) ==
    /\ ~serving.on /\ sent = 0 /\ Len(blobs) = 0
    /\ Len(octets) <= MaxUpload
    /\ Store(octets)
    /\ UNCHANGED <<scripted, createdIds, serving, answered, reply, calls, rejected, sent>>

BlobNext ==
    \/ \E create \in Creations, account \in Accounts : AddUpload(create, account)
    \/ \E read \in Reads, account \in Accounts : AddGet(read, account)
    \/ \E types \in Lookups, account \in Accounts : AddLookup(types, account)
    \/ \E read \in Reads : AddEcho(read.ids)
    \/ \E octets \in Contents : Upload(octets)
    \/ Send \/ ServeCall \/ Served

BlobSpec == BlobInit /\ [][BlobNext]_blobVars

-----------------------------------------------------------------------------
\* Blob.data: base64 before text; None if neither came.
Data(item) ==
    LET f == item[2] IN
    CASE "data:asBase64" \in DOMAIN f -> f["data:asBase64"][2]
      [] "data:asBase64" \notin DOMAIN f /\ "data:asText" \in DOMAIN f -> f["data:asText"][2]
      [] OTHER -> None

Says(item, name) == name \in DOMAIN item[2]

\* What is there to be counted: not a blob that is still to be made.
IsKnown(source) ==
    \/ source.text # None \/ source.base64 # None \/ source.blob = None
    \/ Found(blobs, BlobNamed(source.blob))

\* Whether a server that keeps to what it advertises of the call's account would have
\* served it: every source one thing, and no limit passed by what it comes to.
Servable(call) ==
    LET limits == Limits(call.account)
        create == call.arguments.create
    IN CASE call.name = "Blob/upload" ->
              \A i \in DOMAIN create :
                 LET data == create[i].data
                     unknown == {source \in Range(data) : ~IsKnown(source)}
                     content == Concatenate(blobs, createdIds, Without(data, unknown))
                 IN /\ \A j \in DOMAIN data : Cardinality(Forms(data[j])) = 1
                    /\ Len(data) <= limits.maxSources
                    /\ content # Bad
                    /\ limits.maxSize # None => Len(content) <= limits.maxSize
         [] call.name = "Blob/get" -> call.arguments.properties \cap Digests \subseteq limits.digests
         [] call.name = "Blob/lookup" -> call.arguments.properties \subseteq limits.types
         [] OTHER -> TRUE

\* A builder "never wrongly rejects" (capabilities/blob.py:102): the call it refused is one
\* the server would have refused.
NeverWronglyRejects == rejected # None => ~Servable(rejected)

\* The same of the upload checks alone, which is where the code says so.
UploadsNeverWronglyRejected ==
    rejected # None /\ rejected.name = "Blob/upload" => ~Servable(rejected)

\* What is read is what is there: data that came is exactly the octets asked for, as far
\* as there are that many, and a range that was cut short says so; data is missing from an
\* answer that should have it only with the word that it does not decode; and a blob of
\* several sources is as long as they are together.
AnswersOf(name) == {i \in DOMAIN reply.answers : reply.answers[i].name = name}

AskedFor(octets, arguments) ==
    {i \in DOMAIN octets :
       /\ arguments.offset # None => i > arguments.offset
       /\ arguments.length # None =>
            i <= arguments.length + (IF arguments.offset = None THEN 0 ELSE arguments.offset)}

IsTrueOf(item, octets, arguments) ==
    LET asked == AskedFor(octets, arguments)
        first == IF arguments.offset = None THEN 0 ELSE arguments.offset
    IN /\ Data(item) # None =>
            /\ Len(Data(item)) = Cardinality(asked)
            /\ \A j \in DOMAIN Data(item) : Data(item)[j] = octets[first + j]
       /\ Data(item) = None /\ arguments.properties \cap {"data", "data:asText"} # {} =>
            Says(item, "isEncodingProblem")
       /\ Says(item, "isTruncated") <=>
            \/ arguments.length # None /\ Cardinality(asked) < arguments.length
            \/ first > Len(octets)

ReadsAreTrue ==
    \A a \in AnswersOf("Blob/get") :
        LET items == reply.answers[a].result[2]["list"][2]
        IN \A i \in DOMAIN items :
             IsTrueOf(items[i], blobs[items[i][2]["id"][2].id], reply.answers[a].call.arguments)

BlobCallsAreTrue == NeverWronglyRejects /\ ReadsAreTrue
=============================================================================
