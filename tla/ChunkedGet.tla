----------------------------- MODULE ChunkedGet -----------------------------
(***************************************************************************)
(* chunking.py and Batch._split_if_oversized: one /get of more ids than    *)
(* the server answers at once becomes several calls, whose answers become  *)
(* one result again.  Between two of the calls the data may change.        *)
(***************************************************************************)
EXTENDS Naturals, FiniteSets, SequencesExt

CONSTANTS
    MaxVersion,    \* bound: changes to the data while a read is under way
    NotRead        \* no read, no result

VARIABLES
    version,   \* the version of the server's data
    asked,     \* the ids the caller named
    chunks,    \* ChunkedHandle._chunks: the ids each call names
    sent,      \* whether they went out
    answers,   \* the calls' answers so far: [from, state, ids] or Failed
    result     \* what reading the handle gave

chunkVars == <<version, asked, chunks, sent, answers, result>>

Failed == [from |-> 0, state |-> NotRead, ids |-> <<>>]

\* Where an id comes for the first time.
Firsts(ids) == {i \in DOMAIN ids : \A j \in 1 .. i - 1 : ids[j] # ids[i]}

\* dict.fromkeys: each id once, where it came first.
Unique(ids) ==
    LET order == CHOOSE order \in [1 .. Cardinality(Firsts(ids)) -> Firsts(ids)] :
                    \A i, j \in DOMAIN order : i < j => order[i] < order[j]
    IN  [n \in DOMAIN order |-> ids[order[n]]]

\* The calls a /get becomes. Ids that fit once the repeats are gone go out as named.
CallsFor(ids, limit) ==
    LET unique == Unique(ids)
        end(i) == IF i * limit < Len(unique) THEN i * limit ELSE Len(unique)
    IN  IF Len(unique) <= limit THEN <<ids>>
        ELSE [i \in 1 .. (Len(unique) + limit - 1) \div limit |->
                 SubSeq(unique, (i - 1) * limit + 1, end(i))]

\* Mutant: the chunks are put together whatever states they name.
MergeAnyState(results) ==
    [outcome |-> "merged", ids |-> FlattenSeq([i \in DOMAIN results |-> results[i].ids])]

\* ChunkedHandle.result and merge_get_results: a chunk that failed fails the read, and
\* the states that are named must agree.
Merge(results) ==
    LET states == {results[i].state : i \in DOMAIN results} \ {NotRead}
        merged == [outcome |-> "merged", ids |-> FlattenSeq([i \in DOMAIN results |-> results[i].ids])]
    IN  IF Failed \in ToSet(results) THEN [merged EXCEPT !.outcome = "failed", !.ids = <<>>]
        ELSE IF Cardinality(states) > 1 THEN [merged EXCEPT !.outcome = "torn", !.ids = <<>>]
        ELSE merged

ChunkInit ==
    version = 1 /\ asked = <<>> /\ chunks = <<>> /\ sent = FALSE /\ answers = <<>> /\ result = NotRead

\* The calls are queued with a batch, and sent or dropped with it.
QueueChunks(ids, calls) ==
    asked' = ids /\ chunks' = calls /\ UNCHANGED <<version, sent, answers, result>>

SendChunks == sent' = TRUE /\ UNCHANGED <<version, asked, chunks, answers, result>>

ForgetChunks ==
    /\ version' = 1 /\ asked' = <<>> /\ chunks' = <<>> /\ sent' = FALSE
    /\ answers' = <<>> /\ result' = NotRead

Pending == sent /\ Len(answers) < Len(chunks)

\* The server answers the calls in order (RFC 8620 3.10), an id it is given twice once.
\* It may leave out the state, and a call may fail.
AnswerChunk(names) ==
    /\ Pending
    /\ answers' = Append(answers, [from |-> version, state |-> IF names THEN version ELSE NotRead,
                                   ids |-> Unique(chunks[Len(answers) + 1])])
    /\ UNCHANGED <<version, asked, chunks, sent, result>>

FailChunk ==
    /\ Pending
    /\ answers' = Append(answers, Failed)
    /\ UNCHANGED <<version, asked, chunks, sent, result>>

DataChanges ==
    /\ Pending /\ version < MaxVersion
    /\ version' = version + 1
    /\ UNCHANGED <<asked, chunks, sent, answers, result>>

ReadResult ==
    /\ sent /\ chunks # <<>> /\ ~Pending /\ result = NotRead
    /\ result' = Merge(answers)
    /\ UNCHANGED <<version, asked, chunks, sent, answers>>

ChunkNext == FailChunk \/ DataChanges \/ ReadResult \/ \E names \in BOOLEAN : AnswerChunk(names)
-----------------------------------------------------------------------------
\* A read that was split is still one read (chunking.py: "a torn read" must not pass for
\* an answer): merged, it answers every id the caller named exactly once, from one
\* version as far as the chunks named theirs; and it never fails for tearing when
\* nothing changed.
ReadsAreWhole ==
    result # NotRead =>
        /\ result.outcome = "merged" =>
              /\ ToSet(result.ids) = ToSet(asked)
              /\ Len(result.ids) = Len(Unique(asked))
              /\ \A i, j \in DOMAIN answers :
                    NotRead \notin {answers[i].state, answers[j].state} =>
                        answers[i].from = answers[j].from
        /\ result.outcome = "torn" => \E i, j \in DOMAIN answers : answers[i].from # answers[j].from
=============================================================================
