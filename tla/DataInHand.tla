----------------------------- MODULE DataInHand -----------------------------
(***************************************************************************)
(* The parts of the library that work on data a caller has in hand, each   *)
(* for itself: the patch of an update, the text of a request or a          *)
(* response, blobs made of other blobs, and the list of a query.           *)
(***************************************************************************)
EXTENDS PatchBuilder, IJSON, Blobs, QueryView

CONSTANT Subjects      \* which of the four

VARIABLE subject

dataVars == <<subject, vars, textVars, blobVars, viewVars>>

\* Where no text is read there is none.
DataInit ==
    /\ subject \in Subjects
    /\ Init /\ BlobInit /\ ViewInit
    /\ IF subject = "text" THEN TextInit
       ELSE document = <<>> /\ job = "str" /\ stage = "parse" /\ stack = <<>>
            /\ raised = [class |-> "none", node |-> 0]
    /\ subject # "blobs" => scripted = 0
    /\ subject # "query" => results = <<<<>>>>

DataNext ==
    \/ subject = "patch" /\ Next /\ UNCHANGED <<subject, textVars, blobVars, viewVars>>
    \/ subject = "text" /\ TextNext /\ UNCHANGED <<subject, vars, blobVars, viewVars>>
    \/ subject = "blobs" /\ BlobNext /\ UNCHANGED <<subject, vars, textVars, viewVars>>
    \/ subject = "query" /\ ViewNext /\ UNCHANGED <<subject, vars, textVars, blobVars>>

DataSpec == DataInit /\ [][DataNext]_dataVars
=============================================================================
