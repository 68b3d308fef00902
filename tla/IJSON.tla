-------------------------------- MODULE IJSON --------------------------------
(***************************************************************************)
(* core/ijson.py: loads and dumps, which let nothing through that is not   *)
(* I-JSON.  Neither walks a document if it can help it: loads leaves the   *)
(* checks to the parser's hooks and looks for surrogates only if the text  *)
(* could hold one, and both ask a quick scan, in an order of its own,      *)
(* before the slow walk that knows where it is.                            *)
(*                                                                         *)
(* A document is the sequence of its nodes as they are written, each with  *)
(* the index of the container it is in (0 for the root) and the key it has *)
(* there.  A string is what the checks can tell of it: the kinds are       *)
(* Texts.  A kind of node may be one that only a text or only a value can  *)
(* have: "cut" is where a text stops being JSON.                           *)
(***************************************************************************)
EXTENDS Integers, Sequences, SequencesExt, FiniteSetsExt

CONSTANTS
    Documents,    \* sequences of [parent, key, text, kind, value, exact]
    MaxSafe,      \* MAX_SAFE_INT
    LongLiteral,  \* the least integer of more than _MAX_INT_LITERAL_LENGTH characters
    Convertible,  \* the largest integer int() converts
    ParseDepth,   \* containers the parser and the serialiser can be inside of
    WalkDepth     \* containers _check_tree can be inside of

\* "any longer literal is out of range by inspection"
ASSUME LiteralAssumption ==
    /\ MaxSafe \in Nat /\ LongLiteral \in Nat /\ Convertible \in Nat
    /\ LongLiteral > MaxSafe /\ Convertible >= LongLiteral

VARIABLES
    document,
    job,      \* "str" or "bytes", loads of the one or the other; "dumps"
    stage,    \* "parse", "scan", "walk", "write", or "returned", "raised"
    stack,    \* what the scan has still to look at
    raised    \* the error: its class and the node it names, 0 for none

textVars == <<document, job, stage, stack, raised>>

Nodes == DOMAIN document
Root == 0
NoKey == "no key"

\* How the strings of a document may be: decoded to a lone surrogate or not, to ASCII or
\* not, and written with an escape that looks like a surrogate's or not.
Texts ==
    [ascii     |-> [lone |-> FALSE, ascii |-> TRUE, escaped |-> FALSE],
     wide      |-> [lone |-> FALSE, ascii |-> FALSE, escaped |-> FALSE],
     pair      |-> [lone |-> FALSE, ascii |-> FALSE, escaped |-> TRUE],
     backslash |-> [lone |-> FALSE, ascii |-> TRUE, escaped |-> TRUE],
     half      |-> [lone |-> TRUE, ascii |-> FALSE, escaped |-> TRUE],
     literal   |-> [lone |-> TRUE, ascii |-> FALSE, escaped |-> FALSE]]

NotText == "not text"                    \* a key that is not a string
IsText(t) == t \in DOMAIN Texts

\* The first node is the root, and a node has a key if an object holds it.
ASSUME DocumentsAssumption ==
    \A d \in Documents :
        /\ d \in Seq(Range(d)) /\ d # <<>>
        /\ \A i \in DOMAIN d :
              /\ d[i].parent \in IF i = 1 THEN {Root} ELSE 1 .. (i - 1)
              /\ IF i # 1 /\ d[d[i].parent].kind = "object"
                 THEN d[i].key # NoKey /\ (IsText(d[i].text) \/ d[i].text = NotText)
                 ELSE d[i].key = NoKey /\ d[i].text = NotText
              /\ d[i].kind = "int" => d[i].value \in Int
              /\ d[i].kind = "string" => IsText(d[i].value)

\* The strings of a node: its key, and what it is.
StringsAt(i) ==
    {t \in {document[i].text, IF document[i].kind = "string" THEN document[i].value ELSE NotText} :
       IsText(t)}

IsContainer(i) == document[i].kind \in {"object", "array", "tuple"}
Children(i) == {j \in Nodes : document[j].parent = i}
Depth == LET d[i \in Nodes \cup {Root}] ==
               IF i = Root THEN 0
               ELSE d[document[i].parent] + (IF IsContainer(i) THEN 1 ELSE 0)
         IN d

\* Nodes in the order they are written.
AsWritten(nodes) ==
    CHOOSE order \in [1 .. Cardinality(nodes) -> nodes] :
        \A i, j \in DOMAIN order : i < j => order[i] < order[j]

\* The last node inside of i, or i.
LastWithin == LET last[i \in Nodes] == Max({i} \cup {last[j] : j \in Children(i)}) IN last

-----------------------------------------------------------------------------
(* Scalars *)

\* check_int, for a signed Int.
InRange(n) == -MaxSafe <= n /\ n <= MaxSafe

\* check_string, of a key or a string; a key that is not one has no text.
WholeText(t) == IsText(t) /\ (IF Texts[t].ascii THEN TRUE ELSE ~Texts[t].lone)

\* _safe_int: a literal too long is not converted.
SafeInt(n) == ~(n >= LongLiteral) /\ InRange(n)

\* _reject_duplicates
Repeats(i) ==
    \E j, k \in Children(i) : j # k /\ document[j].key = document[k].key

-----------------------------------------------------------------------------
(* Parsing: what a hook raises at a node, and where in the text it does *)

\* An object's keys are compared when it is closed, after all that is in it.
RepeatAt(i) == IF document[i].kind = "object" /\ Repeats(i)
               THEN {[class |-> "duplicate", node |-> i,
                      place |-> <<LastWithin[i], 1 + Len(document) - i>>]}
               ELSE {}

At(i, class) == {[class |-> class, node |-> i, place |-> <<i, 0>>]}

\* What stops the parser, with hooks or without.
Stops(i) ==
    CASE document[i].kind = "cut" -> At(i, "malformed")
      [] IsContainer(i) /\ Depth[i] > ParseDepth -> At(i, "nesting") \cup RepeatAt(i)
      [] OTHER -> RepeatAt(i)

Hooks(i) ==
    CASE document[i].kind = "int" /\ ~SafeInt(document[i].value) -> At(i, "range")
      [] document[i].kind = "float" /\ document[i].value # "finite" -> At(i, "non-finite")
      [] OTHER -> Stops(i)

\* The parse of loads() that only locates has no hook for numbers.
Locating(i) ==
    IF document[i].kind = "int" /\ document[i].value > Convertible
    THEN At(i, "conversion") ELSE Stops(i)

Before(a, b) == a[1] < b[1] \/ (a[1] = b[1] /\ a[2] < b[2])

\* The errors that come first: one, or none.
FirstOf(errors) == {e \in errors : \A f \in errors : ~Before(f.place, e.place)}

FirstError(ErrorsAt(_)) == FirstOf(UNION {ErrorsAt(i) : i \in Nodes})

-----------------------------------------------------------------------------
(* _check_tree: each key and then what it names, in order *)

CheckAt(i) ==
    IF document[i].key # NoKey /\ ~WholeText(document[i].text) THEN At(i, "string")
    ELSE CASE document[i].kind = "int" /\ ~InRange(document[i].value) -> At(i, "range")
           [] document[i].kind = "string" /\ ~WholeText(document[i].value) -> At(i, "string")
           [] IsContainer(i) /\ Depth[i] > WalkDepth -> At(i, "nesting")
           [] OTHER -> {}

CheckTree == FirstError(CheckAt)

-----------------------------------------------------------------------------
TextInit ==
    /\ document \in Documents /\ job \in {"str", "bytes", "dumps"}
    \* A text has no tuples, no subclasses and no keys that are not strings; a value is not cut.
    /\ \A i \in Nodes :
         IF job = "dumps"
         THEN document[i].kind # "cut"
         ELSE document[i].kind \notin {"tuple", "foreign"} /\ document[i].exact
              /\ (document[i].key # NoKey => IsText(document[i].text))
    \* A dict has no key twice.
    /\ job = "dumps" => \A i \in Nodes : ~(document[i].kind = "object" /\ Repeats(i))
    /\ stage = IF job = "dumps" THEN "scan" ELSE "parse"
    /\ stack = <<1>>
    /\ raised = [class |-> "none", node |-> 0]

Raise(class, node) == stage' = "raised" /\ raised' = [class |-> class, node |-> node]
Go(to) == stage' = to /\ UNCHANGED raised

\* Mutant: only the escapes count.
MayHoldSurrogateEscaped == \E i \in Nodes : \E t \in StringsAt(i) : Texts[t].escaped

\* _may_hold_surrogate
MayHoldSurrogate ==
    \E i \in Nodes : \E t \in StringsAt(i) :
        \/ Texts[t].escaped
        \/ job = "str" /\ ~Texts[t].ascii /\ Texts[t].lone

\* The handler of IntegerRangeError: parse again and walk, to say where; any failure of
\* that but an error of I-JSON leaves the error as it was.
Locate ==
    LET again == FirstError(Locating)
        found == IF again = {} THEN CheckTree ELSE again
        located == {e \in found : e.class \in {"duplicate", "range", "string"}}
    IN IF located = {} THEN Raise("range", 0)
       ELSE \E e \in located : Raise(e.class, e.node)

\* loads(): the bytes decoded, then the parse.
Parse ==
    /\ stage = "parse"
    /\ IF job = "bytes" /\ \E i \in Nodes : \E t \in StringsAt(i) : Texts[t].lone /\ ~Texts[t].escaped
       THEN Raise("string", 0)
       ELSE LET errors == FirstError(Hooks) IN
            \/ errors = {} /\ Go(IF MayHoldSurrogate THEN "scan" ELSE "returned")
            \/ \E e \in errors : IF e.class = "range" THEN Locate ELSE Raise(e.class, e.node)
    /\ UNCHANGED <<document, job, stack>>

\* Mutant: the keys are not looked at.
ProvableByValue(i) ==
    /\ document[i].exact /\ document[i].kind # "foreign"
    /\ document[i].kind = "string" => WholeText(document[i].value)
    /\ document[i].kind = "int" => InRange(document[i].value)

\* _scan, of one node: its exact type, and the keys of a dict.
Provable(i) ==
    /\ document[i].exact /\ document[i].kind # "foreign"
    /\ document[i].kind = "string" => WholeText(document[i].value)
    /\ document[i].kind = "int" => InRange(document[i].value)
    /\ document[i].kind = "object" =>
         \A j \in Children(i) : WholeText(document[j].text)

Passed == IF job = "dumps" THEN "write" ELSE "returned"

\* The last pushed is the first looked at. The first thing not proved ends the scan.
Scan ==
    /\ stage = "scan" /\ stack # <<>>
    /\ IF Provable(Last(stack))
       THEN stack' = Front(stack) \o AsWritten(Children(Last(stack))) /\ UNCHANGED stage
       ELSE stage' = "walk" /\ UNCHANGED stack
    /\ UNCHANGED <<document, job, raised>>

ScanPasses ==
    /\ stage = "scan" /\ stack = <<>> /\ Go(Passed)
    /\ UNCHANGED <<document, job, stack>>

Walk ==
    /\ stage = "walk"
    /\ \/ CheckTree = {} /\ Go(Passed)
       \/ \E e \in CheckTree : Raise(e.class, IF e.class = "nesting" THEN 0 ELSE e.node)
    /\ UNCHANGED <<document, job, stack>>

\* json.dumps: what it cannot write, in order.
CannotWrite(i) ==
    CASE document[i].kind = "foreign" -> At(i, "type")
      [] document[i].kind = "float" /\ document[i].value # "finite" -> At(i, "non-finite")
      [] IsContainer(i) /\ Depth[i] > ParseDepth -> At(i, "nesting")
      [] OTHER -> {}

Write ==
    /\ stage = "write"
    /\ LET errors == FirstError(CannotWrite) IN
         \/ errors = {} /\ Go("returned")
         \/ \E e \in errors : Raise(e.class, 0)
    /\ UNCHANGED <<document, job, stack>>

TextNext == Parse \/ Scan \/ ScanPasses \/ Walk \/ Write

TextSpec == TextInit /\ [][TextNext]_textVars

-----------------------------------------------------------------------------
\* What is wrong with a document, class by class, said of it as a whole.
Wrong(class) ==
    {i \in Nodes :
       CASE class = "range" -> document[i].kind = "int" /\ ~InRange(document[i].value)
         [] class = "string" ->
              \/ document[i].kind = "string" /\ Texts[document[i].value].lone
              \/ document[i].key # NoKey /\ document[i].text \in {NotText, "half", "literal"}
         [] class = "duplicate" ->
              document[i].kind = "object" /\ Cardinality({document[j].key : j \in Children(i)})
                                               < Cardinality(Children(i))
         [] class = "non-finite" -> document[i].kind = "float" /\ document[i].value # "finite"
         [] class = "malformed" -> document[i].kind = "cut"
         [] class = "type" -> document[i].kind = "foreign"
         [] class = "nesting" -> Depth[i] > WalkDepth \/ Depth[i] > ParseDepth
         [] OTHER -> FALSE}

Classes == {"range", "string", "duplicate", "non-finite", "malformed", "type"}

\* What loads and dumps let through is I-JSON, whatever the hooks and the scan between them
\* have looked at ("the only way to be wrong here is to return True for a tree that is
\* actually bad"); what they refuse has the defect the error is of, at the node it names if
\* it names one; and a number out of range is named unless the text has another defect that
\* the search for it runs into.
OnlyIJSONPasses ==
    /\ stage = "returned" => \A class \in Classes : Wrong(class) = {}
    /\ stage = "raised" =>
         /\ Wrong(raised.class) # {}
         /\ raised.node # 0 => raised.node \in Wrong(raised.class)
         /\ raised.class = "range" /\ raised.node = 0 =>
              \/ Wrong("malformed") \cup Wrong("nesting") # {}
              \/ \E i \in Wrong("range") : document[i].value > Convertible
=============================================================================
