------------------------------ MODULE JsonValue ------------------------------
(***************************************************************************)
(* What JSON text holds, as calls and their answers are made of it:        *)
(* <<"object", function>>, <<"array", sequence>> or <<"scalar", anything>>.*)
(***************************************************************************)
EXTENDS Sequences, SequencesExt

Object(f) == <<"object", f>>
Array(s) == <<"array", s>>
Scalar(x) == <<"scalar", x>>
IsArray(v) == v[1] = "array"
IsObject(v) == v[1] = "object"

Unresolved == <<"unresolved">>     \* PointerError

\* A list without some of its members, in one pass.
Without(list, members) ==
    LET kept[n \in 0 .. Len(list)] ==
            IF n = 0 THEN <<>>
            ELSE IF list[n] \in members THEN kept[n - 1] ELSE Append(kept[n - 1], list[n])
    IN  kept[Len(list)]
=============================================================================
