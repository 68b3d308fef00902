------------------------------- MODULE Pointer -------------------------------
(***************************************************************************)
(* core/pointer.py: JSON pointers with JMAP's "*", by which a call names   *)
(* a part of an earlier call's response.                                   *)
(*                                                                         *)
(* A pointer is the tokens it decodes to; how they are escaped is left     *)
(* out.                                                                    *)
(***************************************************************************)
EXTENDS Naturals, JsonValue

CONSTANT IndexOf     \* the tokens that are array indices, and the index each is

Wildcard == "*"

\* split_pointer: a ResultReference's path starts with a slash, a patch's key need not.
Split(pointer, slashRequired) ==
    IF pointer.tokens # <<>> /\ slashRequired /\ ~pointer.slash THEN Unresolved
    ELSE Array(pointer.tokens)

\* _index_array: "-", a leading zero and what is not digits index nothing.
Element(items, token) ==
    IF token \in DOMAIN IndexOf /\ IndexOf[token] < Len(items)
    THEN items[IndexOf[token] + 1] ELSE Unresolved

Property(f, token) == IF token \in DOMAIN f THEN f[token] ELSE Unresolved

\* One level: the elements of an array, and what is no array itself.
Flattened(results) ==
    FlattenSeq([i \in DOMAIN results |->
        IF IsArray(results[i]) THEN results[i][2] ELSE <<results[i]>>])

RECURSIVE ResolveTokens(_, _)
ResolveTokens(value, tokens) ==
    IF tokens = <<>> \/ value = Unresolved THEN value
    ELSE CASE Head(tokens) = Wildcard /\ ~IsArray(value) -> Unresolved
           [] Head(tokens) = Wildcard /\ IsArray(value) /\ Len(tokens) = 1 -> value
           [] Head(tokens) = Wildcard /\ IsArray(value) /\ Len(tokens) > 1 ->
                LET results == [i \in DOMAIN value[2] |-> ResolveTokens(value[2][i], Tail(tokens))]
                IN IF \E i \in DOMAIN results : results[i] = Unresolved
                   THEN Unresolved ELSE Array(Flattened(results))
           [] Head(tokens) # Wildcard /\ IsObject(value) ->
                ResolveTokens(Property(value[2], Head(tokens)), Tail(tokens))
           [] Head(tokens) # Wildcard /\ IsArray(value) ->
                ResolveTokens(Element(value[2], Head(tokens)), Tail(tokens))
           [] OTHER -> Unresolved

Resolve(value, pointer) ==
    LET tokens == Split(pointer, TRUE)
    IN IF tokens = Unresolved THEN Unresolved ELSE ResolveTokens(value, tokens[2])
=============================================================================
