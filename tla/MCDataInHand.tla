--------------------------- MODULE MCDataInHand ---------------------------
(***************************************************************************)
(* A small instance of each part.                                          *)
(***************************************************************************)
EXTENDS DataInHand, Pointer, TLC

CONSTANTS a, b, c

-----------------------------------------------------------------------------
(* Patches: keys of no, one, two and three tokens, tokens that could be    *)
(* array indices under a map property (m) and elsewhere (k), two spellings *)
(* of one pointer, and a key with a leading slash.  Two of the member      *)
(* names are parsed alike.                                                 *)

Key(tokens, spelling) == [tokens |-> tokens, spelling |-> spelling]

MCKeys == {Key(<<>>, "plain"), Key(<<"m">>, "plain"), Key(<<"m">>, "slashed"),
           Key(<<"m", "0">>, "plain"), Key(<<"m", "1">>, "plain"),
           Key(<<"k">>, "plain"), Key(<<"k", "0">>, "plain"),
           Key(<<"k", "t">>, "plain"), Key(<<"k", "t">>, "loose"),
           Key(<<"k", "t", "u">>, "plain")}

MCPatches == {<<<<Key(<<"k", "t">>, "loose"), "true">>, <<Key(<<"k", "t", "u">>, "plain"), "null">>>>,
              <<<<Key(<<"k", "t", "u">>, "plain"), "true">>, <<Key(<<"k">>, "plain"), "true">>>>}

MCParsed == [n \in {"zero", "ZERO", "one"} |-> IF n = "one" THEN "1" ELSE "0"]

MCMemberships == {[add |-> <<"one", "zero">>, remove |-> <<>>],
                  [add |-> <<"zero">>, remove |-> <<"one">>],
                  [add |-> <<"zero">>, remove |-> <<"ZERO">>]}

-----------------------------------------------------------------------------
(* Texts: an object of two members and a nest of three containers, with    *)
(* every sort of leaf in two places.                                       *)

Leaf(kind, value, exact) == [kind |-> kind, value |-> value, exact |-> exact]

MCLeaves ==
    {Leaf("int", n, TRUE) : n \in {1, -2, 5, 9}} \cup {Leaf("string", t, TRUE) : t \in DOMAIN Texts}
      \cup {Leaf("string", "literal", FALSE), Leaf("int", 2, FALSE), Leaf("float", "finite", TRUE),
            Leaf("float", "overflow", TRUE), Leaf("bool", 0, TRUE), Leaf("foreign", 0, TRUE),
            Leaf("cut", 0, TRUE)}

Put(parent, key, text, leaf) ==
    [parent |-> parent, key |-> key, text |-> text, kind |-> leaf.kind, value |-> leaf.value,
     exact |-> leaf.exact]

Box(kind) == Leaf(kind, 0, TRUE)

MCMembers == {<<"a", "ascii">>, <<"b", "pair">>, <<"b", "half">>, <<"b", "literal">>, <<"b", NotText>>}

In(box, key) == IF box = "object" THEN <<key, "ascii">> ELSE <<NoKey, NotText>>

MCDocuments ==
    {<<Put(0, NoKey, NotText, Leaf("object", 0, e)), Put(1, "a", "ascii", x), Put(1, k[1], k[2], y)>> :
        e \in BOOLEAN, x \in MCLeaves, y \in MCLeaves, k \in MCMembers}
    \cup
    {<<Put(0, NoKey, NotText, Box("array")), Put(1, NoKey, NotText, Box(box)),
       Put(2, In(box, "a")[1], In(box, "a")[2], x), Put(2, In(box, k)[1], In(box, k)[2], Box(inner)),
       Put(1, NoKey, NotText, y)>> :
        box \in {"object", "array", "tuple"}, inner \in {"array", "bool"}, k \in {"a", "b"},
        x \in MCLeaves, y \in MCLeaves}

-----------------------------------------------------------------------------
(* Blobs: sources that are one thing, none and two; ranges at, over and    *)
(* within the end, and through the middle of a character; references to    *)
(* what the same call, an earlier one and none has made.                   *)

Text(octets) == [text |-> octets, base64 |-> None, blob |-> None, offset |-> None, length |-> None]
Base64(octets, valid) ==
    [Text(<<>>) EXCEPT !.text = None, !.base64 = [octets |-> octets, valid |-> valid,
                                                   written |-> 4 * ((Len(octets) + 2) \div 3)]]
Ref(id, creation) == [id |-> id, creation |-> creation]
Range1(ref, offset, length) ==
    [Text(<<>>) EXCEPT !.text = None, !.blob = ref, !.offset = offset, !.length = length]
Nothing == [Text(<<>>) EXCEPT !.text = None]
Both == [Text(<<1>>) EXCEPT !.base64 = [octets |-> <<2>>, valid |-> TRUE, written |-> 4]]

Creation(id, typed, data) == [id |-> id, typed |-> typed, data |-> data]

MCCreations ==
    {<<Creation("x", TRUE, <<Text(<<2, 3>>), Base64(<<1>>, TRUE)>>)>>,
     <<Creation("x", TRUE, <<Base64(<<2>>, TRUE)>>),
       Creation("y", FALSE, <<Range1(Ref(NoBlob, "x"), None, None), Text(<<1>>)>>)>>,
     <<Creation("y", TRUE, <<Range1(Ref(1, None), 1, 2), Range1(Ref(NoBlob, "x"), 1, None)>>)>>,
     <<Creation("x", FALSE, <<Both, Text(<<1, 1, 1>>)>>), Creation("y", FALSE, <<Nothing>>)>>,
     <<Creation("x", TRUE, <<Both>>)>>,
     <<Creation("x", TRUE, <<Text(<<1, 3>>), Base64(<<1, 1>>, TRUE)>>)>>,
     <<Creation("x", FALSE, <<Text(<<1>>), Text(<<1>>), Text(<<1>>)>>)>>,
     <<Creation("x", FALSE, <<Base64(<<1>>, FALSE)>>), Creation("y", FALSE, <<>>)>>}

Read(ids, resultOf, path, properties, offset, length) ==
    [ids |-> [i \in DOMAIN ids |-> Scalar(ids[i])], resultOf |-> resultOf, path |-> path,
     properties |-> properties, offset |-> offset, length |-> length]

To(slash, tokens) == [slash |-> slash, tokens |-> tokens]

MCReads ==
    {Read(<<Ref(NoBlob, "x"), Ref(NoBlob, "y")>>, None, None, {}, None, None),
     Read(<<Ref(1, None), Ref(2, None)>>, None, None, {"data:asText", "digest:sha"}, 1, 1),
     Read(<<Ref(1, None)>>, None, None, {"data", "data:asBase64", "size"}, 3, None),
     Read(<<Ref(2, None)>>, None, None, {"digest:other", "digest:none"}, None, None),
     Read(<<>>, 1, To(TRUE, <<"list", "*", "id">>), {"data"}, None, 4),
     Read(<<>>, 1, To(TRUE, <<"list", "-", "id">>), {}, None, None),
     Read(<<>>, 1, To(FALSE, <<"ids">>), {}, None, None),
     Read(<<>>, 1, To(TRUE, <<"ids", "*">>), {"data:asText"}, 0, 2)}

MCLookups == {{"Email"}, {"Email", "Other"}}

MCContents == {<<1, 2, 3>>, <<3>>, <<1, 1, 1, 1>>}

MCCapability ==
    [account \in {"own", "shared"} |->
       [maxSize |-> IF account = "own" THEN 3 ELSE None, maxSources |-> 2,
        types |-> IF account = "own" THEN {"Email"} ELSE {"Email", "Other"},
        digests |-> {"digest:sha", "digest:other"}]]

MCIndexOf == [token \in {"0", "1"} |-> IF token = "0" THEN 0 ELSE 1]

-----------------------------------------------------------------------------
(* Pointers: the evaluator against a reading from left to right, in which  *)
(* what has been reached so far is a row of values, every "*" opens up the *)
(* arrays in it, and arrays that are left at the end are opened up once if *)
(* there was a "*" at all.                                                 *)

RECURSIVE Reached(_, _, _)
Reached(row, tokens, starred) ==
    IF tokens = <<>> THEN IF starred THEN Array(Flattened(row)) ELSE row[1]
    ELSE IF Head(tokens) = Wildcard
    THEN IF \E i \in DOMAIN row : ~IsArray(row[i]) THEN Unresolved
         ELSE LET opened == FlattenSeq([i \in DOMAIN row |-> row[i][2]])
              IN IF Len(tokens) = 1 THEN Array(opened) ELSE Reached(opened, Tail(tokens), TRUE)
    ELSE LET next == [i \in DOMAIN row |->
                        CASE IsObject(row[i]) -> Property(row[i][2], Head(tokens))
                          [] IsArray(row[i]) -> Element(row[i][2], Head(tokens))
                          [] OTHER -> Unresolved]
         IN IF \E i \in DOMAIN next : next[i] = Unresolved THEN Unresolved
            ELSE Reached(next, Tail(tokens), starred)

Leaves == {Scalar(1), Array(<<>>), Array(<<Scalar(1), Scalar(2)>>)}
Groves == Leaves \cup {Object([k \in {"k"} |-> x]) : x \in Leaves}
            \cup {Array(<<x, y>>) : x \in Leaves, y \in Leaves}
Woods == {Array(<<x, y>>) : x \in Groves, y \in Groves} \cup {Object([k \in {"k"} |-> x]) : x \in Groves}

ASSUME PointersReach ==
    \A wood \in Woods, tokens \in UNION {[1 .. n -> {"*", "k", "1", "-"}] : n \in 0 .. 4} :
        Resolve(wood, To(TRUE, tokens)) = Reached(<<wood>>, tokens, FALSE)

-----------------------------------------------------------------------------
(* Query views: three records, two query states.                           *)

MCRecords == {a, b, c}
Symmetric == Permutations(MCRecords)
=============================================================================
