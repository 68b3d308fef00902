------------------------- MODULE EventSource_proofs -------------------------
(***************************************************************************)
(* Theorems about EventSource, for any number of changes, faults, chunks   *)
(* and symbols on the wire: the cursor is honest, events arrive whole, and *)
(* the pauses fit.                                                         *)
(*                                                                         *)
(* Wherever a connection is, what the parser holds followed by what is on  *)
(* the wire is a text that the parser, left alone with it, would read to   *)
(* its end: every blank line ends a whole event, and every id comes with   *)
(* the event that tells of its state, or after it.  The invariant says so  *)
(* with a labelling of the text: what would have been read at each symbol. *)
(***************************************************************************)
EXTENDS EventSource, SequenceTheorems, TLAPS

Kinds == {"CR", "LF", "id", "data", "more", "ping", "junk"}
Marks == [kind : Kinds, n : Nat]

\* What has been read of a text: where in a line that is, the data and the id of the
\* event under way, and the latest state told of.
Labels == [at : {"line", "end", "cr"}, data : Seq(Marks), id : Nat, told : Nat]

Ended(x) == IF x = CR THEN "cr" ELSE "line"
IsJunk(data) == Len(data) = 1 /\ data[1].kind = "junk"
Whole(data) == data = <<>> \/ IsState(data) \/ IsPing(data) \/ IsJunk(data)
Telling(a) == IF a.data = <<>> THEN a.told ELSE Larger(a.told, a.data[1].n)

\* One symbol: a field, what closes its line, the LF of a CR LF, a blank line.
ReadsField(a, x, b) ==
    /\ a.at # "end" /\ ~EndsLine(x)
    /\ b = IF x.kind = "id" THEN [a EXCEPT !.at = "end", !.id = x.n]
           ELSE [a EXCEPT !.at = "end", !.data = Append(@, x)]

ReadsEnd(a, x, b) == a.at = "end" /\ EndsLine(x) /\ b = [a EXCEPT !.at = Ended(x)]

ReadsHalf(a, x, b) == a.at = "cr" /\ x = LF /\ b = [a EXCEPT !.at = "line"]

ReadsBlank(a, x, b) ==
    /\ a.at # "end" /\ EndsLine(x) /\ (a.at = "line" \/ x = CR)
    /\ Whole(a.data) /\ a.id <= Telling(a)
    /\ b = [a EXCEPT !.at = Ended(x), !.data = <<>>, !.told = Telling(a)]

ReadsOne(a, x, b) ==
    ReadsField(a, x, b) \/ ReadsEnd(a, x, b) \/ ReadsHalf(a, x, b) \/ ReadsBlank(a, x, b)

\* A text, read from label a to label b.
Labelling(l, text) ==
    /\ l \in [1 .. Len(text) + 1 -> Labels]
    /\ \A i \in 1 .. Len(text) : ReadsOne(l[i], text[i], l[i + 1])

Reads(text, a, b) == \E l : Labelling(l, text) /\ l[1] = a /\ l[Len(text) + 1] = b

(***************************************************************************)
(* Lemmas about reading.                                                   *)
(***************************************************************************)

\* Nothing reads as nothing, ...
LEMMA ReadsNothing ==
    ASSUME NEW a \in Labels, NEW b
    PROVE  Reads(<<>>, a, b) <=> a = b
<1>1. ASSUME a = b  PROVE Reads(<<>>, a, b)
  <2>1. Labelling([i \in {1} |-> a], <<>>)
    BY DEF Labelling
  <2>2. QED  BY <2>1, <1>1 DEF Reads
<1>2. QED  BY <1>1 DEF Reads

\* ... one symbol as ReadsOne has it, ...
LEMMA ReadsSingle ==
    ASSUME NEW x \in Marks, NEW a \in Labels, NEW b \in Labels, ReadsOne(a, x, b)
    PROVE  Reads(<<x>>, a, b)
<1> DEFINE l == [i \in 1 .. 2 |-> IF i = 1 THEN a ELSE b]
<1>1. Labelling(l, <<x>>)
  <2>1. Len(<<x>>) = 1 /\ <<x>>[1] = x  OBVIOUS
  <2>2. l \in [1 .. 2 -> Labels] /\ l[1] = a /\ l[2] = b  OBVIOUS
  <2> HIDE DEF l
  <2>3. l \in [1 .. Len(<<x>>) + 1 -> Labels]  BY <2>1, <2>2
  <2>4. \A i \in 1 .. Len(<<x>>) : ReadsOne(l[i], <<x>>[i], l[i + 1])
    <3>1. SUFFICES ReadsOne(l[1], <<x>>[1], l[1 + 1])
      <4>1. ASSUME NEW i \in 1 .. Len(<<x>>), ReadsOne(l[1], <<x>>[1], l[1 + 1])
            PROVE  ReadsOne(l[i], <<x>>[i], l[i + 1])
        <5>1. i = 1  BY <2>1
        <5>2. QED  BY <4>1, <5>1
      <4>2. QED  BY <4>1
    <3>2. 1 + 1 = 2  OBVIOUS
    <3>3. QED  BY <2>1, <2>2, <3>2
  <2>5. QED  BY <2>3, <2>4 DEF Labelling
<1>2. Len(<<x>>) + 1 = 2 /\ l[1] = a /\ l[2] = b  OBVIOUS
<1> HIDE DEF l
<1>3. QED  BY <1>1, <1>2 DEF Reads

\* ... two texts one after the other, ...
LEMMA ReadsBoth ==
    ASSUME NEW s \in Seq(Marks), NEW t \in Seq(Marks), NEW a, NEW b, NEW c,
           Reads(s, a, b), Reads(t, b, c)
    PROVE  Reads(s \o t, a, c)
<1>1. PICK k : Labelling(k, s) /\ k[1] = a /\ k[Len(s) + 1] = b  BY DEF Reads
<1>2. PICK l : Labelling(l, t) /\ l[1] = b /\ l[Len(t) + 1] = c  BY DEF Reads
<1> DEFINE m == [i \in 1 .. Len(s) + Len(t) + 1 |->
                    IF i <= Len(s) + 1 THEN k[i] ELSE l[i - Len(s)]]
<1>3. Len(s) \in Nat /\ Len(t) \in Nat  OBVIOUS
<1>4. /\ s \o t \in Seq(Marks) /\ Len(s \o t) = Len(s) + Len(t)
      /\ \A i \in 1 .. Len(s) + Len(t) :
           (s \o t)[i] = IF i <= Len(s) THEN s[i] ELSE t[i - Len(s)]
  BY ConcatProperties
<1>5. m \in [1 .. Len(s \o t) + 1 -> Labels]
  BY <1>1, <1>2, <1>3, <1>4 DEF Labelling
<1>6. ASSUME NEW i \in 1 .. Len(s \o t)
      PROVE  ReadsOne(m[i], (s \o t)[i], m[i + 1])
  <2>1. CASE i <= Len(s)
    <3>1. m[i] = k[i] /\ m[i + 1] = k[i + 1] /\ (s \o t)[i] = s[i]  BY <1>3, <1>4, <2>1
    <3>2. ReadsOne(k[i], s[i], k[i + 1])  BY <1>1, <1>3, <1>4, <2>1 DEF Labelling
    <3> HIDE DEF m
    <3>3. QED  BY <3>1, <3>2
  <2>2. CASE i > Len(s)
    <3> DEFINE j == i - Len(s)
    <3>1. j \in 1 .. Len(t)  BY <1>3, <1>4, <2>2
    <3>2. m[i] = l[j]
      <4>1. CASE i = Len(s) + 1  BY <4>1, <1>1, <1>2, <1>3, <1>4
      <4>2. CASE i > Len(s) + 1  BY <4>2, <1>3, <1>4
      <4>3. QED  BY <4>1, <4>2, <2>2, <1>3, <1>4
    <3>3. m[i + 1] = l[j + 1] /\ (s \o t)[i] = t[j]
      <4>1. (i + 1) - Len(s) = (i - Len(s)) + 1 /\ i + 1 \in 1 .. Len(s) + Len(t) + 1
            /\ ~(i + 1 <= Len(s) + 1) /\ ~(i <= Len(s)) /\ i \in 1 .. Len(s) + Len(t)
        BY <1>3, <1>4, <2>2
      <4>2. QED  BY <4>1, <1>4
    <3>4. ReadsOne(l[j], t[j], l[j + 1])  BY <1>2, <3>1 DEF Labelling
    <3> HIDE DEF m, j
    <3>5. QED  BY <3>2, <3>3, <3>4
  <2>3. QED  BY <2>1, <2>2, <1>3, <1>4
<1>7. m[1] = a /\ m[Len(s \o t) + 1] = c
  <2>1. m[1] = a  BY <1>1, <1>3
  <2>2. CASE Len(t) = 0  BY <2>1, <2>2, <1>1, <1>2, <1>3, <1>4
  <2>3. CASE Len(t) > 0  BY <2>1, <2>3, <1>2, <1>3, <1>4
  <2>4. QED  BY <2>2, <2>3, <1>3
<1> HIDE DEF m
<1>8. QED  BY <1>5, <1>6, <1>7 DEF Labelling, Reads

\* ... and what is left of a text from the label where it is left.
LEMMA ReadsRest ==
    ASSUME NEW s \in Seq(Marks), NEW l, Labelling(l, s), NEW k \in 0 .. Len(s)
    PROVE  /\ l[k + 1] \in Labels
           /\ Reads(SubSeq(s, k + 1, Len(s)), l[k + 1], l[Len(s) + 1])
<1> DEFINE r == SubSeq(s, k + 1, Len(s))
           m == [i \in 1 .. Len(s) - k + 1 |-> l[i + k]]
<1>1. Len(s) \in Nat /\ k \in Nat  OBVIOUS
<1>2. /\ r \in Seq(Marks) /\ Len(r) = Len(s) - k
      /\ \A i \in 1 .. Len(s) - k : r[i] = s[i + k]
  <2>1. \A i \in k + 1 .. Len(s) : s[i] \in Marks  BY <1>1, ElementOfSeq
  <2>2. /\ r \in Seq(Marks)
        /\ Len(r) = IF k + 1 <= Len(s) THEN Len(s) - (k + 1) + 1 ELSE 0
        /\ \A i \in 1 .. Len(s) - (k + 1) + 1 : r[i] = s[(k + 1) + i - 1]
    BY <1>1, <2>1, SubSeqProperties
  <2> HIDE DEF r
  <2>3. Len(s) - (k + 1) + 1 = Len(s) - k  BY <1>1
  <2>4. \A i \in 1 .. Len(s) - k : (k + 1) + i - 1 = i + k  BY <1>1
  <2>5. Len(r) = Len(s) - k
    <3>1. Len(r) = IF k + 1 <= Len(s) THEN Len(s) - (k + 1) + 1 ELSE 0  BY <2>2
    <3>2. CASE k + 1 <= Len(s)  BY <3>1, <3>2, <2>3
    <3>3. CASE ~(k + 1 <= Len(s))  BY <3>1, <3>3, <1>1
    <3>4. QED  BY <3>2, <3>3
  <2>6. ASSUME NEW i \in 1 .. Len(s) - k  PROVE r[i] = s[i + k]
    <3>1. r[i] = s[(k + 1) + i - 1]  BY <2>2, <2>3
    <3>2. QED  BY <3>1, <2>4
  <2>7. QED  BY <2>2, <2>5, <2>6
<1> HIDE DEF r
<1>3. l \in [1 .. Len(s) + 1 -> Labels]  BY DEF Labelling
<1>4. m \in [1 .. Len(r) + 1 -> Labels]  BY <1>1, <1>2, <1>3
<1>5. ASSUME NEW i \in 1 .. Len(r)  PROVE ReadsOne(m[i], r[i], m[i + 1])
  <2>1. m[i] = l[i + k] /\ m[i + 1] = l[i + k + 1] /\ r[i] = s[i + k]
    <3>1. (i + 1) + k = i + k + 1 /\ i \in 1 .. Len(s) - k /\ i + 1 \in 1 .. Len(s) - k + 1
          /\ i \in 1 .. Len(s) - k + 1
      BY <1>1, <1>2
    <3>2. QED  BY <3>1, <1>2
  <2>2. i + k \in 1 .. Len(s)  BY <1>1, <1>2
  <2>3. ReadsOne(l[i + k], s[i + k], l[i + k + 1])  BY <2>2 DEF Labelling
  <2> HIDE DEF m
  <2>4. QED  BY <2>1, <2>3
<1>6. m[1] = l[k + 1] /\ m[Len(r) + 1] = l[Len(s) + 1]  BY <1>1, <1>2
<1>7. l[k + 1] \in Labels  BY <1>1, <1>3
<1> HIDE DEF m
<1>8. Reads(r, l[k + 1], l[Len(s) + 1])  BY <1>4, <1>5, <1>6 DEF Labelling, Reads
<1>9. QED  BY <1>7, <1>8 DEF r

(***************************************************************************)
(* Lemmas about what a server writes.                                      *)
(***************************************************************************)

\* Where a text is after an ending: between a CR and what may be its LF, or not.
After(ending) == IF ending = <<CR>> THEN "cr" ELSE "line"

LEMMA Associative ==
    ASSUME NEW T, NEW s \in Seq(T), NEW t \in Seq(T), NEW u \in Seq(T)
    PROVE  s \o (t \o u) = (s \o t) \o u
BY ConcatAssociative

LEMMA MarksAssociate ==
    \A s, t, u \in Seq(Marks) : (s \o t) \o u = s \o (t \o u)
BY Associative

LEMMA CutAndJoined ==
    ASSUME NEW T, NEW s \in Seq(T), NEW m \in {1, 2}, NEW k \in 1 .. Len(s)
    PROVE  SubSeq(s, m, k) \o SubSeq(s, k + 1, Len(s)) = SubSeq(s, m, Len(s))
<1>1. Len(s) \in Nat  OBVIOUS
<1>2. m \in 1 .. Len(s) + 1 /\ k \in m - 1 .. Len(s) /\ Len(s) \in k .. Len(s)  BY <1>1
<1>3. QED  BY <1>2, ConcatAdjacentSubSeq

LEMMA TwoOfThem ==
    ASSUME NEW T, NEW x \in T, NEW y \in T
    PROVE  <<x>> \o <<y>> = <<x, y>> /\ Append(<<x>>, y) = <<x, y>>
<1> DEFINE u == <<x>> \o <<y>>
           v == <<x, y>>
<1>1. <<x>> \in Seq(T) /\ <<y>> \in Seq(T) /\ v \in Seq(T)  OBVIOUS
<1>2. Len(<<x>>) = 1 /\ Len(<<y>>) = 1 /\ Len(v) = 2 /\ v[1] = x /\ v[2] = y  OBVIOUS
<1>3. /\ u \in Seq(T) /\ Len(u) = Len(<<x>>) + Len(<<y>>)
      /\ \A i \in 1 .. Len(<<x>>) + Len(<<y>>) :
           u[i] = IF i <= Len(<<x>>) THEN <<x>>[i] ELSE <<y>>[i - Len(<<x>>)]
  BY <1>1, ConcatProperties
<1>4. u \in Seq(T) /\ Len(u) = Len(v) /\ Len(u) = 2 /\ u[1] = x /\ u[2] = y  BY <1>2, <1>3
<1> HIDE DEF u, v
<1>5. \A i \in 1 .. 2 : i = 1 \/ i = 2  OBVIOUS
<1>6. \A i \in 1 .. Len(u) : u[i] = v[i]  BY <1>2, <1>4, <1>5, Zenon
<1>7. u = v  BY <1>1, <1>4, <1>6, SeqEqual, Zenon
<1>8. Append(<<x>>, y) = <<x>> \o <<y>>  BY <1>1, AppendIsConcat
<1>9. QED  BY <1>7, <1>8 DEF u, v

LEMMA MarkTypes ==
    /\ CR \in Marks /\ LF \in Marks /\ CR # LF
    /\ CR.kind = "CR" /\ LF.kind = "LF"
    /\ \A n \in Nat, kind \in Kinds : S(kind, n) \in Marks
    /\ \A n \in Nat, kind \in Kinds \ {"CR", "LF"} : ~EndsLine(S(kind, n))
    /\ EndsLine(CR) /\ EndsLine(LF)
BY DEF CR, LF, S, Marks, Kinds, EndsLine

LEMMA EndingTypes ==
    ASSUME NEW ending \in Endings
    PROVE  ending \in Seq(Marks)
<1>1. CASE ending = <<CR>>  BY <1>1, MarkTypes
<1>2. CASE ending = <<LF>>  BY <1>2, MarkTypes
<1>3. CASE ending = <<CR, LF>>  BY <1>3, MarkTypes
<1>4. QED  BY <1>1, <1>2, <1>3 DEF Endings

\* An ending is read as one when its first character is.
LEMMA ReadsEnding ==
    ASSUME NEW ending \in Endings, NEW a \in Labels, NEW b \in Labels, NEW c \in Labels,
           ReadsOne(a, ending[1], b), b.at = Ended(ending[1]),
           c = [b EXCEPT !.at = After(ending)]
    PROVE  Reads(ending, a, c)
<1>1. CASE ending = <<CR>>
  <2>1. b = c  BY <1>1 DEF After, Ended, Labels
  <2>2. QED  BY <1>1, <2>1, ReadsSingle, MarkTypes
<1>2. CASE ending = <<LF>>
  <2>1. <<LF>> # <<CR>>  BY MarkTypes
  <2>2. b = c  BY <1>2, <2>1, MarkTypes DEF After, Ended, Labels
  <2>3. QED  BY <1>2, <2>2, ReadsSingle, MarkTypes
<1>3. CASE ending = <<CR, LF>>
  <2>1. <<CR, LF>> # <<CR>>  OBVIOUS
  <2>2. b.at = "cr"  BY <1>3 DEF Ended
  <2>3. c = [b EXCEPT !.at = "line"]  BY <1>3, <2>1 DEF After
  <2>4. ReadsOne(b, LF, c)  BY <2>2, <2>3 DEF ReadsOne, ReadsHalf
  <2>5. Reads(<<LF>>, b, c)  BY <2>4, ReadsSingle, MarkTypes
  <2>6. Reads(<<CR>>, a, b)  BY <1>3, ReadsSingle, MarkTypes
  <2>7. <<CR>> \in Seq(Marks) /\ <<LF>> \in Seq(Marks)  BY MarkTypes
  <2>8. <<CR>> \o <<LF>> = <<CR, LF>>  BY MarkTypes, TwoOfThem
  <2>9. Reads(<<CR>> \o <<LF>>, a, c)  BY <2>5, <2>6, <2>7, ReadsBoth
  <2>10. QED  BY <1>3, <2>8, <2>9
<1>4. QED  BY <1>1, <1>2, <1>3 DEF Endings

\* What a field makes of a label.
With(a, x) == IF x.kind = "id" THEN [a EXCEPT !.id = x.n] ELSE [a EXCEPT !.data = Append(@, x)]

LEMMA WithTypes ==
    ASSUME NEW a \in Labels, NEW x \in Marks, NEW at \in {"line", "end", "cr"}
    PROVE  /\ With(a, x) \in Labels /\ [With(a, x) EXCEPT !.at = at] \in Labels
           /\ With(a, x).told = a.told
           /\ [With(a, x) EXCEPT !.at = at].told = a.told
<1>1. CASE x.kind = "id"  BY <1>1 DEF With, Labels, Marks
<1>2. CASE x.kind # "id"
  <2>1. Append(a.data, x) \in Seq(Marks)  BY AppendProperties DEF Labels
  <2>2. QED  BY <1>2, <2>1 DEF With, Labels
<1>3. QED  BY <1>1, <1>2

\* A line is read as its field.
LEMMA ReadsLine ==
    ASSUME NEW kind \in Kinds \ {"CR", "LF"}, NEW n \in Nat, NEW ending \in Endings,
           NEW a \in Labels, a.at # "end"
    PROVE  /\ Line(kind, n, ending) \in Seq(Marks)
           /\ Reads(Line(kind, n, ending), a, [With(a, S(kind, n)) EXCEPT !.at = After(ending)])
<1> DEFINE x == S(kind, n)
           b == [With(a, x) EXCEPT !.at = "end"]
           c == [With(a, x) EXCEPT !.at = Ended(ending[1])]
           d == [With(a, x) EXCEPT !.at = After(ending)]
<1>1. x \in Marks /\ ~EndsLine(x)  BY MarkTypes
<1> HIDE DEF x
<1>2. b \in Labels /\ c \in Labels /\ d \in Labels /\ b.at = "end"
  <2>1. Ended(ending[1]) \in {"line", "end", "cr"} /\ After(ending) \in {"line", "end", "cr"}
    BY DEF Ended, After
  <2>2. With(a, x) \in Labels  BY <1>1, WithTypes
  <2>3. b.at = "end"  BY <2>2 DEF Labels
  <2>4. QED  BY <1>1, <2>1, <2>3, WithTypes
<1>3. ReadsOne(a, x, b)
  <2>1. b = IF x.kind = "id" THEN [a EXCEPT !.at = "end", !.id = x.n]
            ELSE [a EXCEPT !.at = "end", !.data = Append(@, x)]
    BY DEF With, Labels
  <2> HIDE DEF b
  <2>2. QED  BY <1>1, <2>1 DEF ReadsOne, ReadsField
<1>4. Reads(<<x>>, a, b)  BY <1>1, <1>2, <1>3, ReadsSingle
<1>5. ReadsOne(b, ending[1], c)
  <2>1. EndsLine(ending[1])  BY MarkTypes DEF Endings
  <2>2. c = [b EXCEPT !.at = Ended(ending[1])]  OBVIOUS
  <2> HIDE DEF b, c
  <2>3. QED  BY <1>2, <2>1, <2>2 DEF ReadsOne, ReadsEnd
<1>6. c.at = Ended(ending[1]) /\ d = [c EXCEPT !.at = After(ending)]
  <2>1. With(a, x) \in Labels  BY <1>1, WithTypes
  <2>2. QED  BY <2>1 DEF Labels
<1> HIDE DEF b, c, d
<1>7. Reads(ending, b, d)  BY <1>2, <1>5, <1>6, ReadsEnding
<1>8. ending \in Seq(Marks) /\ <<x>> \in Seq(Marks)  BY <1>1, EndingTypes
<1>9. Reads(<<x>> \o ending, a, d)  BY <1>4, <1>7, <1>8, ReadsBoth
<1>10. QED  BY <1>8, <1>9 DEF x, d, Line

\* The blank line, after an event that is whole.
LEMMA ReadsBlankLine ==
    ASSUME NEW ending \in Endings, NEW a \in Labels, a.at = After(ending),
           Whole(a.data), a.id <= Telling(a), Telling(a) \in Nat
    PROVE  Reads(ending, a, [a EXCEPT !.data = <<>>, !.told = Telling(a)])
<1> DEFINE b == [a EXCEPT !.at = Ended(ending[1]), !.data = <<>>, !.told = Telling(a)]
           c == [a EXCEPT !.data = <<>>, !.told = Telling(a)]
<1>1. b \in Labels /\ c \in Labels
  <2>1. <<>> \in Seq(Marks)  BY EmptySeq
  <2>2. Ended(ending[1]) \in {"line", "end", "cr"}  BY DEF Ended
  <2>3. QED  BY <2>1, <2>2 DEF Labels
<1>2. b.at = Ended(ending[1]) /\ c = [b EXCEPT !.at = After(ending)]  BY DEF Labels
<1>3. EndsLine(ending[1])  BY MarkTypes DEF Endings
<1>4. a.at = "line" \/ ending[1] = CR  BY DEF After
<1>5. a.at # "end"  BY DEF After
<1>6. ReadsOne(a, ending[1], b)  BY <1>3, <1>4, <1>5 DEF ReadsOne, ReadsBlank
<1> HIDE DEF b, c
<1>7. Reads(ending, a, c)  BY <1>1, <1>2, <1>6, ReadsEnding
<1>8. QED  BY <1>7 DEF c

\* Where nothing of an event has been read, and nothing is ahead of what is told.
Between(a) == a \in Labels /\ a.at # "end" /\ a.data = <<>> /\ a.id <= a.told

\* Each of the four texts a server writes reads from between two events to between
\* two events.
LEMMA ReadsState ==
    ASSUME NEW a, Between(a), NEW h \in Nat, NEW ending \in Endings
    PROVE  \E b : /\ Between(b) /\ b.told = Larger(a.told, h)
                  /\ Reads(Line("id", h, ending) \o Line("data", h, ending)
                           \o Line("more", h, ending) \o ending, a, b)
<1> DEFINE at == After(ending)
           b1 == [With(a, S("id", h)) EXCEPT !.at = at]
           b2 == [With(b1, S("data", h)) EXCEPT !.at = at]
           b3 == [With(b2, S("more", h)) EXCEPT !.at = at]
           b4 == [b3 EXCEPT !.data = <<>>, !.told = Telling(b3)]
<1>1. at \in {"line", "end", "cr"} /\ at # "end"  BY DEF After
<1>2. /\ "id" \in Kinds \ {"CR", "LF"} /\ "data" \in Kinds \ {"CR", "LF"}
      /\ "more" \in Kinds \ {"CR", "LF"}
  BY DEF Kinds
<1>3. S("id", h) \in Marks /\ S("data", h) \in Marks /\ S("more", h) \in Marks
  BY <1>2, MarkTypes
<1>4. a \in Labels /\ a.at # "end" /\ a.data = <<>>  BY DEF Between
<1> HIDE DEF at
<1>5. b1 \in Labels /\ b1.at = at /\ b1.id = h /\ b1.data = <<>> /\ b1.told = a.told
  <2>1. b1 \in Labels  BY <1>1, <1>3, <1>4, WithTypes
  <2>2. QED  BY <1>4, <2>1 DEF With, S, Labels
<1> HIDE DEF b1
<1>6. b2 \in Labels /\ b2.at = at /\ b2.id = h /\ b2.data = <<S("data", h)>> /\ b2.told = a.told
  <2>1. b2 \in Labels  BY <1>1, <1>3, <1>5, WithTypes
  <2>2. Append(<<>>, S("data", h)) = <<S("data", h)>>  OBVIOUS
  <2>3. S("data", h).kind # "id"  BY DEF S
  <2>4. QED  BY <1>5, <2>1, <2>2, <2>3 DEF With, Labels
<1> HIDE DEF b2
<1>7. /\ b3 \in Labels /\ b3.at = at /\ b3.id = h /\ b3.told = a.told
      /\ b3.data = <<S("data", h), S("more", h)>>
  <2>1. b3 \in Labels  BY <1>1, <1>3, <1>6, WithTypes
  <2>2. Append(<<S("data", h)>>, S("more", h)) = <<S("data", h), S("more", h)>>
    BY <1>3, TwoOfThem
  <2>3. S("more", h).kind # "id"  BY DEF S
  <2>4. QED  BY <1>6, <2>1, <2>2, <2>3 DEF With, Labels
<1> HIDE DEF b3
<1>8. Whole(b3.data)
  <2>1. S("data", h).kind = "data" /\ S("data", h).n = h  BY DEF S
  <2>2. Len(b3.data) = 2 /\ b3.data[1] = S("data", h) /\ b3.data[2] = S("more", h)  BY <1>7
  <2>3. QED  BY <2>1, <2>2 DEF Whole, IsState
<1>9. Telling(b3) = Larger(a.told, h) /\ a.told \in Nat
  <2>1. S("data", h).n = h  BY DEF S
  <2>2. b3.data # <<>> /\ b3.data[1] = S("data", h)  BY <1>7
  <2>3. QED  BY <1>4, <1>7, <2>1, <2>2 DEF Telling, Labels
<1>10. Larger(a.told, h) \in Nat /\ h <= Larger(a.told, h)  BY <1>9 DEF Larger
<1>11. Between(b4) /\ b4.told = Larger(a.told, h)
  <2>1. <<>> \in Seq(Marks)  BY EmptySeq
  <2>2. QED  BY <1>1, <1>7, <1>9, <1>10, <2>1 DEF Between, Labels
<1>12. Reads(ending, b3, b4)
  BY <1>7, <1>8, <1>9, <1>10, ReadsBlankLine DEF at
<1> DEFINE t1 == Line("id", h, ending)
           t2 == Line("data", h, ending)
           t3 == Line("more", h, ending)
<1>13. t1 \in Seq(Marks) /\ Reads(t1, a, b1)  BY <1>2, <1>4, ReadsLine DEF b1, at
<1>14. t2 \in Seq(Marks) /\ Reads(t2, b1, b2)  BY <1>1, <1>2, <1>5, ReadsLine DEF b2, at
<1>15. t3 \in Seq(Marks) /\ Reads(t3, b2, b3)  BY <1>1, <1>2, <1>6, ReadsLine DEF b3, at
<1>16. ending \in Seq(Marks)  BY EndingTypes
<1> HIDE DEF t1, t2, t3, b4
<1>17. t1 \o t2 \in Seq(Marks) /\ Reads(t1 \o t2, a, b2)
  BY <1>13, <1>14, ReadsBoth, ConcatProperties
<1>18. t1 \o t2 \o t3 \in Seq(Marks) /\ Reads(t1 \o t2 \o t3, a, b3)
  BY <1>15, <1>17, ReadsBoth, ConcatProperties
<1>19. Reads(t1 \o t2 \o t3 \o ending, a, b4)
  BY <1>12, <1>16, <1>18, ReadsBoth
<1>20. QED  BY <1>11, <1>19 DEF t1, t2, t3

LEMMA ReadsJunk ==
    ASSUME NEW a, Between(a), NEW h \in Nat, NEW ending \in Endings
    PROVE  \E b : /\ Between(b) /\ b.told = Larger(a.told, h)
                  /\ Reads(Line("id", h, ending) \o Line("junk", h, ending) \o ending, a, b)
<1> DEFINE at == After(ending)
           b1 == [With(a, S("id", h)) EXCEPT !.at = at]
           b2 == [With(b1, S("junk", h)) EXCEPT !.at = at]
           b3 == [b2 EXCEPT !.data = <<>>, !.told = Telling(b2)]
<1>1. at \in {"line", "end", "cr"} /\ at # "end"  BY DEF After
<1>2. "id" \in Kinds \ {"CR", "LF"} /\ "junk" \in Kinds \ {"CR", "LF"}  BY DEF Kinds
<1>3. S("id", h) \in Marks /\ S("junk", h) \in Marks  BY <1>2, MarkTypes
<1>4. a \in Labels /\ a.at # "end" /\ a.data = <<>>  BY DEF Between
<1> HIDE DEF at
<1>5. b1 \in Labels /\ b1.at = at /\ b1.id = h /\ b1.data = <<>> /\ b1.told = a.told
  <2>1. b1 \in Labels  BY <1>1, <1>3, <1>4, WithTypes
  <2>2. QED  BY <1>4, <2>1 DEF With, S, Labels
<1> HIDE DEF b1
<1>6. b2 \in Labels /\ b2.at = at /\ b2.id = h /\ b2.data = <<S("junk", h)>> /\ b2.told = a.told
  <2>1. b2 \in Labels  BY <1>1, <1>3, <1>5, WithTypes
  <2>2. Append(<<>>, S("junk", h)) = <<S("junk", h)>>  OBVIOUS
  <2>3. S("junk", h).kind # "id"  BY DEF S
  <2>4. QED  BY <1>5, <2>1, <2>2, <2>3 DEF With, Labels
<1> HIDE DEF b2
<1>7. Whole(b2.data)
  <2>1. S("junk", h).kind = "junk"  BY DEF S
  <2>2. Len(b2.data) = 1 /\ b2.data[1] = S("junk", h)  BY <1>6
  <2>3. QED  BY <2>1, <2>2 DEF Whole, IsJunk
<1>8. Telling(b2) = Larger(a.told, h) /\ a.told \in Nat
  <2>1. S("junk", h).n = h  BY DEF S
  <2>2. b2.data # <<>> /\ b2.data[1] = S("junk", h)  BY <1>6
  <2>3. QED  BY <1>4, <1>6, <2>1, <2>2 DEF Telling, Labels
<1>9. Larger(a.told, h) \in Nat /\ h <= Larger(a.told, h)  BY <1>8 DEF Larger
<1>10. Between(b3) /\ b3.told = Larger(a.told, h)
  <2>1. <<>> \in Seq(Marks)  BY EmptySeq
  <2>2. QED  BY <1>1, <1>6, <1>8, <1>9, <2>1 DEF Between, Labels
<1>11. Reads(ending, b2, b3)
  BY <1>6, <1>7, <1>8, <1>9, ReadsBlankLine DEF at
<1> DEFINE t1 == Line("id", h, ending)
           t2 == Line("junk", h, ending)
<1>12. t1 \in Seq(Marks) /\ Reads(t1, a, b1)  BY <1>2, <1>4, ReadsLine DEF b1, at
<1>13. t2 \in Seq(Marks) /\ Reads(t2, b1, b2)  BY <1>1, <1>2, <1>5, ReadsLine DEF b2, at
<1>14. ending \in Seq(Marks)  BY EndingTypes
<1> HIDE DEF t1, t2, b3
<1>15. t1 \o t2 \in Seq(Marks) /\ Reads(t1 \o t2, a, b2)
  BY <1>12, <1>13, ReadsBoth, ConcatProperties
<1>16. Reads(t1 \o t2 \o ending, a, b3)
  BY <1>11, <1>14, <1>15, ReadsBoth
<1>17. QED  BY <1>10, <1>16 DEF t1, t2

LEMMA ReadsPing ==
    ASSUME NEW a, Between(a), NEW ending \in Endings
    PROVE  \E b : /\ Between(b) /\ b.told = a.told
                  /\ Reads(Line("ping", 0, ending) \o ending, a, b)
<1> DEFINE at == After(ending)
           b1 == [With(a, S("ping", 0)) EXCEPT !.at = at]
           b2 == [b1 EXCEPT !.data = <<>>, !.told = Telling(b1)]
<1>1. at \in {"line", "end", "cr"} /\ at # "end"  BY DEF After
<1>2. "ping" \in Kinds \ {"CR", "LF"}  BY DEF Kinds
<1>3. S("ping", 0) \in Marks  BY <1>2, MarkTypes
<1>4. a \in Labels /\ a.at # "end" /\ a.data = <<>> /\ a.id <= a.told  BY DEF Between
<1> HIDE DEF at
<1>5. b1 \in Labels /\ b1.at = at /\ b1.id = a.id /\ b1.data = <<S("ping", 0)>>
      /\ b1.told = a.told
  <2>1. b1 \in Labels  BY <1>1, <1>3, <1>4, WithTypes
  <2>2. Append(<<>>, S("ping", 0)) = <<S("ping", 0)>>  OBVIOUS
  <2>3. S("ping", 0).kind # "id"  BY DEF S
  <2>4. QED  BY <1>4, <2>1, <2>2, <2>3 DEF With, Labels
<1> HIDE DEF b1
<1>6. Whole(b1.data)  BY <1>5 DEF Whole, IsPing
<1>7. Telling(b1) = a.told /\ a.told \in Nat
  <2>1. S("ping", 0).n = 0  BY DEF S
  <2>2. b1.data # <<>> /\ b1.data[1] = S("ping", 0)  BY <1>5
  <2>3. a.told \in Nat  BY <1>4 DEF Labels
  <2>4. QED  BY <1>5, <2>1, <2>2, <2>3 DEF Telling, Larger
<1>8. Between(b2) /\ b2.told = a.told
  <2>1. <<>> \in Seq(Marks)  BY EmptySeq
  <2>2. QED  BY <1>1, <1>4, <1>5, <1>7, <2>1 DEF Between, Labels
<1>9. Reads(ending, b1, b2)
  BY <1>4, <1>5, <1>6, <1>7, ReadsBlankLine DEF at
<1> DEFINE t1 == Line("ping", 0, ending)
<1>10. t1 \in Seq(Marks) /\ Reads(t1, a, b1)  BY <1>2, <1>4, ReadsLine DEF b1, at
<1>11. ending \in Seq(Marks)  BY EndingTypes
<1> HIDE DEF t1, b2
<1>12. Reads(t1 \o ending, a, b2)  BY <1>9, <1>10, <1>11, ReadsBoth
<1>13. QED  BY <1>8, <1>12 DEF t1

LEMMA ReadsCheckpoint ==
    ASSUME NEW a, Between(a), NEW ending \in Endings, NEW k \in Nat, k <= a.told
    PROVE  \E b : /\ Between(b) /\ b.told = a.told
                  /\ Reads(Line("id", k, ending) \o ending, a, b)
<1> DEFINE at == After(ending)
           b1 == [With(a, S("id", k)) EXCEPT !.at = at]
           b2 == [b1 EXCEPT !.data = <<>>, !.told = Telling(b1)]
<1>1. at \in {"line", "end", "cr"} /\ at # "end"  BY DEF After
<1>2. "id" \in Kinds \ {"CR", "LF"}  BY DEF Kinds
<1>3. S("id", k) \in Marks  BY <1>2, MarkTypes
<1>4. a \in Labels /\ a.at # "end" /\ a.data = <<>>  BY DEF Between
<1> HIDE DEF at
<1>5. b1 \in Labels /\ b1.at = at /\ b1.id = k /\ b1.data = <<>> /\ b1.told = a.told
  <2>1. b1 \in Labels  BY <1>1, <1>3, <1>4, WithTypes
  <2>2. QED  BY <1>4, <2>1 DEF With, S, Labels
<1> HIDE DEF b1
<1>6. Whole(b1.data) /\ Telling(b1) = a.told /\ a.told \in Nat
  BY <1>4, <1>5 DEF Whole, Telling, Labels
<1>7. Between(b2) /\ b2.told = a.told
  <2>1. <<>> \in Seq(Marks)  BY EmptySeq
  <2>2. QED  BY <1>1, <1>5, <1>6, <2>1 DEF Between, Labels
<1>8. Reads(ending, b1, b2)
  BY <1>5, <1>6, ReadsBlankLine DEF at
<1> DEFINE t1 == Line("id", k, ending)
<1>9. t1 \in Seq(Marks) /\ Reads(t1, a, b1)  BY <1>2, <1>4, ReadsLine DEF b1, at
<1>10. ending \in Seq(Marks)  BY EndingTypes
<1> HIDE DEF t1, b2
<1>11. Reads(t1 \o ending, a, b2)  BY <1>8, <1>9, <1>10, ReadsBoth
<1>12. QED  BY <1>7, <1>11 DEF t1

(***************************************************************************)
(* The parts of the invariant.                                             *)
(***************************************************************************)
States == {"dialing", "open", "feeding", "yielded", "sleeping", "raised", "closed"}

\* The symbols a server can have written by now, and a parser of them.
Symbols == [kind : Kinds, n : 0 .. happened]
Parsers == [buffer : Seq(Symbols), data : Seq(Symbols), idBuffer : Nat, lastId : Nat,
            pendingCR : BOOLEAN]

TypeOK ==
    /\ happened \in Nat /\ known \in 0 .. happened /\ wire \in Seq(Symbols) /\ chatter \in Nat
    /\ pc \in States
    /\ parser \in Parsers
    /\ event \in Seq(Symbols) /\ cursor \in Nat /\ resume \in Nat
    /\ delivered \in BOOLEAN /\ failures \in Nat /\ faults \in Nat
    /\ told \in 0 .. happened /\ missed \in 0 .. happened /\ fruitless \in Nat

\* No more than what is read makes a CR wait, and no connection leaves text behind.
Tidy ==
    /\ parser.pendingCR => parser.buffer = <<>>
    /\ ~Connected => wire = <<>>

\* What is to be read of the open connection.
Text == parser.buffer \o wire

\* A label says where the parser p is: what it holds is what was read, and a LF to come
\* is the half of an ending exactly if p remembers the CR.
IsAt(a, p, latest, text) ==
    /\ a \in Labels /\ a.at # "end"
    /\ a.data = p.data /\ a.id = p.idBuffer /\ a.told = latest
    /\ text # <<>> /\ text[1] = LF => (a.at = "cr" <=> p.pendingCR)

\* The text reads from where the parser is to between two events, where all the
\* connection has told is told.
Readable ==
    Connected =>
        \E a, b : /\ IsAt(a, parser, Larger(told, missed), Text)
                  /\ Reads(Text, a, b)
                  /\ Between(b) /\ known <= b.told

\* What a cursor is, or is about to be, set to.
Honest == ResumesFromTheTold /\ parser.lastId <= Larger(told, missed)

\* The count of failures is right, and a connection that delivered has none behind it.
Counted ==
    /\ failures \in {fruitless, fruitless + 1}
    /\ Connected /\ delivered => failures = 0 /\ fruitless = 0

ListenerInv == TypeOK /\ Tidy /\ Readable /\ Honest /\ EventsArriveWhole /\ Counted

USE DEF States, Parsers

LEMMA SymbolTypes ==
    ASSUME TypeOK
    PROVE  /\ Symbols \subseteq Marks
           /\ Text \in Seq(Symbols) /\ Text \in Seq(Marks)
           /\ parser.buffer \in Seq(Symbols) /\ parser.data \in Seq(Symbols)
           /\ parser.buffer \in Seq(Marks) /\ parser.data \in Seq(Marks)
           /\ wire \in Seq(Symbols) /\ wire \in Seq(Marks)
           /\ \A i \in DOMAIN parser.data : parser.data[i].n \in 0 .. happened
           /\ Larger(told, missed) \in 0 .. happened
<1>1. Symbols \subseteq Marks  BY DEF Symbols, Marks, TypeOK
<1>2. parser.buffer \in Seq(Symbols) /\ parser.data \in Seq(Symbols) /\ wire \in Seq(Symbols)
  BY DEF TypeOK
<1>3. Text \in Seq(Symbols)  BY <1>2, ConcatProperties DEF Text
<1>4. \A s \in Seq(Symbols) : s \in Seq(Marks)  BY <1>1, SeqMonotonic
<1>5. \A i \in DOMAIN parser.data : parser.data[i].n \in 0 .. happened
  <2>1. TAKE i \in DOMAIN parser.data
  <2>2. parser.data[i] \in Symbols  BY <1>2, ElementOfSeq, LenProperties
  <2>3. QED  BY <2>2 DEF Symbols
<1>6. Larger(told, missed) \in 0 .. happened  BY DEF TypeOK, Larger
<1>7. QED  BY <1>1, <1>2, <1>3, <1>4, <1>5, <1>6

\* Where the next line of the buffer ends, as far as the listener meets it.
LEMMA LineEndIs ==
    ASSUME TypeOK
    PROVE  LET buffer == parser.buffer IN
           /\ buffer = <<>> => LineEnd = 0
           /\ buffer # <<>> /\ EndsLine(buffer[1]) => LineEnd = 1
           /\ Len(buffer) = 1 /\ ~EndsLine(buffer[1]) => LineEnd = 0
           /\ Len(buffer) > 1 /\ ~EndsLine(buffer[1]) /\ EndsLine(buffer[2]) => LineEnd = 2
<1> DEFINE buffer == parser.buffer
           Is == {i \in 1 .. Len(buffer) : EndsLine(buffer[i])}
<1>1. buffer \in Seq(Marks) /\ Len(buffer) \in Nat  BY SymbolTypes, LenProperties
<1>2. Is = {} => LineEnd = 0  BY DEF LineEnd, SelectInSeq
<1>3. ASSUME NEW k \in Is, \A i \in Is : k <= i
      PROVE  LineEnd = k
  <2>1. LineEnd = Min(Is)  BY <1>3 DEF LineEnd, SelectInSeq
  <2>2. \A i \in Is : i \in Nat  BY <1>1
  <2> HIDE DEF Is
  <2>3. \A i \in Is : (\A j \in Is : i <= j) => i = k  BY <1>3, <2>2
  <2>4. Min(Is) = k  BY <1>3, <2>3 DEF Min
  <2>5. QED  BY <2>1, <2>4
<1>4. \A i \in Nat : i \in Is <=> i \in 1 .. Len(buffer) /\ EndsLine(buffer[i])
  BY <1>1
<1>5. \A i \in Is : i \in 1 .. Len(buffer) /\ EndsLine(buffer[i])  OBVIOUS
<1>6. buffer = <<>> => Len(buffer) = 0  OBVIOUS
<1>7. buffer # <<>> => Len(buffer) > 0  BY <1>1, EmptySeq
<1> HIDE DEF Is, buffer
<1>8. CASE buffer = <<>>
  <2>1. Is = {}  BY <1>5, <1>6, <1>8
  <2>2. QED  BY <1>2, <1>6, <1>8, <2>1 DEF buffer
<1>9. CASE buffer # <<>> /\ EndsLine(buffer[1])
  <2>1. 1 \in Is /\ \A i \in Is : 1 <= i  BY <1>1, <1>4, <1>5, <1>7, <1>9
  <2>2. LineEnd = 1  BY <1>3, <2>1
  <2>3. QED  BY <1>9, <2>2 DEF buffer
<1>10. CASE buffer # <<>> /\ ~EndsLine(buffer[1])
  <2>1. \A i \in Is : i >= 2
    <3>1. TAKE i \in Is
    <3>2. i \in 1 .. Len(buffer) /\ EndsLine(buffer[i])  BY <1>5
    <3>3. i # 1  BY <3>2, <1>10
    <3>4. QED  BY <3>2, <3>3, <1>1
  <2>2. Len(buffer) = 1 => LineEnd = 0
    <3>1. SUFFICES ASSUME Len(buffer) = 1  PROVE LineEnd = 0  OBVIOUS
    <3>2. Is = {}  BY <1>5, <2>1, <3>1
    <3>3. QED  BY <1>2, <3>2
  <2>3. Len(buffer) > 1 /\ EndsLine(buffer[2]) => LineEnd = 2
    <3>1. SUFFICES ASSUME Len(buffer) > 1, EndsLine(buffer[2])  PROVE LineEnd = 2  OBVIOUS
    <3>2. 2 \in Is  BY <1>1, <1>4, <3>1
    <3>3. QED  BY <1>3, <2>1, <3>2
  <2>4. QED  BY <1>10, <2>2, <2>3 DEF buffer
<1>11. QED  BY <1>8, <1>9, <1>10 DEF buffer

\* The parser's own step takes off the text what the labelling says: a line's field and
\* its ending, or a blank line; ...
LineReads(a, d) ==
    \/ LineEnd = 1 /\ ReadsBlank(a, parser.buffer[1], d)
    \/ LineEnd = 2 /\ \E c \in Labels : /\ ReadsField(a, parser.buffer[1], c)
                                        /\ ReadsEnd(c, parser.buffer[2], d)

Left == SubSeq(parser.buffer, NextLine, Len(parser.buffer))

\* ... what is left is readable from where the parser then is.
Follows(d, e, b, text, pending) ==
    /\ e.at # "end" /\ e.data = d.data /\ e.id = d.id /\ e.told = d.told
    /\ Reads(text, e, b)
    /\ text # <<>> /\ text[1] = LF => (e.at = "cr" <=> pending)

LEMMA LineTaken ==
    ASSUME TypeOK, Tidy, LineEnd # 0,
           NEW a, NEW b, IsAt(a, parser, Larger(told, missed), Text), Reads(Text, a, b)
    PROVE  /\ parser.buffer # <<>> /\ LineEnd \in {1, 2}
           /\ Left \in Seq(Symbols) /\ Rest.pendingCR \in BOOLEAN
           /\ Rest.pendingCR => Left = <<>>
           /\ \E d, e \in Labels : /\ LineReads(a, d)
                                   /\ Follows(d, e, b, Left \o wire, Rest.pendingCR)
<1> DEFINE buffer == parser.buffer
           n == Len(buffer)
           rest == SubSeq(buffer, NextLine, n)
<1>1. /\ buffer \in Seq(Marks) /\ buffer \in Seq(Symbols) /\ wire \in Seq(Marks) /\ n \in Nat
      /\ Text \in Seq(Marks) /\ Len(wire) \in Nat
  BY SymbolTypes, LenProperties
<1>2. buffer # <<>> /\ n > 0
  <2>1. buffer # <<>>  BY LineEndIs
  <2>2. QED  BY <2>1, <1>1, EmptySeq
<1>3. /\ Len(Text) = n + Len(wire)
      /\ \A i \in 1 .. n : Text[i] = buffer[i] /\ buffer[i] \in Marks
  <2>1. /\ Len(Text) = n + Len(wire)
        /\ \A i \in 1 .. n + Len(wire) : Text[i] = IF i <= n THEN buffer[i] ELSE wire[i - n]
    BY <1>1, ConcatProperties DEF Text
  <2>2. \A i \in 1 .. n : buffer[i] \in Marks  BY <1>1, ElementOfSeq
  <2> HIDE DEF buffer, n
  <2>3. QED  BY <1>1, <2>1, <2>2
<1>4. PICK l : Labelling(l, Text) /\ l[1] = a /\ l[Len(Text) + 1] = b  BY DEF Reads
<1> HIDE DEF n
<1>5. \A i \in 1 .. n : l[i] \in Labels /\ l[i + 1] \in Labels /\ ReadsOne(l[i], Text[i], l[i + 1])
  <2>1. TAKE i \in 1 .. n
  <2>2. i \in 1 .. Len(Text) /\ i \in 1 .. Len(Text) + 1 /\ i + 1 \in 1 .. Len(Text) + 1
    BY <1>1, <1>3
  <2>3. QED  BY <2>2, <1>4 DEF Labelling
<1>6. a \in Labels /\ a.at # "end" /\ (Text[1] = LF => (a.at = "cr" <=> parser.pendingCR))
  <2>1. Text # <<>>  BY <1>1, <1>2, <1>3, EmptySeq
  <2>2. QED  BY <2>1 DEF IsAt
<1>7. ~parser.pendingCR  BY <1>2 DEF Tidy
\* The line: either only its ending, or a field and the ending.
<1>8. \/ LineEnd = 1 /\ ReadsBlank(a, buffer[1], l[2])
      \/ LineEnd = 2 /\ n > 1 /\ ReadsField(a, buffer[1], l[2]) /\ ReadsEnd(l[2], buffer[2], l[3])
  <2>1. ReadsOne(a, buffer[1], l[2])  BY <1>1, <1>2, <1>3, <1>4, <1>5
  <2>2. CASE EndsLine(buffer[1])
    <3>1. LineEnd = 1  BY <1>2, <2>2, LineEndIs
    <3>2. ~ReadsHalf(a, buffer[1], l[2])
      <4>1. buffer[1] = Text[1]  BY <1>1, <1>2, <1>3
      <4>2. QED  BY <1>6, <1>7, <4>1 DEF ReadsHalf
    <3>3. QED  BY <2>1, <2>2, <3>1, <3>2, <1>6 DEF ReadsOne, ReadsField, ReadsEnd
  <2>3. CASE ~EndsLine(buffer[1])
    <3>1. n > 1
      <4>1. n # 1  BY <2>3, LineEndIs DEF n
      <4>2. QED  BY <4>1, <1>1, <1>2
    <3>2. ReadsField(a, buffer[1], l[2])
      BY <1>6, <2>1, <2>3, MarkTypes DEF ReadsOne, ReadsEnd, ReadsBlank, ReadsHalf
    <3>3. l[2].at = "end"  BY <3>2, <1>6 DEF ReadsField, Labels
    <3>4. ReadsOne(l[2], buffer[2], l[3])
      <4>1. 2 \in 1 .. n /\ 2 + 1 = 3  BY <1>1, <3>1
      <4>2. QED  BY <4>1, <1>3, <1>5
    <3>5. ReadsEnd(l[2], buffer[2], l[3])
      BY <3>3, <3>4 DEF ReadsOne, ReadsField, ReadsHalf, ReadsBlank
    <3>6. LineEnd = 2  BY <2>3, <3>1, <3>5, LineEndIs DEF ReadsEnd, n
    <3>7. QED  BY <3>1, <3>2, <3>5, <3>6
  <2>4. QED  BY <2>2, <2>3
<1>9. LineEnd \in 1 .. n  BY <1>1, <1>2, <1>8
<1> DEFINE d == l[LineEnd + 1]
<1>10. /\ d \in Labels /\ d.at = Ended(buffer[LineEnd])
       /\ buffer[LineEnd] \in Marks /\ EndsLine(buffer[LineEnd])
  <2>1. CASE LineEnd = 1
    <3>1. ReadsBlank(a, buffer[1], l[2])  BY <1>8, <2>1
    <3>2. l[2] \in Labels
      <4>1. 1 \in 1 .. n /\ 1 + 1 = 2  BY <1>9, <2>1
      <4>2. QED  BY <1>5, <4>1
    <3>3. l[2].at = Ended(buffer[1]) /\ EndsLine(buffer[1])
      BY <3>1, <1>6 DEF ReadsBlank, Labels
    <3>4. LineEnd + 1 = 2  BY <2>1
    <3>5. QED  BY <1>3, <1>9, <2>1, <3>2, <3>3, <3>4
  <2>2. CASE LineEnd = 2
    <3>1. ReadsEnd(l[2], buffer[2], l[3]) /\ l[2] \in Labels /\ l[3] \in Labels
      <4>1. 1 \in 1 .. n /\ 2 \in 1 .. n /\ 1 + 1 = 2 /\ 2 + 1 = 3  BY <1>9, <2>2, <1>1
      <4>2. QED  BY <1>5, <1>8, <2>2, <4>1
    <3>2. QED  BY <1>3, <1>9, <2>2, <3>1 DEF ReadsEnd, Labels
  <2>3. QED  BY <1>8, <2>1, <2>2
\* What follows it: the parser takes the LF of a CR LF along.
<1>11. NextLine \in LineEnd + 1 .. n + 1
  BY <1>1, <1>9 DEF NextLine, n
<1>12. PICK e \in Labels :
        /\ e = l[NextLine]
        /\ e.at # "end" /\ e.data = d.data /\ e.id = d.id /\ e.told = d.told
        /\ NextLine = LineEnd + 1 => e = d
        /\ NextLine = LineEnd + 2 => e.at = "line" /\ LineEnd < n
  <2>1. CASE NextLine = LineEnd + 1
    <3>1. d.at # "end"  BY <1>10 DEF Ended
    <3>2. LineEnd + 1 # LineEnd + 2  BY <1>1, <1>9
    <3>3. QED  BY <1>10, <2>1, <3>1, <3>2
  <2>2. CASE NextLine # LineEnd + 1
    <3>1. NextLine = LineEnd + 2 /\ buffer[LineEnd] = CR /\ LineEnd < n
          /\ buffer[LineEnd + 1] = LF
      BY <2>2 DEF NextLine, n
    <3>2. d.at = "cr"  BY <1>10, <3>1 DEF Ended
    <3>3. LineEnd + 1 \in 1 .. n /\ (LineEnd + 1) + 1 = LineEnd + 2  BY <1>1, <1>9, <3>1
    <3>4. ReadsOne(d, LF, l[LineEnd + 2]) /\ l[LineEnd + 2] \in Labels
      BY <1>3, <1>5, <3>1, <3>3
    <3>5. ReadsHalf(d, LF, l[LineEnd + 2])
      BY <3>2, <3>4, MarkTypes DEF ReadsOne, ReadsField, ReadsEnd, ReadsBlank
    <3>6. l[LineEnd + 2] = [d EXCEPT !.at = "line"]  BY <3>5 DEF ReadsHalf
    <3>7. QED  BY <1>10, <2>2, <3>1, <3>4, <3>6 DEF Labels
  <2>3. QED  BY <2>1, <2>2
<1>13. /\ rest \in Seq(Symbols) /\ rest \in Seq(Marks)
       /\ rest \o wire = SubSeq(Text, NextLine, Len(Text))
       /\ (LineEnd = n => rest = <<>>)
       /\ rest \o wire # <<>> => (rest \o wire)[1] = Text[NextLine]
  <2>1. /\ rest \in Seq(Symbols) /\ rest \in Seq(Marks)
        /\ Len(rest) = n + 1 - NextLine
        /\ \A i \in 1 .. n + 1 - NextLine : rest[i] = buffer[NextLine + i - 1]
    <3>1. NextLine \in Int /\ NextLine >= 1 /\ NextLine <= n + 1  BY <1>1, <1>9, <1>11
    <3>2. \A i \in NextLine .. n : i \in 1 .. n  BY <1>1, <3>1
    <3>3. \A i \in NextLine .. n : buffer[i] \in Symbols /\ buffer[i] \in Marks
      BY <1>1, <3>2, ElementOfSeq DEF n
    <3>4. /\ rest \in Seq(Symbols) /\ rest \in Seq(Marks)
          /\ Len(rest) = IF NextLine <= n THEN n - NextLine + 1 ELSE 0
          /\ \A i \in 1 .. n - NextLine + 1 : rest[i] = buffer[NextLine + i - 1]
      BY <1>1, <3>1, <3>3, SubSeqProperties
    <3>5. n - NextLine + 1 = n + 1 - NextLine  BY <1>1, <3>1
    <3> HIDE DEF rest
    <3>6. QED  BY <1>1, <3>1, <3>4, <3>5
  <2> DEFINE left == rest \o wire
             what == SubSeq(Text, NextLine, Len(Text))
  <2>2. NextLine \in Nat /\ NextLine >= 1 /\ NextLine <= n + 1  BY <1>1, <1>9, <1>11
  <2>3. /\ left \in Seq(Marks) /\ Len(left) = Len(rest) + Len(wire)
        /\ \A i \in 1 .. Len(rest) + Len(wire) :
             left[i] = IF i <= Len(rest) THEN rest[i] ELSE wire[i - Len(rest)]
    BY <1>1, <2>1, ConcatProperties
  <2>4. /\ what \in Seq(Marks)
        /\ Len(what) = Len(Text) + 1 - NextLine
        /\ \A i \in 1 .. Len(Text) + 1 - NextLine : what[i] = Text[NextLine + i - 1]
    <3>1. NextLine \in Int /\ Len(Text) \in Int /\ NextLine <= Len(Text) + 1
      BY <1>1, <1>3, <2>2
    <3>2. \A i \in NextLine .. Len(Text) : Text[i] \in Marks
      <4>1. \A i \in NextLine .. Len(Text) : i \in 1 .. Len(Text)  BY <2>2, <3>1
      <4>2. QED  BY <1>1, <4>1, ElementOfSeq
    <3>3. /\ what \in Seq(Marks)
          /\ Len(what) = IF NextLine <= Len(Text) THEN Len(Text) - NextLine + 1 ELSE 0
          /\ \A i \in 1 .. Len(Text) - NextLine + 1 : what[i] = Text[NextLine + i - 1]
      BY <3>1, <3>2, SubSeqProperties
    <3>4. Len(Text) - NextLine + 1 = Len(Text) + 1 - NextLine  BY <3>1
    <3> HIDE DEF what
    <3>5. QED  BY <3>1, <3>3, <3>4
  <2>5. Text = buffer \o wire  BY DEF Text
  <2>6. \A i \in 1 .. n + Len(wire) : Text[i] = IF i <= n THEN buffer[i] ELSE wire[i - n]
    BY <1>1, ConcatProperties DEF Text, n
  <2> HIDE DEF rest, left, what, buffer
  <2>7. Len(left) = Len(what) /\ Len(what) = n + Len(wire) + 1 - NextLine
    BY <1>1, <1>3, <2>1, <2>2, <2>3, <2>4
  <2>8. ASSUME NEW i \in 1 .. Len(left)  PROVE left[i] = what[i]
    <3>1. what[i] = Text[NextLine + i - 1]  BY <2>4, <2>7
    <3>2. NextLine + i - 1 \in 1 .. n + Len(wire)  BY <1>1, <2>2, <2>7
    <3>3. CASE i <= Len(rest)
      <4>1. left[i] = rest[i] /\ rest[i] = buffer[NextLine + i - 1]
        BY <1>1, <2>1, <2>2, <2>3, <3>3
      <4>2. NextLine + i - 1 <= n  BY <1>1, <2>1, <2>2, <3>3
      <4>3. QED  BY <2>6, <3>1, <3>2, <4>1, <4>2
    <3>4. CASE ~(i <= Len(rest))
      <4>1. left[i] = wire[i - Len(rest)]  BY <2>3, <3>4
      <4>2. ~(NextLine + i - 1 <= n) /\ (NextLine + i - 1) - n = i - Len(rest)
        BY <1>1, <2>1, <2>2, <3>4
      <4>3. QED  BY <2>6, <3>1, <3>2, <4>1, <4>2
    <3>5. QED  BY <3>3, <3>4
  <2>9. left = what  BY <2>3, <2>4, <2>7, <2>8, SeqEqual
  <2>10. LineEnd = n => rest = <<>>
    <3>1. SUFFICES ASSUME LineEnd = n  PROVE rest = <<>>  OBVIOUS
    <3>2. Len(rest) = 0  BY <1>1, <1>11, <2>1, <3>1
    <3>3. QED  BY <2>1, <3>2
  <2>11. left # <<>> => left[1] = Text[NextLine]
    <3>1. SUFFICES ASSUME left # <<>>  PROVE left[1] = Text[NextLine]  OBVIOUS
    <3>2. Len(left) > 0 /\ Len(left) \in Nat  BY <2>3, <3>1, EmptySeq, LenProperties
    <3>3. what[1] = Text[NextLine + 1 - 1]  BY <2>4, <2>7, <3>2
    <3>4. NextLine + 1 - 1 = NextLine  BY <2>2
    <3>5. QED  BY <2>9, <3>3, <3>4
  <2>12. QED  BY <2>1, <2>9, <2>10, <2>11 DEF left, what
<1>14. Reads(rest \o wire, e, b)
  <2>1. NextLine - 1 \in 0 .. Len(Text) /\ (NextLine - 1) + 1 = NextLine
    BY <1>1, <1>3, <1>9, <1>11
  <2> HIDE DEF rest
  <2>2. Reads(SubSeq(Text, (NextLine - 1) + 1, Len(Text)), l[(NextLine - 1) + 1], l[Len(Text) + 1])
    BY <1>1, <1>4, <2>1, ReadsRest
  <2>3. QED  BY <1>4, <1>12, <1>13, <2>1, <2>2
<1>15. Rest.pendingCR = (buffer[LineEnd] = CR /\ LineEnd = n)
  BY DEF Rest, TypeOK, n
<1>16. rest \o wire # <<>> /\ (rest \o wire)[1] = LF => (e.at = "cr" <=> Rest.pendingCR)
  <2>1. SUFFICES ASSUME rest \o wire # <<>>, (rest \o wire)[1] = LF
                 PROVE  e.at = "cr" <=> Rest.pendingCR
    OBVIOUS
  <2>2. CASE NextLine = LineEnd + 2
    <3>1. e.at = "line" /\ LineEnd # n  BY <1>1, <1>9, <1>12, <2>2
    <3>2. QED  BY <1>15, <3>1
  <2>3. CASE NextLine = LineEnd + 1
    <3>1. e = d /\ Text[NextLine] = LF  BY <1>12, <1>13, <2>1, <2>3
    <3>2. CASE buffer[LineEnd] = CR
      <4>1. e.at = "cr"  BY <1>10, <3>1, <3>2 DEF Ended
      <4>2. LineEnd = n
        <5>1. SUFFICES ASSUME LineEnd < n  PROVE FALSE  BY <1>1, <1>9
        <5>2. LineEnd + 1 \in 1 .. n  BY <1>1, <1>9, <5>1
        <5>3. buffer[LineEnd + 1] = LF  BY <1>3, <2>3, <3>1, <5>2
        <5>4. NextLine = LineEnd + 2  BY <3>2, <5>1, <5>3 DEF NextLine, n
        <5>5. QED  BY <1>1, <1>9, <2>3, <5>4
      <4>3. QED  BY <1>15, <3>2, <4>1, <4>2
    <3>3. CASE buffer[LineEnd] # CR
      <4>1. e.at = "line"  BY <1>10, <3>1, <3>3 DEF Ended
      <4>2. QED  BY <1>15, <3>3, <4>1
    <3>4. QED  BY <3>2, <3>3
  <2>4. NextLine = LineEnd + 1 \/ NextLine = LineEnd + 2  BY DEF NextLine
  <2>5. QED  BY <2>2, <2>3, <2>4
<1>17. Rest.pendingCR \in BOOLEAN /\ (Rest.pendingCR => rest = <<>>)
  BY <1>13, <1>15
<1>18. LineReads(a, d)
  <2>1. CASE LineEnd = 1
    <3>1. LineEnd + 1 = 2  BY <2>1
    <3>2. ReadsBlank(a, buffer[1], d)  BY <1>8, <2>1, <3>1
    <3>3. QED  BY <2>1, <3>2 DEF LineReads
  <2>2. CASE LineEnd = 2
    <3>1. LineEnd + 1 = 3  BY <2>2
    <3>2. ReadsField(a, buffer[1], l[2]) /\ ReadsEnd(l[2], buffer[2], d)  BY <1>8, <2>2, <3>1
    <3>3. l[2] \in Labels
      <4>1. 1 \in 1 .. n /\ 1 + 1 = 2  BY <1>1, <1>9
      <4>2. QED  BY <1>5, <4>1
    <3>4. QED  BY <2>2, <3>2, <3>3 DEF LineReads
  <2>3. QED  BY <1>8, <2>1, <2>2
<1>19. rest = Left  BY DEF n, Left
<1> HIDE DEF rest, d
<1>20. rest \in Seq(Symbols)  BY <1>13
<1>21. d \in Labels  BY <1>10
<1>22. Follows(d, e, b, Left \o wire, Rest.pendingCR)
  BY <1>12, <1>14, <1>16, <1>19 DEF Follows
<1>23. LineEnd \in {1, 2}  BY <1>8
<1>24. QED  BY <1>2, <1>12, <1>17, <1>18, <1>19, <1>20, <1>21, <1>22, <1>23

\* What the parser is once the line is taken off it.
LEMMA RestIs ==
    ASSUME TypeOK, Tidy, Readable, pc = "feeding", LineEnd # 0
    PROVE  /\ Rest \in Parsers /\ Rest.buffer = Left
           /\ Rest.data = parser.data /\ Rest.idBuffer = parser.idBuffer
           /\ Rest.lastId = parser.lastId
<1>1. PICK a, b : IsAt(a, parser, Larger(told, missed), Text) /\ Reads(Text, a, b)
  BY DEF Readable, Connected
<1>2. Left \in Seq(Symbols) /\ Rest.pendingCR \in BOOLEAN  BY <1>1, LineTaken
<1>3. /\ Rest.buffer = Left
      /\ Rest.data = parser.data /\ Rest.idBuffer = parser.idBuffer
      /\ Rest.lastId = parser.lastId
      /\ Rest.buffer \in Seq(Symbols) /\ Rest.pendingCR \in BOOLEAN => Rest \in Parsers
  BY DEF Rest, Left, TypeOK
<1>4. QED  BY <1>2, <1>3

\* What all the ways of reading a line have in common: the parser is that of the line
\* taken off, with data and ids of its own.
LEMMA LineRead ==
    ASSUME TypeOK, Tidy, Readable, pc = "feeding", LineEnd # 0,
           parser'.buffer = Rest.buffer, parser'.pendingCR = Rest.pendingCR,
           UNCHANGED <<happened, wire>>
    PROVE  /\ LineEnd \in {1, 2} /\ parser.buffer # <<>> /\ Symbols' = Symbols
           /\ parser'.pendingCR => parser'.buffer = <<>>
           /\ \E a, b, d, e \in Labels :
                /\ IsAt(a, parser, Larger(told, missed), Text)
                /\ Between(b) /\ known <= b.told
                /\ LineReads(a, d) /\ Follows(d, e, b, Text', parser'.pendingCR)
<1>1. PICK a, b : /\ IsAt(a, parser, Larger(told, missed), Text)
                  /\ Reads(Text, a, b) /\ Between(b) /\ known <= b.told
  BY DEF Readable, Connected
<1>2. /\ parser.buffer # <<>> /\ LineEnd \in {1, 2}
      /\ Rest.pendingCR => Left = <<>>
      /\ \E d, e \in Labels : /\ LineReads(a, d)
                              /\ Follows(d, e, b, Left \o wire, Rest.pendingCR)
  BY <1>1, LineTaken
<1>3. Rest.buffer = Left  BY RestIs
<1>4. Symbols' = Symbols /\ Text' = Left \o wire  BY <1>3 DEF Symbols, Text
<1>5. a \in Labels /\ b \in Labels  BY <1>1 DEF IsAt, Between
<1>6. PICK d, e \in Labels : /\ LineReads(a, d)
                             /\ Follows(d, e, b, Left \o wire, Rest.pendingCR)
  BY <1>2
<1>7. Follows(d, e, b, Text', parser'.pendingCR)  BY <1>4, <1>6, Zenon
<1>8. parser'.pendingCR => parser'.buffer = <<>>  BY <1>2, <1>3
<1>9. QED  BY <1>1, <1>2, <1>4, <1>5, <1>6, <1>7, <1>8

(***************************************************************************)
(* The server's steps.                                                     *)
(***************************************************************************)

LEMMA WrittenTypes ==
    ASSUME TypeOK, NEW ending \in Endings, NEW kind \in Kinds \ {"CR", "LF"},
           NEW n \in 0 .. happened
    PROVE  /\ ending \in Seq(Symbols)
           /\ Line(kind, n, ending) \in Seq(Symbols)
           /\ Line(kind, n, ending) # <<>>
           /\ Line(kind, n, ending)[1] = S(kind, n)
<1>1. CR \in Symbols /\ LF \in Symbols /\ S(kind, n) \in Symbols
  BY DEF CR, LF, S, Symbols, Kinds, TypeOK
<1>2. ending \in Seq(Symbols)
  <2>1. CASE ending = <<CR>>  BY <1>1, <2>1
  <2>2. CASE ending = <<LF>>  BY <1>1, <2>2
  <2>3. CASE ending = <<CR, LF>>  BY <1>1, <2>3
  <2>4. QED  BY <2>1, <2>2, <2>3 DEF Endings
<1> DEFINE x == S(kind, n)
<1>3. x \in Symbols  BY <1>1
<1> HIDE DEF x
<1>4. <<x>> \in Seq(Symbols) /\ Len(<<x>>) = 1 /\ <<x>>[1] = x  BY <1>3
<1>5. /\ <<x>> \o ending \in Seq(Symbols)
      /\ Len(<<x>> \o ending) = Len(<<x>>) + Len(ending)
      /\ \A i \in 1 .. Len(<<x>>) + Len(ending) : (<<x>> \o ending)[i] =
           IF i <= Len(<<x>>) THEN <<x>>[i] ELSE ending[i - Len(<<x>>)]
  BY <1>2, <1>4, ConcatProperties
<1>6. Len(ending) \in Nat  BY <1>2, LenProperties
<1>7. (<<x>> \o ending)[1] = x /\ Len(<<x>> \o ending) > 0  BY <1>4, <1>5, <1>6
<1>8. <<x>> \o ending # <<>>  BY <1>5, <1>7, EmptySeq
<1>9. QED  BY <1>2, <1>5, <1>7, <1>8 DEF x, Line

\* A text that starts as a line does, with more after it.
LEMMA WrittenOn ==
    ASSUME NEW T, NEW t \in Seq(T), NEW u \in Seq(T), t # <<>>
    PROVE  t \o u \in Seq(T) /\ t \o u # <<>> /\ (t \o u)[1] = t[1]
<1>1. /\ t \o u \in Seq(T) /\ Len(t \o u) = Len(t) + Len(u)
      /\ \A i \in 1 .. Len(t) + Len(u) : (t \o u)[i] = IF i <= Len(t) THEN t[i] ELSE u[i - Len(t)]
  BY ConcatProperties
<1>2. Len(t) \in Nat /\ Len(t) > 0 /\ Len(u) \in Nat  BY EmptySeq, LenProperties
<1>3. QED  BY <1>1, <1>2, EmptySeq

LEMMA TextOn ==
    ASSUME TypeOK, NEW t \in Seq(Marks)
    PROVE  parser.buffer \o (wire \o t) = Text \o t
<1>1. parser.buffer \in Seq(Marks) /\ wire \in Seq(Marks)  BY SymbolTypes
<1> DEFINE held == parser.buffer
<1>2. held \in Seq(Marks)  BY <1>1
<1> HIDE DEF held
<1>3. held \o (wire \o t) = (held \o wire) \o t  BY <1>1, <1>2, Associative
<1>4. QED  BY <1>3 DEF Text, held

\* What is written reads on from where the text ended.
LEMMA Emitted ==
    ASSUME ListenerInv, NEW t \in Seq(Symbols), t # <<>>, t[1] # LF, Emit(t),
           known' \in 0 .. happened, chatter' \in Nat,
           \A b : Between(b) /\ known <= b.told =>
                \E c : Between(c) /\ known' <= c.told /\ Reads(t, b, c)
    PROVE  ListenerInv'
<1> USE DEF ListenerInv
<1>1. /\ Connected /\ wire' = wire \o t
      /\ UNCHANGED <<happened, pc, parser, event, cursor, resume, delivered, failures, faults,
                     told, missed, fruitless>>
  BY DEF Emit, stream
<1>2. Symbols' = Symbols /\ Connected' = Connected  BY <1>1 DEF Symbols, Connected
<1>3. wire \in Seq(Symbols) /\ t \in Seq(Marks) /\ wire \in Seq(Marks)
      /\ parser.buffer \in Seq(Marks) /\ Text \in Seq(Marks)
  BY SymbolTypes, SeqMonotonic
<1>4. wire \o t \in Seq(Symbols)  BY <1>3, ConcatProperties
<1>5. TypeOK'
  <2>1. wire' \in Seq(Symbols')  BY <1>1, <1>2, <1>4
  <2>2. QED  BY <1>1, <1>2, <2>1 DEF TypeOK
<1>6. Tidy'  BY <1>1, <1>2 DEF Tidy
<1>7. Text' = Text \o t
  <2>1. parser.buffer \o (wire \o t) = Text \o t  BY <1>3, TextOn
  <2>2. QED  BY <1>1, <2>1 DEF Text
<1>8. Readable'
  <2>1. PICK a, b : /\ IsAt(a, parser, Larger(told, missed), Text) /\ Reads(Text, a, b)
                    /\ Between(b) /\ known <= b.told
    BY <1>1 DEF Readable
  <2>2. PICK c : Between(c) /\ known' <= c.told /\ Reads(t, b, c)  BY <2>1
  <2>3. Reads(Text \o t, a, c)  BY <1>3, <2>1, <2>2, ReadsBoth
  <2>4. IsAt(a, parser, Larger(told, missed), Text \o t)
    <3>1. CASE Text = <<>>
      <4>1. Text \o t = t  BY <1>3, <3>1, ConcatEmptySeq
      <4>2. QED  BY <2>1, <4>1 DEF IsAt
    <3>2. CASE Text # <<>>
      <4>1. (Text \o t)[1] = Text[1]  BY <1>3, <3>2, WrittenOn
      <4>2. QED  BY <2>1, <3>2, <4>1 DEF IsAt
    <3>3. QED  BY <3>1, <3>2
  <2>5. Larger(told, missed)' = Larger(told, missed)  BY <1>1 DEF Larger
  <2>6. parser' = parser  BY <1>1
  <2>7. IsAt(a, parser', Larger(told, missed)', Text') /\ Reads(Text', a, c)
    BY <1>7, <2>3, <2>4, <2>5, <2>6
  <2>8. QED  BY <2>2, <2>7 DEF Readable
<1>9. Honest' /\ EventsArriveWhole' /\ Counted'
  <2>1. Honest'  BY <1>1 DEF Honest, ResumesFromTheTold, Larger
  <2>2. EventsArriveWhole'  BY <1>1 DEF EventsArriveWhole, IsState, IsPing
  <2>3. Counted'  BY <1>1, <1>2 DEF Counted
  <2>4. QED  BY <2>1, <2>2, <2>3
<1>10. QED  BY <1>5, <1>6, <1>8, <1>9

LEMMA StateStep == ASSUME ListenerInv, EmitState  PROVE ListenerInv'
<1>1. TypeOK /\ happened \in 0 .. happened /\ happened \in Nat  BY DEF ListenerInv, TypeOK
<1>2. PICK ending \in Endings :
        Emit(Line("id", happened, ending) \o Line("data", happened, ending)
             \o Line("more", happened, ending) \o ending)
  BY DEF EmitState
<1> DEFINE t1 == Line("id", happened, ending)
           t2 == Line("data", happened, ending)
           t3 == Line("more", happened, ending)
           t == t1 \o t2 \o t3 \o ending
<1>3. /\ "id" \in Kinds \ {"CR", "LF"} /\ "data" \in Kinds \ {"CR", "LF"}
      /\ "more" \in Kinds \ {"CR", "LF"}
  BY DEF Kinds
<1>4. /\ t1 \in Seq(Symbols) /\ t2 \in Seq(Symbols) /\ t3 \in Seq(Symbols)
      /\ ending \in Seq(Symbols) /\ t1 # <<>> /\ t1[1] # LF
  <2>1. S("id", happened) # LF  BY DEF S, LF
  <2>2. QED  BY <1>1, <1>3, <2>1, WrittenTypes
<1>5. ASSUME NEW b, Between(b) /\ known <= b.told
      PROVE  \E c : Between(c) /\ known' <= c.told /\ Reads(t, b, c)
  <2>1. PICK c : Between(c) /\ c.told = Larger(b.told, happened) /\ Reads(t, b, c)
    BY <1>1, <1>5, ReadsState
  <2>2. b.told \in Nat  BY <1>5 DEF Between, Labels
  <2>3. known' <= c.told  BY <1>1, <2>1, <2>2 DEF EmitState, Larger
  <2>4. QED  BY <2>1, <2>3
<1>6. known' \in 0 .. happened /\ chatter' \in Nat
  BY <1>1 DEF EmitState, ListenerInv, TypeOK
<1> HIDE DEF t1, t2, t3
<1>7. t \in Seq(Symbols) /\ t # <<>> /\ t[1] # LF
  <2>1. t1 \o t2 \in Seq(Symbols) /\ t1 \o t2 # <<>> /\ (t1 \o t2)[1] # LF
    BY <1>4, WrittenOn
  <2>2. t1 \o t2 \o t3 \in Seq(Symbols) /\ t1 \o t2 \o t3 # <<>> /\ (t1 \o t2 \o t3)[1] # LF
    BY <1>4, <2>1, WrittenOn
  <2>3. QED  BY <1>4, <2>2, WrittenOn
<1>8. Emit(t)  BY <1>2 DEF t1, t2, t3
<1> HIDE DEF t
<1>9. QED  BY <1>5, <1>6, <1>7, <1>8, Emitted

LEMMA JunkStep == ASSUME ListenerInv, EmitJunk  PROVE ListenerInv'
<1>1. TypeOK /\ happened \in 0 .. happened /\ happened \in Nat  BY DEF ListenerInv, TypeOK
<1>2. PICK ending \in Endings :
        Emit(Line("id", happened, ending) \o Line("junk", happened, ending) \o ending)
  BY DEF EmitJunk
<1> DEFINE t1 == Line("id", happened, ending)
           t2 == Line("junk", happened, ending)
           t == t1 \o t2 \o ending
<1>3. "id" \in Kinds \ {"CR", "LF"} /\ "junk" \in Kinds \ {"CR", "LF"}  BY DEF Kinds
<1>4. /\ t1 \in Seq(Symbols) /\ t2 \in Seq(Symbols)
      /\ ending \in Seq(Symbols) /\ t1 # <<>> /\ t1[1] # LF
  <2>1. S("id", happened) # LF  BY DEF S, LF
  <2>2. QED  BY <1>1, <1>3, <2>1, WrittenTypes
<1>5. ASSUME NEW b, Between(b) /\ known <= b.told
      PROVE  \E c : Between(c) /\ known' <= c.told /\ Reads(t, b, c)
  <2>1. PICK c : Between(c) /\ c.told = Larger(b.told, happened) /\ Reads(t, b, c)
    BY <1>1, <1>5, ReadsJunk
  <2>2. b.told \in Nat  BY <1>5 DEF Between, Labels
  <2>3. known' <= c.told  BY <1>1, <2>1, <2>2 DEF EmitJunk, Larger
  <2>4. QED  BY <2>1, <2>3
<1>6. known' \in 0 .. happened /\ chatter' \in Nat
  BY <1>1 DEF EmitJunk, Chat, ListenerInv, TypeOK
<1> HIDE DEF t1, t2
<1>7. t \in Seq(Symbols) /\ t # <<>> /\ t[1] # LF
  <2>1. t1 \o t2 \in Seq(Symbols) /\ t1 \o t2 # <<>> /\ (t1 \o t2)[1] # LF
    BY <1>4, WrittenOn
  <2>2. QED  BY <1>4, <2>1, WrittenOn
<1>8. Emit(t)  BY <1>2 DEF t1, t2
<1> HIDE DEF t
<1>9. QED  BY <1>5, <1>6, <1>7, <1>8, Emitted

LEMMA PingStep == ASSUME ListenerInv, EmitPing  PROVE ListenerInv'
<1>1. TypeOK /\ 0 \in 0 .. happened  BY DEF ListenerInv, TypeOK
<1>2. PICK ending \in Endings : Emit(Line("ping", 0, ending) \o ending)  BY DEF EmitPing
<1> DEFINE t1 == Line("ping", 0, ending)
           t == t1 \o ending
<1>3. "ping" \in Kinds \ {"CR", "LF"}  BY DEF Kinds
<1>4. t1 \in Seq(Symbols) /\ ending \in Seq(Symbols) /\ t1 # <<>> /\ t1[1] # LF
  <2>1. S("ping", 0) # LF  BY DEF S, LF
  <2>2. QED  BY <1>1, <1>3, <2>1, WrittenTypes
<1>5. ASSUME NEW b, Between(b) /\ known <= b.told
      PROVE  \E c : Between(c) /\ known' <= c.told /\ Reads(t, b, c)
  <2>1. PICK c : Between(c) /\ c.told = b.told /\ Reads(t, b, c)  BY <1>5, ReadsPing
  <2>2. QED  BY <1>5, <2>1 DEF EmitPing
<1>6. known' \in 0 .. happened /\ chatter' \in Nat
  BY DEF EmitPing, Chat, ListenerInv, TypeOK
<1> HIDE DEF t1
<1>7. t \in Seq(Symbols) /\ t # <<>> /\ t[1] # LF  BY <1>4, WrittenOn
<1>8. Emit(t)  BY <1>2 DEF t1
<1> HIDE DEF t
<1>9. QED  BY <1>5, <1>6, <1>7, <1>8, Emitted

LEMMA CheckpointStep == ASSUME ListenerInv, EmitCheckpoint  PROVE ListenerInv'
<1>1. TypeOK /\ known \in 0 .. happened /\ known \in Nat  BY DEF ListenerInv, TypeOK
<1>2. PICK ending \in Endings : Emit(Line("id", known, ending) \o ending)
  BY DEF EmitCheckpoint
<1> DEFINE t1 == Line("id", known, ending)
           t == t1 \o ending
<1>3. "id" \in Kinds \ {"CR", "LF"}  BY DEF Kinds
<1>4. t1 \in Seq(Symbols) /\ ending \in Seq(Symbols) /\ t1 # <<>> /\ t1[1] # LF
  <2>1. S("id", known) # LF  BY DEF S, LF
  <2>2. QED  BY <1>1, <1>3, <2>1, WrittenTypes
<1>5. ASSUME NEW b, Between(b) /\ known <= b.told
      PROVE  \E c : Between(c) /\ known' <= c.told /\ Reads(t, b, c)
  <2>1. PICK c : Between(c) /\ c.told = b.told /\ Reads(t, b, c)
    BY <1>1, <1>5, ReadsCheckpoint
  <2>2. QED  BY <1>5, <2>1 DEF EmitCheckpoint
<1>6. known' \in 0 .. happened /\ chatter' \in Nat
  BY <1>1 DEF EmitCheckpoint, Chat, ListenerInv, TypeOK
<1> HIDE DEF t1
<1>7. t \in Seq(Symbols) /\ t # <<>> /\ t[1] # LF  BY <1>4, WrittenOn
<1>8. Emit(t)  BY <1>2 DEF t1
<1> HIDE DEF t
<1>9. QED  BY <1>5, <1>6, <1>7, <1>8, Emitted

LEMMA ChangeStep == ASSUME ListenerInv, Change  PROVE ListenerInv'
<1> USE DEF ListenerInv
<1>1. /\ happened' = happened + 1
      /\ UNCHANGED <<known, wire, chatter, pc, parser, event, cursor, resume, delivered, failures,
                     faults, told, missed, fruitless>>
  BY DEF Change, stream
<1>2. Symbols \subseteq Symbols'
  <2>1. happened \in Nat  BY DEF TypeOK
  <2>2. 0 .. happened \subseteq 0 .. happened + 1  BY <2>1
  <2>3. QED  BY <1>1, <2>2 DEF Symbols
<1>3. TypeOK'
  <2>1. \A s \in Seq(Symbols) : s \in Seq(Symbols')  BY <1>2, SeqMonotonic
  <2>2. wire' \in Seq(Symbols') /\ event' \in Seq(Symbols')  BY <1>1, <2>1 DEF TypeOK
  <2>3. parser' \in [buffer : Seq(Symbols'), data : Seq(Symbols'), idBuffer : Nat, lastId : Nat,
                     pendingCR : BOOLEAN]
    BY <1>1, <2>1 DEF TypeOK
  <2>4. QED  BY <1>1, <2>2, <2>3 DEF TypeOK
<1>4. Connected' = Connected /\ Text' = Text /\ Larger(told, missed)' = Larger(told, missed)
  BY <1>1 DEF Connected, Text, Larger
<1>5. Tidy' /\ Counted'  BY <1>1, <1>4 DEF Tidy, Counted
<1>6. Readable'  BY <1>1, <1>4 DEF Readable
<1>7. Honest'  BY <1>1 DEF Honest, ResumesFromTheTold, Larger
<1>8. EventsArriveWhole'  BY <1>1 DEF EventsArriveWhole, IsState, IsPing
<1>9. QED  BY <1>3, <1>5, <1>6, <1>7, <1>8

(***************************************************************************)
(* The connection's steps.                                                 *)
(***************************************************************************)

\* Steps that only move listen() about, with no connection before or after.
LEMMA BetweenConnections ==
    ASSUME ListenerInv, Redial \/ DialFails \/ DialRefused \/ ListenAgain
    PROVE  ListenerInv'
<1> USE DEF ListenerInv
<1>1. /\ ~Connected /\ ~Connected' /\ pc' \in States
      /\ UNCHANGED <<happened, known, wire, chatter, parser, cursor, resume, delivered, told,
                     missed>>
      /\ event' \in {event, <<>>}
  BY DEF Redial, DialFails, DialRefused, ListenAgain, Connected, stream, server
<1>2. failures' \in Nat /\ faults' \in Nat /\ fruitless' \in Nat
      /\ failures' \in {fruitless', fruitless' + 1}
  <2>1. failures \in Nat /\ faults \in Nat /\ fruitless \in Nat
        /\ failures \in {fruitless, fruitless + 1}
    BY DEF TypeOK, Counted
  <2>2. CASE Redial \/ ListenAgain  BY <2>1, <2>2 DEF Redial, ListenAgain, Fault
  <2>3. CASE DialFails  BY <2>1, <2>3 DEF DialFails, Fault
  <2>4. CASE DialRefused  BY <2>1, <2>4 DEF DialRefused, Fault
  <2>5. QED  BY <2>2, <2>3, <2>4
<1>3. Symbols' = Symbols  BY <1>1 DEF Symbols
<1>4. TypeOK'
  <2>1. event' \in Seq(Symbols)  BY <1>1, EmptySeq DEF TypeOK
  <2>2. QED  BY <1>1, <1>2, <1>3, <2>1 DEF TypeOK
<1>5. Tidy' /\ Readable' /\ Counted'  BY <1>1, <1>2 DEF Tidy, Readable, Counted
<1>6. Honest'  BY <1>1 DEF Honest, ResumesFromTheTold, Larger
<1>7. EventsArriveWhole'  BY <1>1 DEF EventsArriveWhole, IsState, IsPing
<1>8. QED  BY <1>4, <1>5, <1>6, <1>7

\* A connection's end, as far as the stream goes.
LEMMA Absorbed ==
    ASSUME ListenerInv, Absorb, ~Connected', pc' \in States,
           UNCHANGED <<happened, chatter, told, missed>>, delivered' \in BOOLEAN,
           failures' \in Nat, faults' \in Nat, fruitless' \in Nat,
           failures' \in {fruitless', fruitless' + 1}
    PROVE  ListenerInv'
<1> USE DEF ListenerInv
<1>1. Symbols' = Symbols /\ <<>> \in Seq(Symbols)  BY EmptySeq DEF Symbols
<1>2. /\ resume' = cursor /\ parser' = Fresh(cursor) /\ event' = <<>> /\ cursor' = cursor
      /\ wire' = <<>> /\ known' = 0
  BY DEF Absorb
<1>3. TypeOK'  BY <1>1, <1>2 DEF TypeOK, Fresh
<1>4. Tidy' /\ Readable' /\ Counted'  BY <1>2 DEF Tidy, Readable, Counted, Fresh
<1>5. Honest'
  <2>1. cursor \in Nat /\ resume \in Nat /\ told \in Nat /\ missed \in Nat  BY DEF TypeOK
  <2>2. parser'.lastId = cursor  BY <1>2 DEF Fresh
  <2>3. QED  BY <1>2, <2>1, <2>2 DEF Honest, ResumesFromTheTold, Larger
<1>6. EventsArriveWhole'  BY <1>2 DEF EventsArriveWhole
<1>7. QED  BY <1>3, <1>4, <1>5, <1>6

LEMMA EndStep == ASSUME ListenerInv, Drop \/ End \/ Close  PROVE ListenerInv'
<1>1. /\ Connected /\ Absorb /\ ~Connected' /\ pc' \in States
      /\ UNCHANGED <<happened, chatter, told, missed, delivered>>
  BY DEF Drop, End, Close, Connected
<1>2. failures \in Nat /\ faults \in Nat /\ fruitless \in Nat /\ delivered \in BOOLEAN
      /\ failures \in {fruitless, fruitless + 1}
      /\ (delivered => failures = 0 /\ fruitless = 0)
  BY <1>1 DEF ListenerInv, TypeOK, Counted
<1>3. /\ failures' \in Nat /\ faults' \in Nat /\ fruitless' \in Nat
      /\ failures' \in {fruitless', fruitless' + 1}
  <2>1. CASE Drop  BY <1>2, <2>1 DEF Drop, Fault
  <2>2. CASE End
    <3>1. PICK lasted \in BOOLEAN :
            /\ failures'  = IF delivered \/ lasted THEN 0 ELSE failures + 1
            /\ fruitless' = IF delivered \/ lasted THEN 0 ELSE fruitless + 1
      BY <2>2 DEF End
    <3>2. faults' = faults + 1  BY <2>2 DEF End, Fault
    <3>3. CASE delivered \/ lasted  BY <1>2, <3>1, <3>2, <3>3
    <3>4. CASE ~(delivered \/ lasted)  BY <1>2, <3>1, <3>2, <3>4
    <3>5. QED  BY <3>3, <3>4
  <2>3. CASE Close  BY <1>2, <2>3 DEF Close
  <2>4. QED  BY <2>1, <2>2, <2>3
<1>4. QED  BY <1>1, <1>2, <1>3, Absorbed

LEMMA ConnectStep == ASSUME ListenerInv, Connect  PROVE ListenerInv'
<1> USE DEF ListenerInv
<1>1. /\ pc = "dialing" /\ pc' = "open" /\ parser' = Fresh(resume) /\ cursor' = resume
      /\ delivered' = FALSE
      /\ known' = IF resume = 0 THEN happened ELSE resume
      /\ missed' = IF resume = 0 THEN happened ELSE missed
      /\ UNCHANGED <<happened, wire, chatter, event, resume, failures, faults, told, fruitless>>
  BY DEF Connect
<1>2. /\ happened \in Nat /\ resume \in Nat /\ cursor \in Nat
      /\ told \in 0 .. happened /\ missed \in 0 .. happened /\ missed' \in 0 .. happened
      /\ known' \in 0 .. happened
      /\ resume <= Larger(told, missed') /\ known' <= Larger(told, missed')
  BY <1>1 DEF TypeOK, Honest, ResumesFromTheTold, Larger
<1>3. Symbols' = Symbols /\ <<>> \in Seq(Symbols)  BY <1>1, EmptySeq DEF Symbols
<1>4. TypeOK'  BY <1>1, <1>2, <1>3 DEF TypeOK, Fresh
<1>5. wire' = <<>> /\ Text' = <<>>
  <2>1. wire = <<>>  BY <1>1 DEF Tidy, Connected
  <2>2. parser'.buffer = <<>>  BY <1>1 DEF Fresh
  <2>3. <<>> \o <<>> = <<>>  BY EmptySeq, ConcatEmptySeq
  <2>4. QED  BY <1>1, <2>1, <2>2, <2>3 DEF Text
<1>6. Tidy' /\ Counted'  BY <1>1, <1>5 DEF Tidy, Connected, Fresh, Counted
<1>7. Readable'
  <2> DEFINE a == [at |-> "line", data |-> <<>>, id |-> resume, told |-> Larger(told', missed')]
  <2>1. Larger(told', missed') \in Nat  BY <1>1, <1>2 DEF Larger
  <2>2. <<>> \in Seq(Marks)  BY EmptySeq
  <2>3. a \in Labels  BY <1>2, <2>1, <2>2 DEF Labels
  <2>4. Between(a) /\ known' <= a.told  BY <1>1, <1>2, <2>3 DEF Between
  <2>5. IsAt(a, parser', Larger(told', missed'), Text')
    BY <1>1, <1>5, <2>3 DEF IsAt, Fresh
  <2> HIDE DEF a
  <2>6. Reads(Text', a, a)  BY <1>5, <2>3, ReadsNothing
  <2>7. Larger(told, missed)' = Larger(told', missed')  BY DEF Larger
  <2>8. QED  BY <2>4, <2>5, <2>6, <2>7 DEF Readable
<1>8. Honest'
  <2>1. parser'.lastId = resume  BY <1>1 DEF Fresh
  <2>2. QED  BY <1>1, <1>2, <2>1 DEF Honest, ResumesFromTheTold, Larger
<1>9. EventsArriveWhole'  BY <1>1 DEF EventsArriveWhole, IsState, IsPing
<1>10. QED  BY <1>4, <1>6, <1>7, <1>8, <1>9

(***************************************************************************)
(* The parser's steps.                                                     *)
(***************************************************************************)

\* A chunk moves from the wire to the buffer, but for the LF whose CR ended the last.
LEMMA ReceiveStep == ASSUME ListenerInv, Receive  PROVE ListenerInv'
<1> USE DEF ListenerInv
<1>1. PICK k \in 1 .. Len(wire) :
        /\ parser' = [parser EXCEPT !.buffer = @ \o HeldOver(SubSeq(wire, 1, k)),
                                    !.pendingCR = FALSE]
        /\ wire' = SubSeq(wire, k + 1, Len(wire))
  BY DEF Receive
<1>2. /\ pc = "open" /\ pc' = "feeding"
      /\ UNCHANGED <<happened, known, chatter, event, cursor, resume, delivered, failures,
                     faults, told, missed, fruitless>>
  BY DEF Receive
<1> DEFINE chunk == SubSeq(wire, 1, k)
           held  == HeldOver(chunk)
           left  == SubSeq(wire, k + 1, Len(wire))
           dropped == parser.pendingCR /\ chunk[1] = LF
<1>3. /\ wire \in Seq(Symbols) /\ wire \in Seq(Marks) /\ Len(wire) \in Nat
      /\ parser.buffer \in Seq(Symbols) /\ parser.buffer \in Seq(Marks)
      /\ Text \in Seq(Marks) /\ Symbols \subseteq Marks
  BY SymbolTypes, LenProperties
<1>4. \A i \in 1 .. Len(wire) : wire[i] \in Symbols  BY <1>3, ElementOfSeq
<1>5. /\ chunk \in Seq(Symbols) /\ chunk # <<>> /\ chunk[1] = wire[1] /\ left \in Seq(Symbols)
      /\ chunk \o left = wire
  <2>1. \A i \in 1 .. k : wire[i] \in Symbols  BY <1>3, <1>4
  <2>2. /\ chunk \in Seq(Symbols) /\ Len(chunk) = IF 1 <= k THEN k - 1 + 1 ELSE 0
        /\ \A i \in 1 .. k - 1 + 1 : chunk[i] = wire[1 + i - 1]
    BY <2>1, SubSeqProperties
  <2>3. \A i \in k + 1 .. Len(wire) : wire[i] \in Symbols  BY <1>3, <1>4
  <2>4. left \in Seq(Symbols)  BY <1>3, <2>3, SubSeqProperties
  <2> HIDE DEF chunk, left
  <2>5. Len(chunk) = k /\ chunk[1] = wire[1]  BY <2>2
  <2>6. chunk # <<>>  BY <2>5, EmptySeq
  <2>7. chunk \o left = wire
    <3>1. wire = SubSeq(wire, 1, Len(wire))  BY <1>3, SubSeqFull
    <3>2. QED  BY <1>3, <3>1, CutAndJoined DEF chunk, left
  <2>8. QED  BY <2>2, <2>4, <2>5, <2>6, <2>7
<1>6. held = IF dropped THEN Tail(chunk) ELSE chunk  BY DEF HeldOver
<1>7. held \in Seq(Symbols)  BY <1>5, <1>6, HeadTailProperties
<1>8. Symbols' = Symbols  BY <1>2 DEF Symbols
<1>9. /\ parser'.buffer = parser.buffer \o held /\ parser'.pendingCR = FALSE
      /\ parser'.data = parser.data /\ parser'.idBuffer = parser.idBuffer
      /\ parser'.lastId = parser.lastId
      /\ parser'.buffer \in Seq(Symbols)
  <2>1. parser.buffer \o held \in Seq(Symbols)  BY <1>3, <1>7, ConcatProperties
  <2> HIDE DEF held
  <2>2. QED  BY <1>1, <2>1 DEF TypeOK, held
<1> HIDE DEF chunk, held, left, dropped
<1>10. wire' = left  BY <1>1 DEF left
<1>11. TypeOK'
  <2>1. parser' \in [buffer : Seq(Symbols), data : Seq(Symbols), idBuffer : Nat, lastId : Nat,
                     pendingCR : BOOLEAN]
    <3>1. parser.buffer \o held \in Seq(Symbols)  BY <1>9
    <3>2. QED  BY <1>1, <3>1 DEF TypeOK, held, chunk
  <2>2. QED  BY <1>2, <1>5, <1>8, <1>10, <2>1 DEF TypeOK
<1>12. Tidy' /\ Counted'  BY <1>2, <1>9 DEF Tidy, Counted, Connected
\* The text is what it was, or that without its first character.
<1>13. /\ ~dropped => Text' = Text
       /\ dropped => Text # <<>> /\ Text[1] = LF /\ Text' = SubSeq(Text, 2, Len(Text))
  <2>1. chunk \in Seq(Marks) /\ left \in Seq(Marks) /\ held \in Seq(Marks)
    BY <1>3, <1>5, <1>7, SeqMonotonic
  <2>2. CASE ~dropped
    <3>1. held = chunk  BY <1>6, <2>2
    <3>2. (parser.buffer \o chunk) \o left = parser.buffer \o (chunk \o left)
      BY <1>3, <2>1, MarksAssociate
    <3>3. QED  BY <1>5, <1>9, <1>10, <2>2, <3>1, <3>2 DEF Text
  <2>3. CASE dropped
    <3>1. parser.buffer = <<>> /\ parser.pendingCR /\ chunk[1] = LF
      BY <2>3 DEF Tidy, dropped
    <3>2. Text = wire  BY <1>3, <3>1, ConcatEmptySeq DEF Text
    <3>3. parser'.buffer = Tail(chunk)
      <4>1. held = Tail(chunk)  BY <1>6, <2>3
      <4>2. <<>> \o held = held  BY <2>1, ConcatEmptySeq
      <4>3. QED  BY <1>9, <3>1, <4>1, <4>2
    <3>4. wire # <<>> /\ wire[1] = LF
      <4>1. Len(wire) > 0  BY <1>3
      <4>2. QED  BY <1>5, <3>1, <4>1, EmptySeq
    <3>5. Tail(chunk) \o left = SubSeq(wire, 2, Len(wire))
      <4>1. Tail(chunk) = SubSeq(wire, 1 + 1, k)
        <5>1. 1 \in 1 .. Len(wire) /\ k \in 1 .. Len(wire)  BY <1>3
        <5>2. QED  BY <1>3, <5>1, HeadTailOfSubSeq DEF chunk
      <4>2. 1 + 1 = 2  OBVIOUS
      <4>3. SubSeq(wire, 2, k) \o SubSeq(wire, k + 1, Len(wire)) = SubSeq(wire, 2, Len(wire))
        BY <1>3, CutAndJoined
      <4>4. QED  BY <4>1, <4>2, <4>3 DEF left
    <3>6. Text' = Tail(chunk) \o left  BY <1>10, <3>3 DEF Text
    <3>7. QED  BY <2>3, <3>2, <3>4, <3>5, <3>6
  <2>4. QED  BY <2>2, <2>3
<1>14. Larger(told, missed)' = Larger(told, missed)  BY <1>2 DEF Larger
<1>15. Readable'
  <2>1. PICK a, b : /\ IsAt(a, parser, Larger(told, missed), Text) /\ Reads(Text, a, b)
                    /\ Between(b) /\ known <= b.told
    BY <1>2 DEF Readable, Connected
  <2>2. CASE ~dropped
    <3>1. Text = <<>> \/ Text[1] # LF \/ ~parser.pendingCR
      <4>1. CASE parser.pendingCR
        <5>1. Text = wire
          <6>1. parser.buffer = <<>>  BY <4>1 DEF Tidy
          <6>2. QED  BY <1>3, <6>1, ConcatEmptySeq DEF Text
        <5>2. wire[1] # LF  BY <1>5, <2>2, <4>1 DEF dropped
        <5>3. QED  BY <5>1, <5>2
      <4>2. QED  BY <4>1
    <3>2. IsAt(a, parser', Larger(told, missed), Text)
      BY <1>9, <2>1, <3>1 DEF IsAt
    <3>3. QED  BY <1>2, <1>13, <1>14, <2>1, <2>2, <3>2 DEF Readable
  <2>3. CASE dropped
    <3>1. Text # <<>> /\ Text[1] = LF /\ Text' = SubSeq(Text, 2, Len(Text)) /\ parser.pendingCR
      BY <1>13, <2>3 DEF dropped
    <3>2. a \in Labels /\ a.at = "cr"  BY <2>1, <3>1 DEF IsAt
    <3>3. PICK l : Labelling(l, Text) /\ l[1] = a /\ l[Len(Text) + 1] = b
      BY <2>1 DEF Reads
    <3>4. Len(Text) \in Nat /\ Len(Text) > 0  BY <1>3, <3>1, EmptySeq, LenProperties
    <3>5. ReadsOne(a, LF, l[2])
      <4>1. 1 \in 1 .. Len(Text) /\ 1 + 1 = 2  BY <3>4
      <4>2. QED  BY <3>1, <3>3, <4>1 DEF Labelling
    <3>6. l[2] = [a EXCEPT !.at = "line"]
      BY <3>2, <3>5, MarkTypes DEF ReadsOne, ReadsField, ReadsEnd, ReadsBlank, ReadsHalf
    <3>7. Reads(SubSeq(Text, 2, Len(Text)), l[2], b) /\ l[2] \in Labels
      <4>1. 1 \in 0 .. Len(Text) /\ 1 + 1 = 2  BY <3>4
      <4>2. QED  BY <1>3, <3>3, <4>1, ReadsRest
    <3>8. IsAt(l[2], parser', Larger(told, missed), Text')
      BY <1>9, <2>1, <3>2, <3>6, <3>7 DEF IsAt, Labels
    <3>9. QED  BY <1>2, <1>14, <2>1, <3>1, <3>7, <3>8 DEF Readable
  <2>4. QED  BY <2>2, <2>3
<1>16. Honest'  BY <1>2, <1>9 DEF Honest, ResumesFromTheTold, Larger
<1>17. EventsArriveWhole'  BY <1>2 DEF EventsArriveWhole, IsState, IsPing
<1>18. QED  BY <1>11, <1>12, <1>15, <1>16, <1>17

LEMMA FieldStep == ASSUME ListenerInv, Field  PROVE ListenerInv'
<1> USE DEF ListenerInv
<1> DEFINE field == parser.buffer[1]
           data == IF field.kind = "id" THEN parser.data ELSE Append(parser.data, field)
           id   == IF field.kind = "id" THEN field.n ELSE parser.idBuffer
           last == parser.lastId
<1>1. /\ pc = "feeding" /\ LineEnd > 1
      /\ UNCHANGED <<happened, known, wire, chatter, pc, event, cursor, resume, delivered,
                     failures, faults, told, missed, fruitless>>
  BY DEF Field, server
<1>2. LineEnd # 0 /\ LineEnd # 1
  <2>1. ASSUME LineEnd = 0 \/ LineEnd = 1 PROVE FALSE  BY <1>1, <2>1
  <2>2. QED  BY <2>1
<1>3. field \in Symbols /\ parser.data \in Seq(Symbols) /\ parser.idBuffer \in Nat /\ last \in Nat
  <2>1. parser.buffer # <<>> /\ parser.buffer \in Seq(Symbols)  BY <1>2, LineEndIs, SymbolTypes
  <2>2. 1 \in 1 .. Len(parser.buffer)  BY <2>1, EmptySeq
  <2>3. field \in Symbols  BY <2>1, <2>2, ElementOfSeq
  <2>4. QED  BY <2>3 DEF TypeOK
<1>4. data \in Seq(Symbols) /\ id \in Nat
  <2>1. Append(parser.data, field) \in Seq(Symbols)  BY <1>3, AppendProperties
  <2>2. field.n \in Nat  BY <1>3 DEF Symbols, TypeOK
  <2>3. QED  BY <1>3, <2>1, <2>2
<1>5. /\ parser' \in Parsers
      /\ parser'.buffer = Rest.buffer /\ parser'.pendingCR = Rest.pendingCR
      /\ parser'.data = data /\ parser'.idBuffer = id /\ parser'.lastId = last
  <2>1. /\ Rest \in Parsers /\ Rest.data = parser.data /\ Rest.idBuffer = parser.idBuffer
        /\ Rest.lastId = parser.lastId
    BY <1>1, <1>2, RestIs
  <2>2. parser' = IF field.kind = "id" THEN [Rest EXCEPT !.idBuffer = field.n]
                  ELSE [Rest EXCEPT !.data = Append(@, field)]
    BY DEF Field
  <2> HIDE DEF field
  <2>3. CASE field.kind = "id"  BY <1>4, <2>1, <2>2, <2>3
  <2>4. CASE field.kind # "id"  BY <1>4, <2>1, <2>2, <2>4
  <2>5. QED  BY <2>3, <2>4
<1>6. \A a, d \in Labels : LineReads(a, d) /\ a.data = parser.data /\ a.id = parser.idBuffer
                           => d.data = data /\ d.id = id /\ d.told = a.told
  <2>1. TAKE a, d \in Labels
  <2>2. HAVE LineReads(a, d) /\ a.data = parser.data /\ a.id = parser.idBuffer
  <2>3. PICK c \in Labels : ReadsField(a, field, c) /\ ReadsEnd(c, parser.buffer[2], d)
    BY <1>2, <2>2 DEF LineReads
  <2> HIDE DEF field
  <2>4. c.data = data /\ c.id = id /\ c.told = a.told
    <3>1. CASE field.kind = "id"  BY <2>2, <2>3, <3>1 DEF ReadsField, Labels
    <3>2. CASE field.kind # "id"  BY <2>2, <2>3, <3>2 DEF ReadsField, Labels
    <3>3. QED  BY <3>1, <3>2
  <2>5. d.data = c.data /\ d.id = c.id /\ d.told = c.told
    BY <2>3 DEF ReadsEnd, Labels
  <2>6. QED  BY <2>4, <2>5
<1> HIDE DEF data, id, field, last
<1>7. /\ Symbols' = Symbols /\ (parser'.pendingCR => parser'.buffer = <<>>)
      /\ \E a, b, d, e \in Labels :
           /\ IsAt(a, parser, Larger(told, missed), Text)
           /\ Between(b) /\ known <= b.told
           /\ LineReads(a, d) /\ Follows(d, e, b, Text', parser'.pendingCR)
  BY <1>1, <1>2, <1>5, LineRead
<1>8. PICK a, b, d, e \in Labels :
           /\ IsAt(a, parser, Larger(told, missed), Text)
           /\ Between(b) /\ known <= b.told
           /\ LineReads(a, d) /\ Follows(d, e, b, Text', parser'.pendingCR)
  BY <1>7
<1>9. a.data = parser.data /\ a.id = parser.idBuffer /\ a.told = Larger(told, missed)
  BY <1>8 DEF IsAt
<1>10. d.data = data /\ d.id = id /\ d.told = Larger(told, missed)  BY <1>6, <1>8, <1>9
<1>11. IsAt(e, parser', Larger(told, missed), Text') /\ Reads(Text', e, b)
  BY <1>5, <1>8, <1>10 DEF IsAt, Follows
<1>12. Larger(told, missed)' = Larger(told, missed)  BY <1>1 DEF Larger
<1>13. TypeOK'  BY <1>1, <1>5, <1>7 DEF TypeOK
<1>14. Tidy' /\ Counted'  BY <1>1, <1>7 DEF Tidy, Counted, Connected
<1>15. Readable'  BY <1>1, <1>8, <1>11, <1>12 DEF Readable
<1>16. Honest'  BY <1>1, <1>5 DEF Honest, ResumesFromTheTold, Larger, last
<1>17. EventsArriveWhole'  BY <1>1 DEF EventsArriveWhole, IsState, IsPing
<1>18. QED  BY <1>13, <1>14, <1>15, <1>16, <1>17

\* What a blank line ends is whole, and its id is of a state it tells of, or one told
\* before.
Latest == IF parser.data = <<>> THEN Larger(told, missed)
          ELSE Larger(Larger(told, missed), parser.data[1].n)

LEMMA BlankReads ==
    ASSUME LineEnd = 1,
           NEW a \in Labels, NEW d \in Labels, IsAt(a, parser, Larger(told, missed), Text),
           LineReads(a, d)
    PROVE  /\ Whole(parser.data) /\ parser.idBuffer <= Latest
           /\ d.data = <<>> /\ d.id = parser.idBuffer /\ d.told = Latest
<1>1. ReadsBlank(a, parser.buffer[1], d)
  <2>1. LineEnd # 2  OBVIOUS
  <2>2. QED  BY <2>1 DEF LineReads
<1>2. a.data = parser.data /\ a.id = parser.idBuffer /\ a.told = Larger(told, missed)
  BY DEF IsAt
<1>3. Telling(a) = Latest  BY <1>2 DEF Telling, Latest
<1>4. Whole(a.data) /\ a.id <= Telling(a) /\ d.data = <<>> /\ d.id = a.id /\ d.told = Telling(a)
  BY <1>1 DEF ReadsBlank, Labels
<1>5. QED  BY <1>2, <1>3, <1>4

\* The blank line is read, and what it ended is off the parser.
LEMMA Blank ==
    ASSUME ListenerInv, pc = "feeding", LineEnd = 1,
           \/ parser' = Dispatched
           \/ parser.data = <<>> /\ parser' = [Rest EXCEPT !.lastId = parser.idBuffer],
           UNCHANGED <<happened, wire, known>>
    PROVE  /\ parser' \in Parsers /\ Symbols' = Symbols
           /\ parser'.pendingCR => parser'.buffer = <<>>
           /\ parser'.lastId = parser.idBuffer
           /\ Whole(parser.data) /\ parser.idBuffer <= Latest
           /\ \E b, e : /\ IsAt(e, parser', Latest, Text') /\ Reads(Text', e, b)
                        /\ Between(b) /\ known <= b.told
<1> USE DEF ListenerInv
<1> DEFINE id == parser.idBuffer
<1>1. LineEnd # 0 /\ <<>> \in Seq(Symbols) /\ id \in Nat  BY EmptySeq DEF TypeOK
<1>2. /\ parser' \in Parsers
      /\ parser'.buffer = Rest.buffer /\ parser'.pendingCR = Rest.pendingCR
      /\ parser'.data = <<>> /\ parser'.idBuffer = id /\ parser'.lastId = id
  <2>1. Rest \in Parsers /\ Rest.data = parser.data /\ Rest.idBuffer = id  BY <1>1, RestIs
  <2>2. \/ parser' = [Rest EXCEPT !.lastId = id, !.data = <<>>]
        \/ parser.data = <<>> /\ parser' = [Rest EXCEPT !.lastId = id]
    BY DEF Dispatched
  <2> HIDE DEF id
  <2>3. QED  BY <1>1, <2>1, <2>2
<1> HIDE DEF id
<1>3. /\ Symbols' = Symbols /\ (parser'.pendingCR => parser'.buffer = <<>>)
      /\ \E a, b, d, e \in Labels :
           /\ IsAt(a, parser, Larger(told, missed), Text)
           /\ Between(b) /\ known <= b.told
           /\ LineReads(a, d) /\ Follows(d, e, b, Text', parser'.pendingCR)
  BY <1>1, <1>2, LineRead
<1>4. PICK a, b, d, e \in Labels :
           /\ IsAt(a, parser, Larger(told, missed), Text)
           /\ Between(b) /\ known <= b.told
           /\ LineReads(a, d) /\ Follows(d, e, b, Text', parser'.pendingCR)
  BY <1>3
<1>5. /\ Whole(parser.data) /\ parser.idBuffer <= Latest
      /\ d.data = <<>> /\ d.id = parser.idBuffer /\ d.told = Latest
  BY <1>4, BlankReads
<1>6. IsAt(e, parser', Latest, Text') /\ Reads(Text', e, b)
  BY <1>2, <1>4, <1>5 DEF IsAt, Follows, id
<1>7. QED  BY <1>2, <1>3, <1>4, <1>5, <1>6 DEF id

LEMMA DispatchNothingStep == ASSUME ListenerInv, DispatchNothing  PROVE ListenerInv'
<1> USE DEF ListenerInv
<1>1. /\ pc = "feeding" /\ LineEnd = 1 /\ parser.data = <<>>
      /\ parser' = [Rest EXCEPT !.lastId = parser.idBuffer]
      /\ UNCHANGED <<happened, known, wire, chatter, pc, event, cursor, resume, delivered,
                     failures, faults, told, missed, fruitless>>
  BY DEF DispatchNothing, server
<1>2. /\ parser' \in Parsers /\ Symbols' = Symbols
      /\ parser'.pendingCR => parser'.buffer = <<>>
      /\ parser'.lastId = parser.idBuffer /\ parser.idBuffer <= Latest
      /\ \E b, e : /\ IsAt(e, parser', Latest, Text') /\ Reads(Text', e, b)
                   /\ Between(b) /\ known <= b.told
  BY <1>1, Blank
<1>3. Latest = Larger(told, missed) /\ Larger(told, missed)' = Larger(told, missed)
  BY <1>1 DEF Latest, Larger
<1>4. TypeOK'  BY <1>1, <1>2 DEF TypeOK
<1>5. Tidy' /\ Counted'  BY <1>1, <1>2 DEF Tidy, Counted, Connected
<1>6. Readable'  BY <1>1, <1>2, <1>3 DEF Readable
<1>7. Honest'
  <2>1. parser'.lastId <= Larger(told, missed)'  BY <1>2, <1>3
  <2>2. Larger(cursor, resume)' = Larger(cursor, resume)  BY <1>1 DEF Larger
  <2>3. QED  BY <1>3, <2>1, <2>2 DEF Honest, ResumesFromTheTold
<1>8. EventsArriveWhole'  BY <1>1 DEF EventsArriveWhole, IsState, IsPing
<1>9. QED  BY <1>4, <1>5, <1>6, <1>7, <1>8

\* What telling of the event under way makes of what is told.
LEMMA ToldOn ==
    ASSUME TypeOK, parser.data # <<>>, missed' = missed,
           told' = Larger(told, parser.data[1].n)
    PROVE  /\ told' \in 0 .. happened /\ Larger(told, missed)' = Latest
           /\ Larger(told, missed) <= Latest /\ Latest \in Nat
<1>1. parser.data \in Seq(Symbols) /\ 1 \in DOMAIN parser.data
  <2>1. parser.data \in Seq(Symbols)  BY DEF TypeOK
  <2>2. QED  BY <2>1, EmptySeq, LenProperties
<1>2. parser.data[1].n \in 0 .. happened  BY <1>1, SymbolTypes
<1>3. told \in Nat /\ missed \in Nat /\ happened \in Nat /\ told <= happened  BY DEF TypeOK
<1> DEFINE n == parser.data[1].n
<1>4. n \in 0 .. happened /\ told' = Larger(told, n)  BY <1>2
<1>5. Latest = Larger(Larger(told, missed), n)  BY DEF Latest
<1> HIDE DEF n
<1>6. Larger(told, missed)' = Larger(told', missed)  BY DEF Larger
<1>7. QED  BY <1>3, <1>4, <1>5, <1>6 DEF Larger

\* Tracked(id) is a number, and no larger than what the cursor and the id are.
LEMMA TrackedIs ==
    ASSUME TypeOK, Honest, NEW latest \in Nat, Larger(told, missed) <= latest,
           parser.idBuffer <= latest
    PROVE  /\ Tracked(parser.idBuffer) \in Nat /\ Tracked(parser.idBuffer) <= latest
           /\ resume <= latest
<1>1. cursor \in Nat /\ resume \in Nat /\ parser.idBuffer \in Nat
      /\ told \in Nat /\ missed \in Nat
  BY DEF TypeOK
<1>2. cursor <= latest /\ resume <= latest
  BY <1>1 DEF Honest, ResumesFromTheTold, Larger
<1>3. QED  BY <1>1, <1>2 DEF Tracked

LEMMA DeliverStep == ASSUME ListenerInv, Deliver  PROVE ListenerInv'
<1> USE DEF ListenerInv
<1>1. /\ pc = "feeding" /\ LineEnd = 1 /\ (IsState(parser.data) \/ IsPing(parser.data))
      /\ parser' = Dispatched /\ event' = parser.data
      /\ cursor' = Tracked(parser.idBuffer)
      /\ told' = Larger(told, parser.data[1].n)
      /\ pc' = "yielded" /\ delivered' = TRUE /\ failures' = 0 /\ fruitless' = 0
      /\ UNCHANGED <<happened, known, wire, chatter, resume, faults, missed>>
  BY DEF Deliver, server
<1>2. /\ parser' \in Parsers /\ Symbols' = Symbols
      /\ parser'.pendingCR => parser'.buffer = <<>>
      /\ parser'.lastId = parser.idBuffer /\ parser.idBuffer <= Latest
      /\ \E b, e : /\ IsAt(e, parser', Latest, Text') /\ Reads(Text', e, b)
                   /\ Between(b) /\ known <= b.told
  BY <1>1, Blank
<1>3. parser.data # <<>>
  <2>1. Len(<<>>) = 0  BY EmptySeq
  <2>2. Len(<<S("ping", 0)>>) = 1  OBVIOUS
  <2>3. QED  BY <1>1, <2>1, <2>2 DEF IsState, IsPing
<1>4. /\ told' \in 0 .. happened /\ Larger(told, missed)' = Latest
      /\ Larger(told, missed) <= Latest /\ Latest \in Nat
  BY <1>1, <1>3, ToldOn
<1>5. cursor' \in Nat /\ cursor' <= Latest /\ resume <= Latest
  BY <1>1, <1>2, <1>4, TrackedIs
<1>6. TypeOK'
  <2>1. event' \in Seq(Symbols)  BY <1>1 DEF TypeOK
  <2>2. QED  BY <1>1, <1>2, <1>4, <1>5, <2>1 DEF TypeOK
<1>7. Tidy' /\ Counted'  BY <1>1, <1>2 DEF Tidy, Counted, Connected
<1>8. Readable'  BY <1>1, <1>2, <1>4 DEF Readable
<1>9. Honest'
  <2>1. Larger(cursor, resume)' = Larger(cursor', resume)  BY <1>1 DEF Larger
  <2>2. Larger(cursor', resume) <= Latest  BY <1>5 DEF Larger
  <2>3. QED  BY <1>2, <1>4, <2>1, <2>2 DEF Honest, ResumesFromTheTold
<1>10. EventsArriveWhole'
  <2>1. IsState(event') \/ IsPing(event')  BY <1>1
  <2>2. QED  BY <2>1 DEF EventsArriveWhole, IsState, IsPing
<1>11. QED  BY <1>6, <1>7, <1>8, <1>9, <1>10

LEMMA MalformedStep == ASSUME ListenerInv, Malformed  PROVE ListenerInv'
<1> USE DEF ListenerInv
<1>1. /\ pc = "feeding" /\ LineEnd = 1 /\ parser.data # <<>>
      /\ ~IsState(parser.data) /\ ~IsPing(parser.data)
      /\ event' = parser.data /\ cursor' = Tracked(parser.idBuffer)
      /\ resume' = cursor' /\ parser' = Fresh(cursor') /\ wire' = <<>> /\ known' = 0
      /\ told' = Larger(told, parser.data[1].n) /\ pc' = "raised"
      /\ UNCHANGED <<happened, chatter, delivered, failures, faults, missed, fruitless>>
  BY DEF Malformed
<1>2. PICK a, b : /\ IsAt(a, parser, Larger(told, missed), Text) /\ Reads(Text, a, b)
  BY <1>1 DEF Readable, Connected
<1>3. PICK d \in Labels : LineReads(a, d)
  <2>1. LineEnd # 0  BY <1>1
  <2>2. QED  BY <1>2, <2>1, LineTaken
<1>4. Whole(parser.data) /\ parser.idBuffer <= Latest
  <2>1. a \in Labels  BY <1>2 DEF IsAt
  <2>2. QED  BY <1>1, <1>2, <1>3, <2>1, BlankReads
<1>5. /\ told' \in 0 .. happened /\ Larger(told, missed)' = Latest
      /\ Larger(told, missed) <= Latest /\ Latest \in Nat
  BY <1>1, ToldOn
<1>6. cursor' \in Nat /\ cursor' <= Latest  BY <1>1, <1>4, <1>5, TrackedIs
<1>7. Symbols' = Symbols /\ <<>> \in Seq(Symbols) /\ ~Connected'
  BY <1>1, EmptySeq DEF Symbols, Connected
<1>8. TypeOK'
  <2>1. event' \in Seq(Symbols)  BY <1>1 DEF TypeOK
  <2>2. parser' \in Parsers  BY <1>1, <1>6, <1>7 DEF Fresh
  <2>3. QED  BY <1>1, <1>5, <1>6, <1>7, <2>1, <2>2 DEF TypeOK
<1>9. Tidy' /\ Readable' /\ Counted'
  BY <1>1, <1>7 DEF Tidy, Readable, Counted, Fresh
<1>10. Honest'
  <2>1. parser'.lastId = cursor'  BY <1>1 DEF Fresh
  <2>2. Larger(cursor, resume)' = cursor'  BY <1>1 DEF Larger
  <2>3. QED  BY <1>5, <1>6, <2>1, <2>2 DEF Honest, ResumesFromTheTold
<1>11. EventsArriveWhole'
  <2>1. IsJunk(event')  BY <1>1, <1>4 DEF Whole
  <2>2. event' \in Seq(Symbols)  BY <1>1 DEF TypeOK
  <2>3. 1 \in DOMAIN event' /\ event'[1].kind = "junk"
    BY <2>1, <2>2, LenProperties DEF IsJunk
  <2>4. QED  BY <2>3 DEF EventsArriveWhole
<1>12. QED  BY <1>8, <1>9, <1>10, <1>11

LEMMA ChunkDoneStep == ASSUME ListenerInv, ChunkDone  PROVE ListenerInv'
<1> USE DEF ListenerInv
<1>1. /\ pc = "feeding" /\ cursor' = Tracked(parser.lastId) /\ pc' = "open"
      /\ UNCHANGED <<happened, known, wire, chatter, parser, event, resume, delivered, failures,
                     faults, told, missed, fruitless>>
  BY DEF ChunkDone, server
<1>2. cursor \in Nat /\ resume \in Nat /\ parser.lastId \in Nat /\ told \in Nat /\ missed \in Nat
  BY DEF TypeOK
<1>3. cursor' \in Nat /\ cursor' \in {cursor, parser.lastId}  BY <1>1, <1>2 DEF Tracked
<1>4. Symbols' = Symbols /\ Text' = Text /\ Larger(told, missed)' = Larger(told, missed)
  BY <1>1 DEF Symbols, Text, Larger
<1>5. TypeOK'  BY <1>1, <1>3, <1>4 DEF TypeOK
<1>6. Tidy' /\ Counted'  BY <1>1 DEF Tidy, Counted, Connected
<1>7. Readable'  BY <1>1, <1>4 DEF Readable, Connected
<1>8. Honest'  BY <1>1, <1>2, <1>3 DEF Honest, ResumesFromTheTold, Larger
<1>9. EventsArriveWhole'  BY <1>1 DEF EventsArriveWhole, IsState, IsPing
<1>10. QED  BY <1>5, <1>6, <1>7, <1>8, <1>9

LEMMA PullNextStep == ASSUME ListenerInv, PullNext  PROVE ListenerInv'
<1> USE DEF ListenerInv
<1>1. /\ pc = "yielded" /\ pc' = "feeding" /\ event' = <<>>
      /\ UNCHANGED <<happened, known, wire, chatter, parser, cursor, resume, delivered, failures,
                     faults, told, missed, fruitless>>
  BY DEF PullNext, server
<1>2. Symbols' = Symbols /\ Text' = Text /\ Larger(told, missed)' = Larger(told, missed)
  BY <1>1 DEF Symbols, Text, Larger
<1>3. TypeOK'  BY <1>1, <1>2, EmptySeq DEF TypeOK
<1>4. Tidy' /\ Counted'  BY <1>1 DEF Tidy, Counted, Connected
<1>5. Readable'  BY <1>1, <1>2 DEF Readable, Connected
<1>6. Honest' /\ EventsArriveWhole'
  BY <1>1 DEF Honest, ResumesFromTheTold, Larger, EventsArriveWhole
<1>7. QED  BY <1>3, <1>4, <1>5, <1>6

(***************************************************************************)
(* The invariant, and what follows from it.                                *)
(***************************************************************************)
LEMMA ListenerInitInv == Init => ListenerInv
<1>1. SUFFICES ASSUME Init  PROVE ListenerInv  OBVIOUS
<1>2. /\ happened = 0 /\ known = 0 /\ wire = <<>> /\ chatter = 0 /\ pc = "dialing"
      /\ parser = Fresh(0) /\ event = <<>> /\ cursor = 0 /\ resume = 0
      /\ delivered = FALSE /\ failures = 0 /\ faults = 0
      /\ told = 0 /\ missed = 0 /\ fruitless = 0
  BY <1>1 DEF Init
<1>3. <<>> \in Seq(Symbols) /\ 0 \in 0 .. happened  BY <1>2, EmptySeq
<1>4. parser \in Parsers  BY <1>2, <1>3 DEF Fresh
<1>5. TypeOK  BY <1>2, <1>3, <1>4 DEF TypeOK
<1>6. ~Connected  BY <1>2 DEF Connected
<1>7. Tidy /\ Readable  BY <1>2, <1>6 DEF Tidy, Readable, Fresh
<1>8. parser.lastId = 0 /\ Larger(told, missed) = 0 /\ Larger(cursor, resume) = 0
  BY <1>2 DEF Fresh, Larger
<1>9. Honest  BY <1>8 DEF Honest, ResumesFromTheTold
<1>10. EventsArriveWhole /\ Counted  BY <1>2 DEF EventsArriveWhole, Counted
<1>11. QED  BY <1>5, <1>7, <1>9, <1>10 DEF ListenerInv

LEMMA ListenerNextInv == ListenerInv /\ [Next]_vars => ListenerInv'
<1>1. SUFFICES ASSUME ListenerInv, [Next]_vars  PROVE ListenerInv'  OBVIOUS
<1>2. CASE Change  BY <1>1, <1>2, ChangeStep
<1>3. CASE EmitState  BY <1>1, <1>3, StateStep
<1>4. CASE EmitJunk  BY <1>1, <1>4, JunkStep
<1>5. CASE EmitPing  BY <1>1, <1>5, PingStep
<1>6. CASE EmitCheckpoint  BY <1>1, <1>6, CheckpointStep
<1>7. CASE Connect  BY <1>1, <1>7, ConnectStep
<1>8. CASE Receive  BY <1>1, <1>8, ReceiveStep
<1>9. CASE Field  BY <1>1, <1>9, FieldStep
<1>10. CASE DispatchNothing  BY <1>1, <1>10, DispatchNothingStep
<1>11. CASE Deliver  BY <1>1, <1>11, DeliverStep
<1>12. CASE Malformed  BY <1>1, <1>12, MalformedStep
<1>13. CASE ChunkDone  BY <1>1, <1>13, ChunkDoneStep
<1>14. CASE Redial \/ DialFails \/ DialRefused \/ ListenAgain
  BY <1>1, <1>14, BetweenConnections
<1>15. CASE Drop \/ End \/ Close  BY <1>1, <1>15, EndStep
<1>16. CASE PullNext  BY <1>1, <1>16, PullNextStep
<1>17. CASE UNCHANGED vars
  BY <1>1, <1>17 DEF vars, ListenerInv, TypeOK, Symbols, Tidy, Readable, Connected, Text, Honest,
                     ResumesFromTheTold, Larger, EventsArriveWhole, IsState, IsPing, Counted
<1>18. QED
  BY <1>1, <1>2, <1>3, <1>4, <1>5, <1>6, <1>7, <1>8, <1>9, <1>10, <1>11, <1>12, <1>13, <1>14,
     <1>15, <1>16, <1>17 DEF Next, Listen

LEMMA ListenerInvariant == Spec => []ListenerInv
BY ListenerInitInv, ListenerNextInv, PTL DEF Spec

\* For any number of changes, drops and chunks: the resume cursor is of a state the
\* caller was told of (or began from), wherever a connection ends, and a connection that
\* has nothing more to say leaves nothing untold.
THEOREM CursorIsAlwaysHonest == Spec => []CursorIsHonest
<1>1. ListenerInv => CursorIsHonest
  <2>1. SUFFICES ASSUME ListenerInv  PROVE CursorIsHonest  OBVIOUS
  <2>2. ResumesFromTheTold  BY <2>1 DEF ListenerInv, Honest
  <2>3. NothingUntold
    <3>1. SUFFICES ASSUME pc = "open", wire = <<>>, known = happened, parser.buffer = <<>>
                   PROVE  Larger(told, missed) = happened
      BY DEF NothingUntold
    <3>2. Text = <<>>  BY <3>1, ConcatEmptySeq, EmptySeq DEF Text
    <3>3. PICK a, b : /\ IsAt(a, parser, Larger(told, missed), Text) /\ Reads(Text, a, b)
                      /\ known <= b.told
      BY <2>1, <3>1 DEF ListenerInv, Readable, Connected
    <3>4. a = b /\ a.told = Larger(told, missed)
      BY <3>2, <3>3, ReadsNothing DEF IsAt
    <3>5. Larger(told, missed) \in 0 .. happened /\ happened \in Nat
      BY <2>1, SymbolTypes DEF ListenerInv, TypeOK
    <3>6. QED  BY <3>1, <3>3, <3>4, <3>5
  <2>4. QED  BY <2>2, <2>3 DEF CursorIsHonest
<1>2. QED  BY <1>1, ListenerInvariant, PTL

\* However the stream is cut into chunks and whichever way its lines end, an event
\* reaches the caller whole: one that does not parse is one the server garbled.
THEOREM EventsAlwaysArriveWhole == Spec => []EventsArriveWhole
<1>1. ListenerInv => EventsArriveWhole  BY DEF ListenerInv
<1>2. QED  BY <1>1, ListenerInvariant, PTL

\* The pause grows with the connections in a row that show no sign of working, and with
\* nothing else.
THEOREM BackoffAlwaysFits == Spec => []BackoffFits
<1>1. ListenerInv => BackoffFits  BY DEF ListenerInv, Counted, BackoffFits
<1>2. QED  BY <1>1, ListenerInvariant, PTL
=============================================================================
