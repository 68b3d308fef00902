--------------------------- MODULE DataInHand_proofs ---------------------------
(***************************************************************************)
(* Theorems about data a caller has in hand.                               *)
(*                                                                         *)
(* PatchBuilder, for any keys, values and patches: the two indexes hold    *)
(* what they are said to, whatever is added in whatever order, and so the  *)
(* sweep of build() finds nothing.                                         *)
(*                                                                         *)
(* QueryView, for any records and lists of them: what the merge of a       *)
(* splice makes, and so that a view stays in step with the server.         *)
(*                                                                         *)
(* IJSON, for any documents: what the hooks, the scan and the walk have    *)
(* made sure of between them.                                              *)
(*                                                                         *)
(* Blobs, for any calls and any server of the fake's kind: what is refused *)
(* would have failed, and what is read is what is stored.                  *)
(***************************************************************************)
EXTENDS PatchBuilder, QueryView, IJSON, Blobs,
        FiniteSetTheorems, SequenceTheorems, WellFoundedInduction, TLAPS

(***************************************************************************)
(* PatchBuilder: the parts of the invariant.                               *)
(***************************************************************************)
Edits == Values \cup {Null}

EditsOK == edits \in [Held -> Edits] /\ Held \subseteq Keys

OwnersOK ==
    /\ DOMAIN owners = {k.tokens : k \in Held}
    /\ \A t \in DOMAIN owners : owners[t] \in Held /\ owners[t].tokens = t

AncestorsOK ==
    /\ DOMAIN ancestors = UNION {ProperPrefixes(k.tokens) : k \in Held}
    /\ \A p \in DOMAIN ancestors :
         ancestors[p] \in Held /\ p \in ProperPrefixes(ancestors[p].tokens)

MergingOK == merging \in Seq(Keys \X Edits)
RefusedOK == refused \subseteq Keys

\* What was handed out was free of overlap when it was built, and is a copy.
BuiltOK == DOMAIN built \subseteq Keys /\ OverlapFree(DOMAIN built)

IInv == EditsOK /\ OwnersOK /\ AncestorsOK /\ MergingOK /\ RefusedOK /\ BuiltOK /\ SweepAgrees

-----------------------------------------------------------------------------
(***************************************************************************)
(* Pointers.                                                               *)
(***************************************************************************)
\* A proper prefix is shorter, and is no pointer of its own.
LEMMA PrefixShorter ==
    ASSUME NEW S, NEW t \in Seq(S), NEW p \in ProperPrefixes(t)
    PROVE  p \in Seq(S) /\ Len(p) < Len(t) /\ p # t
  <1>1. PICK n \in 0..(Len(t) - 1) : p = SubSeq(t, 1, n)
    BY DEF ProperPrefixes
  <1>2. Len(t) \in Nat /\ n \in Nat /\ n < Len(t)
    BY <1>1
  <1>3. p \in Seq(S) /\ Len(p) = n
    BY <1>1, <1>2
  <1> QED BY <1>2, <1>3

\* A pointer that another lies beneath is that other, or a proper prefix of it.
LEMMA BeneathIsOverlap ==
    ASSUME NEW S, NEW T, NEW p \in Seq(S), NEW q \in Seq(T), Beneath(p, q)
    PROVE  p = q \/ p \in ProperPrefixes(q)
  <1>1. Len(p) \in Nat /\ Len(q) \in Nat /\ Len(p) <= Len(q) /\ SubSeq(q, 1, Len(p)) = p
    BY DEF Beneath
  <1>2. CASE Len(p) = Len(q)
    <2>1. SubSeq(q, 1, Len(q)) = q
      OBVIOUS
    <2> QED BY <1>1, <1>2, <2>1
  <1>3. CASE Len(p) < Len(q)
    <2>1. Len(p) \in 0..(Len(q) - 1)
      BY <1>1, <1>3
    <2> QED BY <1>1, <2>1 DEF ProperPrefixes
  <1> QED BY <1>1, <1>2, <1>3

\* The tokens of a key, as a sequence.
LEMMA KeyTokens ==
    ASSUME NEW k \in Keys
    PROVE  k.tokens \in Seq({k.tokens[i] : i \in DOMAIN k.tokens})
  BY KeysAssumption DEF KeysAssumption

\* A key alone does not overlap itself.
LEMMA NotAboveItself ==
    ASSUME NEW k \in Keys
    PROVE  k.tokens \notin ProperPrefixes(k.tokens)
  BY KeyTokens, PrefixShorter

-----------------------------------------------------------------------------
(***************************************************************************)
(* What the complaints of a key say.                                       *)
(***************************************************************************)
\* A complaint is of the key and of one that is held, and the two overlap.
LEMMA ComplaintsAreTrue ==
    ASSUME OwnersOK, AncestorsOK, NEW k, k \notin Held, NEW c \in Complaints(k)
    PROVE  \/ c[1] \in Held /\ c[2] = k /\ ~OverlapFree({c[1], c[2]})
           \/ c[2] \in Held /\ c[1] = k /\ ~OverlapFree({c[1], c[2]})
  <1>1. CASE c \in SameProperty(k)
    <2>1. k.tokens \in DOMAIN owners /\ c = <<owners[k.tokens], k>>
      BY <1>1 DEF SameProperty
    <2>2. c[1] \in Held /\ c[1].tokens = k.tokens /\ c[2] = k /\ c[1] # k
      BY <2>1 DEF OwnersOK
    <2> QED BY <2>2 DEF OverlapFree
  <1>2. CASE c \in AboveHeld(k)
    <2>1. k.tokens \in DOMAIN ancestors /\ c = <<k, ancestors[k.tokens]>>
      BY <1>2 DEF AboveHeld
    <2>2. c[1] = k /\ c[2] \in Held /\ k.tokens \in ProperPrefixes(c[2].tokens)
      BY <2>1 DEF AncestorsOK
    <2> QED BY <2>2 DEF OverlapFree
  <1>3. CASE c \in BelowHeld(k)
    <2>1. PICK p \in ProperPrefixes(k.tokens) \cap DOMAIN owners : c = <<owners[p], k>>
      BY <1>3 DEF BelowHeld
    <2>2. c[2] = k /\ c[1] \in Held /\ c[1].tokens \in ProperPrefixes(k.tokens)
      BY <2>1 DEF OwnersOK
    <2> QED BY <2>2 DEF OverlapFree
  <1> QED BY <1>1, <1>2, <1>3 DEF Complaints

\* No complaint, no overlap: the three lookups see what a sweep would.
LEMMA NoComplaintNoOverlap ==
    ASSUME EditsOK, OwnersOK, AncestorsOK, SweepAgrees,
           NEW k \in Keys, Complaints(k) = {}
    PROVE  OverlapFree(Held \cup {k})
  <1>1. k.tokens \notin DOMAIN owners /\ k.tokens \notin DOMAIN ancestors
    BY DEF Complaints, SameProperty, AboveHeld
  <1>2. ProperPrefixes(k.tokens) \cap DOMAIN owners = {}
    BY DEF Complaints, BelowHeld
  <1>3. ASSUME NEW a \in Held
        PROVE  /\ a.tokens # k.tokens
               /\ k.tokens \notin ProperPrefixes(a.tokens)
               /\ a.tokens \notin ProperPrefixes(k.tokens)
    BY <1>1, <1>2 DEF OwnersOK, AncestorsOK
  <1>4. k.tokens \notin ProperPrefixes(k.tokens)
    BY NotAboveItself
  <1>5. ASSUME NEW a \in Held \cup {k}, NEW b \in Held \cup {k}
        PROVE  (a.tokens = b.tokens => a = b) /\ a.tokens \notin ProperPrefixes(b.tokens)
    <2>1. CASE a \in Held /\ b \in Held
      BY <2>1 DEF SweepAgrees, OverlapFree
    <2>2. CASE a = k /\ b = k
      BY <2>2, <1>4
    <2>3. CASE a \in Held /\ b = k
      BY <2>3, <1>3
    <2>4. CASE a = k /\ b \in Held
      BY <2>4, <1>3
    <2> QED BY <2>1, <2>2, <2>3, <2>4
  <1> QED BY <1>5 DEF OverlapFree

-----------------------------------------------------------------------------
(***************************************************************************)
(* The invariant is one.                                                   *)
(***************************************************************************)
LEMMA InitInv == Init => IInv
  <1> SUFFICES ASSUME Init PROVE IInv
    OBVIOUS
  <1>1. Held = {} /\ DOMAIN owners = {} /\ DOMAIN ancestors = {} /\ DOMAIN built = {}
    BY DEF Init, Held
  <1>2. edits \in [Held -> Edits]
    BY <1>1 DEF Init
  <1>3. MergingOK /\ RefusedOK
    BY DEF Init, MergingOK, RefusedOK
  <1>4. OverlapFree({})
    BY DEF OverlapFree
  <1> QED
    BY <1>1, <1>2, <1>3, <1>4 DEF IInv, EditsOK, OwnersOK, AncestorsOK, BuiltOK, SweepAgrees

\* Adding a key that passes keeps the edits and both indexes.
LEMMA AcceptInv ==
    ASSUME IInv, NEW k \in Keys, NEW v \in Edits, Accept(k, v)
    PROVE  EditsOK' /\ OwnersOK' /\ AncestorsOK' /\ RefusedOK' /\ SweepAgrees'
  <1> USE DEF IInv
  <1>1. Held' = Held \cup {k} /\ edits' = With(edits, k, v)
    BY DEF Accept, With, Held
  <1>2. EditsOK'
    <2>1. \A x \in Held : edits[x] \in Edits
      BY DEF EditsOK
    <2>2. edits' \in [Held' -> Edits]
      BY <1>1, <2>1 DEF With, Held
    <2> QED BY <1>1, <2>2 DEF EditsOK
  <1>3. RefusedOK'
    BY DEF Accept, RefusedOK
  <1>4. CASE k \in Held
    <2>1. Held' = Held /\ owners' = owners /\ ancestors' = ancestors
      BY <1>1, <1>4 DEF Accept
    <2> QED BY <1>2, <1>3, <2>1 DEF OwnersOK, AncestorsOK, SweepAgrees
  <1>5. CASE k \notin Held
    <2>1. Complaints(k) = {}
      BY <1>5 DEF Accept
    <2>2. SweepAgrees'
      BY <1>1, <2>1, NoComplaintNoOverlap DEF SweepAgrees
    <2>3. OwnersOK'
      <3>1. owners' = With(owners, k.tokens, k)
        BY <1>5 DEF Accept
      <3>2. DOMAIN owners' = DOMAIN owners \cup {k.tokens}
        BY <3>1 DEF With
      <3>3. \A t \in DOMAIN owners' : owners'[t] = IF t = k.tokens THEN k ELSE owners[t]
        BY <3>1, <3>2 DEF With
      <3> QED BY <1>1, <3>2, <3>3 DEF OwnersOK
    <2>4. AncestorsOK'
      <3>1. ancestors' = [p \in DOMAIN ancestors \cup ProperPrefixes(k.tokens) |->
                             IF p \in DOMAIN ancestors THEN ancestors[p] ELSE k]
        BY <1>5 DEF Accept
      <3>2. DOMAIN ancestors' = DOMAIN ancestors \cup ProperPrefixes(k.tokens)
        BY <3>1
      <3>3. \A p \in DOMAIN ancestors' :
               ancestors'[p] = IF p \in DOMAIN ancestors THEN ancestors[p] ELSE k
        BY <3>1, <3>2
      <3>4. DOMAIN ancestors' = UNION {ProperPrefixes(x.tokens) : x \in Held'}
        BY <1>1, <3>2 DEF AncestorsOK
      <3>5. \A p \in DOMAIN ancestors' :
               ancestors'[p] \in Held' /\ p \in ProperPrefixes(ancestors'[p].tokens)
        BY <1>1, <3>2, <3>3 DEF AncestorsOK
      <3> QED BY <3>4, <3>5 DEF AncestorsOK
    <2> QED BY <1>2, <1>3, <2>2, <2>3, <2>4
  <1> QED BY <1>4, <1>5

\* A refusal names keys, and touches nothing else.
LEMMA RefuseInv ==
    ASSUME IInv, NEW k \in Keys, Refuse(k)
    PROVE  EditsOK' /\ OwnersOK' /\ AncestorsOK' /\ RefusedOK' /\ SweepAgrees'
  <1> USE DEF IInv
  <1>1. Held' = Held /\ edits' = edits /\ owners' = owners /\ ancestors' = ancestors
    BY DEF Refuse, Held
  <1>2. RefusedOK'
    <2>1. CASE refused' = {k}
      BY <2>1 DEF RefusedOK
    <2>2. ASSUME k \notin Held, NEW c \in Complaints(k), refused' = {c[1], c[2]}
          PROVE  RefusedOK'
      <3>1. c[1] \in Held \cup {k} /\ c[2] \in Held \cup {k}
        BY <2>2, ComplaintsAreTrue
      <3> QED BY <2>2, <3>1 DEF RefusedOK, EditsOK
    <2> QED BY <2>1, <2>2 DEF Refuse
  <1> QED BY <1>1, <1>2 DEF EditsOK, OwnersOK, AncestorsOK, SweepAgrees

\* What the builders of memberships and shares hand to merge() is a patch of keys.
LEMMA MemberPatchIsPatch ==
    ASSUME NEW m \in Memberships
    PROVE  MemberPatch(m.add, m.remove) \in Seq(Keys \X Edits)
  <1> DEFINE Added == [i \in 1..Len(m.add) |-> <<Member(m.add[i]), Set>>]
             Removed == [i \in 1..Len(m.remove) |-> <<Member(m.remove[i]), Null>>]
  <1>1. m.add \in Seq(DOMAIN Parsed) /\ m.remove \in Seq(DOMAIN Parsed)
    BY PatchesAssumption DEF PatchesAssumption
  <1>2. Set \in Edits /\ Null \in Edits
    BY PatchesAssumption DEF PatchesAssumption, Edits
  <1>3. \A i \in 1..Len(m.add) : Member(m.add[i]) \in Keys
    BY <1>1, PatchesAssumption DEF PatchesAssumption
  <1>4. \A i \in 1..Len(m.remove) : Member(m.remove[i]) \in Keys
    BY <1>1, PatchesAssumption DEF PatchesAssumption
  <1>5. Len(m.add) \in Nat /\ Len(m.remove) \in Nat
    BY <1>1
  <1>6. Added \in Seq(Keys \X Edits)
    BY <1>2, <1>3, <1>5
  <1>7. Removed \in Seq(Keys \X Edits)
    BY <1>2, <1>4, <1>5
  <1> HIDE DEF Added, Removed
  <1>8. Added \o Removed \in Seq(Keys \X Edits)
    BY <1>6, <1>7
  <1> QED BY <1>8 DEF MemberPatch, Added, Removed

LEMMA SharingIsPatch ==
    ASSUME BeginSharing
    PROVE  merging' \in Seq(Keys \X Edits)
  <1>1. Everyone \in Keys /\ \A p \in Principals : Entry(p) \in Keys
    BY SharingAssumption DEF SharingAssumption
  <1>2. Rights \in Edits /\ Null \in Edits
    BY SharingAssumption DEF SharingAssumption, Edits
  <1>3. \E pair \in Keys \X Edits : merging' = <<pair>>
    BY <1>1, <1>2 DEF BeginSharing
  <1> QED BY <1>3

\* One step per action.
LEMMA NextInv == IInv /\ [Next]_vars => IInv'
  <1> SUFFICES ASSUME IInv, [Next]_vars PROVE IInv'
    OBVIOUS
  <1> USE DEF IInv
  <1>1. ASSUME NEW k \in Keys, NEW v \in Values \cup {Null}, SetPath(k, v)
        PROVE  IInv'
    <2>1. EditsOK' /\ OwnersOK' /\ AncestorsOK' /\ RefusedOK' /\ SweepAgrees'
      BY <1>1, AcceptInv, RefuseInv DEF SetPath, Edits
    <2>2. merging' = merging /\ built' = built
      BY <1>1 DEF SetPath
    <2> QED BY <2>1, <2>2 DEF MergingOK, BuiltOK
  <1>2. ASSUME merging' \in Seq(Keys \X Edits),
               UNCHANGED <<edits, owners, ancestors, refused, built>>
        PROVE  IInv'
    BY <1>2 DEF EditsOK, OwnersOK, AncestorsOK, MergingOK, RefusedOK, BuiltOK, SweepAgrees, Held
  <1>3. ASSUME NEW patch \in Patches, BeginMerge(patch)
        PROVE  IInv'
    <2>1. patch \in Seq(Keys \X Edits)
      BY PatchesAssumption DEF PatchesAssumption, Edits
    <2> QED BY <1>2, <1>3, <2>1 DEF BeginMerge
  <1>4. ASSUME NEW m \in Memberships, BeginMembership(m)
        PROVE  IInv'
    BY <1>2, <1>4, MemberPatchIsPatch DEF BeginMembership
  <1>5. CASE BeginSharing
    BY <1>2, <1>5, SharingIsPatch DEF BeginSharing
  <1>6. CASE MergeNext
    <2>1. merging # <<>> /\ built' = built
      BY <1>6 DEF MergeNext
    <2>2. merging[1] \in Keys \X Edits /\ Tail(merging) \in Seq(Keys \X Edits)
      BY <2>1 DEF MergingOK
    <2>3. EditsOK' /\ OwnersOK' /\ AncestorsOK' /\ RefusedOK' /\ SweepAgrees'
      BY <1>6, <2>2, AcceptInv, RefuseInv DEF MergeNext
    <2>4. merging' = Tail(merging) \/ merging' = <<>>
      BY <1>6 DEF MergeNext
    <2>5. <<>> \in Seq(Keys \X Edits)
      OBVIOUS
    <2>6. MergingOK'
      BY <2>2, <2>4, <2>5 DEF MergingOK
    <2> QED BY <2>1, <2>3, <2>6 DEF BuiltOK
  <1>7. CASE Build
    <2>1. UNCHANGED <<edits, owners, ancestors, merging>> /\ built' = edits /\ refused' = {}
      BY <1>7 DEF Build, SweepAgrees
    <2>2. BuiltOK'
      BY <2>1 DEF BuiltOK, SweepAgrees, EditsOK, Held
    <2> QED
      BY <2>1, <2>2 DEF EditsOK, OwnersOK, AncestorsOK, MergingOK, RefusedOK, SweepAgrees, Held
  <1>8. CASE UNCHANGED vars
    BY <1>8 DEF vars, EditsOK, OwnersOK, AncestorsOK, MergingOK, RefusedOK, BuiltOK, SweepAgrees, Held
  <1> QED BY <1>1, <1>3, <1>4, <1>5, <1>6, <1>7, <1>8 DEF Next

\* The invariant: the indexes, and the freedom from overlap that the lookups keep up.
THEOREM Invariant == Spec => []IInv
  <1> QED BY InitInv, NextInv, PTL DEF Spec

-----------------------------------------------------------------------------
(***************************************************************************)
(* What follows from it.                                                   *)
(***************************************************************************)
\* PatchBuilder keeps its types, and its two indexes agree with its edits.
THEOREM TypeCorrect == Spec => []TypeOK
  <1>1. IInv => TypeOK
    BY DEF IInv, EditsOK, OwnersOK, AncestorsOK, MergingOK, RefusedOK, TypeOK, Edits
  <1> QED BY <1>1, Invariant, PTL

\* Two keys that do not overlap: what either sets is not what the other clears.
LEMMA ApartInFreePatch ==
    ASSUME NEW ks, ks \subseteq Keys, OverlapFree(ks), NEW a \in ks, NEW b \in ks, a # b
    PROVE  ~Beneath(a.tokens, b.tokens)
  <1>1. a.tokens # b.tokens /\ a.tokens \notin ProperPrefixes(b.tokens)
    BY DEF OverlapFree
  <1> QED BY <1>1, KeyTokens, BeneathIsOverlap

\* One edit after another, in terms of the document alone.
LEMMA TwoEdits ==
    ASSUME NEW D, NEW a, NEW b, NEW v, NEW w, ~Beneath(b.tokens, a.tokens)
    PROVE  Edited(Edited(D, a, v), b, w) =
             {leaf \in D : ~Beneath(a.tokens, leaf[1]) /\ ~Beneath(b.tokens, leaf[1])}
               \cup (IF v = Null THEN {} ELSE {<<a.tokens, v>>})
               \cup (IF w = Null THEN {} ELSE {<<b.tokens, w>>})
  <1>1. <<a.tokens, v>>[1] = a.tokens
    OBVIOUS
  <1> QED BY <1>1 DEF Edited

LEMMA FreePatchCommutes ==
    ASSUME NEW patch, NEW D, DOMAIN patch \subseteq Keys, OverlapFree(DOMAIN patch)
    PROVE  EditsCommute(patch, D)
  <1> SUFFICES ASSUME NEW a \in DOMAIN patch, NEW b \in DOMAIN patch, a # b
               PROVE  Edited(Edited(D, a, patch[a]), b, patch[b]) =
                      Edited(Edited(D, b, patch[b]), a, patch[a])
    BY DEF EditsCommute
  <1>1. ~Beneath(a.tokens, b.tokens) /\ ~Beneath(b.tokens, a.tokens)
    BY ApartInFreePatch
  <1> DEFINE A == IF patch[a] = Null THEN {} ELSE {<<a.tokens, patch[a]>>}
             B == IF patch[b] = Null THEN {} ELSE {<<b.tokens, patch[b]>>}
             AB == {leaf \in D : ~Beneath(a.tokens, leaf[1]) /\ ~Beneath(b.tokens, leaf[1])}
             BA == {leaf \in D : ~Beneath(b.tokens, leaf[1]) /\ ~Beneath(a.tokens, leaf[1])}
  <1>2. Edited(Edited(D, a, patch[a]), b, patch[b]) = AB \cup A \cup B
    BY <1>1, TwoEdits
  <1>3. Edited(Edited(D, b, patch[b]), a, patch[a]) = BA \cup B \cup A
    BY <1>1, TwoEdits
  <1>4. AB = BA
    OBVIOUS
  <1> HIDE DEF A, B, AB, BA
  <1> QED BY <1>2, <1>3, <1>4

\* build() hands out patches that mean one thing whatever order the server takes their
\* keys in, and never refuses what the additions let in.
THEOREM PatchesAreSound == Spec => []PatchIsSound
  <1>1. IInv => PatchIsSound
    BY FreePatchCommutes DEF IInv, BuiltOK, PatchIsSound, PatchMeansOneThing
  <1> QED BY <1>1, Invariant, PTL

\* Every InvalidPatchError names a malformed key, or a pair that overlaps one of which
\* is held; the sweep of build() names none.
THEOREM RefusedJustly == Spec => RefusalsAreJust
  <1> DEFINE Just ==
        refused' # refused /\ refused' # {} =>
          \/ \E k \in refused' : refused' = {k} /\ ~WellFormed(k)
          \/ \E a \in refused' \cap Held, b \in refused' : refused' = {a, b} /\ ~OverlapFree({a, b})
  <1>1. ASSUME OwnersOK, AncestorsOK, NEW k, Refuse(k)
        PROVE  Just
    <2>1. CASE ~WellFormed(k) /\ refused' = {k}
      BY <2>1
    <2>2. ASSUME k \notin Held, NEW c \in Complaints(k), refused' = {c[1], c[2]}
          PROVE  Just
      <3>1. \/ c[1] \in Held /\ ~OverlapFree({c[1], c[2]})
            \/ c[2] \in Held /\ ~OverlapFree({c[1], c[2]})
        BY <1>1, <2>2, ComplaintsAreTrue
      <3>2. {c[1], c[2]} = {c[2], c[1]}
        OBVIOUS
      <3> QED BY <2>2, <3>1, <3>2
    <2> QED BY <1>1, <2>1, <2>2 DEF Refuse
  <1>2. IInv /\ [Next]_vars => [Just]_vars
    <2> SUFFICES ASSUME IInv, [Next]_vars PROVE Just
      OBVIOUS
    <2>1. ASSUME refused' = refused \/ refused' = {} PROVE Just
      BY <2>1
    <2>2. OwnersOK /\ AncestorsOK /\ OverlapFree(Held)
      BY DEF IInv, SweepAgrees
    <2>3. CASE \E k \in Keys, v \in Values \cup {Null} : SetPath(k, v)
      BY <1>1, <2>1, <2>2, <2>3 DEF SetPath, Accept
    <2>4. CASE \E patch \in Patches : BeginMerge(patch)
      BY <2>1, <2>4 DEF BeginMerge
    <2>5. CASE \E m \in Memberships : BeginMembership(m)
      BY <2>1, <2>5 DEF BeginMembership
    <2>6. CASE BeginSharing
      BY <2>1, <2>6 DEF BeginSharing
    <2>7. CASE MergeNext
      BY <1>1, <2>1, <2>2, <2>7 DEF MergeNext, Accept
    <2>8. CASE Build
      BY <2>1, <2>2, <2>8 DEF Build
    <2>9. CASE UNCHANGED vars
      BY <2>1, <2>9 DEF vars
    <2> QED BY <2>3, <2>4, <2>5, <2>6, <2>7, <2>8, <2>9 DEF Next
  <1> QED BY <1>2, Invariant, PTL DEF Spec, RefusalsAreJust

-----------------------------------------------------------------------------
(***************************************************************************)
(* QueryView: induction up to a number.                                    *)
(***************************************************************************)
\* A set of numbers that is not empty has a least member.
LEMMA Least ==
    ASSUME NEW T \in SUBSET Nat, T # {}
    PROVE  \E n \in T : \A m \in T : n <= m
<1>1. PICK n \in T : \A m \in T : ~(<<m, n>> \in OpToRel(<, Nat))
  BY WFMin, NatLessThanWellFounded
<1>2. \A m \in T : ~(m < n)
  BY <1>1 DEF OpToRel
<1> QED BY <1>2

\* Induction up to n, for a set: what holds at 0 and is handed on holds at every place.
LEMMA UpTo ==
    ASSUME NEW n \in Nat, NEW T \in SUBSET (0 .. n), 0 \in T,
           \A i \in T : i < n => i + 1 \in T
    PROVE  T = 0 .. n
<1> DEFINE U == (0 .. n) \ T
<1> SUFFICES ASSUME U # {} PROVE FALSE
  OBVIOUS
<1>1. U \in SUBSET Nat
  OBVIOUS
<1>2. PICK i \in U : \A j \in U : i <= j
  <2> HIDE DEF U
  <2> QED BY <1>1, Least
<1>3. i - 1 \in 0 .. n /\ i - 1 \notin U
  BY <1>2
<1> QED BY <1>2, <1>3

-----------------------------------------------------------------------------
(***************************************************************************)
(* What is left of a list.                                                 *)
(***************************************************************************)

\* The rank of a place: how many up to it are left.
Ranks(list, ids, rest, rank) ==
    /\ rank \in [0 .. Len(list) -> Nat] /\ rank[0] = 0
    /\ \A i \in 1 .. Len(list) : rank[i] = IF list[i] \in ids THEN rank[i - 1] ELSE rank[i - 1] + 1
    /\ Len(rest) = rank[Len(list)]
    /\ \A i \in 1 .. Len(list) : list[i] \notin ids => rank[i] \in 1 .. Len(rest) /\ rest[rank[i]] = list[i]
    /\ \A q \in 1 .. Len(rest) : \E i \in 1 .. Len(list) : list[i] \notin ids /\ rank[i] = q

\* What is left stands in the order it had, each at its rank.
LEMMA WithoutIs ==
    ASSUME NEW X, NEW list \in Seq(X), NEW ids
    PROVE  /\ Without(list, ids) \in Seq(X)
           /\ \E rank : Ranks(list, ids, Without(list, ids), rank)
<1> DEFINE Step(f, i) == IF i = 0 THEN <<>>
                         ELSE IF list[i] \in ids THEN f[i - 1] ELSE Append(f[i - 1], list[i])
           kept == CHOOSE f : f = [i \in 0 .. Len(list) |-> Step(f, i)]
<1>1. Without(list, ids) = kept[Len(list)]
  BY DEF Without
<1>2. PICK n \in Nat : n = Len(list)
  OBVIOUS
<1>3. \E f : f = [i \in 0 .. n |-> Step(f, i)]
  <2> DEFINE T == {m \in 0 .. n : \E f : f = [i \in 0 .. m |-> Step(f, i)]}
  <2>1. 0 \in T
    <3> DEFINE f == [i \in 0 .. 0 |-> <<>>]
    <3>1. \A i \in 0 .. 0 : f[i] = Step(f, i)
      OBVIOUS
    <3>2. f = [i \in 0 .. 0 |-> f[i]]
      OBVIOUS
    <3> HIDE DEF f, Step
    <3>3. f = [i \in 0 .. 0 |-> Step(f, i)]
      BY <3>1, <3>2
    <3> QED BY <3>3
  <2>2. ASSUME NEW m \in T, m < n PROVE m + 1 \in T
    <3>1. PICK f : f = [i \in 0 .. m |-> Step(f, i)]
      OBVIOUS
    <3> DEFINE g == [i \in 0 .. m + 1 |-> IF i = m + 1 THEN Step(f, i) ELSE f[i]]
    <3>2. ASSUME NEW i \in 0 .. m + 1 PROVE g[i] = Step(g, i)
      <4>1. CASE i = 0
        BY <3>1, <4>1
      <4>2. CASE i # 0
        <5>1. i - 1 \in 0 .. m /\ g[i - 1] = f[i - 1]
          BY <4>2
        <5>2. g[i] = Step(f, i)
          <6> HIDE DEF Step
          <6>1. \A q \in 0 .. m : f[q] = Step(f, q)
            BY <3>1
          <6>2. CASE i = m + 1
            BY <6>2
          <6>3. CASE i # m + 1
            <7>1. i \in 0 .. m
              BY <6>3
            <7>2. g[i] = f[i]
              BY <6>3
            <7> QED BY <6>1, <7>1, <7>2
          <6> QED BY <6>2, <6>3
        <5> HIDE DEF g
        <5> QED BY <5>1, <5>2
      <4> QED BY <4>1, <4>2
    <3>3. g = [i \in 0 .. m + 1 |-> Step(g, i)]
      <4> HIDE DEF Step
      <4>1. g = [i \in 0 .. m + 1 |-> g[i]]
        OBVIOUS
      <4> HIDE DEF g
      <4> QED BY <3>2, <4>1
    <3> HIDE DEF g, Step
    <3>4. \E h : h = [i \in 0 .. m + 1 |-> Step(h, i)]
      BY <3>3
    <3>5. m + 1 \in 0 .. n
      BY <2>2
    <3> QED BY <3>4, <3>5
  <2> HIDE DEF Step
  <2>3. n \in T
    <3>1. T \in SUBSET (0 .. n)
      OBVIOUS
    <3> HIDE DEF T
    <3> QED BY <2>1, <2>2, <3>1, UpTo
  <2> QED BY <2>3
<1>4. kept = [i \in 0 .. n |-> Step(kept, i)]
  <2> HIDE DEF Step
  <2> QED BY <1>2, <1>3
<1> HIDE DEF kept
<1>5. /\ kept[0] = <<>>
      /\ \A i \in 1 .. n : kept[i] = IF list[i] \in ids THEN kept[i - 1]
                                     ELSE Append(kept[i - 1], list[i])
  <2>1. \A i \in 0 .. n : kept[i] = Step(kept, i)
    <3> HIDE DEF Step
    <3> QED BY <1>4
  <2>2. 0 \in 0 .. n /\ \A i \in 1 .. n : i \in 0 .. n /\ i # 0
    OBVIOUS
  <2>3. kept[0] = <<>>
    BY <2>1, <2>2
  <2>4. ASSUME NEW i \in 1 .. n
        PROVE  kept[i] = IF list[i] \in ids THEN kept[i - 1] ELSE Append(kept[i - 1], list[i])
    <3>1. kept[i] = Step(kept, i)
      BY <2>1, <2>2
    <3> QED BY <2>2, <3>1
  <2> HIDE DEF Step
  <2> QED BY <2>3, <2>4
<1> DEFINE Has(i) ==
             /\ kept[i] \in Seq(X)
             /\ \A j \in 1 .. i : list[j] \notin ids =>
                   Len(kept[j]) \in 1 .. Len(kept[i]) /\ kept[i][Len(kept[j])] = list[j]
             /\ \A q \in 1 .. Len(kept[i]) : \E j \in 1 .. i : list[j] \notin ids /\ Len(kept[j]) = q
           T == {i \in 0 .. n : Has(i)}
<1> HIDE DEF Step
<1>6. ASSUME NEW i \in T, i < n PROVE i + 1 \in T
  <2>1. /\ i + 1 \in 1 .. n /\ list[i + 1] \in X
        /\ kept[i] \in Seq(X) /\ Len(kept[i]) \in Nat /\ (i + 1) - 1 = i
    BY <1>2, <1>6
  <2>2. CASE list[i + 1] \in ids
    <3>1. kept[i + 1] = kept[i]
      BY <1>5, <2>1, <2>2
    <3>2. \A j \in 1 .. i + 1 : list[j] \notin ids => j \in 1 .. i
      BY <2>2
    <3>3. \A q \in 1 .. Len(kept[i]) : \E j \in 1 .. i + 1 : list[j] \notin ids /\ Len(kept[j]) = q
      <4> SUFFICES ASSUME NEW q \in 1 .. Len(kept[i])
          PROVE  \E j \in 1 .. i + 1 : list[j] \notin ids /\ Len(kept[j]) = q
        OBVIOUS
      <4>1. PICK j \in 1 .. i : list[j] \notin ids /\ Len(kept[j]) = q
        BY <1>6
      <4> QED BY <4>1
    <3>4. Has(i + 1)
      BY <2>1, <3>1, <3>2, <3>3
    <3> QED BY <2>1, <3>4
  <2>3. CASE list[i + 1] \notin ids
    <3>1. kept[i + 1] = Append(kept[i], list[i + 1])
      BY <1>5, <2>1, <2>3
    <3>2. /\ kept[i + 1] \in Seq(X) /\ Len(kept[i + 1]) = Len(kept[i]) + 1
          /\ \A q \in 1 .. Len(kept[i]) : kept[i + 1][q] = kept[i][q]
          /\ kept[i + 1][Len(kept[i]) + 1] = list[i + 1]
      BY <2>1, <3>1, AppendProperties
    <3>3. \A j \in 1 .. i + 1 : list[j] \notin ids =>
             Len(kept[j]) \in 1 .. Len(kept[i + 1]) /\ kept[i + 1][Len(kept[j])] = list[j]
      <4> SUFFICES ASSUME NEW j \in 1 .. i + 1, list[j] \notin ids
          PROVE  Len(kept[j]) \in 1 .. Len(kept[i + 1]) /\ kept[i + 1][Len(kept[j])] = list[j]
        OBVIOUS
      <4>1. CASE j = i + 1
        BY <2>1, <3>2, <4>1
      <4>2. CASE j # i + 1
        <5>1. j \in 1 .. i
          BY <4>2
        <5>2. Len(kept[j]) \in 1 .. Len(kept[i]) /\ kept[i][Len(kept[j])] = list[j]
          BY <5>1
        <5> QED BY <2>1, <3>2, <5>2
      <4> QED BY <4>1, <4>2
    <3>4. \A q \in 1 .. Len(kept[i + 1]) : \E j \in 1 .. i + 1 : list[j] \notin ids /\ Len(kept[j]) = q
      <4> SUFFICES ASSUME NEW q \in 1 .. Len(kept[i + 1])
          PROVE  \E j \in 1 .. i + 1 : list[j] \notin ids /\ Len(kept[j]) = q
        OBVIOUS
      <4>1. CASE q = Len(kept[i]) + 1
        BY <2>1, <2>3, <3>2, <4>1
      <4>2. CASE q # Len(kept[i]) + 1
        <5>1. q \in 1 .. Len(kept[i])
          BY <2>1, <3>2, <4>2
        <5>2. PICK j \in 1 .. i : list[j] \notin ids /\ Len(kept[j]) = q
          BY <5>1
        <5> QED BY <5>2
      <4> QED BY <4>1, <4>2
    <3> QED BY <2>1, <3>2, <3>3, <3>4
  <2> QED BY <2>2, <2>3
<1>7. \A i \in 0 .. n : Has(i)
  <2>1. 0 \in T
    <3>1. kept[0] \in Seq(X) /\ Len(kept[0]) = 0
      BY <1>5
    <3> QED BY <3>1
  <2>2. T \in SUBSET (0 .. n)
    OBVIOUS
  <2>3. T = 0 .. n
    <3> HIDE DEF T
    <3> QED BY <1>6, <2>1, <2>2, UpTo
  <2> QED BY <2>3
<1> DEFINE rank == [i \in 0 .. n |-> Len(kept[i])]
<1>8. Without(list, ids) = kept[n] /\ kept[n] \in Seq(X)
  BY <1>1, <1>2, <1>7
<1>9. Ranks(list, ids, kept[n], rank)
  <2>1. rank \in [0 .. n -> Nat] /\ rank[0] = 0
    BY <1>5, <1>7
  <2>2. \A i \in 1 .. n : rank[i] = IF list[i] \in ids THEN rank[i - 1] ELSE rank[i - 1] + 1
    <3> SUFFICES ASSUME NEW i \in 1 .. n
        PROVE  rank[i] = IF list[i] \in ids THEN rank[i - 1] ELSE rank[i - 1] + 1
      OBVIOUS
    <3>1. i - 1 \in 0 .. n /\ i \in 0 .. n /\ kept[i - 1] \in Seq(X) /\ list[i] \in X
      BY <1>2, <1>7
    <3>2. Len(Append(kept[i - 1], list[i])) = Len(kept[i - 1]) + 1
      BY <3>1, AppendProperties
    <3> QED BY <1>5, <3>1, <3>2
  <2>3. n \in 0 .. n /\ Has(n)
    BY <1>7
  <2>4. /\ \A i \in 1 .. n : list[i] \notin ids =>
              rank[i] \in 1 .. Len(kept[n]) /\ kept[n][rank[i]] = list[i]
        /\ \A q \in 1 .. Len(kept[n]) : \E i \in 1 .. n : list[i] \notin ids /\ rank[i] = q
    BY <2>3
  <2> HIDE DEF rank
  <2>5. Len(kept[n]) = rank[n]
    BY <2>3 DEF rank
  <2> QED BY <1>2, <2>1, <2>2, <2>4, <2>5 DEF Ranks
<1> QED BY <1>8, <1>9

-----------------------------------------------------------------------------
(***************************************************************************)
(* Insertions in order.                                                    *)
(***************************************************************************)

Increasing(items) == \A i, j \in DOMAIN items : i < j => items[i].index < items[j].index

\* Insertions at different places can be put in order: those below a bound are put in
\* order as the bound rises.
LEMMA OrderExists ==
    ASSUME NEW items, NEW bound \in Nat, \A a \in items : a.index \in 0 .. bound - 1,
           \A a, b \in items : a.index = b.index => a = b
    PROVE  /\ IsFiniteSet(items) /\ Cardinality(items) \in Nat
           /\ \E order \in [1 .. Cardinality(items) -> items] : Increasing(order)
<1> DEFINE Below(n) == {a \in items : a.index < n}
           Sorts(n) == /\ IsFiniteSet(Below(n)) /\ Cardinality(Below(n)) \in Nat
                       /\ \E order \in [1 .. Cardinality(Below(n)) -> Below(n)] : Increasing(order)
           T == {n \in 0 .. bound : Sorts(n)}
<1>1. 0 \in T
  <2>1. Below(0) = {}
    OBVIOUS
  <2>2. IsFiniteSet({}) /\ Cardinality({}) = 0
    BY FS_EmptySet
  <2>3. <<>> \in [1 .. 0 -> {}] /\ Increasing(<<>>)
    BY DEF Increasing
  <2>4. Sorts(0)
    <3> HIDE DEF Below
    <3>1. IsFiniteSet(Below(0)) /\ Cardinality(Below(0)) = 0
      BY <2>1, <2>2
    <3>2. <<>> \in [1 .. Cardinality(Below(0)) -> Below(0)]
      BY <2>1, <2>3, <3>1
    <3>3. Cardinality(Below(0)) \in Nat
      BY <3>1
    <3> QED BY <2>3, <3>1, <3>2, <3>3
  <2> HIDE DEF Sorts
  <2> QED BY <2>4
<1>2. ASSUME NEW n \in T, n < bound PROVE n + 1 \in T
  <2>1. Sorts(n) /\ n \in 0 .. bound
    OBVIOUS
  <2>2. PICK order \in [1 .. Cardinality(Below(n)) -> Below(n)] : Increasing(order)
    BY <2>1
  <2>3. PICK c \in Nat : c = Cardinality(Below(n))
    BY <2>1
  <2>4. CASE \E a \in items : a.index = n
    <3>1. PICK a \in items : a.index = n
      BY <2>4
    <3>2. Below(n + 1) = Below(n) \cup {a} /\ a \notin Below(n)
      BY <2>1, <3>1
    <3> DEFINE added == [i \in 1 .. c + 1 |-> IF i = c + 1 THEN a ELSE order[i]]
    <3> HIDE DEF Below
    <3>3. IsFiniteSet(Below(n + 1)) /\ Cardinality(Below(n + 1)) = c + 1
      BY <2>1, <2>3, <3>2, FS_AddElement
    <3>4. \A i \in 1 .. c : order[i] \in Below(n)
      BY <2>2, <2>3
    <3>5. added \in [1 .. c + 1 -> Below(n + 1)]
      BY <2>3, <3>2, <3>4
    <3>6. \A i \in 1 .. c : order[i].index < n
      BY <3>4 DEF Below
    <3>7. ASSUME NEW i \in 1 .. c + 1, NEW j \in 1 .. c + 1, i < j
          PROVE  added[i].index < added[j].index
      <4>1. i \in 1 .. c /\ added[i] = order[i]
        BY <2>3, <3>7
      <4>2. CASE j = c + 1
        BY <3>1, <3>6, <4>1, <4>2
      <4>3. CASE j # c + 1
        <5>1. j \in 1 .. c /\ added[j] = order[j]
          BY <2>3, <4>3
        <5> QED BY <2>2, <2>3, <3>7, <4>1, <5>1 DEF Increasing
      <4> QED BY <4>2, <4>3
    <3>8. Increasing(added)
      <4>1. DOMAIN added = 1 .. c + 1
        OBVIOUS
      <4> HIDE DEF added
      <4> QED BY <3>7, <4>1 DEF Increasing
    <3> HIDE DEF added
    <3>9. Sorts(n + 1)
      BY <2>3, <3>3, <3>5, <3>8
    <3> HIDE DEF Sorts
    <3> QED BY <1>2, <2>1, <3>9
  <2>5. CASE \A a \in items : a.index # n
    <3>1. Below(n + 1) = Below(n)
      BY <2>1, <2>5
    <3>2. Sorts(n + 1)
      <4> HIDE DEF Below
      <4> QED BY <2>1, <3>1
    <3> HIDE DEF Sorts
    <3> QED BY <1>2, <2>1, <3>2
  <2> QED BY <2>4, <2>5
<1>3. bound \in T
  <2>1. T \in SUBSET (0 .. bound)
    OBVIOUS
  <2> HIDE DEF T
  <2> QED BY <1>1, <1>2, <2>1, UpTo
<1>4. Below(bound) = items
  OBVIOUS
<1>5. Sorts(bound)
  BY <1>3
<1> HIDE DEF Below
<1> QED BY <1>4, <1>5

\* Insertions at different places, which are bounded.
Insertable(added) ==
    /\ \E bound \in Nat : \A a \in added : a.index \in 0 .. bound - 1
    /\ \A a, b \in added : a.index = b.index => a = b

\* What Insertions chooses is an order of all of them.
LEMMA InsertionsAre ==
    ASSUME NEW added, NEW removed, Insertable(added), NEW items, items = Insertions(added, removed)
    PROVE  /\ items \in Seq(added) /\ Len(items) \in Nat /\ Increasing(items)
           /\ \A a \in added : \E k \in 1 .. Len(items) : items[k] = a
<1>1. /\ IsFiniteSet(added) /\ Cardinality(added) \in Nat
      /\ \E order \in [1 .. Cardinality(added) -> added] : Increasing(order)
  BY OrderExists DEF Insertable
<1>2. items = CHOOSE order \in [1 .. Cardinality(added) -> added] : Increasing(order)
  BY DEF Insertions, InOrder, Increasing
<1>3. items \in [1 .. Cardinality(added) -> added] /\ Increasing(items)
  BY <1>1, <1>2
<1>4. PICK c \in Nat : c = Cardinality(added)
  BY <1>1
<1>5. items \in Seq(added) /\ Len(items) = c
  BY <1>3, <1>4
<1>6. \A i, j \in 1 .. c : items[i] = items[j] => i = j
  <2> SUFFICES ASSUME NEW i \in 1 .. c, NEW j \in 1 .. c, i < j PROVE items[i] # items[j]
    OBVIOUS
  <2>1. items[i] \in added /\ items[i].index < items[j].index
    BY <1>3, <1>4 DEF Increasing
  <2>2. items[i].index \in Int
    BY <2>1 DEF Insertable
  <2> QED BY <2>1, <2>2
<1>7. items \in Surjection(1 .. c, added)
  <2>1. items \in Injection(1 .. c, added)
    BY <1>3, <1>4, <1>6 DEF Injection, IsInjective
  <2>2. Cardinality(1 .. c) = Cardinality(added)
    BY <1>4, FS_Interval
  <2> QED BY <1>1, <2>1, <2>2, FS_Injection
<1>8. \A a \in added : \E k \in 1 .. c : items[k] = a
  BY <1>7 DEF Surjection
<1> QED BY <1>3, <1>5, <1>8

-----------------------------------------------------------------------------
(***************************************************************************)
(* The merge.                                                              *)
(***************************************************************************)

\* What is in two lists joined, and in a part of a list.
LEMMA Joined ==
    ASSUME NEW X, NEW s \in Seq(X), NEW t \in Seq(X)
    PROVE  /\ s \o t \in Seq(X) /\ Len(s \o t) = Len(s) + Len(t)
           /\ \A i \in 1 .. Len(s) : (s \o t)[i] = s[i]
           /\ \A i \in 1 .. Len(t) : (s \o t)[Len(s) + i] = t[i]
<1>0. PICK a \in Nat, b \in Nat : a = Len(s) /\ b = Len(t)
  OBVIOUS
<1>1. /\ s \o t \in Seq(X) /\ Len(s \o t) = Len(s) + Len(t)
      /\ \A i \in 1 .. Len(s) + Len(t) : (s \o t)[i] = IF i <= Len(s) THEN s[i] ELSE t[i - Len(s)]
  BY ConcatProperties
<1>2. ASSUME NEW i \in 1 .. a PROVE (s \o t)[i] = s[i]
  <2>1. i \in 1 .. a + b /\ i <= a
    OBVIOUS
  <2> QED BY <1>0, <1>1, <2>1
<1>3. ASSUME NEW i \in 1 .. b PROVE (s \o t)[a + i] = t[i]
  <2>1. a + i \in 1 .. a + b /\ ~(a + i <= a) /\ (a + i) - a = i
    OBVIOUS
  <2> QED BY <1>0, <1>1, <2>1
<1> QED BY <1>0, <1>1, <1>2, <1>3

\* What is in a part of a list.
LEMMA Part ==
    ASSUME NEW X, NEW s \in Seq(X), NEW a \in Nat, NEW b \in Nat, a <= b, b <= Len(s)
    PROVE  /\ SubSeq(s, a + 1, b) \in Seq(X) /\ Len(SubSeq(s, a + 1, b)) = b - a
           /\ \A i \in 1 .. b - a : SubSeq(s, a + 1, b)[i] = s[a + i]
<1>1. \A i \in a + 1 .. b : s[i] \in X
  <2> SUFFICES ASSUME NEW i \in a + 1 .. b PROVE i \in 1 .. Len(s)
    BY ElementOfSeq
  <2> QED OBVIOUS
<1> DEFINE cut == SubSeq(s, a + 1, b)
           from == a + 1
<1>2. /\ cut \in Seq(X) /\ Len(cut) = IF from <= b THEN b - from + 1 ELSE 0
      /\ \A i \in 1 .. b - from + 1 : cut[i] = s[from + i - 1]
  BY <1>1, SubSeqProperties
<1> HIDE DEF cut
<1>3. Len(cut) = b - a
  BY <1>2
<1>4. ASSUME NEW i \in 1 .. b - a PROVE cut[i] = s[a + i]
  <2>1. i \in 1 .. b - from + 1 /\ from + i - 1 = a + i
    OBVIOUS
  <2> QED BY <1>2, <2>1
<1> QED BY <1>2, <1>3, <1>4 DEF cut

Entries == Records \cup {Gap}
Items == [id : Records, index : Nat]

\* The place of the k-th insertion, counted from 1; 0 is before the first.
PlaceOf(items, k) == IF k = 0 THEN 0 ELSE items[k].index + 1

\* A place after the k-th insertion and before the next.
Between(items, k, p) ==
    PlaceOf(items, k) < p /\ (k < Len(items) => p < PlaceOf(items, k + 1))

\* Insertions are as far apart as their numbers.
LEMMA Apart ==
    ASSUME NEW items \in Seq(Items), Increasing(items)
    PROVE  /\ \A k \in 0 .. Len(items) : PlaceOf(items, k) \in Nat
           /\ \A j, k \in 0 .. Len(items) : j <= k => PlaceOf(items, k) - PlaceOf(items, j) >= k - j
<1>1. PICK n \in Nat : n = Len(items) /\ DOMAIN items = 1 .. n
  OBVIOUS
<1>0. \A k \in 1 .. n : items[k] \in Items /\ items[k].index \in Nat
  <2>1. \A k \in 1 .. n : items[k] \in Items
    BY <1>1, ElementOfSeq
  <2> QED BY <2>1 DEF Items
<1>2. \A k \in 0 .. n : PlaceOf(items, k) \in Nat
  BY <1>0 DEF PlaceOf
<1>3. ASSUME NEW k \in 0 .. n, k < n PROVE PlaceOf(items, k) + 1 <= PlaceOf(items, k + 1)
  <2>1. k + 1 \in 1 .. n /\ items[k + 1].index \in Nat /\ PlaceOf(items, k + 1) = items[k + 1].index + 1
    <3>1. k + 1 \in 1 .. n /\ k + 1 # 0
      BY <1>1, <1>3
    <3> QED BY <1>0, <3>1 DEF PlaceOf
  <2>2. CASE k = 0
    BY <2>1, <2>2 DEF PlaceOf
  <2>3. CASE k # 0
    <3>1. k \in 1 .. n /\ items[k].index \in Nat /\ items[k].index < items[k + 1].index
      <4>1. k \in 1 .. n /\ k < k + 1
        BY <1>1, <2>3
      <4> QED BY <1>0, <1>1, <2>1, <4>1 DEF Increasing
    <3> QED BY <2>1, <2>3, <3>1 DEF PlaceOf
  <2> QED BY <2>2, <2>3
<1>4. ASSUME NEW j \in 0 .. n
      PROVE  \A k \in 0 .. n : j <= k => PlaceOf(items, k) - PlaceOf(items, j) >= k - j
  <2> DEFINE T == {k \in 0 .. n : j <= k => PlaceOf(items, k) - PlaceOf(items, j) >= k - j}
  <2>1. 0 \in T
    BY <1>2
  <2>2. ASSUME NEW k \in T, k < n PROVE k + 1 \in T
    <3>1. /\ k \in 0 .. n /\ k + 1 \in 0 .. n /\ PlaceOf(items, k) \in Nat /\ PlaceOf(items, k + 1) \in Nat
          /\ PlaceOf(items, j) \in Nat /\ PlaceOf(items, k) + 1 <= PlaceOf(items, k + 1)
      BY <1>2, <1>3, <2>2
    <3>2. CASE j <= k
      BY <2>2, <3>1, <3>2
    <3>3. CASE ~(j <= k)
      BY <2>2, <3>1, <3>3
    <3> QED BY <3>2, <3>3
  <2>3. T = 0 .. n
    <3>1. T \in SUBSET (0 .. n)
      OBVIOUS
    <3> HIDE DEF T
    <3> QED BY <2>1, <2>2, <3>1, UpTo
  <2> QED BY <2>3
<1> QED BY <1>1, <1>2, <1>4

\* Every place is at an insertion or between two.
LEMMA Somewhere ==
    ASSUME NEW items \in Seq(Items), Increasing(items), NEW p \in Nat
    PROVE  \E k \in 0 .. Len(items) :
              PlaceOf(items, k) <= p /\ (k < Len(items) => p < PlaceOf(items, k + 1))
<1>1. PICK n \in Nat : n = Len(items)
  OBVIOUS
<1> DEFINE Lies(q) == \E k \in 0 .. n : PlaceOf(items, k) <= q /\ (k < n => q < PlaceOf(items, k + 1))
           T == {q \in 0 .. p : Lies(q)}
<1>2. /\ \A k \in 0 .. n : PlaceOf(items, k) \in Nat
      /\ \A k \in 0 .. n : k < n => k + 1 \in 0 .. n /\ PlaceOf(items, k) + 1 <= PlaceOf(items, k + 1)
  <2>1. \A k \in 0 .. n : k < n => k + 1 \in 0 .. n /\ PlaceOf(items, k + 1) - PlaceOf(items, k) >= (k + 1) - k
    BY <1>1, Apart
  <2>2. \A k \in 0 .. n : PlaceOf(items, k) \in Nat
    BY <1>1, Apart
  <2> QED BY <2>1, <2>2
<1>3. PlaceOf(items, 0) = 0 /\ 0 \in 0 .. n
  BY DEF PlaceOf
<1>4. 0 \in T
  <2>1. 0 < n => 0 < PlaceOf(items, 0 + 1)
    BY <1>2, <1>3
  <2>2. Lies(0)
    BY <1>3, <2>1
  <2> QED BY <2>2
<1>5. ASSUME NEW q \in T, q < p PROVE q + 1 \in T
  <2>1. PICK k \in 0 .. n : PlaceOf(items, k) <= q /\ (k < n => q < PlaceOf(items, k + 1))
    OBVIOUS
  <2>2. CASE k < n /\ q + 1 = PlaceOf(items, k + 1)
    <3>1. k + 1 \in 0 .. n /\ (k + 1 < n => q + 1 < PlaceOf(items, (k + 1) + 1))
      BY <1>2, <2>2
    <3>2. PlaceOf(items, k + 1) <= q + 1
      BY <1>2, <2>2, <3>1
    <3> QED BY <1>5, <3>1, <3>2
  <2>3. CASE ~(k < n /\ q + 1 = PlaceOf(items, k + 1))
    <3>1. PlaceOf(items, k) <= q + 1 /\ (k < n => q + 1 < PlaceOf(items, k + 1))
      BY <1>2, <2>1, <2>3
    <3> QED BY <1>5, <3>1
  <2> QED BY <2>2, <2>3
<1>6. T = 0 .. p
  <2>1. T \in SUBSET (0 .. p)
    OBVIOUS
  <2> HIDE DEF T
  <2> QED BY <1>4, <1>5, <2>1, UpTo
<1> QED BY <1>1, <1>6

\* Places between insertions keep their order when the insertions are taken out.
LEMMA Strict ==
    ASSUME NEW items \in Seq(Items), Increasing(items), NEW p \in Nat, NEW r \in Nat, p < r,
           NEW j \in 0 .. Len(items), NEW k \in 0 .. Len(items), Between(items, j, p), Between(items, k, r)
    PROVE  p - j < r - k
<1>1. PICK n \in Nat : n = Len(items)
  OBVIOUS
<1>2. PlaceOf(items, j) \in Nat /\ PlaceOf(items, k) \in Nat
  BY Apart
<1>3. PlaceOf(items, j) < p /\ PlaceOf(items, k) < r
  BY DEF Between
<1>4. CASE j = k
  BY <1>1, <1>4
<1>5. CASE j < k
  <2>1. j + 1 \in 0 .. n /\ p < PlaceOf(items, j + 1) /\ j + 1 <= k
    BY <1>1, <1>5 DEF Between
  <2>2. PlaceOf(items, j + 1) \in Nat /\ PlaceOf(items, k) - PlaceOf(items, j + 1) >= k - (j + 1)
    BY <1>1, <2>1, Apart
  <2> QED BY <1>1, <1>2, <1>3, <2>1, <2>2
<1>6. CASE k < j
  <2>1. k + 1 \in 0 .. n /\ r < PlaceOf(items, k + 1) /\ k + 1 <= j
    BY <1>1, <1>6 DEF Between
  <2>2. PlaceOf(items, k + 1) \in Nat /\ PlaceOf(items, j) - PlaceOf(items, k + 1) >= j - (k + 1)
    BY <1>1, <2>1, Apart
  <2> QED BY <1>1, <1>2, <1>3, <2>1, <2>2
<1> QED BY <1>1, <1>4, <1>5, <1>6

\* What a turn of the merge does: survivors up to the place, gaps if they do not
\* reach that far, then the insertion.
Turned(S, R, c, item, m) ==
    /\ m.result \in Seq(Entries) /\ Len(m.result) = item.index + 1
    /\ \A p \in 1 .. Len(R) : m.result[p] = R[p]
    /\ \A p \in Len(R) + 1 .. item.index :
          m.result[p] = IF c + p - Len(R) <= Len(S) THEN S[c + p - Len(R)] ELSE Gap
    /\ m.result[item.index + 1] = item.id
    /\ m = [result |-> m.result, consumed |-> m.consumed]
    /\ m.consumed = IF c + item.index - Len(R) <= Len(S) THEN c + item.index - Len(R) ELSE Len(S)

\* One turn of the merge, for an insertion no earlier than what is there.
LEMMA MergeOneIs ==
    ASSUME NEW S \in Seq(Entries), NEW R \in Seq(Entries), NEW c \in 0 .. Len(S),
           NEW item \in Items, Len(R) <= item.index,
           NEW m, m = MergeOne(S, [result |-> R, consumed |-> c], item)
    PROVE  Turned(S, R, c, item, m)
<1>1. PICK l \in Nat, r \in Nat, d \in Nat : l = Len(S) /\ r = Len(R) /\ d = item.index /\ r <= d /\ c \in 0 .. l
  BY DEF Items
<1> DEFINE upTo == IF c + d - r <= l THEN c + d - r ELSE l
           taken == SubSeq(S, c + 1, upTo)
           merged == R \o taken
           gaps == [i \in 1 .. (d - Len(merged)) |-> Gap]
<1>2. upTo \in c .. l
  BY <1>1
<1>3. Min({c + (d - r), l}) = upTo
  <2>1. \A x \in {c + (d - r), l} : upTo <= x
    BY <1>1
  <2>2. upTo \in {c + (d - r), l}
    BY <1>1
  <2>3. \A x \in {c + (d - r), l} : (\A y \in {c + (d - r), l} : x <= y) => x = upTo
    BY <1>1
  <2> HIDE DEF upTo
  <2>4. Min({c + (d - r), l}) = CHOOSE x \in {c + (d - r), l} : \A y \in {c + (d - r), l} : x <= y
    BY DEF Min
  <2> QED BY <2>1, <2>2, <2>3, <2>4
<1>4. m = [result |-> merged \o gaps \o <<item.id>>, consumed |-> c + Len(taken)]
  <2> HIDE DEF upTo
  <2>1. MergeOne(S, [result |-> R, consumed |-> c], item)
          = LET upTo1 == Min({c + (d - r), l})
                taken1 == SubSeq(S, c + 1, upTo1)
                merged1 == R \o taken1
            IN [result |-> merged1 \o [i \in 1 .. (d - Len(merged1)) |-> Gap] \o <<item.id>>,
                consumed |-> c + Len(taken1)]
    BY <1>1 DEF MergeOne
  <2> QED BY <1>3, <2>1
<1>5. /\ taken \in Seq(Entries) /\ Len(taken) = upTo - c
      /\ \A i \in 1 .. upTo - c : taken[i] = S[c + i]
  <2> HIDE DEF upTo
  <2>1. c \in Nat /\ upTo \in Nat /\ c <= upTo /\ upTo <= Len(S)
    BY <1>1, <1>2
  <2> QED BY <2>1, Part
<1>6. PICK u \in Nat : u = upTo /\ u = (IF c + d - r <= l THEN c + d - r ELSE l) /\ c <= u /\ u <= l
  BY <1>1, <1>2
<1> HIDE DEF upTo, taken
<1>0. /\ c \in Nat /\ u - c \in Nat /\ r + (u - c) \in Nat /\ r + (u - c) <= d
      /\ c + d - r > l => u = l
      /\ c + d - r <= l => u = c + d - r
  <2>1. c \in Nat /\ u - c \in Nat /\ r + (u - c) \in Nat
    <3>1. c \in Nat /\ c <= u
      BY <1>1, <1>6
    <3> QED BY <3>1
  <2>2. CASE c + d - r <= l
    <3>1. u = c + d - r
      BY <1>6, <2>2
    <3> QED BY <2>1, <2>2, <3>1
  <2>3. CASE ~(c + d - r <= l)
    <3>1. u = l
      BY <1>6, <2>3
    <3>2. c + d - r > l
      BY <1>1, <2>1, <2>3
    <3> QED BY <1>1, <2>1, <2>3, <3>1, <3>2
  <2> QED BY <2>2, <2>3
<1>7. /\ merged \in Seq(Entries) /\ Len(merged) = r + (u - c)
      /\ \A p \in 1 .. r : merged[p] = R[p]
      /\ \A p \in 1 .. u - c : merged[r + p] = S[c + p]
  <2>1. u - c \in Nat /\ Len(taken) = u - c /\ \A p \in 1 .. u - c : taken[p] = S[c + p]
    <3>1. u = upTo
      BY <1>6
    <3>2. u - c \in Nat
      BY <1>1, <1>6
    <3> HIDE DEF merged, gaps
    <3> QED BY <1>5, <3>1, <3>2
  <2>2. /\ merged \in Seq(Entries) /\ Len(merged) = Len(R) + Len(taken)
        /\ \A p \in 1 .. Len(R) : merged[p] = R[p]
        /\ \A p \in 1 .. Len(taken) : merged[Len(R) + p] = taken[p]
    <3>1. R \in Seq(Entries) /\ taken \in Seq(Entries)
      BY <1>5
    <3> HIDE DEF gaps
    <3> QED BY <3>1, Joined
  <2> HIDE DEF merged
  <2> QED BY <1>1, <2>1, <2>2
<1> HIDE DEF merged
<1>8. PICK g \in Nat : g = d - Len(merged) /\ r + (u - c) + g = d
  <2>1. d - (r + (u - c)) \in Nat /\ r + (u - c) + (d - (r + (u - c))) = d
    BY <1>0
  <2> QED BY <1>7, <2>1
<1>9. /\ gaps \in Seq(Entries) /\ Len(gaps) = g /\ \A i \in 1 .. g : gaps[i] = Gap
  BY <1>8 DEF Entries
<1> HIDE DEF gaps
<1> DEFINE padded == merged \o gaps
<1>10. /\ padded \in Seq(Entries) /\ Len(padded) = d
       /\ \A p \in 1 .. r + (u - c) : padded[p] = merged[p]
       /\ \A i \in 1 .. g : padded[r + (u - c) + i] = Gap
  <2>1. PICK w \in Nat : w = r + (u - c) /\ w + g = d
    BY <1>0, <1>8
  <2>2. /\ padded \in Seq(Entries) /\ Len(padded) = Len(merged) + Len(gaps)
        /\ \A p \in 1 .. Len(merged) : padded[p] = merged[p]
        /\ \A i \in 1 .. Len(gaps) : padded[Len(merged) + i] = gaps[i]
    <3>1. merged \in Seq(Entries) /\ gaps \in Seq(Entries)
      BY <1>7, <1>9
    <3> QED BY <3>1, Joined
  <2> HIDE DEF padded
  <2> QED BY <1>7, <1>9, <2>1, <2>2
<1> HIDE DEF padded
<1> DEFINE whole == padded \o <<item.id>>
<1>11. /\ whole \in Seq(Entries) /\ Len(whole) = d + 1
       /\ \A p \in 1 .. d : whole[p] = padded[p]
       /\ whole[d + 1] = item.id
  <2>1. <<item.id>> \in Seq(Entries) /\ Len(<<item.id>>) = 1 /\ <<item.id>>[1] = item.id
    BY DEF Items, Entries
  <2>2. /\ whole \in Seq(Entries) /\ Len(whole) = Len(padded) + Len(<<item.id>>)
        /\ \A p \in 1 .. Len(padded) : whole[p] = padded[p]
        /\ \A p \in 1 .. Len(<<item.id>>) : whole[Len(padded) + p] = <<item.id>>[p]
    <3>1. padded \in Seq(Entries) /\ <<item.id>> \in Seq(Entries)
      BY <1>10, <2>1
    <3> QED BY <3>1, Joined
  <2> HIDE DEF whole
  <2> QED BY <1>1, <1>10, <2>1, <2>2
<1> HIDE DEF whole
<1>12. m = [result |-> whole, consumed |-> u]
  <2>1. c + Len(taken) = u
    BY <1>1, <1>5, <1>6
  <2> QED BY <1>4, <2>1 DEF whole, padded
<1>13. ASSUME NEW p \in 1 .. r PROVE whole[p] = R[p]
  <2>1. p \in 1 .. d /\ p \in 1 .. r + (u - c)
    BY <1>1, <1>6
  <2> QED BY <1>7, <1>10, <1>11, <2>1
<1>14. ASSUME NEW p \in r + 1 .. d PROVE whole[p] = IF c + p - r <= l THEN S[c + p - r] ELSE Gap
  <2>0. p \in 1 .. d /\ p - r \in Nat
    BY <1>1
  <2>1. CASE c + p - r <= l
    <3>0. p - r <= u - c /\ p \in Nat /\ p >= r + 1
      <4>1. CASE c + d - r > l
        BY <1>0, <2>1, <4>1
      <4>2. CASE c + d - r <= l
        BY <1>0, <4>2
      <4> QED BY <1>0, <4>1, <4>2
    <3>1. /\ p - r \in 1 .. u - c /\ r + (p - r) = p /\ c + (p - r) = c + p - r
          /\ p \in 1 .. r + (u - c)
      BY <1>0, <3>0
    <3>2. merged[p] = S[c + p - r]
      BY <1>7, <3>1
    <3> QED BY <1>10, <1>11, <2>0, <2>1, <3>1, <3>2
  <2>2. CASE ~(c + p - r <= l)
    <3>0. u = l /\ p - r > u - c
      <4>1. c + d - r > l
        BY <1>0, <2>2
      <4>2. u = l
        BY <1>0, <4>1
      <4> QED BY <1>0, <2>2, <4>2
    <3> DEFINE w == r + (u - c)
    <3>1. w \in Nat
      BY <1>0
    <3>2. p > w /\ p <= d /\ w + g = d
      <4>1. p \in Nat /\ p <= d /\ r \in Nat /\ u - c \in Int
        BY <1>0
      <4>2. w + g = d
        BY <1>8
      <4>3. p > r + (u - c)
        BY <3>0, <4>1
      <4> QED BY <4>1, <4>2, <4>3
    <3>3. p - w \in 1 .. g /\ w + (p - w) = p
      BY <1>1, <3>2
    <3>4. padded[p] = Gap
      BY <1>10, <3>1, <3>3
    <3> QED BY <1>11, <2>0, <2>2, <3>4
  <2> QED BY <2>1, <2>2
<1>15. /\ m.result = whole /\ m.consumed = u
       /\ m = [result |-> m.result, consumed |-> m.consumed]
  BY <1>12
<1>16. u = IF c + d - r <= l THEN c + d - r ELSE l
  BY <1>6
<1>17. item.index = d /\ Len(R) = r /\ Len(S) = l
  BY <1>1
<1> QED BY <1>11, <1>13, <1>14, <1>15, <1>16, <1>17 DEF Turned

\* What the merge has made after k insertions: each of them at its place, and between
\* them the survivors in turn, gaps once they have run out.
Woven(S, items, k, R, c) ==
    /\ R \in Seq(Entries) /\ Len(R) = PlaceOf(items, k)
    /\ \A j \in 1 .. k : R[PlaceOf(items, j)] = items[j].id
    /\ \A j \in 0 .. k : \A p \in 1 .. Len(R) :
          Between(items, j, p) => R[p] = IF p - j <= Len(S) THEN S[p - j] ELSE Gap
    /\ c = IF PlaceOf(items, k) - k <= Len(S) THEN PlaceOf(items, k) - k ELSE Len(S)

\* A turn of the merge leaves what the merge is to have made after one more insertion.
LEMMA WovenOn ==
    ASSUME NEW S \in Seq(Entries), NEW items \in Seq(Items), Increasing(items),
           NEW k \in 0 .. Len(items), k < Len(items), NEW R, NEW c, Woven(S, items, k, R, c),
           NEW m, m = MergeOne(S, [result |-> R, consumed |-> c], items[k + 1])
    PROVE  /\ Woven(S, items, k + 1, m.result, m.consumed)
           /\ m = [result |-> m.result, consumed |-> m.consumed]
<1>1. PICK n \in Nat, l \in Nat : n = Len(items) /\ l = Len(S) /\ k + 1 \in 1 .. n
  OBVIOUS
<1>2. PICK item \in Items : item = items[k + 1]
  BY <1>1, ElementOfSeq
<1>3. PICK r \in Nat, d \in Nat :
         r = PlaceOf(items, k) /\ d = item.index /\ PlaceOf(items, k + 1) = d + 1 /\ r <= d /\ r >= k
  <2>1. item.index \in Nat
    BY DEF Items
  <2>2. PlaceOf(items, k + 1) = item.index + 1
    BY <1>1, <1>2 DEF PlaceOf
  <2>3. k \in 0 .. n /\ k + 1 \in 0 .. n /\ 0 \in 0 .. n /\ PlaceOf(items, 0) = 0
    BY <1>1 DEF PlaceOf
  <2>4. /\ PlaceOf(items, k) \in Nat /\ PlaceOf(items, k + 1) - PlaceOf(items, k) >= (k + 1) - k
        /\ PlaceOf(items, k) - PlaceOf(items, 0) >= k - 0
    BY <1>1, <2>3, Apart
  <2> QED BY <2>1, <2>2, <2>3, <2>4
<1>4. /\ R \in Seq(Entries) /\ Len(R) = r
      /\ \A j \in 1 .. k : R[PlaceOf(items, j)] = items[j].id
      /\ \A j \in 0 .. k : \A p \in 1 .. r :
            Between(items, j, p) => R[p] = IF p - j <= l THEN S[p - j] ELSE Gap
      /\ c = IF r - k <= l THEN r - k ELSE l
  BY <1>1, <1>3 DEF Woven
<1>5. c \in 0 .. l
  BY <1>3, <1>4
<1>6. /\ m.result \in Seq(Entries) /\ Len(m.result) = d + 1
      /\ \A p \in 1 .. r : m.result[p] = R[p]
      /\ \A p \in r + 1 .. d : m.result[p] = IF c + p - r <= l THEN S[c + p - r] ELSE Gap
      /\ m.result[d + 1] = item.id
      /\ m = [result |-> m.result, consumed |-> m.consumed]
      /\ m.consumed = IF c + d - r <= l THEN c + d - r ELSE l
  <2>1. R \in Seq(Entries) /\ c \in 0 .. Len(S) /\ Len(R) <= item.index
    BY <1>1, <1>3, <1>4, <1>5
  <2>2. m = MergeOne(S, [result |-> R, consumed |-> c], item)
    BY <1>2
  <2>3. Turned(S, R, c, item, m)
    BY <2>1, <2>2, MergeOneIs
  <2> QED BY <1>1, <1>3, <1>4, <2>3 DEF Turned
<1>7. ASSUME NEW j \in 1 .. k + 1 PROVE m.result[PlaceOf(items, j)] = items[j].id
  <2>1. CASE j = k + 1
    BY <1>2, <1>3, <1>6, <2>1
  <2>2. CASE j # k + 1
    <3>1. j \in 1 .. k /\ j \in 0 .. n /\ k \in 0 .. n /\ 0 \in 0 .. n
      BY <1>1, <2>2
    <3>2. /\ PlaceOf(items, j) \in Nat /\ r - PlaceOf(items, j) >= k - j
          /\ PlaceOf(items, j) - PlaceOf(items, 0) >= j - 0
      BY <1>1, <1>3, <3>1, Apart
    <3>3. PlaceOf(items, 0) = 0
      BY DEF PlaceOf
    <3>4. PlaceOf(items, j) \in 1 .. r
      <4>1. PlaceOf(items, j) >= j /\ j >= 1 /\ PlaceOf(items, j) <= r
        BY <3>1, <3>2, <3>3
      <4> QED BY <1>3, <3>2, <4>1
    <3>5. m.result[PlaceOf(items, j)] = R[PlaceOf(items, j)]
      BY <1>6, <3>4
    <3> QED BY <1>4, <3>1, <3>4, <3>5
  <2> QED BY <2>1, <2>2
<1>8. ASSUME NEW j \in 0 .. k + 1, NEW p \in 1 .. d + 1, Between(items, j, p)
      PROVE  m.result[p] = IF p - j <= l THEN S[p - j] ELSE Gap
  <2>1. PlaceOf(items, j) < p /\ j < k + 1
    <3>1. PlaceOf(items, j) < p
      BY <1>8 DEF Between
    <3>2. j # k + 1
      BY <1>3, <3>1
    <3> QED BY <1>1, <3>1, <3>2
  <2>2. j \in 0 .. n /\ j + 1 \in 0 .. n /\ j < n /\ p < PlaceOf(items, j + 1)
    BY <1>1, <1>8, <2>1 DEF Between
  <2>3. CASE j = k
    <3>1. p \in r + 1 .. d
      BY <1>3, <2>1, <2>2, <2>3
    <3>2. m.result[p] = IF c + p - r <= l THEN S[c + p - r] ELSE Gap
      BY <1>6, <3>1
    <3>3. CASE r - k <= l
      <4>1. c + p - r = p - k
        BY <1>3, <1>4, <3>1, <3>3
      <4> QED BY <2>3, <3>2, <4>1
    <3>4. CASE ~(r - k <= l)
      <4>1. ~(c + p - r <= l) /\ ~(p - j <= l)
        BY <1>3, <1>4, <2>3, <3>1, <3>4
      <4> QED BY <3>2, <4>1
    <3> QED BY <3>3, <3>4
  <2>4. CASE j # k
    <3>1. j \in 0 .. k /\ k \in 0 .. n /\ j + 1 <= k
      BY <1>1, <2>1, <2>4
    <3>2. PlaceOf(items, j + 1) \in Nat /\ r - PlaceOf(items, j + 1) >= k - (j + 1)
      BY <1>1, <1>3, <2>2, <3>1, Apart
    <3>3. p \in 1 .. r
      BY <1>3, <2>2, <3>1, <3>2
    <3>4. R[p] = IF p - j <= l THEN S[p - j] ELSE Gap
      BY <1>4, <1>8, <3>1, <3>3
    <3>5. m.result[p] = R[p]
      BY <1>6, <3>3
    <3> QED BY <3>4, <3>5
  <2> QED BY <2>3, <2>4
<1>9. m.consumed = IF (d + 1) - (k + 1) <= l THEN (d + 1) - (k + 1) ELSE l
  <2>1. CASE r - k <= l
    <3>1. c = r - k /\ k \in Nat
      BY <1>1, <1>4, <2>1
    <3>2. c + d - r = (d + 1) - (k + 1)
      BY <3>1
    <3> QED BY <1>6, <3>2
  <2>2. CASE ~(r - k <= l)
    <3>1. c = l /\ ~((d + 1) - (k + 1) <= l)
      BY <1>3, <1>4, <2>2
    <3>2. m.consumed = l
      BY <1>3, <1>6, <3>1
    <3> QED BY <3>1, <3>2
  <2> QED BY <2>1, <2>2
<1> QED BY <1>1, <1>3, <1>6, <1>7, <1>8, <1>9 DEF Woven

\* So the merge has woven all the insertions into the survivors, turn by turn.
LEMMA MergeIs ==
    ASSUME NEW S \in Seq(Entries), NEW items \in Seq(Items), Increasing(items)
    PROVE  Woven(S, items, Len(items), Merge(S, items).result, Merge(S, items).consumed)
<1> DEFINE Step(f, i) == IF i = 0 THEN [result |-> <<>>, consumed |-> 0]
                         ELSE MergeOne(S, f[i - 1], items[i])
           acc == CHOOSE f : f = [i \in 0 .. Len(items) |-> Step(f, i)]
<1>1. Merge(S, items) = acc[Len(items)]
  BY DEF Merge
<1>2. PICK n \in Nat : n = Len(items)
  OBVIOUS
<1>3. \E f : f = [i \in 0 .. n |-> Step(f, i)]
  <2> DEFINE T == {m \in 0 .. n : \E f : f = [i \in 0 .. m |-> Step(f, i)]}
  <2>1. 0 \in T
    <3> DEFINE f == [i \in 0 .. 0 |-> [result |-> <<>>, consumed |-> 0]]
    <3>1. \A i \in 0 .. 0 : f[i] = Step(f, i)
      OBVIOUS
    <3>2. f = [i \in 0 .. 0 |-> f[i]]
      OBVIOUS
    <3> HIDE DEF f, Step
    <3>3. f = [i \in 0 .. 0 |-> Step(f, i)]
      BY <3>1, <3>2
    <3> QED BY <3>3
  <2>2. ASSUME NEW m \in T, m < n PROVE m + 1 \in T
    <3>1. PICK f : f = [i \in 0 .. m |-> Step(f, i)]
      OBVIOUS
    <3> DEFINE g == [i \in 0 .. m + 1 |-> IF i = m + 1 THEN Step(f, i) ELSE f[i]]
    <3>2. ASSUME NEW i \in 0 .. m + 1 PROVE g[i] = Step(g, i)
      <4>1. CASE i = 0
        BY <3>1, <4>1
      <4>2. CASE i # 0
        <5>1. i - 1 \in 0 .. m /\ g[i - 1] = f[i - 1]
          BY <4>2
        <5>2. g[i] = Step(f, i)
          <6> HIDE DEF Step
          <6>1. \A q \in 0 .. m : f[q] = Step(f, q)
            BY <3>1
          <6>2. CASE i = m + 1
            BY <6>2
          <6>3. CASE i # m + 1
            <7>1. i \in 0 .. m
              BY <6>3
            <7>2. g[i] = f[i]
              BY <6>3
            <7> QED BY <6>1, <7>1, <7>2
          <6> QED BY <6>2, <6>3
        <5> HIDE DEF g
        <5> QED BY <5>1, <5>2
      <4> QED BY <4>1, <4>2
    <3>3. g = [i \in 0 .. m + 1 |-> Step(g, i)]
      <4> HIDE DEF Step
      <4>1. g = [i \in 0 .. m + 1 |-> g[i]]
        OBVIOUS
      <4> HIDE DEF g
      <4> QED BY <3>2, <4>1
    <3> HIDE DEF g, Step
    <3>4. \E h : h = [i \in 0 .. m + 1 |-> Step(h, i)]
      BY <3>3
    <3>5. m + 1 \in 0 .. n
      BY <2>2
    <3> QED BY <3>4, <3>5
  <2> HIDE DEF Step
  <2>3. n \in T
    <3>1. T \in SUBSET (0 .. n)
      OBVIOUS
    <3> HIDE DEF T
    <3> QED BY <2>1, <2>2, <3>1, UpTo
  <2> QED BY <2>3
<1>4. acc = [i \in 0 .. n |-> Step(acc, i)]
  <2> HIDE DEF Step
  <2> QED BY <1>2, <1>3
<1> HIDE DEF acc
<1>5. /\ acc[0] = [result |-> <<>>, consumed |-> 0]
      /\ \A i \in 1 .. n : acc[i] = MergeOne(S, acc[i - 1], items[i])
  <2>1. \A i \in 0 .. n : acc[i] = Step(acc, i)
    <3> HIDE DEF Step
    <3> QED BY <1>4
  <2>2. 0 \in 0 .. n /\ \A i \in 1 .. n : i \in 0 .. n /\ i # 0
    OBVIOUS
  <2>3. acc[0] = [result |-> <<>>, consumed |-> 0]
    BY <2>1, <2>2
  <2>4. ASSUME NEW i \in 1 .. n PROVE acc[i] = MergeOne(S, acc[i - 1], items[i])
    <3>1. acc[i] = Step(acc, i)
      BY <2>1, <2>2
    <3> QED BY <2>2, <3>1
  <2> HIDE DEF Step
  <2> QED BY <2>3, <2>4
<1> HIDE DEF Step
<1> DEFINE Has(i) == /\ Woven(S, items, i, acc[i].result, acc[i].consumed)
                     /\ acc[i] = [result |-> acc[i].result, consumed |-> acc[i].consumed]
           T == {i \in 0 .. n : Has(i)}
<1>6. 0 \in T
  <2>1. acc[0].result = <<>> /\ acc[0].consumed = 0
    BY <1>5
  <2>2. Woven(S, items, 0, <<>>, 0)
    BY DEF Woven, PlaceOf
  <2>3. acc[0] = [result |-> acc[0].result, consumed |-> acc[0].consumed]
    BY <1>5, <2>1
  <2> QED BY <2>1, <2>2, <2>3
<1>7. ASSUME NEW i \in T, i < n PROVE i + 1 \in T
  <2>1. i + 1 \in 1 .. n /\ (i + 1) - 1 = i /\ i \in 0 .. Len(items) /\ i < Len(items) /\ i + 1 \in 0 .. n
    BY <1>2, <1>7
  <2>2. acc[i + 1] = MergeOne(S, [result |-> acc[i].result, consumed |-> acc[i].consumed], items[i + 1])
    BY <1>5, <1>7, <2>1
  <2>3. Has(i + 1)
    <3>1. Woven(S, items, i, acc[i].result, acc[i].consumed)
      BY <1>7
    <3> QED BY <2>1, <2>2, <3>1, WovenOn
  <2> HIDE DEF Has
  <2> QED BY <2>1, <2>3
<1>8. n \in T
  <2>1. T \in SUBSET (0 .. n)
    OBVIOUS
  <2> HIDE DEF T
  <2> QED BY <1>6, <1>7, <2>1, UpTo
<1> QED BY <1>1, <1>2, <1>8

\* What a splice makes: each insertion at its place, and between them the survivors in
\* turn; a survivor's place is in it.
Spliced(S, items, X) ==
    /\ X \in Seq(Entries)
    /\ \A j \in 1 .. Len(items) : PlaceOf(items, j) \in 1 .. Len(X) /\ X[PlaceOf(items, j)] = items[j].id
    /\ \A j \in 0 .. Len(items) : \A p \in 1 .. Len(X) :
          Between(items, j, p) => X[p] = IF p - j <= Len(S) THEN S[p - j] ELSE Gap
    /\ \A j \in 0 .. Len(items) : \A p \in Nat :
          Between(items, j, p) /\ p - j \in 1 .. Len(S) => p \in 1 .. Len(X)

\* And the splice is the merge with the survivors it has not come to.
LEMMA SplicedIs ==
    ASSUME NEW ids \in Seq(Entries), NEW removed, NEW added,
           NEW items, items = Insertions(added, removed), items \in Seq(Items), Increasing(items),
           NEW S, S = Without(ids, removed), S \in Seq(Entries),
           NEW X, X = Splice(ids, removed, added)
    PROVE  Spliced(S, items, X)
<1>1. PICK R, c : R = Merge(S, items).result /\ c = Merge(S, items).consumed
  OBVIOUS
<1>2. Woven(S, items, Len(items), R, c)
  BY <1>1, MergeIs
<1>3. PICK m \in Nat, l \in Nat, r \in Nat :
         /\ m = Len(items) /\ l = Len(S) /\ r = PlaceOf(items, m) /\ r >= m
  <2>1. PICK m \in Nat : m = Len(items)
    OBVIOUS
  <2>2. m \in 0 .. m /\ 0 \in 0 .. m /\ PlaceOf(items, 0) = 0
    BY DEF PlaceOf
  <2>3. PlaceOf(items, m) \in Nat /\ PlaceOf(items, m) - PlaceOf(items, 0) >= m - 0
    BY <2>1, <2>2, Apart
  <2>4. Len(S) \in Nat
    OBVIOUS
  <2> QED BY <2>1, <2>2, <2>3, <2>4
<1>4. /\ R \in Seq(Entries) /\ Len(R) = r
      /\ \A j \in 1 .. m : R[PlaceOf(items, j)] = items[j].id
      /\ \A j \in 0 .. m : \A p \in 1 .. r :
            Between(items, j, p) => R[p] = IF p - j <= l THEN S[p - j] ELSE Gap
      /\ c = IF r - m <= l THEN r - m ELSE l
  BY <1>2, <1>3 DEF Woven
<1>5. c \in Nat /\ c <= l
  BY <1>3, <1>4
<1> DEFINE tail == SubSeq(S, c + 1, l)
<1>6. /\ tail \in Seq(Entries) /\ Len(tail) = l - c
      /\ \A i \in 1 .. l - c : tail[i] = S[c + i]
  <2>1. l \in Nat /\ l <= Len(S)
    BY <1>3
  <2> QED BY <1>5, <2>1, Part
<1>7. X = R \o tail
  BY <1>1, <1>3 DEF Splice
<1> HIDE DEF tail
<1>8. /\ X \in Seq(Entries) /\ Len(X) = r + (l - c)
      /\ \A p \in 1 .. r : X[p] = R[p]
      /\ \A i \in 1 .. l - c : X[r + i] = S[c + i]
  <2>1. /\ R \o tail \in Seq(Entries) /\ Len(R \o tail) = Len(R) + Len(tail)
        /\ \A p \in 1 .. Len(R) : (R \o tail)[p] = R[p]
        /\ \A i \in 1 .. Len(tail) : (R \o tail)[Len(R) + i] = tail[i]
    <3>1. R \in Seq(Entries) /\ tail \in Seq(Entries)
      BY <1>4, <1>6
    <3> QED BY <3>1, Joined
  <2>2. /\ X \in Seq(Entries) /\ Len(X) = Len(R) + Len(tail)
        /\ \A p \in 1 .. Len(R) : X[p] = R[p]
        /\ \A i \in 1 .. Len(tail) : X[Len(R) + i] = tail[i]
    BY <1>7, <2>1
  <2> QED BY <1>4, <1>6, <2>2
<1>9. ASSUME NEW j \in 0 .. m
      PROVE  PlaceOf(items, j) \in Nat /\ PlaceOf(items, j) <= r /\ PlaceOf(items, j) >= j
  <2>1. j \in 0 .. m /\ m \in 0 .. m /\ 0 \in 0 .. m /\ PlaceOf(items, 0) = 0
    BY DEF PlaceOf
  <2>2. /\ PlaceOf(items, j) \in Nat /\ PlaceOf(items, m) - PlaceOf(items, j) >= m - j
        /\ PlaceOf(items, j) - PlaceOf(items, 0) >= j - 0
    <3>1. j \in 0 .. Len(items) /\ m \in 0 .. Len(items) /\ 0 \in 0 .. Len(items) /\ j <= m /\ 0 <= j
      BY <1>3, <2>1
    <3> QED BY <3>1, Apart
  <2> QED BY <1>3, <2>1, <2>2
<1>10. ASSUME NEW j \in 1 .. m
       PROVE  PlaceOf(items, j) \in 1 .. Len(X) /\ X[PlaceOf(items, j)] = items[j].id
  <2>1. PlaceOf(items, j) \in 1 .. r
    BY <1>9
  <2>2. PlaceOf(items, j) \in 1 .. Len(X)
    BY <1>5, <1>8, <2>1
  <2> QED BY <1>4, <1>8, <2>1, <2>2
<1>11. ASSUME NEW j \in 0 .. m, NEW p \in Nat, Between(items, j, p), p > r
       PROVE  j = m
  <2>1. SUFFICES ASSUME j < m PROVE FALSE
    OBVIOUS
  <2>2. p < PlaceOf(items, j + 1) /\ j + 1 \in 0 .. m
    BY <1>3, <1>11, <2>1 DEF Between
  <2> QED BY <1>9, <1>11, <2>2
<1>12. ASSUME NEW j \in 0 .. m, NEW p \in 1 .. Len(X), Between(items, j, p)
       PROVE  X[p] = IF p - j <= l THEN S[p - j] ELSE Gap
  <2>0. p \in Nat /\ p >= 1
    BY <1>8
  <2>1. CASE p <= r
    <3>1. p \in 1 .. r
      BY <2>0, <2>1
    <3> QED BY <1>4, <1>8, <1>12, <3>1
  <2>2. CASE p > r
    <3>1. j = m
      BY <1>11, <1>12, <2>0, <2>2
    <3>2. p - r \in 1 .. l - c /\ r + (p - r) = p /\ c < l
      BY <1>5, <1>8, <2>0, <2>2
    <3>3. c = r - m /\ c + (p - r) = p - m
      <4>1. c = r - m
        BY <1>4, <3>2
      <4> QED BY <2>0, <4>1
    <3>4. p - m <= l
      BY <1>5, <2>0, <3>2, <3>3
    <3> QED BY <1>8, <3>1, <3>2, <3>3, <3>4
  <2> QED BY <2>0, <2>1, <2>2
<1>13. ASSUME NEW j \in 0 .. m, NEW p \in Nat, Between(items, j, p), p - j \in 1 .. l
       PROVE  p \in 1 .. Len(X)
  <2>0. p >= 1
    BY <1>9, <1>13 DEF Between
  <2>1. CASE p <= r
    BY <1>5, <1>8, <2>0, <2>1
  <2>2. CASE p > r
    <3>1. j = m
      BY <1>11, <1>13, <2>2
    <3>2. c = r - m
      BY <1>3, <1>4, <1>13, <2>2, <3>1
    <3> QED BY <1>5, <1>8, <1>13, <2>0, <3>1, <3>2
  <2> QED BY <2>1, <2>2
<1> QED BY <1>3, <1>8, <1>10, <1>12, <1>13 DEF Spliced

-----------------------------------------------------------------------------
(***************************************************************************)
(* Ranks in a view and in the server's lists.                              *)
(***************************************************************************)

PlacedIn(ids, list) ==
    \A i \in 1 .. Len(ids) : ids[i] # Gap => i <= Len(list) /\ list[i] = ids[i]

\* Nothing to be removed stands in a gap below an id that is held.
NoneUnseen(ids, old, gone) ==
    \A h, i \in 1 .. Len(ids) : h < i /\ ids[i] # Gap /\ ids[h] = Gap => old[h] \notin gone

\* What one list has, another has in the same place.
Follows(S, T) == \A q \in 1 .. Len(S) : S[q] # Gap => q \in 1 .. Len(T) /\ T[q] = S[q]

\* A view whose ids stand where the server has them, and that misses no removal
\* below an id it holds, keeps each survivor at the rank the server does.
LEMMA RanksAgree ==
    ASSUME NEW ids \in Seq(Entries), NEW old \in Seq(Records), NEW gone \in SUBSET Records,
           Gap \notin Records, PlacedIn(ids, old), NoneUnseen(ids, old, gone),
           NEW S, S = Without(ids, gone), NEW T, T = Without(old, gone)
    PROVE  Follows(S, T)
<1>1. PICK rs : Ranks(ids, gone, S, rs)
  BY WithoutIs
<1>2. PICK rt : Ranks(old, gone, T, rt)
  BY WithoutIs
<1>3. SUFFICES ASSUME NEW q \in 1 .. Len(S), S[q] # Gap PROVE q \in 1 .. Len(T) /\ T[q] = S[q]
  BY DEF Follows
<1>4. PICK i \in 1 .. Len(ids) : ids[i] \notin gone /\ rs[i] = q
  BY <1>1 DEF Ranks
<1>5. S[q] = ids[i] /\ ids[i] # Gap
  BY <1>1, <1>3, <1>4 DEF Ranks
<1>6. i \in Nat /\ i >= 1 /\ i <= Len(ids) /\ i <= Len(old) /\ old[i] = ids[i]
  BY <1>4, <1>5 DEF PlacedIn
<1> DEFINE E == {h \in 0 .. i : rs[h] = rt[h]}
<1>7. 0 \in E
  BY <1>1, <1>2, <1>6 DEF Ranks
<1>8. ASSUME NEW h \in E, h < i PROVE h + 1 \in E
  <2>1. /\ h + 1 \in 1 .. Len(ids) /\ h + 1 \in 1 .. Len(old) /\ h + 1 \in 0 .. i
        /\ (h + 1) - 1 = h /\ rs[h] = rt[h]
    BY <1>6, <1>8
  <2>2. ids[h + 1] \in gone <=> old[h + 1] \in gone
    <3>1. CASE ids[h + 1] # Gap
      BY <2>1, <3>1 DEF PlacedIn
    <3>2. CASE ids[h + 1] = Gap
      <4>1. h + 1 < i
        BY <1>5, <1>6, <2>1, <3>2
      <4>2. old[h + 1] \notin gone
        BY <1>4, <1>5, <2>1, <3>2, <4>1 DEF NoneUnseen
      <4> QED BY <3>2, <4>2
    <3> QED BY <3>1, <3>2
  <2>3. rs[h + 1] = rt[h + 1]
    BY <1>1, <1>2, <2>1, <2>2 DEF Ranks
  <2> QED BY <2>1, <2>3
<1>9. rs[i] = rt[i]
  <2>1. E \in SUBSET (0 .. i)
    OBVIOUS
  <2>2. E = 0 .. i
    <3> HIDE DEF E
    <3> QED BY <1>6, <1>7, <1>8, <2>1, UpTo
  <2>3. i \in E
    BY <1>6, <2>2
  <2> QED BY <2>3
<1>10. i \in 1 .. Len(old) /\ old[i] \notin gone
  BY <1>4, <1>6
<1>11. rt[i] \in 1 .. Len(T) /\ T[rt[i]] = old[i]
  BY <1>2, <1>10 DEF Ranks
<1> QED BY <1>4, <1>5, <1>6, <1>9, <1>11

\* The insertions are the ids of a list that stand in a set, each at its place.
Places(list, ids, items) ==
    /\ \A j \in 1 .. Len(items) :
          /\ PlaceOf(items, j) \in 1 .. Len(list) /\ list[PlaceOf(items, j)] = items[j].id
          /\ items[j].id \in ids
    /\ \A id \in ids : \E j \in 1 .. Len(items) : items[j].id = id

\* Without its insertions a list is shorter by their number, and what stood after j of
\* them stands j places lower.
LEMMA RanksBetween ==
    ASSUME NEW list \in Seq(Records), \A p, q \in 1 .. Len(list) : list[p] = list[q] => p = q,
           NEW items \in Seq(Items), Increasing(items), NEW ids, Places(list, ids, items),
           NEW T, T = Without(list, ids)
    PROVE  /\ Len(T) = Len(list) - Len(items)
           /\ \A j \in 0 .. Len(items) : \A p \in 1 .. Len(list) :
                 Between(items, j, p) => /\ list[p] \notin ids
                                         /\ p - j \in 1 .. Len(T) /\ T[p - j] = list[p]
<1>1. PICK rank : Ranks(list, ids, T, rank)
  BY WithoutIs
<1>2. PICK n \in Nat, m \in Nat : n = Len(list) /\ m = Len(items)
  OBVIOUS
<1>3. /\ \A j \in 0 .. m : PlaceOf(items, j) \in Nat /\ PlaceOf(items, j) <= n
      /\ \A j, k \in 0 .. m : j <= k => PlaceOf(items, k) - PlaceOf(items, j) >= k - j
      /\ PlaceOf(items, 0) = 0
  <2>1. /\ \A j \in 0 .. m : PlaceOf(items, j) \in Nat
        /\ \A j, k \in 0 .. m : j <= k => PlaceOf(items, k) - PlaceOf(items, j) >= k - j
    BY <1>2, Apart
  <2>2. PlaceOf(items, 0) = 0
    BY DEF PlaceOf
  <2>3. \A j \in 0 .. m : j # 0 => j \in 1 .. m
    OBVIOUS
  <2>4. \A j \in 0 .. m : PlaceOf(items, j) <= n
    BY <1>2, <2>2, <2>3 DEF Places
  <2> QED BY <2>1, <2>2, <2>4
<1> DEFINE Lies(j, p) == PlaceOf(items, j) <= p /\ (j < m => p < PlaceOf(items, j + 1))
<1>4. ASSUME NEW p \in 1 .. n, NEW j \in 0 .. m, Between(items, j, p)
      PROVE  list[p] \notin ids
  <2>1. SUFFICES ASSUME list[p] \in ids PROVE FALSE
    OBVIOUS
  <2>2. PICK k \in 1 .. m : items[k].id = list[p]
    BY <1>2, <2>1 DEF Places
  <2>3. p = PlaceOf(items, k)
    BY <1>2, <2>2 DEF Places
  <2>4. PlaceOf(items, j) < p /\ (j < m => p < PlaceOf(items, j + 1))
    BY <1>2, <1>4 DEF Between
  <2>5. CASE k <= j
    <3>1. k \in 0 .. m /\ PlaceOf(items, j) - PlaceOf(items, k) >= j - k /\ PlaceOf(items, k) \in Nat /\ PlaceOf(items, j) \in Nat
      BY <1>3, <2>5
    <3> QED BY <2>3, <2>4, <2>5, <3>1
  <2>6. CASE k > j
    <3>1. k \in 0 .. m /\ j + 1 \in 0 .. m /\ j + 1 <= k /\ j < m
      BY <2>6
    <3>2. /\ PlaceOf(items, k) - PlaceOf(items, j + 1) >= k - (j + 1)
          /\ PlaceOf(items, k) \in Nat /\ PlaceOf(items, j + 1) \in Nat
      BY <1>3, <3>1
    <3> QED BY <2>3, <2>4, <3>1, <3>2
  <2> QED BY <2>5, <2>6
<1> DEFINE E == {p \in 0 .. n : \A j \in 0 .. m : Lies(j, p) => rank[p] = p - j}
<1>5. 0 \in E
  <2>1. ASSUME NEW j \in 0 .. m, Lies(j, 0) PROVE rank[0] = 0 - j
    <3>1. PlaceOf(items, j) - PlaceOf(items, 0) >= j - 0 /\ PlaceOf(items, j) \in Nat /\ PlaceOf(items, j) <= 0
      BY <1>3, <2>1
    <3>2. j = 0
      BY <1>3, <3>1
    <3> QED BY <1>1, <3>2 DEF Ranks
  <2> QED BY <2>1
<1>6. ASSUME NEW p \in E, p < n PROVE p + 1 \in E
  <2>1. p + 1 \in 0 .. n /\ p + 1 \in 1 .. n /\ (p + 1) - 1 = p /\ p \in 0 .. n /\ rank[p] \in Nat
    BY <1>1, <1>2, <1>6 DEF Ranks
  <2>2. rank[p + 1] = IF list[p + 1] \in ids THEN rank[p] ELSE rank[p] + 1
    BY <1>1, <1>2, <2>1 DEF Ranks
  <2>3. ASSUME NEW j \in 0 .. m, Lies(j, p + 1) PROVE rank[p + 1] = (p + 1) - j
    <3>1. CASE p + 1 = PlaceOf(items, j)
      <4>1. j \in 1 .. m /\ j - 1 \in 0 .. m /\ j - 1 < m /\ (j - 1) + 1 = j
        BY <1>3, <2>1, <3>1
      <4>2. PlaceOf(items, j) - PlaceOf(items, j - 1) >= j - (j - 1) /\ PlaceOf(items, j - 1) \in Nat
        BY <1>3, <4>1
      <4>3. Lies(j - 1, p)
        BY <2>1, <3>1, <4>1, <4>2
      <4>4. rank[p] = p - (j - 1)
        BY <1>6, <4>1, <4>3
      <4>5. list[p + 1] \in ids
        BY <1>2, <3>1, <4>1 DEF Places
      <4> QED BY <2>1, <2>2, <4>1, <4>4, <4>5
    <3>2. CASE p + 1 # PlaceOf(items, j)
      <4>1. PlaceOf(items, j) \in Nat /\ PlaceOf(items, j) < p + 1 /\ PlaceOf(items, j) <= p
        <5>1. PlaceOf(items, j) \in Nat /\ PlaceOf(items, j) <= p + 1 /\ p \in Nat
          BY <1>3, <2>1, <2>3
        <5> QED BY <3>2, <5>1
      <4>2. Between(items, j, p + 1)
        BY <1>2, <2>3, <4>1 DEF Between
      <4>3. list[p + 1] \notin ids
        BY <1>4, <2>1, <4>2
      <4>4. j < m => p < PlaceOf(items, j + 1)
        <5>1. SUFFICES ASSUME j < m PROVE p < PlaceOf(items, j + 1)
          OBVIOUS
        <5>2. PlaceOf(items, j + 1) \in Nat /\ p + 1 < PlaceOf(items, j + 1)
          BY <1>3, <2>3, <5>1
        <5> QED BY <2>1, <5>2
      <4>5. rank[p] = p - j
        BY <1>6, <4>1, <4>4
      <4> QED BY <2>1, <2>2, <4>3, <4>5
    <3> QED BY <3>1, <3>2
  <2> QED BY <2>1, <2>3
<1>7. \A p \in 0 .. n : \A j \in 0 .. m : Lies(j, p) => rank[p] = p - j
  <2>1. E \in SUBSET (0 .. n)
    OBVIOUS
  <2>2. E = 0 .. n
    <3> HIDE DEF E
    <3> QED BY <1>5, <1>6, <2>1, UpTo
  <2> QED BY <2>2
<1>8. Len(T) = n - m
  <2>1. n \in 0 .. n /\ m \in 0 .. m /\ Lies(m, n)
    BY <1>3
  <2>2. rank[n] = n - m
    BY <1>7, <2>1
  <2> QED BY <1>1, <1>2, <2>2 DEF Ranks
<1>9. ASSUME NEW j \in 0 .. m, NEW p \in 1 .. n, Between(items, j, p)
      PROVE  list[p] \notin ids /\ p - j \in 1 .. Len(T) /\ T[p - j] = list[p]
  <2>1. list[p] \notin ids
    BY <1>4, <1>9
  <2>2. Lies(j, p) /\ p \in 0 .. n
    BY <1>2, <1>3, <1>9 DEF Between
  <2>3. rank[p] = p - j
    BY <1>7, <2>2
  <2> QED BY <1>1, <1>2, <2>1, <2>3 DEF Ranks
<1> QED BY <1>2, <1>8, <1>9

-----------------------------------------------------------------------------
(***************************************************************************)
(* A delta and the view.                                                   *)
(***************************************************************************)

\* A list of records, each in it once.
Listed(list) ==
    list \in Seq(Records) /\ \A p, q \in 1 .. Len(list) : list[p] = list[q] => p = q

\* What each of the server's lists is.
LEMMA ListsAreListed ==
    ASSUME NEW list \in Lists
    PROVE  /\ Listed(list) /\ Len(list) \in Nat /\ DOMAIN list = 1 .. Len(list)
           /\ Range(list) \in SUBSET Records
           /\ \A id \in Range(list) : \E p \in 1 .. Len(list) : list[p] = id
           /\ \A p \in 1 .. Len(list) : list[p] \in Range(list)
<1>1. Cardinality(Records) \in Nat
  BY QueryViewAssumption, FS_CardinalityType
<1>2. PICK n \in 0 .. Cardinality(Records) : list \in [1 .. n -> Records]
  BY DEF Lists
<1>3. n \in Nat
  BY <1>1
<1>4. list \in Seq(Records) /\ Len(list) = n /\ DOMAIN list = 1 .. n
  BY <1>2, <1>3
<1>5. \A p, q \in 1 .. n : list[p] = list[q] => p = q
  BY <1>2 DEF Lists, IsInjective
<1>6. Range(list) = {list[p] : p \in 1 .. n}
  BY <1>4 DEF Range
<1> QED BY <1>2, <1>3, <1>4, <1>5, <1>6 DEF Listed

\* A delta, in terms of the lists it leads from and to and of what it says has moved.
Tells(old, new, delta, moved) ==
    LET out == (Range(old) \ Range(new)) \union moved
        in  == (Range(new) \ Range(old)) \union moved
    IN  /\ moved \in SUBSET (Range(old) \intersect Range(new))
        /\ Without(old, out) = Without(new, in)
        /\ delta = [removed |-> out,
                    added |-> {[id |-> id, index |-> PositionOf(new, id)] : id \in in}]

LEMMA DeltaIs ==
    ASSUME NEW s, NEW t, NEW delta \in Deltas(s, t)
    PROVE  \E moved : Tells(results[s], results[t], delta, moved)
  BY DEF Deltas, Tells

\* What a delta says, from one list to the next: `come` is what it adds.
Reports(old, new, removed, come, items) ==
    /\ removed \in SUBSET Records
    /\ items \in Seq(Items) /\ Increasing(items) /\ Places(new, come, items)
    /\ come \in SUBSET Range(new)
    /\ Without(old, removed) = Without(new, come)
    /\ Range(old) \ removed \in SUBSET Range(new)
    /\ come \intersect (Range(old) \ removed) = {}
    /\ removed \intersect Range(new) \in SUBSET come

\* What any delta of the server says: what was in the list and is not removed stays in
\* it in its order, what is added is at its place, and what is in both lists moved.
LEMMA DeltaSays ==
    ASSUME NEW s, NEW t, results[s] \in Lists, results[t] \in Lists, NEW delta \in Deltas(s, t),
           NEW items, items = Insertions(delta.added, delta.removed)
    PROVE  \E come : Reports(results[s], results[t], delta.removed, come, items)
<1>1. PICK old, new : old = results[s] /\ new = results[t] /\ old \in Lists /\ new \in Lists
  OBVIOUS
<1> DEFINE both == Range(old) \intersect Range(new)
           gone(m) == (Range(old) \ Range(new)) \union m
           coming(m) == (Range(new) \ Range(old)) \union m
<1>2. PICK moved \in SUBSET both :
         /\ Without(old, gone(moved)) = Without(new, coming(moved))
         /\ delta = [removed |-> gone(moved),
                     added |-> {[id |-> id, index |-> PositionOf(new, id)] : id \in coming(moved)}]
  <2>1. PICK moved : Tells(old, new, delta, moved)
    BY <1>1, DeltaIs
  <2> QED BY <2>1 DEF Tells
<1>3. PICK removed, come, added :
         /\ removed = gone(moved) /\ come = coming(moved)
         /\ added = {[id |-> id, index |-> PositionOf(new, id)] : id \in come}
         /\ delta.removed = removed /\ delta.added = added
  BY <1>2
<1>4. /\ Range(old) \in SUBSET Records /\ Range(new) \in SUBSET Records
      /\ Len(new) \in Nat /\ DOMAIN new = 1 .. Len(new)
      /\ \A p, q \in 1 .. Len(new) : new[p] = new[q] => p = q
      /\ \A id \in Range(new) : \E p \in 1 .. Len(new) : new[p] = id
  BY <1>1, ListsAreListed DEF Listed
<1>5. /\ removed \in SUBSET Records /\ come \in SUBSET Range(new)
      /\ Range(old) \ removed \in SUBSET Range(new)
      /\ come \intersect (Range(old) \ removed) = {}
      /\ removed \intersect Range(new) \in SUBSET come
  BY <1>2, <1>3, <1>4
<1>6. ASSUME NEW id \in come
      PROVE  \E p \in 1 .. Len(new) : new[p] = id /\ PositionOf(new, id) = p - 1
  <2>1. PICK p \in 1 .. Len(new) : new[p] = id
    BY <1>4, <1>5
  <2>2. (CHOOSE i \in DOMAIN new : new[i] = id) = p
    BY <1>4, <2>1
  <2> QED BY <2>1, <2>2 DEF PositionOf
<1>7. ASSUME NEW a \in added
      PROVE  /\ a \in Items /\ a.index \in 0 .. Len(new) - 1 /\ a.id \in come
             /\ a.index + 1 \in 1 .. Len(new) /\ new[a.index + 1] = a.id
             /\ a = [id |-> a.id, index |-> PositionOf(new, a.id)]
  <2>1. PICK id \in come : a = [id |-> id, index |-> PositionOf(new, id)]
    BY <1>3
  <2>2. PICK p \in 1 .. Len(new) : new[p] = id /\ PositionOf(new, id) = p - 1
    BY <1>6
  <2>3. a.id = id /\ a.index = p - 1 /\ id \in Records
    BY <1>4, <1>5, <2>1, <2>2
  <2>4. p - 1 \in 0 .. Len(new) - 1 /\ (p - 1) + 1 = p /\ p - 1 \in Nat
    BY <1>4
  <2> QED BY <2>1, <2>2, <2>3, <2>4 DEF Items
<1>8. \A a, b \in added : a.index = b.index => a = b
  <2> SUFFICES ASSUME NEW a \in added, NEW b \in added, a.index = b.index PROVE a = b
    OBVIOUS
  <2>1. a.id = b.id
    BY <1>7
  <2> QED BY <1>7, <2>1
<1>9. /\ items \in Seq(added) /\ Len(items) \in Nat /\ Increasing(items)
      /\ \A a \in added : \E k \in 1 .. Len(items) : items[k] = a
  <2>1. items = Insertions(added, removed)
    BY <1>3
  <2>2. PICK bound \in Nat : bound = Len(new)
    BY <1>4
  <2>3. \A a \in added : a.index \in 0 .. bound - 1
    BY <1>7, <2>2
  <2>4. Insertable(added)
    BY <1>8, <2>3 DEF Insertable
  <2> QED BY <2>1, <2>4, InsertionsAre
<1>10. \A k \in 1 .. Len(items) : items[k] \in added
  BY <1>9, ElementOfSeq
<1>11. items \in Seq(Items)
  <2>1. added \in SUBSET Items
    BY <1>7
  <2> QED BY <1>9, <2>1
<1>12. Places(new, come, items)
  <2>1. ASSUME NEW j \in 1 .. Len(items)
        PROVE  PlaceOf(items, j) \in 1 .. Len(new) /\ new[PlaceOf(items, j)] = items[j].id /\ items[j].id \in come
    <3>1. PlaceOf(items, j) = items[j].index + 1
      BY DEF PlaceOf
    <3> QED BY <1>7, <1>10, <3>1
  <2>2. ASSUME NEW id \in come PROVE \E j \in 1 .. Len(items) : items[j].id = id
    <3>1. [id |-> id, index |-> PositionOf(new, id)] \in added
      BY <1>3
    <3>2. PICK k \in 1 .. Len(items) : items[k] = [id |-> id, index |-> PositionOf(new, id)]
      BY <1>9, <3>1
    <3> QED BY <3>2
  <2> QED BY <2>1, <2>2 DEF Places
<1>13. Without(old, removed) = Without(new, come)
  BY <1>2, <1>3
<1>14. Reports(old, new, removed, come, items)
  BY <1>5, <1>9, <1>11, <1>12, <1>13 DEF Reports
<1> QED BY <1>1, <1>3, <1>14

OnceIn(ids, list) ==
    /\ \A i, j \in 1 .. Len(ids) : ids[i] = ids[j] /\ i # j => ids[i] = Gap
    /\ \A i \in 1 .. Len(ids) : ids[i] # Gap => ids[i] \in Range(list)

\* What an apply leaves is held once and in the results, though a removal went unnoticed.
LEMMA OnceAfter ==
    ASSUME NEW ids \in Seq(Entries), NEW old \in Lists, NEW new \in Lists, OnceIn(ids, old),
           NEW removed, NEW come, NEW items, Reports(old, new, removed, come, items),
           NEW S, S = Without(ids, removed), NEW X, Spliced(S, items, X)
    PROVE  OnceIn(X, new)
<1>1. PICK rank : Ranks(ids, removed, S, rank)
  BY WithoutIs
<1>2. ASSUME NEW q \in 1 .. Len(S)
      PROVE  \E i \in 1 .. Len(ids) : ids[i] \notin removed /\ rank[i] = q /\ S[q] = ids[i]
  BY <1>1 DEF Ranks
<1>3. ASSUME NEW q \in 1 .. Len(S), S[q] # Gap PROVE S[q] \in Range(old) \ removed
  BY <1>2, <1>3 DEF OnceIn
<1>4. ASSUME NEW q \in 1 .. Len(S), NEW r \in 1 .. Len(S), S[q] = S[r], S[q] # Gap PROVE q = r
  <2>1. PICK i \in 1 .. Len(ids) : rank[i] = q /\ S[q] = ids[i]
    BY <1>2
  <2>2. PICK j \in 1 .. Len(ids) : rank[j] = r /\ S[r] = ids[j]
    BY <1>2
  <2> QED BY <1>4, <2>1, <2>2 DEF OnceIn
<1>5. /\ X \in Seq(Entries) /\ items \in Seq(Items) /\ Increasing(items)
      /\ Len(X) \in Nat /\ Len(items) \in Nat /\ Len(S) \in Nat
  <2>1. S \in Seq(Entries)
    BY WithoutIs
  <2> QED BY <2>1 DEF Spliced, Reports
<1>6. ASSUME NEW p \in 1 .. Len(X), X[p] # Gap
      PROVE  \/ \E j \in 1 .. Len(items) : p = PlaceOf(items, j) /\ X[p] = items[j].id /\ X[p] \in come
             \/ \E j \in 0 .. Len(items) : /\ Between(items, j, p) /\ p - j \in 1 .. Len(S)
                                           /\ X[p] = S[p - j] /\ X[p] \in Range(old) \ removed
  <2>0. p \in Nat /\ p >= 1
    OBVIOUS
  <2>1. PICK j \in 0 .. Len(items) : PlaceOf(items, j) <= p /\ (j < Len(items) => p < PlaceOf(items, j + 1))
    BY <1>5, <2>0, Somewhere
  <2>2. PlaceOf(items, j) \in Nat /\ PlaceOf(items, 0) = 0 /\ PlaceOf(items, j) - PlaceOf(items, 0) >= j - 0
    <3>1. 0 \in 0 .. Len(items) /\ 0 <= j /\ PlaceOf(items, 0) = 0
      BY <1>5 DEF PlaceOf
    <3> QED BY <1>5, <3>1, Apart
  <2>3. CASE p = PlaceOf(items, j)
    <3>1. j \in 1 .. Len(items)
      BY <1>5, <2>0, <2>2, <2>3
    <3>2. X[p] = items[j].id
      BY <2>3, <3>1 DEF Spliced
    <3>3. items[j].id \in come
      BY <3>1 DEF Reports, Places
    <3> QED BY <2>3, <3>1, <3>2, <3>3
  <2>4. CASE p # PlaceOf(items, j)
    <3>1. Between(items, j, p)
      BY <2>0, <2>1, <2>2, <2>4 DEF Between
    <3>2. X[p] = IF p - j <= Len(S) THEN S[p - j] ELSE Gap
      BY <3>1 DEF Spliced
    <3>3. p - j <= Len(S) /\ X[p] = S[p - j]
      BY <1>6, <3>2
    <3>4. p - j >= 1
      BY <1>5, <2>0, <2>1, <2>2, <2>4
    <3>5. p - j \in 1 .. Len(S)
      BY <1>5, <2>0, <3>3, <3>4
    <3> QED BY <1>3, <1>6, <3>1, <3>3, <3>5
  <2> QED BY <2>3, <2>4
<1>7. ASSUME NEW p \in 1 .. Len(X), X[p] # Gap PROVE X[p] \in Range(new)
  <2>1. X[p] \in come \/ X[p] \in Range(old) \ removed
    BY <1>6, <1>7
  <2> QED BY <2>1 DEF Reports
<1>8. ASSUME NEW p \in 1 .. Len(X), NEW q \in 1 .. Len(X), p < q, X[p] = X[q], X[p] # Gap PROVE FALSE
  <2>1. come \intersect (Range(old) \ removed) = {}
    BY DEF Reports
  <2>2. CASE X[p] \in come
    <3>1. PICK j \in 1 .. Len(items) : p = PlaceOf(items, j) /\ X[p] = items[j].id
      BY <1>6, <1>8, <2>1, <2>2
    <3>2. PICK k \in 1 .. Len(items) : q = PlaceOf(items, k) /\ X[q] = items[k].id
      BY <1>6, <1>8, <2>1, <2>2
    <3>3. p \in 1 .. Len(new) /\ q \in 1 .. Len(new) /\ new[p] = new[q]
      BY <1>8, <3>1, <3>2 DEF Reports, Places
    <3>4. p = q
      BY <3>3, ListsAreListed DEF Listed
    <3> QED BY <1>8, <3>4
  <2>3. CASE X[p] \notin come
    <3>1. PICK j \in 0 .. Len(items) : Between(items, j, p) /\ p - j \in 1 .. Len(S) /\ X[p] = S[p - j]
      BY <1>6, <1>8, <2>3
    <3>2. PICK k \in 0 .. Len(items) : Between(items, k, q) /\ q - k \in 1 .. Len(S) /\ X[q] = S[q - k]
      BY <1>6, <1>8, <2>3
    <3>3. p - j = q - k
      BY <1>4, <1>8, <3>1, <3>2
    <3>4. p - j < q - k
      BY <1>5, <1>8, <3>1, <3>2, Strict
    <3> QED BY <1>5, <3>3, <3>4
  <2> QED BY <2>2, <2>3
<1>9. \A p, q \in 1 .. Len(X) : X[p] = X[q] /\ p # q => X[p] = Gap
  <2> SUFFICES ASSUME NEW p \in 1 .. Len(X), NEW q \in 1 .. Len(X), X[p] = X[q], p # q, X[p] # Gap PROVE FALSE
    OBVIOUS
  <2>1. p < q \/ q < p
    BY <1>5
  <2> QED BY <1>8, <2>1
<1> QED BY <1>7, <1>9 DEF OnceIn

\* What an apply leaves stands where the server has it, and nothing that is still in
\* the results is lost, unless it took an id out of a gap below one held.
LEMMA PlacedAfter ==
    ASSUME NEW ids \in Seq(Entries), NEW old \in Lists, NEW new \in Lists, PlacedIn(ids, old),
           NEW removed, NEW come, NEW items, Reports(old, new, removed, come, items),
           NoneUnseen(ids, old, removed),
           NEW S, S = Without(ids, removed), NEW X, Spliced(S, items, X)
    PROVE  /\ PlacedIn(X, new)
           /\ \A i \in 1 .. Len(ids) : ids[i] # Gap /\ ids[i] \in Range(new) =>
                 \E p \in 1 .. Len(X) : p <= Len(new) /\ X[p] = ids[i]
<1>1. PICK T : T = Without(old, removed) /\ T = Without(new, come)
  BY DEF Reports
<1>2. /\ X \in Seq(Entries) /\ items \in Seq(Items) /\ Increasing(items) /\ Places(new, come, items)
      /\ Len(X) \in Nat /\ Len(items) \in Nat /\ Len(S) \in Nat
      /\ Listed(old) /\ Listed(new) /\ Len(new) \in Nat /\ removed \in SUBSET Records
      /\ T \in Seq(Records) /\ Len(T) \in Nat
  <2>1. S \in Seq(Entries)
    BY WithoutIs
  <2>2. Listed(old) /\ Listed(new)
    BY ListsAreListed
  <2>3. T \in Seq(Records)
    BY <1>1, <2>2, WithoutIs DEF Listed
  <2> QED BY <2>1, <2>2, <2>3 DEF Spliced, Reports, Listed
<1>3. \A q \in 1 .. Len(S) : S[q] # Gap => q \in 1 .. Len(T) /\ T[q] = S[q]
  <2>1. Gap \notin Records /\ old \in Seq(Records)
    BY <1>2, QueryViewAssumption DEF Listed
  <2>2. removed \in SUBSET Records
    BY <1>2
  <2>3. T = Without(old, removed)
    BY <1>1
  <2>4. Follows(S, T)
    BY <2>1, <2>2, <2>3, RanksAgree
  <2> QED BY <2>4 DEF Follows
<1>4. /\ Len(T) = Len(new) - Len(items)
      /\ \A j \in 0 .. Len(items) : \A p \in 1 .. Len(new) :
            Between(items, j, p) => /\ new[p] \notin come
                                    /\ p - j \in 1 .. Len(T) /\ T[p - j] = new[p]
  <2>1. new \in Seq(Records) /\ \A p, q \in 1 .. Len(new) : new[p] = new[q] => p = q
    BY <1>2 DEF Listed
  <2>2. items \in Seq(Items) /\ Increasing(items) /\ Places(new, come, items)
    BY <1>2
  <2> QED BY <1>1, <2>1, <2>2, RanksBetween
<1>5. ASSUME NEW p \in Nat, p >= 1
      PROVE  \/ \E j \in 1 .. Len(items) : p = PlaceOf(items, j)
             \/ \E j \in 0 .. Len(items) : Between(items, j, p) /\ p - j >= 1
  <2>1. PICK j \in 0 .. Len(items) : PlaceOf(items, j) <= p /\ (j < Len(items) => p < PlaceOf(items, j + 1))
    BY <1>2, <1>5, Somewhere
  <2>2. PlaceOf(items, j) \in Nat /\ PlaceOf(items, 0) = 0 /\ PlaceOf(items, j) - PlaceOf(items, 0) >= j - 0
    <3>1. 0 \in 0 .. Len(items) /\ 0 <= j /\ PlaceOf(items, 0) = 0
      BY <1>2 DEF PlaceOf
    <3> QED BY <1>2, <3>1, Apart
  <2>3. CASE p = PlaceOf(items, j)
    <3>1. j \in 1 .. Len(items)
      BY <1>2, <1>5, <2>2, <2>3
    <3> QED BY <2>3, <3>1
  <2>4. CASE p # PlaceOf(items, j)
    <3>1. Between(items, j, p)
      BY <1>5, <2>1, <2>2, <2>4 DEF Between
    <3>2. p - j >= 1
      BY <1>2, <1>5, <2>1, <2>2, <2>4
    <3> QED BY <3>1, <3>2
  <2> QED BY <2>3, <2>4
<1>6. ASSUME NEW p \in 1 .. Len(X), X[p] # Gap PROVE p <= Len(new) /\ new[p] = X[p]
  <2>0. p \in Nat /\ p >= 1
    OBVIOUS
  <2>1. CASE \E j \in 1 .. Len(items) : p = PlaceOf(items, j)
    <3>1. PICK j \in 1 .. Len(items) : p = PlaceOf(items, j)
      BY <2>1
    <3>2. X[p] = items[j].id
      BY <3>1 DEF Spliced
    <3>3. p \in 1 .. Len(new) /\ new[p] = items[j].id
      BY <1>2, <3>1 DEF Places
    <3> QED BY <1>2, <3>2, <3>3
  <2>2. CASE \E j \in 0 .. Len(items) : Between(items, j, p) /\ p - j >= 1
    <3>1. PICK j \in 0 .. Len(items) : Between(items, j, p) /\ p - j >= 1
      BY <2>2
    <3>2. X[p] = IF p - j <= Len(S) THEN S[p - j] ELSE Gap
      BY <3>1 DEF Spliced
    <3>3. p - j <= Len(S) /\ X[p] = S[p - j]
      BY <1>6, <3>2
    <3>4. p - j \in 1 .. Len(S)
      BY <1>2, <2>0, <3>1, <3>3
    <3>5. p - j \in 1 .. Len(T) /\ T[p - j] = X[p]
      BY <1>3, <1>6, <3>3, <3>4
    <3>6. p <= Len(new)
      <4>1. SUFFICES ASSUME p > Len(new) PROVE FALSE
        BY <1>2, <2>0
      <4>2. j = Len(items)
        <5>1. SUFFICES ASSUME j < Len(items) PROVE FALSE
          BY <1>2
        <5>2. p < PlaceOf(items, j + 1) /\ j + 1 \in 1 .. Len(items)
          BY <1>2, <3>1, <5>1 DEF Between
        <5>3. PlaceOf(items, j + 1) \in 1 .. Len(new)
          BY <1>2, <5>2 DEF Places
        <5> QED BY <1>2, <2>0, <4>1, <5>2, <5>3
      <4> QED BY <1>2, <1>4, <2>0, <3>5, <4>1, <4>2
    <3>7. T[p - j] = new[p]
      BY <1>2, <1>4, <2>0, <3>1, <3>6
    <3> QED BY <3>5, <3>6, <3>7
  <2> QED BY <1>5, <2>0, <2>1, <2>2
<1>7. ASSUME NEW i \in 1 .. Len(ids), ids[i] # Gap, ids[i] \in Range(new)
      PROVE  \E p \in 1 .. Len(X) : p <= Len(new) /\ X[p] = ids[i]
  <2>1. CASE ids[i] \in come
    <3>1. PICK j \in 1 .. Len(items) : items[j].id = ids[i]
      BY <1>2, <2>1 DEF Places
    <3>2. PlaceOf(items, j) \in 1 .. Len(X) /\ X[PlaceOf(items, j)] = ids[i]
      BY <3>1 DEF Spliced
    <3>3. PlaceOf(items, j) \in 1 .. Len(new)
      BY <1>2, <3>1 DEF Places
    <3> QED BY <1>2, <3>2, <3>3
  <2>2. CASE ids[i] \notin come
    <3>1. ids[i] \notin removed
      BY <1>7, <2>2 DEF Reports
    <3>2. PICK q \in 1 .. Len(S) : S[q] = ids[i]
      <4>1. PICK rank : Ranks(ids, removed, S, rank)
        BY WithoutIs
      <4> QED BY <3>1, <4>1 DEF Ranks
    <3>3. PICK p \in 1 .. Len(new) : new[p] = ids[i]
      BY <1>7, ListsAreListed
    <3>4. p \in Nat /\ p >= 1 /\ p <= Len(new)
      BY <1>2
    <3>5. ~\E j \in 1 .. Len(items) : p = PlaceOf(items, j)
      BY <1>2, <2>2, <3>3 DEF Places
    <3>6. PICK j \in 0 .. Len(items) : Between(items, j, p)
      BY <1>5, <3>4, <3>5
    <3>7. p - j \in 1 .. Len(T) /\ T[p - j] = ids[i]
      BY <1>4, <3>3, <3>6
    <3>8. q \in 1 .. Len(T) /\ T[q] = ids[i]
      BY <1>3, <1>7, <3>2
    <3>9. p - j = q
      <4>1. PICK rank : Ranks(old, removed, T, rank)
        <5>1. old \in Seq(Records)
          BY <1>2 DEF Listed
        <5> QED BY <1>1, <5>1, WithoutIs
      <4>2. PICK a \in 1 .. Len(old) : old[a] \notin removed /\ rank[a] = p - j
        BY <3>7, <4>1 DEF Ranks
      <4>3. PICK b \in 1 .. Len(old) : old[b] \notin removed /\ rank[b] = q
        BY <3>8, <4>1 DEF Ranks
      <4>4. old[a] = ids[i] /\ old[b] = ids[i]
        BY <3>7, <3>8, <4>1, <4>2, <4>3 DEF Ranks
      <4>5. a = b
        BY <1>2, <4>4 DEF Listed
      <4> QED BY <4>2, <4>3, <4>5
    <3>10. p \in 1 .. Len(X)
      BY <3>2, <3>4, <3>6, <3>9 DEF Spliced
    <3>11. X[p] = S[p - j]
      <4>1. X[p] = IF p - j <= Len(S) THEN S[p - j] ELSE Gap
        BY <3>6, <3>10 DEF Spliced
      <4> QED BY <1>2, <3>9, <4>1
    <3> QED BY <3>2, <3>4, <3>9, <3>10, <3>11
  <2> QED BY <2>1, <2>2
<1> QED BY <1>6, <1>7 DEF PlacedIn

-----------------------------------------------------------------------------
(***************************************************************************)
(* The view.                                                               *)
(***************************************************************************)

Views == [ids : Seq(Entries), state : Nat \cup {NoState}, total : Nat \cup {NoTotal}, can : BOOLEAN]

\* The inductive invariant: the view's ids are in the list of its state, each once,
\* and in place unless a removal has gone unnoticed; a view that takes deltas has a state.
ViewInv ==
    /\ results \in Seq(Lists) /\ Len(results) >= 1
    /\ view \in Views
    /\ blind \in BOOLEAN
    /\ view.can => view.state # NoState
    /\ view.state # NoState =>
          /\ view.state \in 1 .. Now
          /\ OnceIn(view.ids, results[view.state])
          /\ ~blind => /\ PlacedIn(view.ids, results[view.state])
                       /\ view.total \in {NoTotal, Len(results[view.state])}

CutTo(X, n, Y) ==
    /\ Y \in Seq(Entries) /\ Len(Y) <= Len(X)
    /\ \A p \in 1 .. Len(Y) : Y[p] = X[p]
    /\ \A p \in 1 .. Len(X) : p <= n => p \in 1 .. Len(Y)

\* A list cut to a total keeps all that is not beyond it.
LEMMA TruncatedIs ==
    ASSUME NEW X \in Seq(Entries), NEW n \in Nat, NEW total \in {n, NoTotal},
           NEW Y, Y = Truncated(X, total)
    PROVE  CutTo(X, n, Y)
<1>1. CASE total # NoTotal /\ total < Len(X)
  <2>1. total = n /\ n < Len(X) /\ Y = SubSeq(X, 1, n)
    BY <1>1 DEF Truncated
  <2>2. /\ SubSeq(X, 0 + 1, n) \in Seq(Entries) /\ Len(SubSeq(X, 0 + 1, n)) = n - 0
        /\ \A i \in 1 .. n - 0 : SubSeq(X, 0 + 1, n)[i] = X[0 + i]
    <3>1. 0 \in Nat /\ 0 <= n /\ n <= Len(X)
      BY <2>1
    <3> QED BY <3>1, Part
  <2>3. Y \in Seq(Entries) /\ Len(Y) = n /\ \A i \in 1 .. n : Y[i] = X[i]
    BY <2>1, <2>2
  <2> QED BY <2>1, <2>3 DEF CutTo
<1>2. CASE ~(total # NoTotal /\ total < Len(X))
  <2>1. Y = X
    BY <1>2 DEF Truncated
  <2> QED BY <2>1 DEF CutTo
<1> QED BY <1>1, <1>2

\* What a list becomes that loses nothing of what another may have.
Keeps(X, list, Y) ==
    /\ Y \in Seq(Entries)
    /\ OnceIn(X, list) => OnceIn(Y, list)
    /\ PlacedIn(X, list) => PlacedIn(Y, list)
    /\ \A p \in 1 .. Len(X) : p <= Len(list) => p \in 1 .. Len(Y) /\ Y[p] = X[p]

\* What a cut list has stays in place, and once.
LEMMA TruncatedKeeps ==
    ASSUME NEW X \in Seq(Entries), NEW list \in Lists, NEW total \in {Len(list), NoTotal},
           NEW Y, Y = Truncated(X, total)
    PROVE  Keeps(X, list, Y)
<1>1. PICK n \in Nat : n = Len(list)
  BY ListsAreListed
<1>2. /\ Y \in Seq(Entries) /\ Len(Y) <= Len(X)
      /\ \A p \in 1 .. Len(Y) : Y[p] = X[p]
      /\ \A p \in 1 .. Len(X) : p <= n => p \in 1 .. Len(Y)
  <2>1. total \in {n, NoTotal}
    BY <1>1
  <2>2. CutTo(X, n, Y)
    BY <2>1, TruncatedIs
  <2> QED BY <2>2 DEF CutTo
<1>3. \A p \in 1 .. Len(Y) : p \in 1 .. Len(X)
  BY <1>2
<1> QED BY <1>1, <1>2, <1>3 DEF Keeps, OnceIn, PlacedIn

\* If nothing unnoticed is removed, nothing to be removed stands in a gap below an id held.
LEMMA InGapIs ==
    ASSUME ViewInv, view.state # NoState, ~blind, NEW removed \in SUBSET Records, InGap(removed) = {}
    PROVE  NoneUnseen(view.ids, results[view.state], removed)
<1>1. PICK ids, old : ids = view.ids /\ old = results[view.state]
  OBVIOUS
<1>2. /\ ids \in Seq(Entries) /\ old \in Lists /\ PlacedIn(ids, old)
      /\ Len(ids) \in Nat /\ DOMAIN ids = 1 .. Len(ids)
  <2>1. view.state \in 1 .. Len(results) /\ results \in Seq(Lists)
    BY DEF ViewInv, Views, Now
  <2>2. results[view.state] \in Lists
    BY <2>1, ElementOfSeq
  <2> QED BY <1>1, <2>2 DEF ViewInv, Views
<1>3. SUFFICES ASSUME NEW h \in 1 .. Len(ids), NEW i \in 1 .. Len(ids), h < i, ids[i] # Gap, ids[h] = Gap,
                      old[h] \in removed
               PROVE  FALSE
  BY <1>1 DEF NoneUnseen
<1>4. /\ Len(old) \in Nat /\ DOMAIN old = 1 .. Len(old)
      /\ \A p, q \in 1 .. Len(old) : old[p] = old[q] => p = q
  BY <1>2, ListsAreListed DEF Listed
<1>5. h \in 1 .. Len(old)
  <2>1. i <= Len(old)
    BY <1>2, <1>3 DEF PlacedIn
  <2> QED BY <1>2, <1>3, <1>4, <2>1
<1>6. old[h] \notin HeldIds(ids)
  <2>1. SUFFICES ASSUME old[h] \in HeldIds(ids) PROVE FALSE
    OBVIOUS
  <2>2. PICK g \in 1 .. Len(ids) : ids[g] = old[h] /\ ids[g] # Gap
    BY <1>2, <2>1 DEF HeldIds, Range
  <2>3. g \in 1 .. Len(old) /\ old[g] = old[h]
    BY <1>2, <1>4, <2>2 DEF PlacedIn
  <2>4. g = h
    BY <1>4, <1>5, <2>3
  <2> QED BY <1>3, <2>2, <2>4
<1>7. PositionOf(old, old[h]) = h - 1
  <2>1. (CHOOSE j \in DOMAIN old : old[j] = old[h]) = h
    BY <1>4, <1>5
  <2> QED BY <2>1 DEF PositionOf
<1>8. old[h] \in InGap(removed)
  <2>1. i \in DOMAIN ids /\ ids[i] # Gap /\ i - 1 > PositionOf(old, old[h])
    BY <1>2, <1>3, <1>7
  <2> QED BY <1>1, <1>3, <1>6, <2>1 DEF InGap
<1> QED BY <1>8

\* What an apply makes of the view.
LEMMA ApplyIs ==
    ASSUME ViewInv, Apply
    PROVE  /\ results' = results /\ view'.state \in 1 .. Now
           /\ view' \in Views
           /\ blind' \in BOOLEAN
           /\ OnceIn(view'.ids, results[view'.state])
           /\ ~blind' => /\ PlacedIn(view'.ids, results[view'.state])
                         /\ view'.total \in {NoTotal, Len(results[view'.state])}
                         /\ \A i \in 1 .. Len(view.ids) :
                               view.ids[i] # Gap /\ view.ids[i] \in Range(results[view'.state]) =>
                                  \E p \in 1 .. Len(view'.ids) : view'.ids[p] = view.ids[i]
<1>1. PICK t \in view.state .. Now : \E delta \in Deltas(view.state, t), total \in Totals(t) :
         /\ Become(delta, t, total)
         /\ blind' = (blind \/ InGap(delta.removed) # {})
  BY DEF Apply
<1>2. PICK delta \in Deltas(view.state, t), total \in Totals(t) :
         /\ Become(delta, t, total)
         /\ blind' = (blind \/ InGap(delta.removed) # {})
  BY <1>1
<1>3. /\ results' = results /\ results \in Seq(Lists) /\ Len(results) \in Nat
      /\ view.state # NoState /\ view.state \in 1 .. Len(results)
      /\ view \in Views
      /\ blind \in BOOLEAN /\ view.ids \in Seq(Entries)
      /\ OnceIn(view.ids, results[view.state])
      /\ ~blind => PlacedIn(view.ids, results[view.state])
  BY DEF Apply, ViewInv, Views, Now
<1>4. t \in 1 .. Len(results)
  BY <1>3 DEF Now
<1>5. PICK old, new : /\ old = results[view.state] /\ new = results[t]
                      /\ old \in Lists /\ new \in Lists
  BY <1>3, <1>4, ElementOfSeq
<1>6. PICK items : items = Insertions(delta.added, delta.removed)
  OBVIOUS
<1>7. PICK come : Reports(old, new, delta.removed, come, items)
  BY <1>5, <1>6, DeltaSays
<1>8. PICK S : S = Without(view.ids, delta.removed) /\ S \in Seq(Entries)
  BY <1>3, WithoutIs
<1>9. PICK X : X = Splice(view.ids, delta.removed, delta.added)
  OBVIOUS
<1>10. Spliced(S, items, X)
  <2>1. items \in Seq(Items) /\ Increasing(items)
    BY <1>7 DEF Reports
  <2> QED BY <1>3, <1>6, <1>8, <1>9, <2>1, SplicedIs
<1>11. X \in Seq(Entries)
  BY <1>10 DEF Spliced
<1>12. OnceIn(X, new)
  BY <1>3, <1>5, <1>7, <1>8, <1>10, OnceAfter
<1>13. ASSUME ~blind'
       PROVE  /\ PlacedIn(X, new)
              /\ \A i \in 1 .. Len(view.ids) : view.ids[i] # Gap /\ view.ids[i] \in Range(new) =>
                    \E p \in 1 .. Len(X) : p <= Len(new) /\ X[p] = view.ids[i]
  <2>1. ~blind /\ InGap(delta.removed) = {}
    BY <1>2, <1>13
  <2>2. delta.removed \in SUBSET Records
    BY <1>7 DEF Reports
  <2>3. NoneUnseen(view.ids, old, delta.removed)
    BY <1>3, <1>5, <2>1, <2>2, InGapIs
  <2>4. PlacedIn(view.ids, old)
    BY <1>3, <1>5, <2>1
  <2> QED BY <1>3, <1>5, <1>7, <1>8, <1>10, <2>3, <2>4, PlacedAfter
<1>14. PICK Y : Y = Truncated(X, total)
  OBVIOUS
<1>15. total \in {Len(new), NoTotal} /\ Len(new) \in Nat
  BY <1>5, ListsAreListed DEF Totals
<1>16. /\ Y \in Seq(Entries)
       /\ OnceIn(X, new) => OnceIn(Y, new)
       /\ PlacedIn(X, new) => PlacedIn(Y, new)
       /\ \A p \in 1 .. Len(X) : p <= Len(new) => p \in 1 .. Len(Y) /\ Y[p] = X[p]
  <2>1. new \in Lists /\ total \in {Len(new), NoTotal}
    BY <1>5, <1>15
  <2>2. Keeps(X, new, Y)
    BY <1>11, <1>14, <2>1, TruncatedKeeps
  <2> QED BY <2>2 DEF Keeps
<1>17. /\ view'.ids = Y /\ view'.state = t /\ view'.total = total
       /\ view' \in Views
  <2>1. view' = [view EXCEPT !.ids = Y, !.total = total, !.state = t]
    BY <1>2, <1>9, <1>14 DEF Become
  <2>2. total \in Nat \cup {NoTotal} /\ t \in Nat \cup {NoState}
    BY <1>4, <1>15
  <2> QED BY <1>3, <1>16, <2>1, <2>2 DEF Views
<1>18. ASSUME ~blind'
       PROVE  /\ PlacedIn(Y, new) /\ total \in {NoTotal, Len(new)}
              /\ \A i \in 1 .. Len(view.ids) : view.ids[i] # Gap /\ view.ids[i] \in Range(new) =>
                    \E p \in 1 .. Len(Y) : Y[p] = view.ids[i]
  <2>1. ASSUME NEW i \in 1 .. Len(view.ids), view.ids[i] # Gap, view.ids[i] \in Range(new)
        PROVE  \E p \in 1 .. Len(Y) : Y[p] = view.ids[i]
    <3>1. PICK p \in 1 .. Len(X) : p <= Len(new) /\ X[p] = view.ids[i]
      BY <1>13, <1>18, <2>1
    <3>2. p \in 1 .. Len(Y) /\ Y[p] = X[p]
      BY <1>16, <3>1
    <3> QED BY <3>1, <3>2
  <2> QED BY <1>13, <1>15, <1>16, <1>18, <2>1
<1>19. blind' \in BOOLEAN
  BY <1>2
<1> QED BY <1>3, <1>4, <1>5, <1>12, <1>16, <1>17, <1>18, <1>19 DEF Now

\* What a reset makes of the view.
LEMMA ResetIs ==
    ASSUME ViewInv, Reset
    PROVE  /\ results' = results /\ blind' = FALSE
           /\ view' \in Views
           /\ view'.state \in 1 .. Now
           /\ OnceIn(view'.ids, results[view'.state])
           /\ PlacedIn(view'.ids, results[view'.state])
           /\ view'.total \in {NoTotal, Len(results[view'.state])}
<1>1. PICK v \in 1 .. Now : \E window \in Windows(v), total \in Totals(v), can \in BOOLEAN :
         view' = [ids |-> [i \in 1 .. window.position |-> Gap] \o window.ids,
                  state |-> v, total |-> total, can |-> can]
  BY DEF Reset
<1>2. PICK window \in Windows(v), total \in Totals(v), can \in BOOLEAN :
         view' = [ids |-> [i \in 1 .. window.position |-> Gap] \o window.ids,
                  state |-> v, total |-> total, can |-> can]
  BY <1>1
<1>3. results \in Seq(Lists) /\ Len(results) \in Nat /\ v \in 1 .. Len(results) /\ v \in Nat
  BY DEF ViewInv, Views, Now
<1>4. PICK list \in Lists : list = results[v]
  BY <1>3, ElementOfSeq
<1>5. /\ Len(list) \in Nat /\ list \in Seq(Records)
      /\ \A p, q \in 1 .. Len(list) : list[p] = list[q] => p = q
      /\ \A p \in 1 .. Len(list) : list[p] \in Range(list)
  BY ListsAreListed DEF Listed
<1>6. PICK a \in 0 .. Len(list), b \in 0 .. Len(list) :
         a <= b /\ window.position = a /\ window.ids = SubSeq(list, a + 1, b)
  <2>1. PICK w \in (0 .. Len(list)) \X (0 .. Len(list)) :
           w[1] <= w[2] /\ window = [position |-> w[1], ids |-> SubSeq(list, w[1] + 1, w[2])]
    BY <1>4 DEF Windows
  <2> QED BY <2>1
<1>7. a \in Nat /\ b \in Nat /\ b <= Len(list)
  BY <1>5, <1>6
<1> DEFINE gaps == [i \in 1 .. a |-> Gap]
           part == SubSeq(list, a + 1, b)
           ids == gaps \o part
<1>8. /\ part \in Seq(Records) /\ Len(part) = b - a
      /\ \A i \in 1 .. b - a : part[i] = list[a + i]
  BY <1>5, <1>6, <1>7, Part
<1>9. gaps \in Seq(Entries) /\ Len(gaps) = a /\ \A i \in 1 .. a : gaps[i] = Gap
  BY <1>7 DEF Entries
<1>10. part \in Seq(Entries)
  <2>1. Records \in SUBSET Entries
    BY DEF Entries
  <2> HIDE DEF part
  <2> QED BY <1>8, <2>1
<1> HIDE DEF gaps, part
<1>11. /\ ids \in Seq(Entries) /\ Len(ids) = Len(gaps) + Len(part)
       /\ \A i \in 1 .. Len(gaps) : ids[i] = gaps[i]
       /\ \A i \in 1 .. Len(part) : ids[Len(gaps) + i] = part[i]
  <2>1. gaps \in Seq(Entries) /\ part \in Seq(Entries)
    BY <1>9, <1>10
  <2> QED BY <2>1, Joined
<1>12. view' = [ids |-> ids, state |-> v, total |-> total, can |-> can]
  BY <1>2, <1>6 DEF gaps, part
<1> HIDE DEF ids
<1>13. ASSUME NEW p \in 1 .. Len(ids), ids[p] # Gap PROVE p \in 1 .. Len(list) /\ list[p] = ids[p]
  <2>1. p \in Nat /\ p >= 1 /\ p <= a + (b - a)
    BY <1>8, <1>9, <1>11
  <2>2. p > a
    <3>1. SUFFICES ASSUME p <= a PROVE FALSE
      BY <1>7, <2>1
    <3>2. p \in 1 .. a
      BY <2>1, <3>1
    <3> QED BY <1>9, <1>11, <1>13, <3>2
  <2>3. p - a \in 1 .. b - a /\ a + (p - a) = p
    BY <1>7, <2>1, <2>2
  <2>4. ids[p] = list[p]
    BY <1>8, <1>9, <1>11, <2>3
  <2>5. p \in 1 .. Len(list)
    BY <1>5, <1>7, <2>1
  <2> QED BY <2>4, <2>5
<1>14. PlacedIn(ids, list) /\ OnceIn(ids, list)
  <2>1. \A i \in 1 .. Len(ids) : ids[i] # Gap => i <= Len(list) /\ list[i] = ids[i]
    BY <1>5, <1>13
  <2>2. \A i, j \in 1 .. Len(ids) : ids[i] = ids[j] /\ i # j => ids[i] = Gap
    BY <1>5, <1>13
  <2>3. \A i \in 1 .. Len(ids) : ids[i] # Gap => ids[i] \in Range(list)
    BY <1>5, <1>13
  <2> QED BY <2>1, <2>2, <2>3 DEF PlacedIn, OnceIn
<1>15. total \in {NoTotal, Len(list)} /\ total \in Nat \cup {NoTotal}
  BY <1>4, <1>5 DEF Totals
<1>16. /\ view' \in Views
       /\ view'.ids = ids /\ view'.state = v /\ view'.total = total
  BY <1>3, <1>11, <1>12, <1>15 DEF Views
<1>17. results' = results /\ blind' = FALSE
  BY DEF Reset
<1> QED BY <1>4, <1>14, <1>15, <1>16, <1>17

\* The invariant holds at first and is kept by every step.
LEMMA ViewInvAtFirst == ViewInit => ViewInv
<1> SUFFICES ASSUME ViewInit PROVE ViewInv
  OBVIOUS
<1>1. PICK list \in Lists : results = <<list>>
  BY DEF ViewInit
<1>2. results \in Seq(Lists) /\ Len(results) = 1
  BY <1>1
<1>3. view = [ids |-> <<>>, state |-> NoState, total |-> NoTotal, can |-> FALSE] /\ blind = FALSE
  BY DEF ViewInit
<1>4. view \in Views
  BY <1>3 DEF Views
<1>5. view.state = NoState /\ ~view.can /\ blind \in BOOLEAN
  BY <1>3
<1> QED BY <1>2, <1>4, <1>5 DEF ViewInv, Views

\* One step per action.
LEMMA ViewInvIsKept == ViewInv /\ [ViewNext]_viewVars => ViewInv'
<1> SUFFICES ASSUME ViewInv, [ViewNext]_viewVars PROVE ViewInv'
  OBVIOUS
<1>1. CASE Change
  <2>1. PICK list \in Lists : results' = Append(results, list)
    BY <1>1 DEF Change
  <2>2. view' = view /\ blind' = blind
    BY <1>1 DEF Change
  <2>3. results \in Seq(Lists) /\ Len(results) \in Nat
    BY DEF ViewInv, Views
  <2>4. /\ results' \in Seq(Lists) /\ Len(results') = Len(results) + 1
        /\ \A i \in 1 .. Len(results) : results'[i] = results[i]
    BY <2>1, <2>3, AppendProperties
  <2>5. view.state \in 1 .. Now => view.state \in 1 .. Len(results') /\ results'[view.state] = results[view.state]
    BY <2>3, <2>4 DEF Now
  <2>6. view.state # NoState =>
           /\ view.state \in 1 .. Len(results')
           /\ OnceIn(view.ids, results'[view.state])
           /\ ~blind => /\ PlacedIn(view.ids, results'[view.state])
                        /\ view.total \in {NoTotal, Len(results'[view.state])}
    BY <2>5 DEF ViewInv, Views
  <2>7. Len(results') >= 1
    BY <2>3, <2>4
  <2> QED BY <2>2, <2>4, <2>6, <2>7 DEF ViewInv, Views, Now
<1>2. CASE Reset
  <2>1. /\ results' = results /\ blind' = FALSE
        /\ view' \in Views
        /\ view'.state \in 1 .. Len(results')
        /\ OnceIn(view'.ids, results'[view'.state])
        /\ PlacedIn(view'.ids, results'[view'.state])
        /\ view'.total \in {NoTotal, Len(results'[view'.state])}
    BY <1>2, ResetIs DEF Now
  <2>2. view'.state # NoState
    BY <2>1, QueryViewAssumption DEF ViewInv, Views
  <2> QED BY <2>1, <2>2 DEF ViewInv, Views, Now
<1>3. CASE Apply
  <2>1. /\ results' = results /\ blind' \in BOOLEAN
        /\ view' \in Views
        /\ view'.state \in 1 .. Len(results')
        /\ OnceIn(view'.ids, results'[view'.state])
        /\ ~blind' => /\ PlacedIn(view'.ids, results'[view'.state])
                      /\ view'.total \in {NoTotal, Len(results'[view'.state])}
    BY <1>3, ApplyIs DEF Now
  <2>2. view'.state # NoState
    BY <2>1, QueryViewAssumption DEF ViewInv, Views
  <2> QED BY <2>1, <2>2 DEF ViewInv, Views, Now
<1>4. CASE UNCHANGED viewVars
  BY <1>4 DEF viewVars, ViewInv, Now
<1> QED BY <1>1, <1>2, <1>3, <1>4 DEF ViewNext

\* The invariant holds in every state of a view.
THEOREM ViewInvHolds == ViewSpec => []ViewInv
<1> QED BY ViewInvAtFirst, ViewInvIsKept, PTL DEF ViewSpec

\* In the invariant the view agrees with the server.
LEMMA ViewInvAgrees == ViewInv => ViewAgrees
<1> SUFFICES ASSUME ViewInv, view.state # NoState
             PROVE  /\ HeldOnce
                    /\ ~blind => Placed /\ view.total \in {NoTotal, Len(results[view.state])}
  BY DEF ViewAgrees
<1>1. /\ view.ids \in Seq(Entries) /\ DOMAIN view.ids = 1 .. Len(view.ids)
      /\ OnceIn(view.ids, results[view.state])
      /\ ~blind => /\ PlacedIn(view.ids, results[view.state])
                   /\ view.total \in {NoTotal, Len(results[view.state])}
  BY DEF ViewInv, Views
<1>2. HeldOnce
  BY <1>1 DEF HeldOnce, HeldIds, OnceIn, Range
<1>3. ~blind => Placed
  BY <1>1 DEF Placed, PlacedIn
<1> QED BY <1>1, <1>2, <1>3

\* However late and in whatever order a view is handed its responses, every id it holds
\* is in its place in the list of its state and a total it has is right, until a delta
\* takes an id out of a gap below one held; even then an id is held once and a result.
THEOREM ViewsAgree == ViewSpec => []ViewAgrees
<1> QED BY ViewInvHolds, ViewInvAgrees, PTL

\* An apply keeps every id the view holds that is still in the results, one that moved
\* included, whatever the delta.
THEOREM HeldIdsSurvive == ViewSpec => NothingHeldIsLost
<1>1. ASSUME ViewInv, Apply, ~blind'
      PROVE  HeldIds(view.ids) \intersect Range(results[view'.state]) \subseteq HeldIds(view'.ids)
  <2>1. /\ view.ids \in Seq(Entries) /\ DOMAIN view.ids = 1 .. Len(view.ids)
        /\ view'.ids \in Seq(Entries) /\ DOMAIN view'.ids = 1 .. Len(view'.ids)
    <3>1. view.ids \in Seq(Entries) /\ view'.ids \in Seq(Entries)
      BY <1>1, ApplyIs DEF ViewInv, Views
    <3> QED BY <3>1
  <2>2. \A i \in 1 .. Len(view.ids) :
           view.ids[i] # Gap /\ view.ids[i] \in Range(results[view'.state]) =>
              \E p \in 1 .. Len(view'.ids) : view'.ids[p] = view.ids[i]
    BY <1>1, ApplyIs
  <2> SUFFICES ASSUME NEW x \in HeldIds(view.ids) \intersect Range(results[view'.state])
               PROVE  x \in HeldIds(view'.ids)
    OBVIOUS
  <2>3. PICK i \in 1 .. Len(view.ids) : view.ids[i] = x /\ x # Gap
    BY <2>1 DEF HeldIds, Range
  <2>4. PICK p \in 1 .. Len(view'.ids) : view'.ids[p] = x
    BY <2>2, <2>3
  <2> QED BY <2>1, <2>3, <2>4 DEF HeldIds, Range
<1>2. ViewInv /\ [ViewNext]_viewVars =>
         [Apply /\ ~blind' =>
            HeldIds(view.ids) \intersect Range(results[view'.state]) \subseteq HeldIds(view'.ids)]_viewVars
  BY <1>1
<1> QED BY ViewInvHolds, <1>2, PTL DEF ViewSpec, NothingHeldIsLost

-----------------------------------------------------------------------------
(***************************************************************************)
(* I-JSON: what a text may be.                                             *)
(***************************************************************************)

LEMMA TextsAre ==
    ASSUME NEW t
    PROVE  /\ WholeText(t) <=> IsText(t) /\ t \notin {"half", "literal"}
           /\ IsText("half") /\ IsText("literal")
           /\ IsText(t) => (Texts[t].lone <=> t \in {"half", "literal"})
           /\ t = "half" => Texts[t].escaped
           /\ t = "literal" => ~Texts[t].escaped /\ ~Texts[t].ascii /\ Texts[t].lone
<1>1. DOMAIN Texts = {"ascii", "wide", "pair", "backslash", "half", "literal"}
  BY DEF Texts
<1>2. /\ Texts.ascii = [lone |-> FALSE, ascii |-> TRUE, escaped |-> FALSE]
      /\ Texts.wide = [lone |-> FALSE, ascii |-> FALSE, escaped |-> FALSE]
      /\ Texts.pair = [lone |-> FALSE, ascii |-> FALSE, escaped |-> TRUE]
      /\ Texts.backslash = [lone |-> FALSE, ascii |-> TRUE, escaped |-> TRUE]
      /\ Texts.half = [lone |-> TRUE, ascii |-> FALSE, escaped |-> TRUE]
      /\ Texts.literal = [lone |-> TRUE, ascii |-> FALSE, escaped |-> FALSE]
  BY DEF Texts
<1> QED BY <1>1, <1>2 DEF IsText, WholeText

\* A document: its nodes, and where each is.
Whole(d) == \A i \in DOMAIN d :
    /\ d[i].parent \in IF i = 1 THEN {Root} ELSE 1 .. (i - 1)
    /\ IF i # 1 /\ d[d[i].parent].kind = "object"
       THEN d[i].key # NoKey /\ (IsText(d[i].text) \/ d[i].text = NotText)
       ELSE d[i].key = NoKey /\ d[i].text = NotText
    /\ d[i].kind = "int" => d[i].value \in Int
    /\ d[i].kind = "string" => IsText(d[i].value)

LEMMA DocumentIs ==
    ASSUME document \in Documents
    PROVE  /\ Len(document) \in Nat \ {0} /\ Nodes = 1 .. Len(document)
           /\ Whole(document)
<1>1. document \in Seq(Range(document)) /\ document # <<>> /\ Whole(document)
  BY DocumentsAssumption DEF Whole
<1>2. Len(document) \in Nat /\ Nodes = 1 .. Len(document)
  BY <1>1 DEF Nodes
<1>3. Len(document) # 0
  BY <1>1, EmptySeq
<1> QED BY <1>1, <1>2, <1>3

\* The children of a node come after it.
LEMMA ChildrenAre ==
    ASSUME document \in Documents, NEW i \in Nodes
    PROVE  /\ Children(i) \in SUBSET Nodes
           /\ \A j \in Children(i) : i < j /\ document[j].parent = i
<1> QED BY DocumentIs DEF Children, Whole, Root

LEMMA ParentsAre ==
    ASSUME document \in Documents, NEW j \in Nodes, j # 1
    PROVE  document[j].parent \in Nodes /\ document[j].parent < j /\ j \in Children(document[j].parent)
<1> QED BY DocumentIs DEF Children, Whole

\* A bounded set of numbers has a greatest.
LEMMA Greatest ==
    ASSUME NEW n \in Nat, NEW S \in SUBSET (1 .. n), S # {}
    PROVE  Max(S) \in S
<1> DEFINE T == {m \in Nat : n - m \in S}
<1>1. T \in SUBSET Nat /\ T # {}
  <2>1. PICK x \in S : TRUE
    OBVIOUS
  <2>2. n - x \in Nat /\ n - (n - x) = x
    OBVIOUS
  <2> QED BY <2>1, <2>2
<1>2. PICK m \in T : \A k \in T : m <= k
  <2> HIDE DEF T
  <2> QED BY <1>1, Least
<1>3. n - m \in S /\ \A x \in S : n - m >= x
  <2> SUFFICES ASSUME NEW x \in S PROVE n - m >= x
    BY <1>2
  <2>1. n - x \in T
    <3>1. n - x \in Nat /\ n - (n - x) = x
      OBVIOUS
    <3> QED BY <3>1
  <2>2. m <= n - x
    BY <1>2, <2>1
  <2> QED BY <1>2, <2>2
<1>4. \E x \in S : \A y \in S : x >= y
  BY <1>3
<1> QED BY <1>4 DEF Max

\* Last nodes are nodes.
LEMMA LastWithinIs ==
    ASSUME document \in Documents, NEW i \in Nodes
    PROVE  LastWithin[i] \in Nodes
<1> DEFINE Here(f, j) == Max({j} \cup {f[k] : k \in Children(j)})
           last == CHOOSE f : f = [j \in Nodes |-> Here(f, j)]
<1>1. PICK n \in Nat : n = Len(document) /\ Nodes = 1 .. n
  BY DocumentIs
<1>2. \E f \in [Nodes -> Nodes] : \A j \in Nodes : f[j] = Here(f, j)
  <2> DEFINE Good(f, m) == f \in [Nodes -> Nodes] /\ \A j \in Nodes : j > n - m => f[j] = Here(f, j)
             T == {m \in 0 .. n : \E f : Good(f, m)}
  <2>1. 0 \in T
    <3> DEFINE f == [j \in Nodes |-> j]
    <3>1. Good(f, 0)
      BY <1>1
    <3> HIDE DEF Good, f
    <3> QED BY <3>1
  <2>2. ASSUME NEW m \in T, m < n PROVE m + 1 \in T
    <3>1. PICK f : Good(f, m)
      OBVIOUS
    <3> DEFINE g == [f EXCEPT ![n - m] = Here(f, n - m)]
    <3>2. m \in 0 .. n /\ n - m \in Nodes
      BY <1>1, <2>2
    <3>3. f \in [Nodes -> Nodes]
      BY <3>1
    <3>4. Here(f, n - m) \in Nodes
      <4> DEFINE S == {n - m} \cup {f[k] : k \in Children(n - m)}
      <4>1. S \in SUBSET (1 .. n) /\ S # {}
        BY <1>1, <3>2, <3>3, ChildrenAre
      <4> HIDE DEF S
      <4>2. Max(S) \in S
        BY <4>1, Greatest
      <4>3. Max(S) \in Nodes
        BY <1>1, <4>1, <4>2
      <4> QED BY <4>3 DEF S
    <3>5. g \in [Nodes -> Nodes]
      <4> HIDE DEF Here
      <4> QED BY <3>3, <3>4
    <3>6. ASSUME NEW j \in Nodes, j > n - (m + 1) PROVE g[j] = Here(g, j)
      <4>1. j >= n - m
        BY <1>1, <3>2, <3>6
      <4>2. \A k \in Children(j) : k \in Nodes /\ g[k] = f[k]
        <5> HIDE DEF Here
        <5> QED BY <1>1, <3>2, <3>3, <4>1, ChildrenAre
      <4>3. Here(g, j) = Here(f, j)
        <5> HIDE DEF g
        <5>1. {g[k] : k \in Children(j)} = {f[k] : k \in Children(j)}
          BY <4>2
        <5> QED BY <5>1
      <4>4. g[j] = Here(f, j)
        <5>1. CASE j = n - m
          <6> HIDE DEF Here
          <6> QED BY <3>2, <3>3, <5>1
        <5>2. CASE j # n - m
          <6>1. j > n - m
            BY <1>1, <3>2, <4>1, <5>2
          <6>2. g[j] = f[j]
            <7> HIDE DEF Here
            <7> QED BY <3>3, <5>2
          <6>3. f[j] = Here(f, j)
            <7> HIDE DEF Here
            <7> QED BY <3>1, <6>1
          <6> HIDE DEF Here, g
          <6> QED BY <6>2, <6>3
        <5> QED BY <5>1, <5>2
      <4> HIDE DEF Here, g
      <4> QED BY <4>3, <4>4
    <3>7. Good(g, m + 1)
      <4> HIDE DEF Here, g
      <4> QED BY <3>5, <3>6
    <3> HIDE DEF Good, g
    <3> QED BY <2>2, <3>2, <3>7
  <2>3. n \in T
    <3>1. T \in SUBSET (0 .. n)
      OBVIOUS
    <3> HIDE DEF T
    <3> QED BY <2>1, <2>2, <3>1, UpTo
  <2>4. PICK f : Good(f, n)
    <3> HIDE DEF Good
    <3> QED BY <2>3
  <2>5. \A j \in Nodes : j > n - n
    BY <1>1
  <2> HIDE DEF Here
  <2> QED BY <2>4, <2>5
<1>3. last = [j \in Nodes |-> Here(last, j)]
  <2>1. PICK f \in [Nodes -> Nodes] : \A j \in Nodes : f[j] = Here(f, j)
    <3> HIDE DEF Here
    <3> QED BY <1>2
  <2>2. f = [j \in Nodes |-> Here(f, j)]
    <3> HIDE DEF Here
    <3> QED BY <2>1
  <2> HIDE DEF Here
  <2> QED BY <2>2
<1>4. LastWithin = last
  BY DEF LastWithin
<1> HIDE DEF last
<1>5. ASSUME NEW j \in Nodes, \A k \in Nodes : k > j => last[k] \in Nodes
      PROVE  last[j] \in Nodes
  <2> DEFINE S == {j} \cup {last[k] : k \in Children(j)}
  <2>1. S \in SUBSET (1 .. n) /\ S # {}
    BY <1>1, <1>5, ChildrenAre
  <2>2. last[j] = Max(S)
    <3> HIDE DEF Here
    <3>1. last[j] = Here(last, j)
      BY <1>3
    <3> QED BY <3>1 DEF Here
  <2> HIDE DEF S
  <2>3. Max(S) \in S
    BY <2>1, Greatest
  <2> QED BY <1>1, <2>1, <2>2, <2>3
<1>6. \A j \in Nodes : last[j] \in Nodes
  <2> DEFINE T == {m \in 0 .. n : \A j \in Nodes : j > n - m => last[j] \in Nodes}
  <2>1. 0 \in T
    BY <1>1
  <2>2. ASSUME NEW m \in T, m < n PROVE m + 1 \in T
    <3>1. m \in 0 .. n /\ m + 1 \in 0 .. n /\ n - m \in Nodes
      BY <1>1, <2>2
    <3>2. last[n - m] \in Nodes
      BY <1>5, <3>1
    <3>3. ASSUME NEW j \in Nodes, j > n - (m + 1) PROVE last[j] \in Nodes
      <4>1. j = n - m \/ j > n - m
        BY <1>1, <3>1, <3>3
      <4> QED BY <3>2, <4>1
    <3> QED BY <3>1, <3>3
  <2>3. n \in T
    <3>1. T \in SUBSET (0 .. n)
      OBVIOUS
    <3> HIDE DEF T
    <3> QED BY <2>1, <2>2, <3>1, UpTo
  <2> QED BY <1>1, <2>3
<1> QED BY <1>4, <1>6

-----------------------------------------------------------------------------
(***************************************************************************)
(* I-JSON: what is wrong, and the errors that say so.                      *)
(***************************************************************************)

LEMMA WrongIs ==
    ASSUME NEW i \in Nodes
    PROVE  /\ i \in Wrong("range") <=> document[i].kind = "int" /\ ~InRange(document[i].value)
           /\ i \in Wrong("string") <=>
                \/ document[i].kind = "string" /\ Texts[document[i].value].lone
                \/ document[i].key # NoKey /\ document[i].text \in {NotText, "half", "literal"}
           /\ i \in Wrong("duplicate") <=>
                document[i].kind = "object" /\ Cardinality({document[j].key : j \in Children(i)})
                                                 < Cardinality(Children(i))
           /\ i \in Wrong("non-finite") <=> document[i].kind = "float" /\ document[i].value # "finite"
           /\ i \in Wrong("malformed") <=> document[i].kind = "cut"
           /\ i \in Wrong("type") <=> document[i].kind = "foreign"
           /\ i \in Wrong("nesting") <=> Depth[i] > WalkDepth \/ Depth[i] > ParseDepth
<1> QED BY DEF Wrong

\* Keys repeat where there are fewer of them than of what they name.
LEMMA RepeatsAre ==
    ASSUME document \in Documents, NEW i \in Nodes
    PROVE  Repeats(i) <=> Cardinality({document[j].key : j \in Children(i)}) < Cardinality(Children(i))
<1> DEFINE C == Children(i)
           K == {document[j].key : j \in C}
           f == [j \in C |-> document[j].key]
<1>1. IsFiniteSet(C)
  <2>1. IsFiniteSet(1 .. Len(document))
    BY DocumentIs, FS_Interval
  <2> QED BY <2>1, DocumentIs, ChildrenAre, FS_Subset
<1>2. f \in Surjection(C, K)
  BY DEF Surjection
<1>3. /\ Cardinality(K) <= Cardinality(C)
      /\ Cardinality(K) = Cardinality(C) <=> f \in Injection(C, K)
      /\ Cardinality(K) \in Nat /\ Cardinality(C) \in Nat
  <2> HIDE DEF f, K, C
  <2> QED BY <1>1, <1>2, FS_Surjection, FS_CardinalityType
<1>4. f \in Injection(C, K) <=> ~Repeats(i)
  BY DEF Injection, IsInjective, Repeats
<1> HIDE DEF f
<1> QED BY <1>3, <1>4

\* Errors that are of node i and true of it.
Sound(errors, i) == \A e \in errors :
    e.node = i /\ e.place[1] \in Nat /\ e.place[2] \in Nat /\ i \in Wrong(e.class)

LEMMA AtIs ==
    ASSUME document \in Documents, NEW i \in Nodes, NEW class
    PROVE  /\ At(i, class) # {}
           /\ \A e \in At(i, class) :
                e.node = i /\ e.class = class /\ e.place[1] \in Nat /\ e.place[2] \in Nat
           /\ i \in Wrong(class) => Sound(At(i, class), i)
<1>1. i \in Nat
  BY DocumentIs
<1> QED BY <1>1 DEF At, Sound

LEMMA RepeatAtIs ==
    ASSUME document \in Documents, NEW i \in Nodes
    PROVE  /\ Sound(RepeatAt(i), i) /\ \A e \in RepeatAt(i) : e.class = "duplicate"
           /\ RepeatAt(i) = {} => i \notin Wrong("duplicate")
<1>1. i \in Nat /\ LastWithin[i] \in Nat /\ 1 + Len(document) - i \in Nat
  BY DocumentIs, LastWithinIs
<1>2. i \in Wrong("duplicate") <=> document[i].kind = "object" /\ Repeats(i)
  BY WrongIs, RepeatsAre
<1>3. CASE document[i].kind = "object" /\ Repeats(i)
  <2> DEFINE e == [class |-> "duplicate", node |-> i, place |-> <<LastWithin[i], 1 + Len(document) - i>>]
  <2>1. RepeatAt(i) = {e}
    BY <1>3 DEF RepeatAt
  <2>2. e.node = i /\ e.class = "duplicate" /\ e.place[1] \in Nat /\ e.place[2] \in Nat
    BY <1>1
  <2> HIDE DEF e
  <2> QED BY <1>2, <1>3, <2>1, <2>2 DEF Sound
<1>4. CASE ~(document[i].kind = "object" /\ Repeats(i))
  <2>1. RepeatAt(i) = {}
    BY <1>4 DEF RepeatAt
  <2> QED BY <1>2, <1>4, <2>1 DEF Sound
<1> QED BY <1>3, <1>4

LEMMA StopsAre ==
    ASSUME document \in Documents, NEW i \in Nodes
    PROVE  /\ Sound(Stops(i), i) /\ \A e \in Stops(i) : e.class \in {"malformed", "nesting", "duplicate"}
           /\ Stops(i) = {} => i \notin Wrong("malformed") /\ i \notin Wrong("duplicate")
<1>1. CASE document[i].kind = "cut"
  <2>1. Stops(i) = At(i, "malformed")
    BY <1>1 DEF Stops, IsContainer
  <2>wrong. i \in Wrong("malformed")
    BY <1>1, WrongIs
  <2> QED BY <2>1, <2>wrong, AtIs
<1>2. CASE document[i].kind # "cut" /\ IsContainer(i) /\ Depth[i] > ParseDepth
  <2>1. Stops(i) = At(i, "nesting") \cup RepeatAt(i)
    BY <1>2 DEF Stops
  <2>wrong. i \in Wrong("nesting")
    BY <1>2, WrongIs
  <2>2. At(i, "nesting") # {} /\ Sound(At(i, "nesting"), i) /\ \A e \in At(i, "nesting") : e.class = "nesting"
    BY <2>1, <2>wrong, AtIs
  <2> QED BY <2>1, <2>wrong, <2>2, RepeatAtIs DEF Sound
<1>3. CASE document[i].kind # "cut" /\ ~(IsContainer(i) /\ Depth[i] > ParseDepth)
  <2>1. Stops(i) = RepeatAt(i)
    BY <1>3 DEF Stops
  <2>wrong. i \notin Wrong("malformed")
    BY <1>3, WrongIs
  <2> QED BY <2>1, <2>wrong, RepeatAtIs
<1> QED BY <1>1, <1>2, <1>3

LEMMA SafeIntIs == ASSUME NEW n \in Int PROVE SafeInt(n) <=> InRange(n)
<1> QED BY LiteralAssumption DEF SafeInt, InRange

LEMMA HooksAre ==
    ASSUME document \in Documents, NEW i \in Nodes
    PROVE  /\ Sound(Hooks(i), i)
           /\ Hooks(i) = {} => \A class \in {"range", "duplicate", "non-finite", "malformed"} :
                                  i \notin Wrong(class)
<1>1. document[i].kind = "int" => document[i].value \in Int
  BY DocumentIs DEF Whole, Nodes
<1>2. CASE document[i].kind = "int" /\ ~SafeInt(document[i].value)
  <2>1. Hooks(i) = At(i, "range")
    BY <1>1, <1>2 DEF Hooks
  <2>wrong. i \in Wrong("range")
    BY <1>1, <1>2, WrongIs, SafeIntIs
  <2> QED BY <2>1, <2>wrong, AtIs
<1>3. CASE document[i].kind = "float" /\ document[i].value # "finite"
  <2>1. Hooks(i) = At(i, "non-finite")
    BY <1>3 DEF Hooks
  <2>wrong. i \in Wrong("non-finite")
    BY <1>3, WrongIs
  <2> QED BY <2>1, <2>wrong, AtIs
<1>4. CASE /\ ~(document[i].kind = "int" /\ ~SafeInt(document[i].value))
           /\ ~(document[i].kind = "float" /\ document[i].value # "finite")
  <2>1. Hooks(i) = Stops(i)
    BY <1>4 DEF Hooks
  <2>2. i \notin Wrong("range") /\ i \notin Wrong("non-finite")
    BY <1>1, <1>4, WrongIs, SafeIntIs
  <2> QED BY <2>1, <2>2, StopsAre
<1> QED BY <1>2, <1>3, <1>4

\* An integer that int() does not convert ends the search for where one is.
LEMMA LocatingIs ==
    ASSUME document \in Documents, NEW i \in Nodes
    PROVE  \A e \in Locating(i) :
              /\ e.node = i /\ e.place[1] \in Nat /\ e.place[2] \in Nat
              /\ \/ e.class \in {"malformed", "nesting", "duplicate"} /\ i \in Wrong(e.class)
                 \/ /\ e.class = "conversion" /\ i \in Wrong("range")
                    /\ document[i].value > Convertible
<1>1. CASE document[i].kind = "int" /\ document[i].value > Convertible
  <2>1. Locating(i) = At(i, "conversion")
    BY <1>1 DEF Locating
  <2>2. document[i].value \in Int
    BY <1>1, DocumentIs DEF Whole, Nodes
  <2>3. ASSUME NEW v \in Int, v > Convertible PROVE ~InRange(v)
    BY <2>3, LiteralAssumption DEF InRange
  <2>4. i \in Wrong("range")
    BY <1>1, <2>2, <2>3, WrongIs
  <2> QED BY <1>1, <2>1, <2>4, AtIs
<1>2. CASE ~(document[i].kind = "int" /\ document[i].value > Convertible)
  <2>1. Locating(i) = Stops(i)
    BY <1>2 DEF Locating
  <2> QED BY <2>1, StopsAre DEF Sound
<1> QED BY <1>1, <1>2

LEMMA CheckIs ==
    ASSUME document \in Documents, NEW i \in Nodes
    PROVE  /\ Sound(CheckAt(i), i) /\ \A e \in CheckAt(i) : e.class \in {"range", "string", "nesting"}
           /\ CheckAt(i) = {} => i \notin Wrong("range") /\ i \notin Wrong("string")
<1>1. /\ document[i].key # NoKey => IsText(document[i].text) \/ document[i].text = NotText
      /\ document[i].kind = "string" => IsText(document[i].value)
  BY DocumentIs DEF Whole, Nodes
<1>2. ~IsText(NotText)
  BY DEF IsText, NotText, Texts
<1>3. document[i].key # NoKey =>
        (WholeText(document[i].text) <=> document[i].text \notin {NotText, "half", "literal"})
  BY <1>1, <1>2, TextsAre
<1>4. document[i].kind = "string" => (WholeText(document[i].value) <=> ~Texts[document[i].value].lone)
  BY <1>1, TextsAre
<1>5. CASE document[i].key # NoKey /\ ~WholeText(document[i].text)
  <2>1. CheckAt(i) = At(i, "string")
    BY <1>3, <1>5 DEF CheckAt
  <2>wrong. i \in Wrong("string")
    BY <1>3, <1>5, WrongIs
  <2> QED BY <2>1, <2>wrong, AtIs
<1>6. CASE ~(document[i].key # NoKey /\ ~WholeText(document[i].text))
  <2>1. CASE document[i].kind = "int" /\ ~InRange(document[i].value)
    <3>1. CheckAt(i) = At(i, "range")
      BY <1>6, <2>1 DEF CheckAt, IsContainer
    <3>wrong. i \in Wrong("range")
      BY <1>6, <2>1, WrongIs
    <3> QED BY <3>1, <3>wrong, AtIs
  <2>2. CASE document[i].kind = "string" /\ ~WholeText(document[i].value)
    <3>1. CheckAt(i) = At(i, "string")
      BY <1>6, <2>2 DEF CheckAt, IsContainer
    <3>wrong. i \in Wrong("string")
      BY <1>4, <1>6, <2>2, WrongIs
    <3> QED BY <3>1, <3>wrong, AtIs
  <2>3. CASE /\ ~(document[i].kind = "int" /\ ~InRange(document[i].value))
             /\ ~(document[i].kind = "string" /\ ~WholeText(document[i].value))
    <3>1. i \notin Wrong("range") /\ i \notin Wrong("string")
      BY <1>3, <1>4, <1>6, <2>3, WrongIs
    <3>2. CASE IsContainer(i) /\ Depth[i] > WalkDepth
      <4>1. CheckAt(i) = At(i, "nesting")
        BY <1>6, <2>3, <3>2 DEF CheckAt
      <4>wrong. i \in Wrong("nesting")
        BY <1>6, <2>3, <3>2, WrongIs
      <4> QED BY <4>1, <4>wrong, AtIs
    <3>3. CASE ~(IsContainer(i) /\ Depth[i] > WalkDepth)
      <4>1. CheckAt(i) = {}
        BY <1>6, <2>3, <3>3 DEF CheckAt
      <4> QED BY <3>1, <4>1 DEF Sound
    <3> QED BY <3>2, <3>3
  <2> QED BY <2>1, <2>2, <2>3
<1> QED BY <1>5, <1>6

LEMMA WriteIs ==
    ASSUME document \in Documents, NEW i \in Nodes
    PROVE  /\ Sound(CannotWrite(i), i) /\ \A e \in CannotWrite(i) : e.class # "range"
           /\ CannotWrite(i) = {} => i \notin Wrong("type") /\ i \notin Wrong("non-finite")
<1>1. CASE document[i].kind = "foreign"
  <2>1. CannotWrite(i) = At(i, "type")
    BY <1>1 DEF CannotWrite, IsContainer
  <2>wrong. i \in Wrong("type")
    BY <1>1, WrongIs
  <2> QED BY <2>1, <2>wrong, AtIs
<1>2. CASE document[i].kind = "float" /\ document[i].value # "finite"
  <2>1. CannotWrite(i) = At(i, "non-finite")
    BY <1>2 DEF CannotWrite, IsContainer
  <2>wrong. i \in Wrong("non-finite")
    BY <1>2, WrongIs
  <2> QED BY <2>1, <2>wrong, AtIs
<1>3. CASE /\ document[i].kind # "foreign"
           /\ ~(document[i].kind = "float" /\ document[i].value # "finite")
  <2>1. i \notin Wrong("type") /\ i \notin Wrong("non-finite")
    BY <1>3, WrongIs
  <2>2. CASE IsContainer(i) /\ Depth[i] > ParseDepth
    <3>1. CannotWrite(i) = At(i, "nesting")
      BY <1>3, <2>2 DEF CannotWrite
    <3>wrong. i \in Wrong("nesting")
      BY <1>3, <2>2, WrongIs
    <3> QED BY <3>1, <3>wrong, AtIs
  <2>3. CASE ~(IsContainer(i) /\ Depth[i] > ParseDepth)
    <3>1. CannotWrite(i) = {}
      BY <1>3, <2>3 DEF CannotWrite
    <3> QED BY <2>1, <3>1 DEF Sound
  <2> QED BY <2>2, <2>3
<1> QED BY <1>1, <1>2, <1>3

\* Of errors that have places some come first.
LEMMA FirstOfIs ==
    ASSUME NEW errors, \A e \in errors : e.place[1] \in Nat /\ e.place[2] \in Nat
    PROVE  FirstOf(errors) \in SUBSET errors /\ (errors # {} => FirstOf(errors) # {})
<1>1. FirstOf(errors) \in SUBSET errors
  BY DEF FirstOf
<1>2. ASSUME errors # {} PROVE FirstOf(errors) # {}
  <2> DEFINE P == {e.place[1] : e \in errors}
  <2>1. P \in SUBSET Nat /\ P # {}
    BY <1>2
  <2>2. PICK p \in P : \A q \in P : p <= q
    <3> HIDE DEF P
    <3> QED BY <2>1, Least
  <2> DEFINE R == {e.place[2] : e \in {f \in errors : f.place[1] = p}}
  <2>3. R \in SUBSET Nat /\ R # {}
    BY <2>2
  <2>4. PICK r \in R : \A q \in R : r <= q
    <3> HIDE DEF R
    <3> QED BY <2>3, Least
  <2>5. PICK e \in errors : e.place[1] = p /\ e.place[2] = r
    BY <2>4
  <2>6. ASSUME NEW f \in errors PROVE ~Before(f.place, e.place)
    <3>1. p <= f.place[1] /\ p \in Nat /\ f.place[1] \in Nat /\ f.place[2] \in Nat /\ r \in Nat
      BY <2>1, <2>2, <2>3, <2>4
    <3>2. f.place[1] = p => r <= f.place[2]
      BY <2>4
    <3> QED BY <2>5, <3>1, <3>2 DEF Before
  <2> QED BY <2>5, <2>6 DEF FirstOf
<1> QED BY <1>1, <1>2

LEMMA FirstHook ==
    ASSUME document \in Documents
    PROVE  /\ \A e \in FirstError(Hooks) : e.node \in Nodes /\ e.node \in Wrong(e.class)
           /\ FirstError(Hooks) = {} =>
                \A class \in {"range", "duplicate", "non-finite", "malformed"} : Wrong(class) = {}
<1> DEFINE E == UNION {Hooks(i) : i \in Nodes}
<1>1. FirstError(Hooks) = FirstOf(E)
  BY DEF FirstError
<1>2. \A e \in E : \E i \in Nodes : e \in Hooks(i) /\ Sound(Hooks(i), i)
  BY HooksAre
<1>3. \A e \in E : /\ e.node \in Nodes /\ e.node \in Wrong(e.class)
                   /\ e.place[1] \in Nat /\ e.place[2] \in Nat
  <2> HIDE DEF E
  <2> QED BY <1>2 DEF Sound
<1>4. FirstOf(E) \in SUBSET E /\ (E # {} => FirstOf(E) # {})
  <2> HIDE DEF E
  <2> QED BY <1>3, FirstOfIs
<1>5. ASSUME E = {}, NEW class \in {"range", "duplicate", "non-finite", "malformed"}
      PROVE  Wrong(class) = {}
  <2>1. \A i \in Nodes : Hooks(i) = {}
    BY <1>5
  <2>2. \A i \in Nodes : i \notin Wrong(class)
    BY <1>5, <2>1, HooksAre
  <2> QED BY <2>2 DEF Wrong
<1> HIDE DEF E
<1> QED BY <1>1, <1>3, <1>4, <1>5

LEMMA FirstLocated ==
    ASSUME document \in Documents, NEW e \in FirstError(Locating)
    PROVE  /\ e.node \in Nodes
           /\ \/ e.class \in {"malformed", "nesting", "duplicate"} /\ e.node \in Wrong(e.class)
              \/ e.class = "conversion" /\ e.node \in Wrong("range") /\ document[e.node].value > Convertible
<1>1. PICK i \in Nodes : e \in Locating(i)
  BY DEF FirstError, FirstOf
<1> QED BY <1>1, LocatingIs

LEMMA FirstChecked ==
    ASSUME document \in Documents
    PROVE  /\ \A e \in CheckTree : /\ e.node \in Nodes /\ e.node \in Wrong(e.class)
                                   /\ e.class \in {"range", "string", "nesting"}
           /\ CheckTree = {} => Wrong("range") = {} /\ Wrong("string") = {}
<1> DEFINE E == UNION {CheckAt(i) : i \in Nodes}
<1>1. CheckTree = FirstOf(E)
  BY DEF CheckTree, FirstError
<1>2. \A e \in E : \E i \in Nodes : e \in CheckAt(i) /\ Sound(CheckAt(i), i)
                                    /\ e.class \in {"range", "string", "nesting"}
  BY CheckIs
<1>3. \A e \in E : /\ e.node \in Nodes /\ e.node \in Wrong(e.class)
                   /\ e.class \in {"range", "string", "nesting"}
                   /\ e.place[1] \in Nat /\ e.place[2] \in Nat
  <2> HIDE DEF E
  <2> QED BY <1>2 DEF Sound
<1>4. FirstOf(E) \in SUBSET E /\ (E # {} => FirstOf(E) # {})
  <2> HIDE DEF E
  <2> QED BY <1>3, FirstOfIs
<1>5. ASSUME E = {} PROVE Wrong("range") = {} /\ Wrong("string") = {}
  <2>1. \A i \in Nodes : i \notin Wrong("range") /\ i \notin Wrong("string")
    BY <1>5, CheckIs
  <2> QED BY <2>1 DEF Wrong
<1> HIDE DEF E
<1> QED BY <1>1, <1>3, <1>4, <1>5

LEMMA FirstUnwritten ==
    ASSUME document \in Documents
    PROVE  /\ \A e \in FirstError(CannotWrite) : e.node \in Nodes /\ e.node \in Wrong(e.class)
                                                 /\ e.class # "range"
           /\ FirstError(CannotWrite) = {} => Wrong("type") = {} /\ Wrong("non-finite") = {}
<1> DEFINE E == UNION {CannotWrite(i) : i \in Nodes}
<1>1. FirstError(CannotWrite) = FirstOf(E)
  BY DEF FirstError
<1>2. \A e \in E : \E i \in Nodes : e \in CannotWrite(i) /\ Sound(CannotWrite(i), i)
                                    /\ e.class # "range"
  BY WriteIs
<1>3. \A e \in E : /\ e.node \in Nodes /\ e.node \in Wrong(e.class) /\ e.class # "range"
                   /\ e.place[1] \in Nat /\ e.place[2] \in Nat
  <2> HIDE DEF E
  <2> QED BY <1>2 DEF Sound
<1>4. FirstOf(E) \in SUBSET E /\ (E # {} => FirstOf(E) # {})
  <2> HIDE DEF E
  <2> QED BY <1>3, FirstOfIs
<1>5. ASSUME E = {} PROVE Wrong("type") = {} /\ Wrong("non-finite") = {}
  <2>1. \A i \in Nodes : i \notin Wrong("type") /\ i \notin Wrong("non-finite")
    BY <1>5, WriteIs
  <2> QED BY <2>1 DEF Wrong
<1> HIDE DEF E
<1> QED BY <1>1, <1>3, <1>4, <1>5

-----------------------------------------------------------------------------
(***************************************************************************)
(* I-JSON: the scan.                                                       *)
(***************************************************************************)

\* Nodes can be put in the order they are written, and that is all of them.
LEMMA AsWrittenIs ==
    ASSUME document \in Documents, NEW nodes \in SUBSET Nodes, NEW order, order = AsWritten(nodes)
    PROVE  order \in Seq(Nodes) /\ Range(order) = nodes
<1> DEFINE items == {[index |-> i] : i \in nodes}
           f == [a \in items |-> a.index]
<1>1. PICK n \in Nat : Nodes = 1 .. n
  BY DocumentIs
<1>2. /\ IsFiniteSet(items) /\ Cardinality(items) \in Nat
      /\ \E o \in [1 .. Cardinality(items) -> items] : Increasing(o)
  <2> DEFINE bound == n + 1
  <2>1. bound \in Nat
    BY <1>1
  <2>2. \A a \in items : a.index \in 0 .. bound - 1
    BY <1>1
  <2>3. \A a, b \in items : a.index = b.index => a = b
    OBVIOUS
  <2> HIDE DEF items, bound
  <2> QED BY <2>1, <2>2, <2>3, OrderExists
<1>3. \A a \in items : a.index \in nodes
  OBVIOUS
<1>4. f \in Bijection(items, nodes)
  <2>1. f \in [items -> nodes]
    BY <1>3
  <2>2. \A a, b \in items : f[a] = f[b] => a = b
    OBVIOUS
  <2>3. \A i \in nodes : \E a \in items : f[a] = i
    <3> SUFFICES ASSUME NEW i \in nodes PROVE \E a \in items : f[a] = i
      OBVIOUS
    <3>1. [index |-> i] \in items /\ f[[index |-> i]] = i
      OBVIOUS
    <3> QED BY <3>1
  <2> HIDE DEF f
  <2> QED BY <2>1, <2>2, <2>3 DEF Bijection, Injection, Surjection, IsInjective
<1>5. IsFiniteSet(nodes) /\ Cardinality(nodes) = Cardinality(items)
  <2> HIDE DEF f, items
  <2> QED BY <1>2, <1>4, FS_Bijection DEF ExistsBijection
<1>6. PICK c \in Nat : c = Cardinality(nodes) /\ c = Cardinality(items)
  BY <1>2, <1>5
<1>7. \E o \in [1 .. c -> nodes] : \A i, j \in DOMAIN o : i < j => o[i] < o[j]
  <2>1. PICK o \in [1 .. c -> items] : Increasing(o)
    BY <1>2, <1>6
  <2> DEFINE p == [i \in 1 .. c |-> o[i].index]
  <2>2. p \in [1 .. c -> nodes]
    <3>1. \A i \in 1 .. c : o[i] \in items
      BY <2>1
    <3> HIDE DEF items
    <3> QED BY <1>3, <3>1
  <2>3. \A i, j \in 1 .. c : i < j => p[i] < p[j]
    BY <2>1 DEF Increasing
  <2> HIDE DEF p, items
  <2> QED BY <2>2, <2>3
<1> HIDE DEF items, f
<1>8. order \in [1 .. c -> nodes] /\ \A i, j \in 1 .. c : i < j => order[i] < order[j]
  <2>1. order = CHOOSE o \in [1 .. c -> nodes] : \A i, j \in DOMAIN o : i < j => o[i] < o[j]
    BY <1>6 DEF AsWritten
  <2> QED BY <1>7, <2>1
<1>9. order \in Surjection(1 .. c, nodes)
  <2>1. \A i, j \in 1 .. c : order[i] = order[j] => i = j
    <3> SUFFICES ASSUME NEW i \in 1 .. c, NEW j \in 1 .. c, i < j PROVE order[i] # order[j]
      OBVIOUS
    <3>1. order[i] < order[j] /\ order[i] \in Nodes
      BY <1>8
    <3> QED BY <1>1, <3>1
  <2>2. order \in Injection(1 .. c, nodes)
    BY <1>8, <2>1 DEF Injection, IsInjective
  <2>3. Cardinality(1 .. c) = Cardinality(nodes)
    BY <1>6, FS_Interval
  <2> QED BY <1>5, <2>2, <2>3, FS_Injection
<1>10. Range(order) = nodes
  <2>1. DOMAIN order = 1 .. c /\ \A a \in nodes : \E k \in 1 .. c : order[k] = a
    BY <1>8, <1>9 DEF Surjection
  <2> QED BY <1>8, <2>1 DEF Range
<1>11. order \in Seq(Nodes)
  BY <1>8
<1> QED BY <1>10, <1>11

\* Every node has been seen, or is on the stack or inside of one that is.
Scanned ==
    /\ stack \in Seq(Nodes)
    /\ \E seen \in SUBSET Nodes :
         /\ 1 \in seen \cup Range(stack)
         /\ \A i \in seen : Provable(i) /\ Children(i) \subseteq seen \cup Range(stack)

\* What is on a stack is on top of it or under that.
LEMMA OnStack ==
    ASSUME NEW X, NEW s \in Seq(X), s # <<>>
    PROVE  /\ Last(s) \in X /\ Front(s) \in Seq(X)
           /\ Range(s) = Range(Front(s)) \cup {Last(s)}
<1>1. PICK n \in Nat : n = Len(s) /\ n # 0
  BY EmptySeq
<1>2. /\ Last(s) = s[n] /\ Front(s) = SubSeq(s, 1, n - 1)
      /\ DOMAIN s = 1 .. n /\ \A i \in 1 .. n : s[i] \in X
  BY <1>1 DEF Last, Front
<1>3. /\ Front(s) \in Seq(X) /\ DOMAIN Front(s) = 1 .. n - 1
      /\ \A i \in 1 .. n - 1 : Front(s)[i] = s[i]
  BY <1>1, <1>2
<1>4. \A i \in 1 .. n : i = n \/ i \in 1 .. n - 1
  BY <1>1
<1>5. \A x : x \in Range(s) <=> \E i \in 1 .. n : x = s[i]
  BY <1>2 DEF Range
<1>6. \A x : x \in Range(Front(s)) <=> \E i \in 1 .. n - 1 : x = s[i]
  BY <1>3 DEF Range
<1>7. n \in 1 .. n /\ \A i \in 1 .. n - 1 : i \in 1 .. n
  BY <1>1
<1> QED BY <1>2, <1>3, <1>4, <1>5, <1>6, <1>7

LEMMA RangeOfBoth ==
    ASSUME NEW X, NEW s \in Seq(X), NEW t \in Seq(X)
    PROVE  s \o t \in Seq(X) /\ Range(s \o t) = Range(s) \cup Range(t)
<1>1. PICK m \in Nat, n \in Nat : m = Len(s) /\ n = Len(t)
  OBVIOUS
<1>2. /\ s \o t \in Seq(X) /\ DOMAIN (s \o t) = 1 .. m + n
      /\ \A i \in 1 .. m + n : (s \o t)[i] = IF i <= m THEN s[i] ELSE t[i - m]
  BY <1>1
<1>3. DOMAIN s = 1 .. m /\ DOMAIN t = 1 .. n
  BY <1>1
<1>4. ASSUME NEW x \in Range(s \o t) PROVE x \in Range(s) \cup Range(t)
  <2>1. PICK i \in 1 .. m + n : x = (s \o t)[i]
    BY <1>2 DEF Range
  <2>2. CASE i <= m
    <3>1. i \in 1 .. m /\ x = s[i]
      BY <1>2, <2>1, <2>2
    <3> QED BY <1>3, <3>1 DEF Range
  <2>3. CASE ~(i <= m)
    <3>1. i - m \in 1 .. n /\ x = t[i - m]
      BY <1>1, <1>2, <2>1, <2>3
    <3> QED BY <1>3, <3>1 DEF Range
  <2> QED BY <2>2, <2>3
<1>5. ASSUME NEW x \in Range(s) PROVE x \in Range(s \o t)
  <2>1. PICK i \in 1 .. m : x = s[i]
    BY <1>3 DEF Range
  <2>2. i \in 1 .. m + n /\ i <= m
    BY <1>1
  <2> QED BY <1>2, <2>1, <2>2 DEF Range
<1>6. ASSUME NEW x \in Range(t) PROVE x \in Range(s \o t)
  <2>1. PICK i \in 1 .. n : x = t[i]
    BY <1>3 DEF Range
  <2>2. i + m \in 1 .. m + n /\ ~(i + m <= m) /\ (i + m) - m = i
    BY <1>1
  <2>3. (s \o t)[i + m] = t[i]
    BY <1>2, <2>2
  <2> QED BY <1>2, <2>1, <2>2, <2>3 DEF Range
<1> QED BY <1>2, <1>4, <1>5, <1>6

\* With nothing left on the stack every node was seen: a node comes after the one it is in.
LEMMA AllSeen ==
    ASSUME document \in Documents, Scanned, stack = <<>>
    PROVE  \A i \in Nodes : Provable(i)
<1>1. PICK n \in Nat : Nodes = 1 .. n
  BY DocumentIs
<1>2. Range(stack) = {}
  BY DEF Range
<1>3. PICK seen \in SUBSET Nodes : 1 \in seen /\ \A i \in seen : Provable(i) /\ Children(i) \subseteq seen
  BY <1>2 DEF Scanned
<1> DEFINE U == Nodes \ seen
<1>4. U = {}
  <2> SUFFICES ASSUME U # {} PROVE FALSE
    OBVIOUS
  <2>1. U \in SUBSET Nat
    BY <1>1
  <2>2. PICK j \in U : \A k \in U : j <= k
    <3> HIDE DEF U
    <3> QED BY <2>1, Least
  <2>3. document[j].parent \in Nodes /\ document[j].parent < j /\ j \in Children(document[j].parent)
    BY <1>3, <2>2, ParentsAre
  <2>4. document[j].parent \notin U
    BY <1>1, <2>2, <2>3
  <2> QED BY <1>3, <2>2, <2>3, <2>4
<1> QED BY <1>3, <1>4

\* A document of which every node is provable has no bad string and no bad number.
LEMMA ProvenIs ==
    ASSUME document \in Documents, \A i \in Nodes : Provable(i)
    PROVE  Wrong("range") = {} /\ Wrong("string") = {}
<1> SUFFICES ASSUME NEW i \in Nodes PROVE i \notin Wrong("range") /\ i \notin Wrong("string")
  BY DEF Wrong
<1>1. i \notin Wrong("range")
  BY WrongIs DEF Provable
<1>2. document[i].kind = "string" => ~Texts[document[i].value].lone
  BY TextsAre DEF Provable
<1>3. ASSUME document[i].key # NoKey PROVE document[i].text \notin {NotText, "half", "literal"}
  <2>1. i # 1 /\ document[document[i].parent].kind = "object"
    BY <1>3, DocumentIs DEF Whole, Nodes
  <2>2. document[i].parent \in Nodes /\ i \in Children(document[i].parent)
    BY <2>1, ParentsAre
  <2>3. WholeText(document[i].text)
    BY <2>1, <2>2 DEF Provable
  <2>4. ~IsText(NotText)
    BY DEF IsText, NotText, Texts
  <2> QED BY <2>3, <2>4, TextsAre
<1> QED BY <1>1, <1>2, <1>3, WrongIs

-----------------------------------------------------------------------------
(***************************************************************************)
(* I-JSON: the invariant.                                                  *)
(***************************************************************************)

Free(classes) == \A class \in classes : Wrong(class) = {}

\* What an error says: there is what it is of, at the node it names.
TrueOf(class, node) ==
    /\ Wrong(class) # {}
    /\ node # 0 => node \in Wrong(class)
    /\ class = "range" /\ node = 0 =>
         \/ Wrong("malformed") \cup Wrong("nesting") # {}
         \/ \E i \in Wrong("range") : document[i].value > Convertible

\* What a text cannot hold, and a value cannot.
TextFits ==
    /\ document \in Documents /\ job \in {"str", "bytes", "dumps"}
    /\ \A i \in Nodes :
         IF job = "dumps"
         THEN document[i].kind # "cut"
         ELSE /\ document[i].kind # "foreign"
              /\ document[i].key # NoKey => IsText(document[i].text)
    /\ job = "dumps" => \A i \in Nodes : ~(document[i].kind = "object" /\ Repeats(i))

PastParse == Free({"range", "duplicate", "non-finite", "malformed"})

\* What is known at each stage.
StageOK ==
    /\ stage \in {"parse", "scan", "walk", "write", "returned", "raised"}
    /\ stage = "parse" => job # "dumps"
    /\ stage \in {"parse", "scan"} => Scanned
    /\ stage \in {"scan", "walk"} /\ job # "dumps" => PastParse
    /\ stage = "write" => job = "dumps" /\ Free({"range", "string"})
    /\ stage = "returned" => Free(Classes)
    /\ stage = "raised" => TrueOf(raised.class, raised.node)

TextInv == TextFits /\ StageOK

LEMMA SameDepth == document' = document => Depth' = Depth
<1> QED BY DEF Depth, IsContainer, Nodes

LEMMA SameWrong ==
    ASSUME document' = document, NEW class
    PROVE  Wrong(class)' = Wrong(class)
<1>1. Nodes' = Nodes /\ Depth' = Depth /\ \A i : Children(i)' = Children(i)
  BY SameDepth DEF Nodes, Children
<1> QED BY <1>1 DEF Wrong

LEMMA SameFits ==
    ASSUME TextFits, document' = document, job' = job
    PROVE  TextFits'
<1> QED BY DEF TextFits, Nodes, Repeats, Children

\* A text has no values that cannot be written, and a value has no defects of text.
LEMMA FitsAre ==
    ASSUME TextFits
    PROVE  /\ job # "dumps" => Free({"type"})
           /\ job = "dumps" => Free({"malformed", "duplicate"})
<1>1. ASSUME job # "dumps", NEW i \in Nodes PROVE i \notin Wrong("type")
  BY <1>1, WrongIs DEF TextFits
<1>2. ASSUME job = "dumps", NEW i \in Nodes PROVE i \notin Wrong("malformed") /\ i \notin Wrong("duplicate")
  <2>1. document[i].kind # "cut" /\ ~(document[i].kind = "object" /\ Repeats(i))
    BY <1>2 DEF TextFits
  <2>2. i \notin Wrong("duplicate")
    BY <2>1, WrongIs, RepeatsAre DEF TextFits
  <2> QED BY <2>1, <2>2, WrongIs
<1>3. \A class : Wrong(class) \in SUBSET Nodes
  BY DEF Wrong
<1> QED BY <1>1, <1>2, <1>3 DEF Free

\* Text in which no surrogate may be has none.
LEMMA NoSurrogate ==
    ASSUME TextFits, job # "dumps", ~MayHoldSurrogate,
           job = "bytes" => ~\E i \in Nodes : \E t \in StringsAt(i) : Texts[t].lone /\ ~Texts[t].escaped
    PROVE  Wrong("string") = {}
<1>1. \A i \in Nodes : \A t \in StringsAt(i) : t \notin {"half", "literal"}
  <2> SUFFICES ASSUME NEW i \in Nodes, NEW t \in StringsAt(i) PROVE t \notin {"half", "literal"}
    OBVIOUS
  <2>1. ~Texts[t].escaped
    BY DEF MayHoldSurrogate
  <2>2. t # "half"
    BY <2>1, TextsAre
  <2>3. ASSUME t = "literal" PROVE FALSE
    <3>1. ~Texts[t].escaped /\ ~Texts[t].ascii /\ Texts[t].lone
      BY <2>3, TextsAre
    <3>2. CASE job = "str"
      BY <3>1, <3>2 DEF MayHoldSurrogate
    <3>3. CASE job = "bytes"
      BY <3>1, <3>3
    <3> QED BY <3>2, <3>3 DEF TextFits
  <2> QED BY <2>2, <2>3
<1>2. ASSUME NEW i \in Nodes PROVE i \notin Wrong("string")
  <2>1. CASE document[i].kind = "string" /\ Texts[document[i].value].lone
    <3>1. IsText(document[i].value)
      BY <2>1, DocumentIs DEF Whole, Nodes, TextFits
    <3>2. document[i].value \in StringsAt(i)
      BY <2>1, <3>1 DEF StringsAt
    <3> QED BY <1>1, <2>1, <3>1, <3>2, TextsAre
  <2>2. CASE document[i].key # NoKey /\ document[i].text \in {NotText, "half", "literal"}
    <3>1. IsText(document[i].text)
      BY <2>2 DEF TextFits
    <3>2. document[i].text \in StringsAt(i)
      BY <3>1 DEF StringsAt
    <3>3. ~IsText(NotText)
      BY DEF IsText, NotText, Texts
    <3> QED BY <1>1, <2>2, <3>1, <3>2, <3>3
  <2> QED BY <2>1, <2>2, WrongIs
<1> QED BY <1>2 DEF Wrong

\* The search for an integer out of range finds it, or another defect of the text.
LEMMA LocateIs ==
    ASSUME document \in Documents, Wrong("range") # {}, Locate
    PROVE  stage' = "raised" /\ \E class, node : raised' = [class |-> class, node |-> node] /\ TrueOf(class, node)
<1> DEFINE again == FirstError(Locating)
           found == IF again = {} THEN CheckTree ELSE again
           located == {e \in found : e.class \in {"duplicate", "range", "string"}}
<1>1. IF located = {} THEN Raise("range", 0) ELSE \E e \in located : Raise(e.class, e.node)
  BY DEF Locate
<1>2. \A e \in again :
        /\ e.node \in Nodes
        /\ \/ e.class \in {"malformed", "nesting", "duplicate"} /\ e.node \in Wrong(e.class)
           \/ e.class = "conversion" /\ e.node \in Wrong("range") /\ document[e.node].value > Convertible
  BY FirstLocated
<1>3. \A e \in CheckTree : /\ e.node \in Nodes /\ e.node \in Wrong(e.class)
                           /\ e.class \in {"range", "string", "nesting"}
  BY FirstChecked
<1>4. CheckTree # {}
  BY FirstChecked
<1>5. \A i \in Nodes : i # 0
  BY DocumentIs
<1> HIDE DEF again
<1>6. CASE located = {}
  <2>1. found # {}
    BY <1>4
  <2>2. PICK e \in found : e.class \notin {"duplicate", "range", "string"}
    BY <1>6, <2>1
  <2>3. \/ e.class \in {"malformed", "nesting"} /\ e.node \in Wrong(e.class)
        \/ e.node \in Wrong("range") /\ document[e.node].value > Convertible
    BY <1>2, <1>3, <2>2
  <2>4. TrueOf("range", 0)
    BY <2>3 DEF TrueOf
  <2>5. Raise("range", 0)
    <3> HIDE DEF located
    <3> QED BY <1>1, <1>6
  <2> QED BY <2>4, <2>5 DEF Raise
<1>7. CASE located # {}
  <2>1. PICK e \in located : Raise(e.class, e.node)
    <3> HIDE DEF located
    <3> QED BY <1>1, <1>7
  <2>2. e.node \in Nodes /\ e.node \in Wrong(e.class)
    BY <1>2, <1>3
  <2>3. TrueOf(e.class, e.node)
    BY <1>5, <2>2 DEF TrueOf
  <2> QED BY <2>1, <2>3 DEF Raise
<1> QED BY <1>6, <1>7

\* A step keeps what it leaves alone.
LEMMA KeptFree ==
    ASSUME document' = document, NEW classes
    PROVE  Free(classes)' <=> Free(classes)
<1> QED BY SameWrong DEF Free

LEMMA RaisedIs ==
    ASSUME TextFits, document' = document, job' = job, stage' = "raised",
           NEW class, NEW node, raised' = [class |-> class, node |-> node], TrueOf(class, node)
    PROVE  TextInv'
<1>1. TextFits'
  BY SameFits
<1>2. TrueOf(raised'.class, raised'.node)
  BY DEF TrueOf
<1>3. TrueOf(raised.class, raised.node)'
  <2>1. \A c : Wrong(c)' = Wrong(c)
    BY SameWrong
  <2> QED BY <1>2, <2>1 DEF TrueOf
<1> QED BY <1>1, <1>3 DEF TextInv, StageOK

LEMMA TextInvAtFirst == TextInit => TextInv
<1> SUFFICES ASSUME TextInit PROVE TextInv
  OBVIOUS
<1>1. TextFits
  BY DEF TextInit, TextFits
<1>2. 1 \in Nodes
  BY <1>1, DocumentIs DEF TextFits
<1>3. Scanned
  <2>1. stack = <<1>>
    BY DEF TextInit
  <2>2. stack \in Seq(Nodes) /\ 1 \in DOMAIN stack /\ stack[1] = 1
    BY <1>2, <2>1
  <2>3. 1 \in Range(stack)
    BY <2>2 DEF Range
  <2> QED BY <2>2, <2>3 DEF Scanned
<1> QED BY <1>1, <1>3 DEF TextInv, StageOK, TextInit

LEMMA ParseKeeps == ASSUME TextInv, Parse PROVE TextInv'
<1>1. TextFits /\ job # "dumps" /\ Scanned /\ document \in Documents /\ job \in {"str", "bytes", "dumps"}
  BY DEF Parse, TextInv, StageOK, TextFits
<1>2. document' = document /\ job' = job /\ stack' = stack
  BY DEF Parse
<1> DEFINE Undecodable == \E i \in Nodes : \E t \in StringsAt(i) : Texts[t].lone /\ ~Texts[t].escaped
           errors == FirstError(Hooks)
<1>3. IF job = "bytes" /\ Undecodable THEN Raise("string", 0)
      ELSE \/ errors = {} /\ Go(IF MayHoldSurrogate THEN "scan" ELSE "returned")
           \/ \E e \in errors : IF e.class = "range" THEN Locate ELSE Raise(e.class, e.node)
  BY DEF Parse
<1>4. CASE job = "bytes" /\ Undecodable
  <2>1. Raise("string", 0)
    <3> HIDE DEF Undecodable, errors
    <3> QED BY <1>3, <1>4
  <2>2. PICK i \in Nodes : \E t \in StringsAt(i) : Texts[t].lone
    BY <1>4
  <2>3. PICK t \in StringsAt(i) : Texts[t].lone
    BY <2>2
  <2>4. IsText(t) /\ t \in {"half", "literal"}
    BY <2>3, TextsAre DEF StringsAt
  <2>5. i \in Wrong("string")
    <3>1. ~IsText(NotText)
      BY DEF IsText, NotText, Texts
    <3>2. t = document[i].text \/ (document[i].kind = "string" /\ t = document[i].value)
      <4>1. t \in {document[i].text, IF document[i].kind = "string" THEN document[i].value ELSE NotText}
        BY <2>3 DEF StringsAt
      <4>2. t # NotText
        BY <2>4, <3>1
      <4> QED BY <4>1, <4>2
    <3>3. t = document[i].text => document[i].key # NoKey
      BY <1>1, <2>4, <3>1, DocumentIs DEF Whole, Nodes
    <3> QED BY <2>3, <2>4, <3>2, <3>3, WrongIs
  <2>6. TrueOf("string", 0)
    BY <2>5 DEF TrueOf
  <2> QED BY <1>1, <1>2, <2>1, <2>6, RaisedIs DEF Raise
<1>5. CASE ~(job = "bytes" /\ Undecodable)
  <2>1. \/ errors = {} /\ Go(IF MayHoldSurrogate THEN "scan" ELSE "returned")
        \/ \E e \in errors : IF e.class = "range" THEN Locate ELSE Raise(e.class, e.node)
    <3> HIDE DEF Undecodable, errors
    <3> QED BY <1>3, <1>5
  <2>2. CASE errors = {} /\ Go(IF MayHoldSurrogate THEN "scan" ELSE "returned")
    <3>1. PastParse
      BY <1>1, <2>2, FirstHook DEF PastParse, Free
    <3>2. PastParse' /\ TextFits'
      BY <1>1, <1>2, <3>1, KeptFree, SameFits DEF PastParse
    <3>3. CASE MayHoldSurrogate
      <4>1. stage' = "scan"
        BY <2>2, <3>3 DEF Go
      <4>2. Scanned'
        BY <1>1, <1>2 DEF Scanned, Nodes, Provable, Children
      <4> QED BY <1>1, <1>2, <3>2, <4>1, <4>2 DEF TextInv, StageOK
    <3>4. CASE ~MayHoldSurrogate
      <4>1. stage' = "returned"
        BY <2>2, <3>4 DEF Go
      <4>2. Wrong("string") = {} /\ Free({"type"})
        BY <1>1, <1>5, <3>4, NoSurrogate, FitsAre
      <4>3. Free(Classes)
        BY <3>1, <4>2 DEF PastParse, Free, Classes
      <4>4. Free(Classes)'
        BY <1>2, <4>3, KeptFree DEF Classes
      <4> QED BY <3>2, <4>1, <4>4 DEF TextInv, StageOK
    <3> QED BY <3>3, <3>4
  <2>3. ASSUME NEW e \in errors, IF e.class = "range" THEN Locate ELSE Raise(e.class, e.node)
        PROVE  TextInv'
    <3>1. e.node \in Nodes /\ e.node \in Wrong(e.class)
      BY <1>1, FirstHook
    <3>2. CASE e.class = "range"
      <4>1. Locate /\ Wrong("range") # {}
        BY <2>3, <3>1, <3>2
      <4>2. stage' = "raised"
            /\ \E class, node : raised' = [class |-> class, node |-> node] /\ TrueOf(class, node)
        BY <1>1, <4>1, LocateIs
      <4> QED BY <1>1, <1>2, <4>2, RaisedIs
    <3>3. CASE e.class # "range"
      <4>1. TrueOf(e.class, e.node)
        BY <3>1, <3>3 DEF TrueOf
      <4> QED BY <1>1, <1>2, <2>3, <3>3, <4>1, RaisedIs DEF Raise
    <3> QED BY <3>2, <3>3
  <2> QED BY <2>1, <2>2, <2>3
<1> QED BY <1>4, <1>5

LEMMA ScanKeeps == ASSUME TextInv, Scan PROVE TextInv'
<1>1. TextFits /\ Scanned /\ document \in Documents /\ stack # <<>> /\ (job # "dumps" => PastParse)
  BY DEF Scan, TextInv, StageOK, TextFits
<1>2. document' = document /\ job' = job
  BY DEF Scan
<1>3. TextFits' /\ (job' # "dumps" => PastParse')
  BY <1>1, <1>2, KeptFree, SameFits DEF PastParse
<1>4. CASE ~Provable(Last(stack))
  <2>1. stage' = "walk"
    BY <1>4 DEF Scan
  <2> QED BY <1>3, <2>1 DEF TextInv, StageOK
<1>5. CASE Provable(Last(stack))
  <2> DEFINE x == Last(stack)
             order == AsWritten(Children(x))
  <2>1. stage' = "scan" /\ stack' = Front(stack) \o order
    BY <1>5 DEF Scan
  <2>2. x \in Nodes /\ Front(stack) \in Seq(Nodes) /\ Range(stack) = Range(Front(stack)) \cup {x}
    BY <1>1, OnStack DEF Scanned
  <2>3. order \in Seq(Nodes) /\ Range(order) = Children(x)
    BY <1>1, <2>2, AsWrittenIs, ChildrenAre
  <2> HIDE DEF x, order
  <2>4. stack' \in Seq(Nodes) /\ Range(stack') = Range(Front(stack)) \cup Children(x)
    BY <2>1, <2>2, <2>3, RangeOfBoth
  <2>5. PICK seen \in SUBSET Nodes :
           /\ 1 \in seen \cup Range(stack)
           /\ \A i \in seen : Provable(i) /\ Children(i) \subseteq seen \cup Range(stack)
    BY <1>1 DEF Scanned
  <2> DEFINE now == seen \cup {x}
  <2>6. now \in SUBSET Nodes /\ seen \cup Range(stack) \subseteq now \cup Range(stack')
    BY <2>2, <2>4, <2>5
  <2>7. \A i \in now : Provable(i) /\ Children(i) \subseteq now \cup Range(stack')
    <3>1. Provable(x)
      BY <1>5 DEF x
    <3> QED BY <2>4, <2>5, <2>6, <3>1
  <2> HIDE DEF now
  <2>8. Nodes' = Nodes /\ \A i : (Provable(i)' <=> Provable(i)) /\ Children(i)' = Children(i)
    BY <1>2 DEF Nodes, Provable, Children
  <2>9. 1 \in now \cup Range(stack')
    BY <2>5, <2>6
  <2>10. Scanned'
    BY <2>4, <2>6, <2>7, <2>8, <2>9 DEF Scanned
  <2> QED BY <1>3, <2>1, <2>10 DEF TextInv, StageOK
<1> QED BY <1>4, <1>5

\* Passed: of a value, on to be written; of a text, done.
LEMMA PassedKeeps ==
    ASSUME TextInv, stage \in {"scan", "walk"}, Free({"range", "string"}), Go(Passed),
           document' = document, job' = job
    PROVE  TextInv'
<1>1. TextFits' /\ stage' = Passed
  BY SameFits DEF TextInv, Go
<1>2. CASE job = "dumps"
  <2>1. stage' = "write" /\ job' = "dumps"
    BY <1>1, <1>2 DEF Passed
  <2>2. Free({"range", "string"})'
    BY KeptFree
  <2> QED BY <1>1, <2>1, <2>2 DEF TextInv, StageOK
<1>3. CASE job # "dumps"
  <2>1. stage' = "returned" /\ PastParse /\ Free({"type"})
    BY <1>1, <1>3, FitsAre DEF Passed, TextInv, StageOK
  <2>2. Free(Classes)
    BY <2>1 DEF PastParse, Free, Classes
  <2>3. Free(Classes)'
    BY <2>2, KeptFree DEF Classes
  <2> QED BY <1>1, <2>1, <2>3 DEF TextInv, StageOK
<1> QED BY <1>2, <1>3

LEMMA WalkKeeps == ASSUME TextInv, Walk PROVE TextInv'
<1>1. TextFits /\ document \in Documents /\ document' = document /\ job' = job /\ stage = "walk"
  BY DEF Walk, TextInv, TextFits
<1>2. CASE CheckTree = {} /\ Go(Passed)
  <2>1. Free({"range", "string"})
    BY <1>1, <1>2, FirstChecked DEF Free
  <2> QED BY <1>1, <1>2, <2>1, PassedKeeps
<1>3. ASSUME NEW e \in CheckTree, Raise(e.class, IF e.class = "nesting" THEN 0 ELSE e.node)
      PROVE  TextInv'
  <2>1. e.node \in Nodes /\ e.node \in Wrong(e.class) /\ e.node # 0
    BY <1>1, FirstChecked, DocumentIs
  <2>2. TrueOf(e.class, IF e.class = "nesting" THEN 0 ELSE e.node)
    BY <2>1 DEF TrueOf
  <2> QED BY <1>1, <1>3, <2>2, RaisedIs DEF Raise
<1> QED BY <1>2, <1>3 DEF Walk

LEMMA WriteKeeps == ASSUME TextInv, Write PROVE TextInv'
<1>1. /\ TextFits /\ document \in Documents /\ document' = document /\ job' = job
      /\ job = "dumps" /\ Free({"range", "string"})
  BY DEF Write, TextInv, StageOK, TextFits
<1> DEFINE errors == FirstError(CannotWrite)
<1>2. CASE errors = {} /\ Go("returned")
  <2>1. Wrong("type") = {} /\ Wrong("non-finite") = {} /\ Free({"malformed", "duplicate"})
    BY <1>1, <1>2, FirstUnwritten, FitsAre
  <2>2. Free(Classes)
    BY <1>1, <2>1 DEF Free, Classes
  <2>3. Free(Classes)' /\ TextFits'
    BY <1>1, <2>2, KeptFree, SameFits DEF Classes
  <2>4. stage' = "returned"
    BY <1>2 DEF Go
  <2> QED BY <2>3, <2>4 DEF TextInv, StageOK
<1>3. ASSUME NEW e \in errors, Raise(e.class, 0) PROVE TextInv'
  <2>1. e.node \in Wrong(e.class) /\ e.class # "range"
    BY <1>1, FirstUnwritten
  <2>2. TrueOf(e.class, 0)
    BY <2>1 DEF TrueOf
  <2> QED BY <1>1, <1>3, <2>2, RaisedIs DEF Raise
<1> QED BY <1>2, <1>3 DEF Write

LEMMA TextInvIsKept == TextInv /\ [TextNext]_textVars => TextInv'
<1> SUFFICES ASSUME TextInv, [TextNext]_textVars PROVE TextInv'
  OBVIOUS
<1>1. CASE ScanPasses
  <2>1. document' = document /\ job' = job /\ stage = "scan" /\ Go(Passed)
    BY <1>1 DEF ScanPasses
  <2>2. Wrong("range") = {} /\ Wrong("string") = {}
    BY <1>1, AllSeen, ProvenIs DEF ScanPasses, TextInv, StageOK, TextFits
  <2>3. Free({"range", "string"})
    BY <2>2 DEF Free
  <2> QED BY <2>1, <2>3, PassedKeeps
<1>2. CASE UNCHANGED textVars
  <2>1. document' = document /\ job' = job /\ stage' = stage /\ stack' = stack /\ raised' = raised
    BY <1>2 DEF textVars
  <2>2. TextFits'
    BY <2>1, SameFits DEF TextInv
  <2>3. Scanned' <=> Scanned
    BY <2>1 DEF Scanned, Nodes, Provable, Children
  <2>4. TrueOf(raised.class, raised.node)' <=> TrueOf(raised.class, raised.node)
    <3>1. \A c : Wrong(c)' = Wrong(c)
      BY <2>1, SameWrong
    <3> QED BY <2>1, <3>1 DEF TrueOf
  <2>5. /\ PastParse' <=> PastParse
        /\ Free(Classes)' <=> Free(Classes)
        /\ Free({"range", "string"})' <=> Free({"range", "string"})
    BY <2>1, KeptFree DEF PastParse, Classes
  <2>6. StageOK'
    BY <2>1, <2>3, <2>4, <2>5 DEF TextInv, StageOK
  <2> QED BY <2>2, <2>6 DEF TextInv
<1> QED BY <1>1, <1>2, ParseKeeps, ScanKeeps, WalkKeeps, WriteKeeps DEF TextNext

\* The invariant of loads and dumps: what each stage has made sure of, of any document.
THEOREM TextInvHolds == TextSpec => []TextInv
<1> QED BY TextInvAtFirst, TextInvIsKept, PTL DEF TextSpec

\* What loads and dumps let through is I-JSON and what they refuse has the defect they name,
\* for any documents, numbers and depths: the property says nothing of a scan half done.
THEOREM WhatPassesIsIJSON == TextSpec => []OnlyIJSONPasses
<1>1. TextInv => OnlyIJSONPasses
  BY DEF TextInv, StageOK, Free, TrueOf, OnlyIJSONPasses
<1> QED BY <1>1, TextInvHolds, PTL

-----------------------------------------------------------------------------
(***************************************************************************)
(* Blobs: what its recursive functions come to.                            *)
(***************************************************************************)

\* A function that is given at 0, and at every place after that by the place before it.
Runs(f, n, S, first, G) ==
    /\ f \in [0 .. n -> S] /\ f[0] = first
    /\ \A i \in 1 .. n : f[i] = G[<<f[i - 1], i>>]

LEMMA StepByStep ==
    ASSUME NEW n \in Nat, NEW S, NEW first \in S, NEW G, G \in [S \X (1 .. n) -> S]
    PROVE  \E f : Runs(f, n, S, first, G)
<1> DEFINE Good(f, m) == /\ f \in [0 .. m -> S] /\ f[0] = first
                         /\ \A i \in 1 .. m : f[i] = G[<<f[i - 1], i>>]
           T == {m \in 0 .. n : \E f : Good(f, m)}
<1>1. 0 \in T
  <2> DEFINE f == [i \in 0 .. 0 |-> first]
  <2>1. Good(f, 0)
    OBVIOUS
  <2> HIDE DEF f, Good
  <2> QED BY <2>1
<1>2. ASSUME NEW m \in T, m < n PROVE m + 1 \in T
  <2>1. PICK f : Good(f, m)
    OBVIOUS
  <2> DEFINE g == [i \in 0 .. m + 1 |-> IF i = m + 1 THEN G[<<f[m], m + 1>>] ELSE f[i]]
  <2>2. m + 1 \in 1 .. n /\ f[m] \in S
    BY <1>2, <2>1
  <2>3. G[<<f[m], m + 1>>] \in S
    BY <2>2
  <2>4. g \in [0 .. m + 1 -> S]
    BY <2>1, <2>3
  <2>5. g[0] = first
    BY <1>2, <2>1
  <2>6. ASSUME NEW i \in 1 .. m + 1 PROVE g[i] = G[<<g[i - 1], i>>]
    <3>1. CASE i = m + 1
      <4>1. i - 1 \in 0 .. m + 1 /\ i - 1 = m /\ m # m + 1
        BY <1>2, <3>1
      <4> QED BY <3>1, <4>1
    <3>2. CASE i # m + 1
      <4>1. i \in 1 .. m /\ i \in 0 .. m + 1 /\ i - 1 \in 0 .. m + 1 /\ i - 1 # m + 1
        BY <1>2, <3>2
      <4> QED BY <2>1, <3>2, <4>1
    <3> QED BY <3>1, <3>2
  <2> HIDE DEF g
  <2>7. Good(g, m + 1)
    BY <2>4, <2>5, <2>6
  <2> HIDE DEF Good
  <2> QED BY <2>2, <2>7
<1>3. n \in T
  <2>1. T \in SUBSET (0 .. n)
    OBVIOUS
  <2> HIDE DEF T
  <2> QED BY <1>1, <1>2, <2>1, UpTo
<1>4. PICK f : Good(f, n)
  BY <1>3
<1> QED BY <1>4 DEF Runs

\* What a source contributes is a run of octets, or what stands for a ValueError.
LEMMA ContributionIs ==
    ASSUME NEW store \in Seq(Seq(Nat)), NEW ids, NEW source, IsSource(source)
    PROVE  /\ Contribution(store, ids, source) \in Seq(Nat)
           /\ Inline(source) \in Nat
           /\ Contribution(store, ids, source) # Bad =>
                 Inline(source) <= Len(Contribution(store, ids, source))
<1>1. Bad \in Seq(Nat)
  BY DEF Bad
<1>2. /\ source.text # None => source.text \in Seq(Nat)
      /\ source.base64 # None => source.base64.octets \in Seq(Nat)
  BY DEF IsSource, Octets
<1>3. Found(store, Named(ids, source.blob)) => Slice(store, Named(ids, source.blob), source) \in Seq(Nat)
  <2> DEFINE id == Named(ids, source.blob)
             offset == IF source.offset = None THEN 0 ELSE source.offset
             end == IF source.length = None THEN Len(store[id]) ELSE offset + source.length
  <2> HAVE Found(store, id)
  <2>1. store[id] \in Seq(Nat) /\ Len(store[id]) \in Nat
    BY DEF Found
  <2>2. offset \in Nat /\ end \in Nat
    BY <2>1 DEF IsSource
  <2> HIDE DEF id, offset, end
  <2>3. offset <= Len(store[id]) /\ end <= Len(store[id])
           => SubSeq(store[id], offset + 1, end) \in Seq(Nat)
    BY <2>1, <2>2
  <2>4. Slice(store, id, source) = IF offset > Len(store[id]) \/ end > Len(store[id]) THEN Bad
                                   ELSE SubSeq(store[id], offset + 1, end)
    BY DEF Slice, offset, end
  <2> QED BY <1>1, <2>1, <2>2, <2>3, <2>4 DEF id
<1>4. CASE source.text # None
  <2>1. Contribution(store, ids, source) = source.text /\ Inline(source) = Len(source.text)
    BY <1>4 DEF Contribution, Inline
  <2> QED BY <1>2, <1>4, <2>1
<1>5. CASE source.text = None /\ source.base64 # None
  <2>1. /\ Contribution(store, ids, source) = IF source.base64.valid THEN source.base64.octets ELSE Bad
        /\ Inline(source) = Len(source.base64.octets)
    BY <1>5 DEF Contribution, Inline
  <2> QED BY <1>1, <1>2, <1>5, <2>1
<1>6. CASE source.text = None /\ source.base64 = None
  <2>1. Inline(source) = 0
    BY <1>6 DEF Inline
  <2>2. Contribution(store, ids, source) =
           IF source.blob # None /\ Found(store, Named(ids, source.blob))
           THEN Slice(store, Named(ids, source.blob), source) ELSE Bad
    BY <1>6 DEF Contribution
  <2> QED BY <1>1, <1>3, <2>1, <2>2
<1> QED BY <1>4, <1>5, <1>6

\* What the sources come to, one after the other.
Joins(joined, store, ids, sources) ==
    /\ joined \in [0 .. Len(sources) -> Seq(Nat)]
    /\ joined[0] = <<>>
    /\ \A i \in 1 .. Len(sources) :
         LET part == Contribution(store, ids, sources[i])
         IN joined[i] = IF joined[i - 1] = Bad \/ part = Bad THEN Bad ELSE joined[i - 1] \o part

LEMMA ConcatenateIs ==
    ASSUME NEW store \in Seq(Seq(Nat)), NEW ids, NEW X, NEW sources \in Seq(X),
           \A x \in X : IsSource(x)
    PROVE  \E joined : /\ Joins(joined, store, ids, sources)
                       /\ Concatenate(store, ids, sources) = joined[Len(sources)]
<1> DEFINE part(i) == Contribution(store, ids, sources[i])
           Next1(s, i) == IF s = Bad \/ part(i) = Bad THEN Bad ELSE s \o part(i)
           Step(f, i) == IF i = 0 THEN <<>> ELSE Next1(f[i - 1], i)
           joined == CHOOSE f : f = [i \in 0 .. Len(sources) |-> Step(f, i)]
<1>1. PICK n \in Nat : n = Len(sources)
  OBVIOUS
<1>2. Concatenate(store, ids, sources) = joined[n]
  BY <1>1 DEF Concatenate
<1>3. \A i \in 1 .. n : part(i) \in Seq(Nat)
  BY <1>1, ContributionIs
<1> HIDE DEF part
<1> DEFINE G == [p \in Seq(Nat) \X (1 .. n) |-> Next1(p[1], p[2])]
<1>4. G \in [Seq(Nat) \X (1 .. n) -> Seq(Nat)]
  <2>1. ASSUME NEW s \in Seq(Nat), NEW i \in 1 .. n PROVE Next1(s, i) \in Seq(Nat)
    <3>1. Bad \in Seq(Nat)
      BY DEF Bad
    <3>2. s \o part(i) \in Seq(Nat)
      BY <1>3, <2>1
    <3> QED BY <3>1, <3>2
  <2> HIDE DEF Next1
  <2> QED BY <2>1
<1>5. \A s \in Seq(Nat), i \in 1 .. n : G[<<s, i>>] = Next1(s, i)
  <2> HIDE DEF Next1
  <2> QED OBVIOUS
<1> HIDE DEF G, Next1
<1>6. <<>> \in Seq(Nat)
  OBVIOUS
<1>7. PICK g \in [0 .. n -> Seq(Nat)] :
         g[0] = <<>> /\ \A i \in 1 .. n : g[i] = G[<<g[i - 1], i>>]
  <2> DEFINE S == Seq(Nat)
             first == <<>>
  <2>1. G \in [S \X (1 .. n) -> S] /\ first \in S
    BY <1>4, <1>6
  <2> HIDE DEF S, first
  <2>2. \E f : Runs(f, n, S, first, G)
    BY <1>1, <2>1, StepByStep
  <2> QED BY <2>2 DEF S, first, Runs
<1>8. \A i \in 0 .. n : g[i] = Step(g, i)
  <2>1. \A i \in 1 .. n : i - 1 \in 0 .. n /\ i # 0
    BY <1>1
  <2>2. \A i \in 1 .. n : g[i] = Next1(g[i - 1], i)
    BY <1>5, <1>7, <2>1
  <2>3. \A i \in 0 .. n : i = 0 \/ i \in 1 .. n
    BY <1>1
  <2> QED BY <1>7, <2>1, <2>2, <2>3
<1> HIDE DEF Step
<1>9. g = [i \in 0 .. n |-> Step(g, i)]
  BY <1>8
<1>10. joined = [i \in 0 .. n |-> Step(joined, i)]
  BY <1>1, <1>9
<1> HIDE DEF joined
<1>11. /\ joined[0] = <<>>
       /\ \A i \in 1 .. n : joined[i] = Next1(joined[i - 1], i)
  <2>1. \A i \in 0 .. n : joined[i] = Step(joined, i)
    BY <1>10
  <2>2. 0 \in 0 .. n /\ \A i \in 1 .. n : i \in 0 .. n /\ i # 0
    OBVIOUS
  <2> QED BY <2>1, <2>2 DEF Step
<1> DEFINE T == {i \in 0 .. n : joined[i] \in Seq(Nat)}
<1>12. ASSUME NEW i \in T, i < n PROVE i + 1 \in T
  <2>1. i + 1 \in 1 .. n /\ (i + 1) - 1 = i
    BY <1>12
  <2>2. joined[i + 1] = G[<<joined[i], i + 1>>]
    BY <1>5, <1>11, <2>1
  <2> QED BY <1>4, <2>1, <2>2
<1>13. \A i \in 0 .. n : joined[i] \in Seq(Nat)
  <2>1. 0 \in T /\ T \in SUBSET (0 .. n)
    <3>1. joined[0] \in Seq(Nat) /\ 0 \in 0 .. n
      <4>1. joined[0] = <<>>
        BY <1>11
      <4> QED BY <1>1, <1>6, <4>1
    <3> QED BY <3>1
  <2>2. T = 0 .. n
    <3> HIDE DEF T
    <3> QED BY <1>12, <2>1, UpTo
  <2> QED BY <2>2
<1>14. joined \in [0 .. n -> Seq(Nat)]
  BY <1>10, <1>13
<1>15. Joins(joined, store, ids, sources)
  BY <1>1, <1>11, <1>14 DEF Joins, Next1, part
<1> QED BY <1>1, <1>2, <1>15

\* The sum of what is known of the sources.
LEMMA InlineOctetsIs ==
    ASSUME NEW X, NEW sources \in Seq(X), \A x \in X : Inline(x) \in Nat
    PROVE  \E total \in [0 .. Len(sources) -> Nat] :
              /\ total[0] = 0
              /\ \A i \in 1 .. Len(sources) : total[i] = total[i - 1] + Inline(sources[i])
              /\ InlineOctets(sources) = total[Len(sources)]
<1> DEFINE Step(f, i) == IF i = 0 THEN 0 ELSE f[i - 1] + Inline(sources[i])
           total == CHOOSE f : f = [i \in 0 .. Len(sources) |-> Step(f, i)]
<1>1. PICK n \in Nat : n = Len(sources)
  OBVIOUS
<1>2. InlineOctets(sources) = total[n]
  BY <1>1 DEF InlineOctets
<1>3. \A i \in 1 .. n : Inline(sources[i]) \in Nat
  BY <1>1
<1> DEFINE G == [p \in Nat \X (1 .. n) |-> p[1] + Inline(sources[p[2]])]
<1>4. G \in [Nat \X (1 .. n) -> Nat]
  BY <1>3
<1>5. \A s \in Nat, i \in 1 .. n : G[<<s, i>>] = s + Inline(sources[i])
  OBVIOUS
<1> HIDE DEF G
<1>6. PICK g \in [0 .. n -> Nat] : g[0] = 0 /\ \A i \in 1 .. n : g[i] = G[<<g[i - 1], i>>]
  <2> DEFINE S == Nat
             first == 0
  <2>1. G \in [S \X (1 .. n) -> S] /\ first \in S
    BY <1>4
  <2> HIDE DEF S, first
  <2>2. \E f : Runs(f, n, S, first, G)
    BY <1>1, <2>1, StepByStep
  <2>3. PICK f : Runs(f, n, S, first, G)
    BY <2>2
  <2>4. f \in [0 .. n -> Nat] /\ f[0] = 0
    BY <2>3 DEF Runs, S, first
  <2>5. \A i \in 1 .. n : f[i] = G[<<f[i - 1], i>>]
    BY <2>3 DEF Runs
  <2> QED BY <2>4, <2>5
<1>7. \A i \in 0 .. n : g[i] = Step(g, i)
  <2>1. \A i \in 1 .. n : g[i - 1] \in Nat /\ i # 0
    <3>1. \A i \in 1 .. n : i - 1 \in 0 .. n /\ i # 0
      BY <1>1
    <3>2. \A i \in 0 .. n : g[i] \in Nat
      BY <1>6
    <3> QED BY <3>1, <3>2
  <2>2. \A i \in 1 .. n : g[i] = g[i - 1] + Inline(sources[i])
    BY <1>5, <1>6, <2>1
  <2>3. \A i \in 0 .. n : i = 0 \/ i \in 1 .. n
    BY <1>1
  <2> QED BY <1>6, <2>1, <2>2, <2>3
<1> HIDE DEF Step
<1>8. g = [i \in 0 .. n |-> Step(g, i)]
  BY <1>7
<1>9. total = [i \in 0 .. n |-> Step(total, i)]
  BY <1>1, <1>8
<1> HIDE DEF total
<1>10. /\ total[0] = 0
       /\ \A i \in 1 .. n : total[i] = total[i - 1] + Inline(sources[i])
  <2>1. \A i \in 0 .. n : total[i] = Step(total, i)
    BY <1>9
  <2>2. 0 \in 0 .. n /\ \A i \in 1 .. n : i \in 0 .. n /\ i # 0
    OBVIOUS
  <2> QED BY <2>1, <2>2 DEF Step
<1> DEFINE T == {i \in 0 .. n : total[i] \in Nat}
<1>11. ASSUME NEW i \in T, i < n PROVE i + 1 \in T
  <2>1. i + 1 \in 1 .. n /\ (i + 1) - 1 = i
    BY <1>11
  <2> QED BY <1>3, <1>10, <2>1
<1>12. \A i \in 0 .. n : total[i] \in Nat
  <2>1. 0 \in T /\ T \in SUBSET (0 .. n)
    BY <1>10
  <2>2. T = 0 .. n
    <3> HIDE DEF T
    <3> QED BY <1>11, <2>1, UpTo
  <2> QED BY <2>2
<1>13. total \in [0 .. n -> Nat]
  BY <1>9, <1>12
<1> QED BY <1>1, <1>2, <1>10, <1>13

\* However the sources of unknown length come out, what is known of the others is there.
LEMMA InlineIsThere ==
    ASSUME NEW store \in Seq(Seq(Nat)), NEW ids, NEW X, NEW sources \in Seq(X),
           \A x \in X : IsSource(x),
           NEW unknown, \A x \in unknown : Inline(x) = 0,
           NEW content, content = Concatenate(store, ids, Without(sources, unknown)),
           content # Bad
    PROVE  content \in Seq(Nat) /\ InlineOctets(sources) \in Nat /\ InlineOctets(sources) <= Len(content)
<1> DEFINE rest == Without(sources, unknown)
<1>1. rest \in Seq(X) /\ \E rank : Ranks(sources, unknown, rest, rank)
  BY WithoutIs
<1>2. PICK rank : Ranks(sources, unknown, rest, rank)
  BY <1>1
<1> HIDE DEF rest
<1>3. PICK joined : /\ Joins(joined, store, ids, rest)
                    /\ Concatenate(store, ids, rest) = joined[Len(rest)]
  BY <1>1, ConcatenateIs
<1>4. \A x \in X : Inline(x) \in Nat
  BY ContributionIs
<1>5. PICK total \in [0 .. Len(sources) -> Nat] :
         /\ total[0] = 0
         /\ \A i \in 1 .. Len(sources) : total[i] = total[i - 1] + Inline(sources[i])
         /\ InlineOctets(sources) = total[Len(sources)]
  BY <1>4, InlineOctetsIs
<1>6. PICK n \in Nat : n = Len(sources)
  OBVIOUS
<1>7. PICK m \in Nat : m = Len(rest)
  BY <1>1
<1>8. /\ joined \in [0 .. m -> Seq(Nat)] /\ joined[0] = <<>>
      /\ \A k \in 1 .. m : joined[k] # Bad =>
            LET part == Contribution(store, ids, rest[k])
            IN joined[k - 1] # Bad /\ part # Bad /\ joined[k] = joined[k - 1] \o part
  BY <1>3, <1>7 DEF Joins
<1>9. /\ rank[0] = 0
      /\ \A i \in 1 .. n : sources[i] \in unknown => rank[i] = rank[i - 1]
      /\ \A i \in 1 .. n : sources[i] \notin unknown =>
            rank[i] = rank[i - 1] + 1 /\ rank[i] \in 1 .. m /\ rest[rank[i]] = sources[i]
      /\ rank[n] = m
  BY <1>2, <1>6, <1>7 DEF Ranks
<1> DEFINE Has(i) == /\ rank[i] \in 0 .. m
                     /\ joined[rank[i]] # Bad => total[i] <= Len(joined[rank[i]])
           T == {i \in 0 .. n : Has(i)}
<1>10. ASSUME NEW i \in T, i < n PROVE i + 1 \in T
  <2>1. /\ i \in 0 .. n /\ rank[i] \in 0 .. m
        /\ joined[rank[i]] # Bad => total[i] <= Len(joined[rank[i]])
    <3>1. i \in 0 .. n /\ Has(i)
      <4> HIDE DEF Has
      <4> QED BY <1>10
    <3> QED BY <3>1
  <2>2. i + 1 \in 1 .. n /\ (i + 1) - 1 = i /\ i \in 0 .. n /\ rank[i] \in 0 .. m
    BY <1>6, <1>10, <2>1
  <2>3. /\ total[i] \in Nat /\ total[i + 1] = total[i] + Inline(sources[i + 1])
        /\ sources[i + 1] \in X /\ Inline(sources[i + 1]) \in Nat
    BY <1>4, <1>5, <1>6, <2>2
  <2>4. CASE sources[i + 1] \in unknown
    <3>1. rank[i + 1] = rank[i] /\ total[i + 1] = total[i]
      BY <1>9, <2>2, <2>3, <2>4
    <3> QED BY <2>2, <2>1, <3>1
  <2>5. CASE sources[i + 1] \notin unknown
    <3> DEFINE k == rank[i + 1]
               part == Contribution(store, ids, sources[i + 1])
    <3>1. k \in 1 .. m /\ k - 1 = rank[i] /\ rest[k] = sources[i + 1]
      BY <1>9, <2>2, <2>5
    <3>2. ASSUME joined[k] # Bad PROVE total[i + 1] <= Len(joined[k])
      <4>1. joined[rank[i]] # Bad /\ part # Bad /\ joined[k] = joined[rank[i]] \o part
        BY <1>8, <3>1, <3>2
      <4>2. part \in Seq(Nat) /\ Inline(sources[i + 1]) <= Len(part)
        BY <2>3, <4>1, ContributionIs
      <4>3. joined[rank[i]] \in Seq(Nat)
        BY <1>8, <2>2
      <4>4. total[i] <= Len(joined[rank[i]])
        BY <2>1, <4>1
      <4> HIDE DEF part
      <4>5. Len(joined[k]) = Len(joined[rank[i]]) + Len(part)
        BY <4>1, <4>2, <4>3
      <4>6. Len(joined[rank[i]]) \in Nat /\ Len(part) \in Nat
        BY <4>2, <4>3
      <4> QED BY <2>3, <4>2, <4>4, <4>5, <4>6
    <3> QED BY <1>7, <2>2, <3>1, <3>2
  <2> QED BY <2>4, <2>5
<1>11. n \in T
  <2>1. 0 \in T
    <3>1. total[0] <= Len(joined[rank[0]])
      BY <1>5, <1>8, <1>9
    <3> QED BY <1>6, <1>7, <1>9, <3>1
  <2>2. T \in SUBSET (0 .. n)
    OBVIOUS
  <2>3. T = 0 .. n
    <3> HIDE DEF T
    <3> QED BY <1>6, <1>10, <2>1, <2>2, UpTo
  <2> HIDE DEF T
  <2> QED BY <1>6, <2>3
<1>12. content = joined[m]
  BY <1>3, <1>7 DEF rest
<1>13. joined[m] \in Seq(Nat) /\ total[n] \in Nat
  BY <1>5, <1>6, <1>7, <1>8
<1> QED BY <1>5, <1>6, <1>9, <1>11, <1>12, <1>13

\* What is stored stays as it is, and where.
Extends(new, old) ==
    /\ new \in Seq(Seq(Nat)) /\ Len(old) <= Len(new)
    /\ \A i \in DOMAIN old : new[i] = old[i]

\* Creation by creation, an upload adds to what is stored.
LEMMA UploadedIs ==
    ASSUME blobs \in Seq(Seq(Nat)), NEW create \in Creations
    PROVE  Extends(Uploaded(create).store, blobs)
<1> DEFINE start == [store |-> blobs, ids |-> createdIds, created |-> <<>>, notCreated |-> {}]
           Step(f, i) == IF i = 0 THEN start ELSE Create(f[i - 1], create[i])
           done == CHOOSE f : f = [i \in 0 .. Len(create) |-> Step(f, i)]
<1>1. /\ create \in Seq(Range(create))
      /\ \A i \in DOMAIN create :
           LET data == create[i].data
           IN data \in Seq(Range(data)) /\ \A j \in DOMAIN data : IsSource(data[j])
  BY CreationsAssumption
<1>2. PICK n \in Nat : n = Len(create)
  BY <1>1
<1>3. DOMAIN create = 1 .. n
  BY <1>1, <1>2
<1>4. Uploaded(create) = done[n]
  BY <1>2 DEF Uploaded
<1> HIDE DEF start
<1>5. \E f : f = [i \in 0 .. n |-> Step(f, i)]
  <2> DEFINE T == {m \in 0 .. n : \E f : f = [i \in 0 .. m |-> Step(f, i)]}
  <2>1. 0 \in T
    <3> DEFINE f == [i \in 0 .. 0 |-> start]
    <3>1. \A i \in 0 .. 0 : f[i] = Step(f, i)
      OBVIOUS
    <3>2. f = [i \in 0 .. 0 |-> f[i]]
      OBVIOUS
    <3> HIDE DEF f, Step
    <3>3. f = [i \in 0 .. 0 |-> Step(f, i)]
      BY <3>1, <3>2
    <3> QED BY <1>2, <3>3
  <2>2. ASSUME NEW m \in T, m < n PROVE m + 1 \in T
    <3>1. PICK f : f = [i \in 0 .. m |-> Step(f, i)]
      OBVIOUS
    <3> DEFINE g == [i \in 0 .. m + 1 |-> IF i = m + 1 THEN Step(f, i) ELSE f[i]]
    <3>2. ASSUME NEW i \in 0 .. m + 1 PROVE g[i] = Step(g, i)
      <4>1. CASE i = 0
        BY <3>1, <4>1
      <4>2. CASE i # 0
        <5>1. i - 1 \in 0 .. m /\ g[i - 1] = f[i - 1]
          BY <4>2
        <5>2. g[i] = Step(f, i)
          <6> HIDE DEF Step
          <6>1. \A q \in 0 .. m : f[q] = Step(f, q)
            BY <3>1
          <6>2. CASE i = m + 1
            BY <6>2
          <6>3. CASE i # m + 1
            <7>1. i \in 0 .. m
              BY <6>3
            <7>2. g[i] = f[i]
              BY <6>3
            <7> QED BY <6>1, <7>1, <7>2
          <6> QED BY <6>2, <6>3
        <5> HIDE DEF g
        <5> QED BY <4>2, <5>1, <5>2
      <4> QED BY <4>1, <4>2
    <3>3. g = [i \in 0 .. m + 1 |-> Step(g, i)]
      <4> HIDE DEF Step
      <4>1. g = [i \in 0 .. m + 1 |-> g[i]]
        OBVIOUS
      <4> HIDE DEF g
      <4> QED BY <3>2, <4>1
    <3> HIDE DEF g, Step
    <3>4. \E h : h = [i \in 0 .. m + 1 |-> Step(h, i)]
      BY <3>3
    <3>5. m + 1 \in 0 .. n
      BY <1>2, <2>2
    <3> QED BY <3>4, <3>5
  <2> HIDE DEF Step
  <2>3. n \in T
    <3>1. T \in SUBSET (0 .. n)
      OBVIOUS
    <3> HIDE DEF T
    <3> QED BY <1>2, <2>1, <2>2, <3>1, UpTo
  <2> QED BY <2>3
<1> HIDE DEF Step
<1>6. done = [i \in 0 .. n |-> Step(done, i)]
  BY <1>2, <1>5
<1> HIDE DEF done
<1>7. /\ done[0] = start
      /\ \A i \in 1 .. n : done[i] = Create(done[i - 1], create[i])
  <2>1. \A i \in 0 .. n : done[i] = Step(done, i)
    BY <1>6
  <2>2. 0 \in 0 .. n /\ \A i \in 1 .. n : i \in 0 .. n /\ i # 0
    BY <1>2
  <2> QED BY <2>1, <2>2 DEF Step
<1> DEFINE T == {i \in 0 .. n : Extends(done[i].store, blobs)}
<1>8. ASSUME NEW i \in T, i < n PROVE i + 1 \in T
  <2> DEFINE content == Concatenate(done[i].store, done[i].ids, create[i + 1].data)
  <2>1. i + 1 \in 1 .. n /\ (i + 1) - 1 = i /\ i + 1 \in 0 .. n
    BY <1>2, <1>8
  <2>2. Extends(done[i].store, blobs)
    BY <1>8
  <2>3. content \in Seq(Nat)
    <3> DEFINE data == create[i + 1].data
    <3>1. data \in Seq(Range(data)) /\ \A x \in Range(data) : IsSource(x)
      BY <1>1, <1>3, <2>1 DEF Range
    <3> HIDE DEF data
    <3>2. done[i].store \in Seq(Seq(Nat))
      BY <2>2 DEF Extends
    <3>3. PICK joined : /\ Joins(joined, done[i].store, done[i].ids, data)
                        /\ Concatenate(done[i].store, done[i].ids, data) = joined[Len(data)]
      BY <3>1, <3>2, ConcatenateIs
    <3>4. Len(data) \in 0 .. Len(data)
      BY <3>1
    <3> QED BY <3>3, <3>4 DEF Joins, data
  <2>4. done[i + 1] = Create(done[i], create[i + 1])
    BY <1>7, <2>1
  <2>5. done[i + 1].store = IF content = Bad THEN done[i].store ELSE Append(done[i].store, content)
    BY <2>4 DEF Create
  <2> HIDE DEF content
  <2>6. Extends(Append(done[i].store, content), blobs)
    <3>1. done[i].store \in Seq(Seq(Nat)) /\ Len(blobs) \in Nat /\ DOMAIN blobs = 1 .. Len(blobs)
      BY <2>2 DEF Extends
    <3>2. /\ Append(done[i].store, content) \in Seq(Seq(Nat))
          /\ Len(Append(done[i].store, content)) = Len(done[i].store) + 1
          /\ \A q \in 1 .. Len(done[i].store) : Append(done[i].store, content)[q] = done[i].store[q]
      BY <2>3, <3>1, AppendProperties
    <3>3. Len(done[i].store) \in Nat
      BY <3>1
    <3> QED BY <2>2, <3>1, <3>2, <3>3 DEF Extends
  <2> QED BY <2>1, <2>2, <2>5, <2>6
<1>9. 0 \in T
  <2>1. Extends(blobs, blobs)
    BY DEF Extends
  <2>2. done[0].store = blobs
    BY <1>7 DEF start
  <2> QED BY <1>2, <2>1, <2>2
<1>10. T = 0 .. n
  <2>1. T \in SUBSET (0 .. n)
    OBVIOUS
  <2> HIDE DEF T
  <2> QED BY <1>2, <1>8, <1>9, <2>1, UpTo
<1>11. Extends(done[n].store, blobs)
  <2>1. n \in 0 .. n
    BY <1>2
  <2> QED BY <1>10, <2>1
<1> QED BY <1>4, <1>11

\* What a read is of: the properties and the place it starts from, when none is named.
Asked(arguments) == IF arguments.properties = {} THEN {"data", "size"} ELSE arguments.properties
From(arguments) == IF arguments.offset = None THEN 0 ELSE arguments.offset

ItemOf(id, octets, arguments) == BlobItem(id, octets, Asked(arguments), From(arguments), arguments.length)

IsRead(arguments) == {arguments.offset, arguments.length} \subseteq {None} \cup Nat

\* The octets selected are the ones asked for, as far as there are that many.
LEMMA SelectedIs ==
    ASSUME NEW octets \in Seq(Nat), NEW arguments, IsRead(arguments),
           NEW selected, selected = Selected(octets, From(arguments), arguments.length),
           NEW asked, asked = AskedFor(octets, arguments)
    PROVE  /\ selected \in Seq(Nat)
           /\ Len(selected) = Cardinality(asked)
           /\ \A j \in DOMAIN selected : selected[j] = octets[From(arguments) + j]
           /\ IsTruncated(octets, From(arguments), arguments.length) <=>
                 \/ arguments.length # None /\ Cardinality(asked) < arguments.length
                 \/ From(arguments) > Len(octets)
<1> DEFINE first == From(arguments)
           length == arguments.length
           end == IF length = None \/ first + length > Len(octets) THEN Len(octets) ELSE first + length
<1>1. /\ first \in Nat /\ Len(octets) \in Nat /\ (length # None => length \in Nat)
      /\ (arguments.offset # None => first = arguments.offset)
      /\ (arguments.offset = None => first = 0)
  BY DEF IsRead, From
<1>2. DOMAIN octets = 1 .. Len(octets)
  OBVIOUS
<1>3. asked = {i \in 1 .. Len(octets) : i > first /\ (length # None => i <= length + first)}
  <2>1. \A i \in 1 .. Len(octets) : (arguments.offset # None => i > arguments.offset) <=> i > first
    BY <1>1
  <2> QED BY <1>1, <1>2, <2>1 DEF AskedFor
<1> HIDE DEF first, length
<1>4. selected = SubSeq(octets, first + 1, end)
  BY DEF Selected, first, length
<1>5. end \in Nat /\ end <= Len(octets)
  BY <1>1
<1>6. asked = (first + 1) .. end
  BY <1>1, <1>3, <1>5
<1> DEFINE e == end
<1>7. /\ e \in Nat /\ e <= Len(octets) /\ selected = SubSeq(octets, first + 1, e)
      /\ asked = (first + 1) .. e
  BY <1>4, <1>5, <1>6
<1>8. IF length = None \/ first + length > Len(octets) THEN e = Len(octets) ELSE e = first + length
  OBVIOUS
<1> HIDE DEF e
<1>9. first + 1 \in Int /\ e \in Int /\ \A i \in (first + 1) .. e : octets[i] \in Nat
  BY <1>1, <1>7
<1>10. /\ selected \in Seq(Nat)
       /\ Len(selected) = IF first + 1 <= e THEN e - (first + 1) + 1 ELSE 0
       /\ \A i \in 1 .. e - (first + 1) + 1 : selected[i] = octets[(first + 1) + i - 1]
  BY <1>7, <1>9, SubSeqProperties
<1>11. Cardinality(asked) = IF first + 1 > e THEN 0 ELSE e - (first + 1) + 1
  BY <1>7, <1>9, FS_Interval
<1>12. Len(selected) = Cardinality(asked)
  BY <1>1, <1>7, <1>10, <1>11
<1>13. \A j \in DOMAIN selected : selected[j] = octets[first + j]
  <2> SUFFICES ASSUME NEW j \in 1 .. Len(selected) PROVE selected[j] = octets[first + j]
    BY <1>10
  <2>1. j \in 1 .. e - (first + 1) + 1 /\ (first + 1) + j - 1 = first + j
    BY <1>1, <1>7, <1>10
  <2> QED BY <1>10, <2>1
<1>14. IsTruncated(octets, first, length) <=>
          \/ length # None /\ Cardinality(asked) < length
          \/ first > Len(octets)
  <2>1. CASE length = None
    BY <2>1 DEF IsTruncated
  <2>2. CASE length # None
    <3>1. IsTruncated(octets, first, length) <=> first + length > Len(octets)
      BY <2>2 DEF IsTruncated
    <3>2. length \in Nat
      BY <1>1, <2>2
    <3> QED BY <1>1, <1>7, <1>8, <1>11, <2>2, <3>1, <3>2
  <2> QED BY <2>1, <2>2
<1> QED BY <1>10, <1>12, <1>13, <1>14 DEF first, length

\* So an item that is made of a blob says of it what is so.
LEMMA ItemIsTrue ==
    ASSUME NEW octets \in Seq(Nat), NEW arguments, IsRead(arguments), NEW id
    PROVE  /\ IsTrueOf(ItemOf(id, octets, arguments), octets, arguments)
           /\ ItemOf(id, octets, arguments)[2]["id"][2].id = id
<1> DEFINE first == From(arguments)
           length == arguments.length
           properties == Asked(arguments)
           item == ItemOf(id, octets, arguments)
           selected == Selected(octets, first, length)
           asked == AskedFor(octets, arguments)
           text == Decodes(selected)
           names == Answer(octets, properties, first, length).names
           f == item[2]
<1>1. /\ selected \in Seq(Nat)
      /\ Len(selected) = Cardinality(asked)
      /\ \A j \in DOMAIN selected : selected[j] = octets[first + j]
      /\ IsTruncated(octets, first, length) <=>
            \/ length # None /\ Cardinality(asked) < length
            \/ first > Len(octets)
  BY SelectedIs
<1>2. Answer(octets, properties, first, length).selected = selected
  BY DEF Answer
<1>3. f = [name \in names |->
             CASE name = "id" -> Scalar([id |-> id, creation |-> None])
               [] name = "size" -> Scalar(Len(octets))
               [] name \in {"isEncodingProblem", "isTruncated"} -> Scalar(TRUE)
               [] OTHER -> Scalar(Answer(octets, properties, first, length).selected)]
  BY DEF ItemOf, BlobItem, Object
<1>4. names = {"id"}
            \cup (properties \cap {"size", "data:asBase64"})
            \cup (IF properties \cap {"data", "data:asText"} # {} /\ text THEN {"data:asText"} ELSE {})
            \cup (IF "data" \in properties /\ ~text THEN {"data:asBase64"} ELSE {})
            \cup (IF properties \cap {"data", "data:asText"} # {} /\ ~text
                  THEN {"isEncodingProblem"} ELSE {})
            \cup {p \in properties : p \in Algorithms}
            \cup (IF IsTruncated(octets, first, length) THEN {"isTruncated"} ELSE {})
  BY DEF Answer
<1>5. "isTruncated" \in names <=> IsTruncated(octets, first, length)
  <2>1. "isTruncated" \notin Algorithms
    BY AlgorithmsAssumption
  <2> HIDE DEF names, text, properties
  <2> QED BY <1>4, <2>1
<1>6. /\ "id" \in names
      /\ properties \cap {"data", "data:asText"} # {} =>
            "data:asText" \in names \/ "isEncodingProblem" \in names
  <2> HIDE DEF names, text, properties
  <2> QED BY <1>4
<1>7. arguments.properties \cap {"data", "data:asText"} # {} => properties = arguments.properties
  BY DEF Asked
<1> HIDE DEF names, f, selected, asked, first, length, properties
<1>8. DOMAIN f = names
  BY <1>3
<1>9. \A name \in {"data:asText", "data:asBase64"} : name \in names => f[name] = Scalar(selected)
  BY <1>2, <1>3
<1>10. f["id"] = Scalar([id |-> id, creation |-> None])
  BY <1>3, <1>6
<1>11. Data(item) = IF "data:asBase64" \in names \/ "data:asText" \in names THEN selected ELSE None
  <2>1. \A name \in {"data:asText", "data:asBase64"} : name \in names => f[name][2] = selected
    BY <1>9 DEF Scalar
  <2>2. Data(item) = CASE "data:asBase64" \in names -> f["data:asBase64"][2]
                       [] "data:asBase64" \notin names /\ "data:asText" \in names -> f["data:asText"][2]
                       [] OTHER -> None
    BY <1>8 DEF Data, f
  <2> QED BY <2>1, <2>2
<1>12. selected # None
  BY <1>1, NoneAssumption
<1>13. \A name : Says(item, name) <=> name \in names
  BY <1>8 DEF Says, f
<1> HIDE DEF item
<1>14. /\ Data(item) # None =>
            /\ Len(Data(item)) = Cardinality(asked)
            /\ \A j \in DOMAIN Data(item) : Data(item)[j] = octets[first + j]
       /\ Data(item) = None /\ arguments.properties \cap {"data", "data:asText"} # {} =>
            Says(item, "isEncodingProblem")
       /\ Says(item, "isTruncated") <=>
            \/ length # None /\ Cardinality(asked) < length
            \/ first > Len(octets)
  BY <1>1, <1>5, <1>6, <1>7, <1>11, <1>12, <1>13
<1>15. IsTrueOf(item, octets, arguments)
  BY <1>14 DEF IsTrueOf, asked, first, length, From
<1>16. item[2]["id"][2].id = id
  BY <1>10 DEF f, Scalar
<1> QED BY <1>15, <1>16 DEF item

-----------------------------------------------------------------------------
(***************************************************************************)
(* Blobs: the inductive invariant.                                         *)
(***************************************************************************)

\* The calls the builders make.
CallOf(name, n, account, arguments) ==
    [name |-> name, id |-> n, account |-> account, arguments |-> arguments]

GetArguments(read) ==
    Arguments(read.ids, read.resultOf, read.path, read.properties, read.offset, read.length, <<>>)

Uploads == {CallOf("Blob/upload", n, account, Plain(create)) :
              n \in Nat, account \in Accounts, create \in Creations}
Gets == {CallOf("Blob/get", n, account, GetArguments(read)) :
              n \in Nat, account \in Accounts, read \in Reads}
LookupCalls == {CallOf("Blob/lookup", n, account, Arguments(<<>>, None, None, types, None, None, <<>>)) :
              n \in Nat, account \in Accounts, types \in Lookups}
Echoes == {CallOf("Core/echo", n, DefaultAccount, Arguments(read.ids, None, None, {}, None, None, <<>>)) :
              n \in Nat, read \in Reads}

Made == Uploads \cup Gets \cup LookupCalls \cup Echoes

LEMMA MadeIs ==
    ASSUME NEW call \in Made
    PROVE  /\ call.name = "Blob/upload" => call.arguments.create \in Creations
           /\ call.name = "Blob/get" => IsRead(call.arguments)
<1>1. CASE call \in Uploads
  BY <1>1 DEF Uploads, CallOf, Plain, Arguments
<1>2. CASE call \in Gets
  BY <1>2, ReadsAssumption DEF Gets, CallOf, GetArguments, Arguments, IsRead
<1>3. CASE call \in LookupCalls
  BY <1>3 DEF LookupCalls, CallOf
<1>4. CASE call \in Echoes
  BY <1>4 DEF Echoes, CallOf
<1> QED BY <1>1, <1>2, <1>3, <1>4 DEF Made

\* A call that failed its check.
Fails(call) ==
    /\ call.account \in Accounts
    /\ \/ /\ call.name = "Blob/upload"
          /\ call.arguments.create \in Creations /\ ~UploadPasses(call.arguments.create)
       \/ call.name = "Blob/get" /\ ~(call.arguments.properties \cap Digests \subseteq Checked.digests)
       \/ call.name = "Blob/lookup" /\ ~(call.arguments.properties \subseteq Checked.types)

\* An answer to Blob/get is made of blobs of the store.
MadeOf(answer, store) ==
    /\ IsRead(answer.call.arguments)
    /\ LET items == answer.result[2]["list"][2]
       IN \A i \in DOMAIN items : \E id \in DOMAIN store :
             items[i] = ItemOf(id, store[id], answer.call.arguments)

IsReply(r, store) ==
    /\ "answers" \in DOMAIN r
    /\ \E S : r.answers \in Seq(S)
    /\ \A a \in DOMAIN r.answers : r.answers[a].name = "Blob/get" => MadeOf(r.answers[a], store)

BlobInv ==
    /\ calls \in Seq(Made)
    /\ serving \in [on : BOOLEAN, calls : Seq(Made)]
    /\ blobs \in Seq(Seq(Nat))
    /\ rejected = None \/ Fails(rejected)
    /\ IsReply(reply, blobs)

\* The server adds to what it stores and changes none of it, so old answers stay true.
LEMMA StillMadeOf ==
    ASSUME NEW old \in Seq(Seq(Nat)), NEW new, Extends(new, old), NEW answer, MadeOf(answer, old)
    PROVE  MadeOf(answer, new)
<1> DEFINE items == answer.result[2]["list"][2]
<1>1. Len(old) \in Nat /\ Len(new) \in Nat /\ Len(old) <= Len(new) /\ \A i \in DOMAIN old : new[i] = old[i]
  BY DEF Extends
<1>2. DOMAIN old = 1 .. Len(old) /\ DOMAIN new = 1 .. Len(new)
  BY DEF Extends
<1>3. \A id \in DOMAIN old : id \in DOMAIN new /\ new[id] = old[id]
  BY <1>1, <1>2
<1> HIDE DEF items
<1>4. ASSUME NEW i \in DOMAIN items
      PROVE  \E id \in DOMAIN new : items[i] = ItemOf(id, new[id], answer.call.arguments)
  <2>1. PICK id \in DOMAIN old : items[i] = ItemOf(id, old[id], answer.call.arguments)
    BY DEF MadeOf, items
  <2>2. id \in DOMAIN new /\ new[id] = old[id]
    BY <1>3, <2>1
  <2> QED BY <2>1, <2>2
<1> QED BY <1>4 DEF MadeOf, items

LEMMA StillReply ==
    ASSUME NEW old \in Seq(Seq(Nat)), NEW new, Extends(new, old), NEW r, IsReply(r, old)
    PROVE  IsReply(r, new)
<1> QED BY StillMadeOf DEF IsReply

LEMMA ExtendsItself == ASSUME NEW store \in Seq(Seq(Nat)) PROVE Extends(store, store)
<1> QED BY DEF Extends

LEMMA ExtendsByOne ==
    ASSUME NEW store \in Seq(Seq(Nat)), NEW octets \in Seq(Nat)
    PROVE  Extends(Append(store, octets), store)
<1>1. /\ Append(store, octets) \in Seq(Seq(Nat))
      /\ Len(Append(store, octets)) = Len(store) + 1
      /\ \A i \in 1 .. Len(store) : Append(store, octets)[i] = store[i]
  BY AppendProperties
<1>2. Len(store) \in Nat /\ DOMAIN store = 1 .. Len(store)
  OBVIOUS
<1> QED BY <1>1, <1>2 DEF Extends

\* One more answer.
LEMMA SayKeeps ==
    ASSUME NEW store \in Seq(Seq(Nat)), NEW new, Extends(new, store), IsReply(reply, store),
           NEW call, NEW name, NEW result, Say(call, name, result),
           name = "Blob/get" =>
              MadeOf([id |-> call.id, name |-> name, call |-> call, result |-> result], new)
    PROVE  IsReply(reply', new)
<1> DEFINE answer == [id |-> call.id, name |-> name, call |-> call, result |-> result]
           answers == reply.answers
<1>1. PICK S : answers \in Seq(S)
  BY DEF IsReply
<1>2. /\ reply' = [reply EXCEPT !.answers = Append(answers, answer)]
      /\ "answers" \in DOMAIN reply
  BY DEF Say, IsReply
<1>3. \A a \in DOMAIN answers : answers[a].name = "Blob/get" => MadeOf(answers[a], new)
  BY StillMadeOf DEF IsReply
<1>4. answer.name = "Blob/get" => MadeOf(answer, new)
  OBVIOUS
<1> HIDE DEF answer, answers
<1>5. "answers" \in DOMAIN reply' /\ (reply').answers = Append(answers, answer)
  BY <1>2
<1>6. answers \in Seq(S \cup {answer}) /\ answer \in S \cup {answer}
  BY <1>1
<1>7. /\ Append(answers, answer) \in Seq(S \cup {answer})
      /\ Len(Append(answers, answer)) = Len(answers) + 1
      /\ \A a \in 1 .. Len(answers) : Append(answers, answer)[a] = answers[a]
      /\ Append(answers, answer)[Len(answers) + 1] = answer
  BY <1>6, AppendProperties
<1>8. ASSUME NEW a \in DOMAIN Append(answers, answer), Append(answers, answer)[a].name = "Blob/get"
      PROVE  MadeOf(Append(answers, answer)[a], new)
  <2>1. Len(answers) \in Nat /\ DOMAIN answers = 1 .. Len(answers)
    BY <1>1
  <2>2. a \in 1 .. Len(answers) + 1
    BY <1>7
  <2>3. CASE a = Len(answers) + 1
    BY <1>4, <1>7, <1>8, <2>3
  <2>4. CASE a # Len(answers) + 1
    <3>1. a \in 1 .. Len(answers)
      BY <2>1, <2>2, <2>4
    <3> QED BY <1>3, <1>7, <1>8, <2>1, <3>1
  <2> QED BY <2>3, <2>4
<1> QED BY <1>5, <1>7, <1>8 DEF IsReply

\* What Blob/get finds of a list of ids.
LEMMA GotIsMadeOf ==
    ASSUME blobs \in Seq(Seq(Nat)), NEW X, NEW ids \in Seq(X), NEW arguments, IsRead(arguments)
    PROVE  LET items == BlobGot(ids, arguments)[2]["list"][2]
           IN \A i \in DOMAIN items : \E id \in DOMAIN blobs : items[i] = ItemOf(id, blobs[id], arguments)
<1> DEFINE found == {ref \in Range(ids) : Found(blobs, BlobNamed(ref[2]))}
           gone == Range(ids) \ found
           here == Without(ids, gone)
           item(i) == ItemOf(BlobNamed(here[i][2]), blobs[BlobNamed(here[i][2])], arguments)
           items == BlobGot(ids, arguments)[2]["list"][2]
<1>1. items = [i \in DOMAIN here |-> item(i)]
  BY DEF BlobGot, Object, Array, ItemOf, Asked, From
<1>2. \A ref \in Range(ids) : ref \notin gone => Found(blobs, BlobNamed(ref[2]))
  OBVIOUS
<1>3. \A i \in 1 .. Len(ids) : ids[i] \in Range(ids)
  BY DEF Range
<1> HIDE DEF gone, items
<1>4. here \in Seq(X) /\ \E rank : Ranks(ids, gone, here, rank)
  BY WithoutIs
<1> HIDE DEF here
<1>5. PICK rank : Ranks(ids, gone, here, rank)
  BY <1>4
<1>6. ASSUME NEW q \in DOMAIN here PROVE Found(blobs, BlobNamed(here[q][2]))
  <2>1. q \in 1 .. Len(here)
    BY <1>4
  <2>2. PICK i \in 1 .. Len(ids) : ids[i] \notin gone /\ rank[i] = q
    BY <1>5, <2>1 DEF Ranks
  <2>3. here[q] = ids[i]
    BY <1>5, <2>2 DEF Ranks
  <2> QED BY <1>2, <1>3, <2>2, <2>3
<1>7. ASSUME NEW i \in DOMAIN items
      PROVE  \E id \in DOMAIN blobs : items[i] = ItemOf(id, blobs[id], arguments)
  <2>1. i \in DOMAIN here /\ items[i] = item(i)
    BY <1>1
  <2>2. BlobNamed(here[i][2]) \in DOMAIN blobs
    BY <1>6, <2>1 DEF Found
  <2> QED BY <2>1, <2>2
<1> QED BY <1>7 DEF items

LEMMA BlobInvAtFirst == BlobInit => BlobInv
<1> SUFFICES ASSUME BlobInit PROVE BlobInv
  OBVIOUS
<1>1. /\ calls = <<>> /\ blobs = <<>> /\ rejected = None
      /\ serving = [on |-> FALSE, calls |-> <<>>] /\ reply = [problem |-> None, answers |-> <<>>]
  BY DEF BlobInit, ServerInit
<1>2. reply.answers = <<>> /\ "answers" \in DOMAIN reply
  BY <1>1
<1>3. reply.answers \in Seq({}) /\ DOMAIN reply.answers = {}
  BY <1>2
<1>4. IsReply(reply, blobs)
  BY <1>2, <1>3 DEF IsReply
<1>5. serving \in [on : BOOLEAN, calls : Seq(Made)]
  BY <1>1
<1> QED BY <1>1, <1>4, <1>5 DEF BlobInv

\* A builder queues the call, or says that it fails.
LEMMA AddKeeps ==
    ASSUME BlobInv, NEW call \in Made, NEW passes, Add(call, passes), passes \/ Fails(call)
    PROVE  BlobInv'
<1>1. serving' = serving /\ blobs' = blobs /\ reply' = reply
  BY DEF Add, serverVars
<1>2. calls' \in Seq(Made) /\ (rejected' = None \/ Fails(rejected'))
  <2>1. calls \in Seq(Made)
    BY DEF BlobInv
  <2>2. \/ passes /\ calls' = Append(calls, call) /\ rejected' = None
        \/ ~passes /\ calls' = calls /\ rejected' = call
    BY DEF Add
  <2>3. Append(calls, call) \in Seq(Made)
    BY <2>1
  <2> QED BY <2>1, <2>2, <2>3
<1>3. Fails(rejected)' <=> Fails(rejected')
  BY DEF Fails
<1> QED BY <1>1, <1>2, <1>3 DEF BlobInv

LEMMA AddUploadKeeps == ASSUME BlobInv, NEW create \in Creations, NEW account \in Accounts, AddUpload(create, account) PROVE BlobInv'
<1> DEFINE n == Len(calls) + 1
           call == CallOf("Blob/upload", n, account, Plain(create))
<1>1. n \in Nat
  BY DEF BlobInv
<1> HIDE DEF n
<1>2. Add(call, UploadPasses(create))
  BY DEF AddUpload, Call, CallOf, n
<1>3. call \in Made
  BY <1>1 DEF Made, Uploads
<1>4. UploadPasses(create) \/ Fails(call)
  BY DEF Fails, CallOf, Plain, Arguments
<1> HIDE DEF call
<1> QED BY <1>2, <1>3, <1>4, AddKeeps

LEMMA AddGetKeeps == ASSUME BlobInv, NEW read \in Reads, NEW account \in Accounts, AddGet(read, account) PROVE BlobInv'
<1> DEFINE n == Len(calls) + 1
           call == CallOf("Blob/get", n, account, GetArguments(read))
<1>1. n \in Nat
  BY DEF BlobInv
<1> HIDE DEF n
<1>2. Add(call, GetPasses(read))
  BY DEF AddGet, Call, CallOf, GetArguments, n
<1>3. call \in Made
  BY <1>1 DEF Made, Gets
<1>4. GetPasses(read) \/ Fails(call)
  BY DEF Fails, CallOf, GetArguments, Arguments, GetPasses
<1> HIDE DEF call
<1> QED BY <1>2, <1>3, <1>4, AddKeeps

LEMMA AddLookupKeeps == ASSUME BlobInv, NEW types \in Lookups, NEW account \in Accounts, AddLookup(types, account) PROVE BlobInv'
<1> DEFINE n == Len(calls) + 1
           call == CallOf("Blob/lookup", n, account,
                          Arguments(<<>>, None, None, types, None, None, <<>>))
<1>1. n \in Nat
  BY DEF BlobInv
<1> HIDE DEF n
<1>2. Add(call, LookupPasses(types))
  BY DEF AddLookup, Call, CallOf, n
<1>3. call \in Made
  BY <1>1 DEF Made, LookupCalls
<1>4. LookupPasses(types) \/ Fails(call)
  BY DEF Fails, CallOf, Arguments, LookupPasses
<1> HIDE DEF call
<1> QED BY <1>2, <1>3, <1>4, AddKeeps

LEMMA AddEchoKeeps == ASSUME BlobInv, NEW read \in Reads, AddEcho(read.ids) PROVE BlobInv'
<1> DEFINE n == Len(calls) + 1
           call == CallOf("Core/echo", n, DefaultAccount,
                          Arguments(read.ids, None, None, {}, None, None, <<>>))
<1>1. n \in Nat
  BY DEF BlobInv
<1> HIDE DEF n
<1>2. Add(call, TRUE)
  BY DEF AddEcho, Call, CallOf, n
<1>3. call \in Made
  BY <1>1 DEF Made, Echoes
<1> HIDE DEF call
<1> QED BY <1>2, <1>3, AddKeeps

LEMMA UploadKeeps ==
    ASSUME BlobInv, NEW octets \in Contents, Upload(octets)
    PROVE  BlobInv'
<1>1. octets \in Seq(Nat)
  BY ContentsAssumption DEF Octets
<1>2. /\ blobs' = Append(blobs, octets)
      /\ serving' = serving /\ reply' = reply /\ calls' = calls /\ rejected' = rejected
  BY DEF Upload, Store
<1>3. Extends(blobs', blobs)
  BY <1>1, <1>2, ExtendsByOne DEF BlobInv
<1>4. IsReply(reply, blobs')
  BY <1>3, StillReply DEF BlobInv
<1>5. Fails(rejected)' <=> Fails(rejected)
  BY <1>2 DEF Fails
<1> QED BY <1>2, <1>3, <1>4, <1>5 DEF BlobInv, Extends

LEMMA SendKeeps == ASSUME BlobInv, Send PROVE BlobInv'
<1>1. PICK using : Receive([using |-> using, calls |-> calls])
  BY DEF Send
<1>2. calls' = calls /\ rejected' = None
  BY DEF Send
<1>3. /\ blobs' = blobs
      /\ \E problem : reply' = [problem |-> problem, answers |-> <<>>]
      /\ \/ serving' = [on |-> TRUE, calls |-> calls]
         \/ serving' = [on |-> FALSE, calls |-> <<>>]
  BY <1>1 DEF Receive
<1>4. serving' \in [on : BOOLEAN, calls : Seq(Made)]
  <2>1. calls \in Seq(Made) /\ <<>> \in Seq(Made)
    BY DEF BlobInv
  <2> DEFINE S == Seq(Made)
  <2> HIDE DEF S
  <2>2. serving' \in [on : BOOLEAN, calls : S]
    <3>1. calls \in S /\ <<>> \in S
      BY <2>1 DEF S
    <3>2. CASE serving' = [on |-> TRUE, calls |-> calls]
      BY <3>1, <3>2
    <3>3. CASE serving' = [on |-> FALSE, calls |-> <<>>]
      <4> DEFINE none == <<>>
      <4>1. none \in S /\ serving' = [on |-> FALSE, calls |-> none]
        BY <3>1, <3>3
      <4> HIDE DEF none
      <4> QED BY <4>1
    <3> QED BY <1>3, <3>2, <3>3
  <2> QED BY <2>2 DEF S
<1>5. (reply').answers = <<>> /\ "answers" \in DOMAIN reply'
  BY <1>3
<1>6. (reply').answers \in Seq({}) /\ DOMAIN (reply').answers = {}
  BY <1>5
<1>7. IsReply(reply', blobs')
  BY <1>5, <1>6 DEF IsReply
<1> QED BY <1>2, <1>3, <1>4, <1>7 DEF BlobInv

\* The next call: an error, an upload, or an answer that says what is stored.
LEMMA ServeKeeps == ASSUME BlobInv, ServeCall PROVE BlobInv'
<1> DEFINE call == Head(serving.calls)
           ids == IdsOf(call.arguments)
<1>1. calls' = calls /\ rejected' = rejected
  BY DEF ServeCall
<1>2. serving.calls \in Seq(Made) /\ serving.calls # <<>>
  BY DEF BlobInv, ServeCall, AnswerNext
<1>3. call \in Made /\ Tail(serving.calls) \in Seq(Made)
  BY <1>2
<1>4. serving' \in [on : BOOLEAN, calls : Seq(Made)]
  <2>1. serving' = [serving EXCEPT !.calls = Tail(serving.calls)]
    BY DEF ServeCall, AnswerNext
  <2>2. serving \in [on : BOOLEAN, calls : Seq(Made)]
    BY DEF BlobInv
  <2> QED BY <1>3, <2>1, <2>2
<1>5. Fails(rejected)' <=> Fails(rejected)
  BY <1>1 DEF Fails
<1>6. Extends(blobs, blobs)
  BY ExtendsItself DEF BlobInv
<1> DEFINE Uploading == LET done == Uploaded(call.arguments.create) IN
              /\ call.name = "Blob/upload" /\ blobs' = done.store
              /\ \E result : Say(call, call.name, result)
           Erring == blobs' = blobs /\ \E result : Say(call, "error", result)
           Echoing == blobs' = blobs /\ call.name = "Core/echo" /\ \E result : Say(call, call.name, result)
           Getting == /\ blobs' = blobs /\ call.name = "Blob/get" /\ IsList(ids)
                      /\ Say(call, call.name, BlobGot(ids[2], call.arguments))
<1>7. Uploading \/ Erring \/ Echoing \/ Getting
  BY DEF ServeCall, AnswerNext
<1> HIDE DEF call, ids
<1>8. Extends(blobs', blobs) /\ IsReply(reply', blobs')
  <2>1. CASE Uploading
    <3>1. PICK result : Say(call, call.name, result)
      BY <2>1
    <3>2. Extends(blobs', blobs)
      BY <1>3, <2>1, MadeIs, UploadedIs DEF BlobInv
    <3>3. call.name # "Blob/get"
      BY <2>1
    <3> QED BY <3>1, <3>2, <3>3, SayKeeps DEF BlobInv
  <2>2. CASE Erring
    <3>1. PICK result : Say(call, "error", result)
      BY <2>2
    <3> QED BY <1>6, <2>2, <3>1, SayKeeps DEF BlobInv
  <2>3. CASE Echoing
    <3>1. PICK result : Say(call, call.name, result)
      BY <2>3
    <3>2. call.name # "Blob/get"
      BY <2>3
    <3> QED BY <1>6, <2>3, <3>1, <3>2, SayKeeps DEF BlobInv
  <2>4. CASE Getting
    <3> DEFINE result == BlobGot(ids[2], call.arguments)
               answer == [id |-> call.id, name |-> call.name, call |-> call, result |-> result]
    <3>1. ids[2] \in Seq(Range(ids[2]))
      BY <2>4 DEF IsList
    <3>2. IsRead(call.arguments)
      BY <1>3, <2>4, MadeIs
    <3>3. LET items == result[2]["list"][2]
          IN \A i \in DOMAIN items : \E id \in DOMAIN blobs :
                items[i] = ItemOf(id, blobs[id], call.arguments)
      BY <3>1, <3>2, GotIsMadeOf DEF BlobInv
    <3>4. Say(call, call.name, result)
      BY <2>4
    <3> HIDE DEF result
    <3>5. MadeOf(answer, blobs)
      BY <3>2, <3>3 DEF MadeOf
    <3> QED BY <1>6, <2>4, <3>4, <3>5, SayKeeps DEF BlobInv
  <2> QED BY <1>7, <2>1, <2>2, <2>3, <2>4
<1> QED BY <1>1, <1>4, <1>5, <1>8 DEF BlobInv, Extends

LEMMA BlobInvIsKept == BlobInv /\ [BlobNext]_blobVars => BlobInv'
<1> SUFFICES ASSUME BlobInv, [BlobNext]_blobVars PROVE BlobInv'
  OBVIOUS
<1>1. ASSUME NEW create \in Creations, NEW account \in Accounts, AddUpload(create, account)
      PROVE  BlobInv'
  BY <1>1, AddUploadKeeps
<1>2. ASSUME NEW read \in Reads, NEW account \in Accounts, AddGet(read, account)
      PROVE  BlobInv'
  BY <1>2, AddGetKeeps
<1>3. ASSUME NEW types \in Lookups, NEW account \in Accounts, AddLookup(types, account)
      PROVE  BlobInv'
  BY <1>3, AddLookupKeeps
<1>4. ASSUME NEW read \in Reads, AddEcho(read.ids) PROVE BlobInv'
  BY <1>4, AddEchoKeeps
<1>5. ASSUME NEW octets \in Contents, Upload(octets) PROVE BlobInv'
  BY <1>5, UploadKeeps
<1>6. CASE Served
  <2>1. /\ serving' = [serving EXCEPT !.on = FALSE] /\ blobs' = blobs /\ reply' = reply
        /\ calls' = calls /\ rejected' = rejected
    BY <1>6 DEF Served
  <2>2. serving' \in [on : BOOLEAN, calls : Seq(Made)]
    BY <2>1 DEF BlobInv
  <2>3. Fails(rejected)' <=> Fails(rejected)
    BY <2>1 DEF Fails
  <2> QED BY <2>1, <2>2, <2>3 DEF BlobInv
<1>7. CASE UNCHANGED blobVars
  <2>1. serving' = serving /\ blobs' = blobs /\ reply' = reply /\ calls' = calls /\ rejected' = rejected
    BY <1>7 DEF blobVars, serverVars
  <2>2. Fails(rejected)' <=> Fails(rejected)
    BY <2>1 DEF Fails
  <2> QED BY <2>1, <2>2 DEF BlobInv
<1> QED BY <1>1, <1>2, <1>3, <1>4, <1>5, <1>6, <1>7, SendKeeps, ServeKeeps DEF BlobNext

\* The invariant of blob calls: whatever was refused failed a check, and whatever was read
\* is made of what is stored.
THEOREM BlobInvHolds == BlobSpec => []BlobInv
<1> QED BY BlobInvAtFirst, BlobInvIsKept, PTL DEF BlobSpec

-----------------------------------------------------------------------------
LEMMA MadeOfIsTrue == BlobInv => ReadsAreTrue
<1> SUFFICES ASSUME BlobInv, NEW a \in AnswersOf("Blob/get"),
                    NEW i \in DOMAIN reply.answers[a].result[2]["list"][2]
    PROVE  LET items == reply.answers[a].result[2]["list"][2]
           IN IsTrueOf(items[i], blobs[items[i][2]["id"][2].id], reply.answers[a].call.arguments)
  BY DEF ReadsAreTrue
<1> DEFINE arguments == reply.answers[a].call.arguments
           items == reply.answers[a].result[2]["list"][2]
<1>1. MadeOf(reply.answers[a], blobs)
  BY DEF BlobInv, IsReply, AnswersOf
<1>2. IsRead(arguments) /\ \E id \in DOMAIN blobs : items[i] = ItemOf(id, blobs[id], arguments)
  BY <1>1 DEF MadeOf
<1> HIDE DEF items, arguments
<1>3. PICK id \in DOMAIN blobs : items[i] = ItemOf(id, blobs[id], arguments)
  BY <1>2
<1>4. blobs[id] \in Seq(Nat)
  BY <1>3 DEF BlobInv
<1>5. IsTrueOf(items[i], blobs[id], arguments) /\ items[i][2]["id"][2].id = id
  BY <1>2, <1>3, <1>4, ItemIsTrue
<1> QED BY <1>5 DEF items, arguments

LEMMA FailsRightly ==
    ASSUME BlobInv, Accounts = {DefaultAccount}, NEW call, Fails(call)
    PROVE  ~Servable(call)
<1> SUFFICES ASSUME Servable(call) PROVE FALSE
  OBVIOUS
<1>1. call.account = DefaultAccount /\ Limits(call.account) = Checked
  BY DEF Fails, Checked
<1>2. CASE call.name = "Blob/upload"
  <2> DEFINE create == call.arguments.create
  <2>1. create \in Creations /\ ~UploadPasses(create)
    BY <1>2 DEF Fails
  <2>2. \A i \in DOMAIN create :
           LET data == create[i].data
               unknown == {source \in Range(data) : ~IsKnown(source)}
               content == Concatenate(blobs, createdIds, Without(data, unknown))
           IN /\ \A j \in DOMAIN data : Cardinality(Forms(data[j])) = 1
              /\ Len(data) <= Checked.maxSources
              /\ content # Bad
              /\ Checked.maxSize # None => Len(content) <= Checked.maxSize
    BY <1>1, <1>2 DEF Servable
  <2> HIDE DEF create
  <2>3. PICK i \in DOMAIN create :
           ~ LET data == create[i].data IN
             /\ create[i].typed => \A j \in DOMAIN data : Cardinality(Forms(data[j])) = 1
             /\ Len(data) <= Checked.maxSources
             /\ Checked.maxSize = None \/ InlineOctets(data) <= Checked.maxSize
    BY <2>1 DEF UploadPasses
  <2> DEFINE data == create[i].data
             unknown == {source \in Range(data) : ~IsKnown(source)}
             content == Concatenate(blobs, createdIds, Without(data, unknown))
  <2>4. data \in Seq(Range(data)) /\ \A x \in Range(data) : IsSource(x)
    BY <2>1, CreationsAssumption DEF Range
  <2>5. \A x \in unknown : Inline(x) = 0
    BY DEF IsKnown, Inline
  <2>6. /\ content # Bad
        /\ Checked.maxSize # None => Len(content) <= Checked.maxSize
        /\ ~(Checked.maxSize = None \/ InlineOctets(data) <= Checked.maxSize)
    BY <2>2, <2>3
  <2>7. blobs \in Seq(Seq(Nat))
    BY DEF BlobInv
  <2> HIDE DEF content, data, unknown
  <2>8. content = Concatenate(blobs, createdIds, Without(data, unknown))
    BY DEF content
  <2>9. content \in Seq(Nat) /\ InlineOctets(data) \in Nat /\ InlineOctets(data) <= Len(content)
    <3> DEFINE X == Range(data)
               store == blobs
               ids == createdIds
    <3>1. data \in Seq(X) /\ \A x \in X : IsSource(x)
      BY <2>4
    <3>2. store \in Seq(Seq(Nat)) /\ content = Concatenate(store, ids, Without(data, unknown))
      BY <2>7, <2>8
    <3>3. content # Bad
      BY <2>6
    <3> HIDE DEF X, store, ids
    <3> QED BY <2>5, <3>1, <3>2, <3>3, InlineIsThere
  <2>10. Checked.maxSize \in Nat /\ Len(content) <= Checked.maxSize /\ Len(content) \in Nat
    <3>1. Capability[DefaultAccount].maxSize \in {None} \cup Nat
      BY CapabilityAssumption
    <3> QED BY <2>6, <2>9, <3>1 DEF Checked, Limits
  <2> QED BY <2>6, <2>9, <2>10
<1>3. CASE call.name = "Blob/get"
  BY <1>1, <1>3 DEF Fails, Servable
<1>4. CASE call.name = "Blob/lookup"
  BY <1>1, <1>4 DEF Fails, Servable
<1> QED BY <1>2, <1>3, <1>4 DEF Fails

\* What is read of a blob is what is stored, whatever is asked of which blobs in what order.
THEOREM ReadsStayTrue == BlobSpec => []ReadsAreTrue
<1> QED BY BlobInvHolds, MadeOfIsTrue, PTL

\* The builders never wrongly reject and reads are true, as long as every call is to the
\* account whose limits are checked.
THEOREM BlobCallsStayTrue ==
    ASSUME Accounts = {DefaultAccount}
    PROVE  BlobSpec => []BlobCallsAreTrue
<1>1. BlobInv => BlobCallsAreTrue
  <2> SUFFICES ASSUME BlobInv PROVE BlobCallsAreTrue
    OBVIOUS
  <2>1. NeverWronglyRejects
    BY FailsRightly DEF NeverWronglyRejects, BlobInv
  <2> QED BY <2>1, MadeOfIsTrue DEF BlobCallsAreTrue
<1> QED BY <1>1, BlobInvHolds, PTL
=============================================================================
