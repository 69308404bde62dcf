----------------------------- MODULE PackProofs ------------------------------
(***************************************************************************)
(* Proofs about Pack, for any file, manifest, edits and options: what a     *)
(* written file differs in, and why a plan may fail to be written.          *)
(***************************************************************************)
EXTENDS Pack, SequenceTheorems, WellFoundedInduction, TLAPS

(* Sets of numbers have a least one, and a greatest one up to a bound.      *)
LEMMA MinOf ==
  ASSUME NEW T \in SUBSET Nat, T # {}
  PROVE  Min(T) \in T /\ \A y \in T : Min(T) <= y
<1> DEFINE R == OpToRel(<, Nat)
<1>1. IsWellFoundedOn(R, Nat)
  BY NatLessThanWellFounded
<1>2. \A x, y \in Nat : x < y => <<x, y>> \in R
  BY DEF OpToRel
<1> HIDE DEF R
<1>3. PICK x \in T : \A y \in T : ~ (<<y, x>> \in R)
  BY <1>1, WFMin, Zenon
<1>4. ASSUME NEW y \in T PROVE x <= y
  <2>1. x \in Nat /\ y \in Nat OBVIOUS
  <2>2. ~ (<<y, x>> \in R) BY <1>3
  <2>3. ~ (y < x) BY <1>2, <2>1, <2>2, Zenon
  <2>4. QED BY <2>1, <2>3
<1>5. \E z \in T : \A y \in T : z <= y
  BY <1>4, Zenon
<1>6. QED BY <1>5 DEF Min

LEMMA MaxOf ==
  ASSUME NEW K \in Nat, NEW T \in SUBSET (0 .. K), T # {}
  PROVE  Max(T) \in T /\ \A y \in T : Max(T) >= y
<1> DEFINE U == {K - y : y \in T}
<1>1. U \in SUBSET Nat /\ U # {}
  <2>1. \A y \in T : K - y \in Nat
    OBVIOUS
  <2>2. QED BY <2>1
<1>2. PICK m \in U : \A y \in U : m <= y
  <2> HIDE DEF U
  <2> QED BY <1>1, MinOf
<1>3. PICK x \in T : m = K - x
  OBVIOUS
<1>4. \A y \in T : x >= y
  BY <1>2, <1>3
<1>5. \E z \in T : \A y \in T : z >= y
  BY <1>4
<1>6. QED BY <1>5 DEF Max

LEMMA InputTypes ==
  ASSUME input \in Inputs
  PROVE  /\ input.bytes \in Seq(AnyByte) /\ Len(input.bytes) \in Nat
         /\ Streams \subseteq Entries
         /\ \A e, s \in Streams : e.id = s.id => e = s
         /\ \A e \in Streams : input.edits[e.id] \in EncodedEdits \cup {None}
         /\ input.align \in Nat \ {0}
         /\ input.useZeroSlack \in BOOLEAN /\ input.relocate \in BOOLEAN
<1>1. /\ input.bytes \in Seq(AnyByte) /\ Streams \subseteq Entries
      /\ \A e, s \in Streams : e.id = s.id => e = s
      /\ input.edits \in [{e.id : e \in Streams} -> EncodedEdits \cup {None}]
      /\ input.align \in Nat \ {0}
      /\ input.useZeroSlack \in BOOLEAN /\ input.relocate \in BOOLEAN
  BY PackAssumption DEF Streams
<1>2. Len(input.bytes) \in Nat
  BY <1>1
<1>3. \A e \in Streams : input.edits[e.id] \in EncodedEdits \cup {None}
  BY <1>1
<1>4. QED BY <1>1, <1>2, <1>3

LEMMA EndType ==
  ASSUME NEW e \in Entries
  PROVE  /\ e.id \in Nat /\ e.offset \in Nat /\ e.size \in Nat /\ e.size > 0
         /\ End(e) \in Nat /\ e.offset < End(e) /\ End(e) = e.offset + e.size
BY DEF Entries, End

LEMMA NextStartOf ==
  ASSUME input \in Inputs, InOrder(Streams, Len(input.bytes)), NEW e \in Streams
  PROVE  /\ NextStart(e) \in Nat
         /\ NextStart(e) <= Len(input.bytes)
         /\ End(e) <= NextStart(e)
         /\ \A s \in Streams : s.offset > e.offset => NextStart(e) <= s.offset
<1> DEFINE T == {s.offset : s \in {s \in Streams : s.offset > e.offset}} \cup {Len(input.bytes)}
<1>1. Len(input.bytes) \in Nat /\ \A s \in Streams : s \in Entries
  BY InputTypes
<1>2. T \in SUBSET Nat /\ T # {}
  BY <1>1, EndType
<1>3. Min(T) \in T /\ \A y \in T : Min(T) <= y
  <2> HIDE DEF T
  <2> QED BY <1>2, MinOf
<1>4. Min(T) = NextStart(e)
  BY DEF NextStart
<1>5. \A y \in T : End(e) <= y
  <2>1. End(e) <= Len(input.bytes)
    BY DEF InOrder
  <2>2. ASSUME NEW s \in Streams, s.offset > e.offset PROVE End(e) <= s.offset
    <3>1. s # e
      BY <1>1, <2>2, EndType
    <3>2. End(e) <= s.offset \/ End(s) <= e.offset
      BY <3>1 DEF InOrder
    <3>3. QED BY <1>1, <2>2, <3>2, EndType
  <2>3. QED BY <2>1, <2>2
<1>6. QED BY <1>2, <1>3, <1>4, <1>5

LEMMA SlackOf ==
  ASSUME input \in Inputs, InOrder(Streams, Len(input.bytes)), NEW e \in Streams
  PROVE  /\ Slack(e) \in Nat
         /\ End(e) + Slack(e) <= NextStart(e)
         /\ \A q \in Nat : End(e) <= q /\ q < End(e) + Slack(e) =>
              input.useZeroSlack /\ input.bytes[q + 1] = Zero
<1>1. End(e) \in Nat /\ NextStart(e) \in Nat /\ End(e) <= NextStart(e)
  BY NextStartOf, InputTypes, EndType
<1>2. CASE input.useZeroSlack
  <2> DEFINE K == NextStart(e) - End(e)
             T == {n \in 0 .. K : \A i \in 0 .. n - 1 : input.bytes[End(e) + i + 1] = Zero}
  <2>1. K \in Nat
    BY <1>1
  <2>2. 0 \in T /\ T \in SUBSET (0 .. K)
    BY <2>1
  <2>3. Max(T) \in T
    <3> HIDE DEF T, K
    <3> QED BY <2>1, <2>2, MaxOf
  <2>4. Slack(e) = Max(T)
    BY <1>2 DEF Slack
  <2>5. Slack(e) \in 0 .. K /\ \A i \in 0 .. Slack(e) - 1 : input.bytes[End(e) + i + 1] = Zero
    BY <2>3, <2>4
  <2>6. ASSUME NEW q \in Nat, End(e) <= q, q < End(e) + Slack(e)
        PROVE  input.bytes[q + 1] = Zero
    <3>1. q - End(e) \in 0 .. Slack(e) - 1
      BY <1>1, <2>1, <2>5, <2>6
    <3>2. End(e) + (q - End(e)) + 1 = q + 1
      BY <1>1
    <3>3. QED BY <2>5, <3>1, <3>2
  <2>7. QED BY <1>1, <1>2, <2>1, <2>5, <2>6
<1>3. CASE ~ input.useZeroSlack
  BY <1>1, <1>3 DEF Slack
<1>4. QED BY <1>2, <1>3

(* No stream grows into another, or behind the input.                       *)
LEMMA RoomApart ==
  ASSUME input \in Inputs, InOrder(Streams, Len(input.bytes)), NEW e \in Streams
  PROVE  /\ End(e) + Slack(e) <= Len(input.bytes)
         /\ \A s \in Streams : s # e => \/ End(e) + Slack(e) <= s.offset
                                        \/ End(s) + Slack(s) <= e.offset
<1>1. \A s \in Streams :
        /\ s \in Entries /\ s.offset \in Nat /\ End(s) \in Nat /\ Slack(s) \in Nat /\ NextStart(s) \in Nat
        /\ s.offset < End(s)
        /\ End(s) + Slack(s) <= NextStart(s) /\ NextStart(s) <= Len(input.bytes)
        /\ \A t \in Streams : t.offset > s.offset => NextStart(s) <= t.offset
  BY SlackOf, NextStartOf, InputTypes, EndType
<1>2. ASSUME NEW s \in Streams, s # e
      PROVE  End(e) + Slack(e) <= s.offset \/ End(s) + Slack(s) <= e.offset
  <2>1. End(e) <= s.offset \/ End(s) <= e.offset
    BY <1>2 DEF InOrder
  <2>2. CASE End(e) <= s.offset
    <3>1. s.offset > e.offset
      BY <1>1, <2>2
    <3>2. End(e) + Slack(e) <= NextStart(e) /\ NextStart(e) <= s.offset
      BY <1>1, <3>1
    <3>3. QED BY <1>1, <3>2
  <2>3. CASE End(s) <= e.offset
    <3>1. e.offset > s.offset
      BY <1>1, <2>3
    <3>2. End(s) + Slack(s) <= NextStart(s) /\ NextStart(s) <= e.offset
      BY <1>1, <3>1
    <3>3. QED BY <1>1, <3>2
  <2>4. QED BY <2>1, <2>2, <2>3
<1>3. Len(input.bytes) \in Nat
  BY InputTypes
<1>4. QED BY <1>1, <1>2, <1>3

LEMMA PlanOf ==
  ASSUME input \in Inputs, InOrder(Streams, Len(input.bytes)), NEW e \in Streams
  PROVE  /\ Plan(e).status \in {"Unchanged", "TooLarge", "Repacked"}
         /\ ~ IsEdited(e) <=> Plan(e).status = "Unchanged"
         /\ Plan(e).status = "Repacked" =>
              /\ Plan(e).size \in Nat /\ Plan(e).size > 0
              /\ Plan(e).relocate \in BOOLEAN
              /\ ~ Plan(e).relocate => Plan(e).size <= e.size + Slack(e)
<1>1. CASE ~ IsEdited(e)
  BY <1>1 DEF Plan
<1>2. CASE IsEdited(e)
  <2> DEFINE available == e.size + Slack(e)
             edit == input.edits[e.id]
             n == Fit(edit, available)
  <2>1. edit \in EncodedEdits
    BY <1>2, InputTypes DEF IsEdited
  <2>2. edit.first \in Nat /\ edit.first > 0 /\ edit.strongest \in Nat /\ edit.strongest > 0
    BY <2>1 DEF EncodedEdits
  <2>3. available \in Nat
    BY SlackOf, EndType, InputTypes
  <2>4. n \in Nat /\ n > 0
    <3> HIDE DEF edit, available
    <3>1. Min({edit.first, edit.strongest}) \in {edit.first, edit.strongest}
      <4>1. {edit.first, edit.strongest} \in SUBSET Nat /\ {edit.first, edit.strongest} # {}
        BY <2>2
      <4>2. QED BY <4>1, MinOf
    <3>2. QED BY <2>2, <2>3, <3>1 DEF Fit
  <2>5. Plan(e) = IF n > available /\ ~ (input.relocate /\ CanRelocate(e))
                  THEN [status |-> "TooLarge", relocatable |-> CanRelocate(e)]
                  ELSE [status |-> "Repacked", size |-> n, relocate |-> n > available]
    BY <1>2 DEF Plan
  <2> HIDE DEF n, available
  <2>6. CASE n > available /\ ~ (input.relocate /\ CanRelocate(e))
    BY <1>2, <2>5, <2>6
  <2>7. CASE ~ (n > available /\ ~ (input.relocate /\ CanRelocate(e)))
    <3> DEFINE moves == n > available
    <3>1. Plan(e) = [status |-> "Repacked", size |-> n, relocate |-> moves]
      BY <2>5, <2>7
    <3>2. moves \in BOOLEAN /\ (~ moves => n <= e.size + Slack(e))
      BY <2>3, <2>4 DEF available
    <3> HIDE DEF moves
    <3>3. Plan(e).status = "Repacked" /\ Plan(e).size = n /\ Plan(e).relocate = moves
      BY <3>1
    <3>4. QED BY <1>2, <2>4, <3>2, <3>3
  <2>8. QED BY <2>6, <2>7
<1>3. QED BY <1>1, <1>2

(* The new entry of a stream is where the old one was, within what was      *)
(* free, or behind the input.                                               *)
AtHome(s, k) == k.offset = s.offset /\ End(k) <= End(s) + Slack(s)

LEMMA RenewedEntry ==
  ASSUME input \in Inputs, InOrder(Streams, Len(input.bytes)), NEW s \in Streams, NEW k,
         Renewed(s, k)
  PROVE  /\ k \in Entries /\ k.id = s.id /\ k.fields = s.fields
         /\ AtHome(s, k) \/ (k.offset >= Len(input.bytes) /\ IsEdited(s))
         /\ AtHome(s, k) => End(k) <= Len(input.bytes)
         /\ Plan(s).status # "Repacked" => k = s /\ AtHome(s, k)
         /\ Plan(s).status = "Repacked" =>
              /\ IsEdited(s) /\ k.size = Plan(s).size
              /\ IF Plan(s).relocate THEN k.offset >= Len(input.bytes) ELSE AtHome(s, k)
<1>1. /\ s \in Entries /\ s.offset \in Nat /\ s.size \in Nat /\ Slack(s) \in Nat /\ End(s) = s.offset + s.size
      /\ Len(input.bytes) \in Nat /\ End(s) + Slack(s) <= Len(input.bytes)
  BY InputTypes, EndType, SlackOf, RoomApart
<1>2. CASE Plan(s).status # "Repacked"
  <2>1. k = s
    BY <1>2 DEF Renewed
  <2>2. AtHome(s, k)
    BY <1>1, <2>1 DEF AtHome
  <2>3. QED BY <1>1, <1>2, <2>1, <2>2
<1>3. CASE Plan(s).status = "Repacked"
  <2>1. /\ k = [s EXCEPT !.offset = k.offset, !.size = Plan(s).size,
                         !.decompressed = input.edits[s.id].decompressed]
        /\ IF Plan(s).relocate THEN k.offset \in Nat /\ k.offset >= Len(input.bytes)
           ELSE k.offset = s.offset
    BY <1>3 DEF Renewed
  <2>2. Plan(s).size \in Nat \ {0} /\ IsEdited(s)
        /\ (~ Plan(s).relocate => Plan(s).size <= s.size + Slack(s))
    BY <1>3, PlanOf
  <2>3. input.edits[s.id].decompressed \in Nat
    BY <2>2, InputTypes DEF IsEdited, EncodedEdits
  <2>4. k.offset \in Nat
    BY <1>1, <2>1
  <2>5. k \in Entries /\ k.id = s.id /\ k.fields = s.fields /\ k.size = Plan(s).size
    BY <1>1, <2>1, <2>2, <2>3, <2>4 DEF Entries
  <2>6. ~ Plan(s).relocate => AtHome(s, k)
    BY <1>1, <2>1, <2>2, <2>5 DEF AtHome, End
  <2>7. AtHome(s, k) => End(k) <= Len(input.bytes)
    BY <1>1, <2>5, EndType DEF AtHome
  <2>8. QED BY <1>3, <2>1, <2>2, <2>5, <2>6, <2>7
<1>4. QED BY <1>2, <1>3

-----------------------------------------------------------------------------
(* Patches: where they are, and what they hold.                             *)

PatchShape(p) ==
  /\ p.offset \in Nat /\ p.bytes \in Seq(AnyByte) /\ p.clearTo \in Nat
  /\ PatchEnd(p) \in Nat /\ p.offset < PatchEnd(p) /\ p.offset + Len(p.bytes) <= PatchEnd(p)

(* In the slot of a stream and what is free behind it, or behind the input. *)
LowPatch(p, s) == p.offset = s.offset /\ PatchEnd(p) <= End(s) + Slack(s)
HighPatch(p, k) == p.offset = k.offset /\ PatchEnd(p) = End(k) /\ k.offset >= Len(input.bytes)

LEMMA EditedBytesType ==
  ASSUME NEW s \in Entries, NEW n \in Nat
  PROVE  /\ EditedBytes(s, n) \in Seq(AnyByte) /\ Len(EditedBytes(s, n)) = n
         /\ \A i \in 1 .. n : EditedBytes(s, n)[i] = Byte("Edited", s.id, i - 1)
<1>1. \A i \in 1 .. n : Byte("Edited", s.id, i - 1) \in AnyByte
  BY DEF Byte, AnyByte, Entries
<1>2. QED BY <1>1 DEF EditedBytes

LEMMA NumType ==
  ASSUME NEW v \in 0 .. FieldMax
  PROVE  Num(v) \in AnyByte
BY PackAssumption DEF Num, Zero, AnyByte

LEMMA StreamPatchShape ==
  ASSUME input \in Inputs, InOrder(Streams, Len(input.bytes)), NEW s \in Streams, NEW k,
         Renewed(s, k), NEW p \in PatchesOf(s, k)
  PROVE  /\ PatchShape(p) /\ IsEdited(s) /\ Plan(s).status = "Repacked"
         /\ LowPatch(p, s) \/ HighPatch(p, k)
<1>1. /\ s.offset \in Nat /\ End(s) \in Nat /\ s.offset < End(s) /\ Slack(s) \in Nat
      /\ s \in Entries /\ k \in Entries
      /\ k.offset \in Nat /\ k.size \in Nat /\ End(k) \in Nat /\ k.offset < End(k)
      /\ End(k) = k.offset + k.size
  BY InputTypes, EndType, SlackOf, RenewedEntry
<1>2. Plan(s).status = "Repacked" /\ IsEdited(s)
  BY RenewedEntry DEF PatchesOf
<1>3. EditedBytes(s, k.size) \in Seq(AnyByte) /\ Len(EditedBytes(s, k.size)) = k.size
  BY <1>1, EditedBytesType
<1>4. CASE Plan(s).relocate
  <2>1. k.offset >= Len(input.bytes)
    BY <1>2, <1>4, RenewedEntry
  <2>2. CASE p = Patch(s.offset, <<>>, End(s))
    <3>1. p.offset = s.offset /\ p.bytes = <<>> /\ p.clearTo = End(s)
      BY <2>2 DEF Patch
    <3>2. Len(p.bytes) = 0 /\ p.bytes \in Seq(AnyByte)
      BY <3>1
    <3>3. PatchEnd(p) = End(s)
      BY <1>1, <3>1, <3>2 DEF PatchEnd
    <3>4. QED BY <1>1, <1>2, <3>1, <3>2, <3>3 DEF PatchShape, LowPatch
  <2>3. CASE p = Patch(k.offset, EditedBytes(s, k.size), 0)
    <3>1. p.offset = k.offset /\ p.bytes = EditedBytes(s, k.size) /\ p.clearTo = 0
      BY <2>3 DEF Patch
    <3>2. PatchEnd(p) = End(k) /\ p.offset + Len(p.bytes) = End(k)
      BY <1>1, <1>3, <3>1 DEF PatchEnd
    <3>3. QED BY <1>1, <1>2, <1>3, <2>1, <3>1, <3>2 DEF PatchShape, HighPatch
  <2>4. QED BY <1>2, <1>4, <2>2, <2>3 DEF PatchesOf
<1>5. CASE ~ Plan(s).relocate
  <2>1. k.offset = s.offset /\ End(k) <= End(s) + Slack(s)
    BY <1>2, <1>5, RenewedEntry DEF AtHome
  <2>2. p = Patch(s.offset, EditedBytes(s, k.size), End(s))
    BY <1>2, <1>5 DEF PatchesOf
  <2>3. p.offset = s.offset /\ p.bytes = EditedBytes(s, k.size) /\ p.clearTo = End(s)
    BY <2>2 DEF Patch
  <2>4. p.offset + Len(p.bytes) = End(k)
    BY <1>1, <1>3, <2>1, <2>3
  <2>5. PatchEnd(p) = IF End(k) > End(s) THEN End(k) ELSE End(s)
    BY <2>3, <2>4 DEF PatchEnd
  <2>6. QED BY <1>1, <1>2, <1>3, <2>1, <2>3, <2>4, <2>5 DEF PatchShape, LowPatch
<1>6. QED BY <1>4, <1>5

(* One patch of each kind.                                                  *)
LEMMA StreamPatchOne ==
  ASSUME input \in Inputs, InOrder(Streams, Len(input.bytes)), NEW s \in Streams, NEW k,
         Renewed(s, k), NEW p \in PatchesOf(s, k), NEW q \in PatchesOf(s, k), p.offset = q.offset
  PROVE  p = q
<1>1. Plan(s).status = "Repacked"
  BY DEF PatchesOf
<1>2. CASE Plan(s).relocate
  <2>1. k.offset # s.offset
    <3>1. k.offset >= Len(input.bytes) /\ k.offset \in Nat
      BY <1>1, <1>2, RenewedEntry, EndType
    <3>2. /\ s.offset < End(s) /\ End(s) + Slack(s) <= Len(input.bytes) /\ Slack(s) \in Nat
          /\ s.offset \in Nat /\ End(s) \in Nat /\ Len(input.bytes) \in Nat
      BY RoomApart, SlackOf, InputTypes, EndType
    <3>3. QED BY <3>1, <3>2
  <2>2. QED BY <1>1, <1>2, <2>1 DEF PatchesOf, Patch
<1>3. CASE ~ Plan(s).relocate
  BY <1>1, <1>3 DEF PatchesOf
<1>4. QED BY <1>2, <1>3

LEMMA FieldPatchShape ==
  ASSUME NEW o \in Nat, NEW v \in 0 .. FieldMax
  PROVE  LET p == Patch(o, <<Num(v)>>, 0) IN
         PatchShape(p) /\ p.offset = o /\ PatchEnd(p) = o + 1 /\ p.bytes[1] = Num(v) /\ Len(p.bytes) = 1
<1> DEFINE p == Patch(o, <<Num(v)>>, 0)
<1>1. p.offset = o /\ p.bytes = <<Num(v)>> /\ p.clearTo = 0
  BY DEF Patch
<1> HIDE DEF p
<1>2. p.bytes \in Seq(AnyByte)
  <2>1. \A x \in AnyByte : <<x>> \in Seq(AnyByte)
    OBVIOUS
  <2>2. QED BY <1>1, <2>1, NumType
<1>3. Len(p.bytes) = 1 /\ p.bytes[1] = Num(v)
  BY <1>1
<1>4. PatchEnd(p) = o + 1
  BY <1>1, <1>3 DEF PatchEnd
<1>5. PatchShape(p)
  BY <1>1, <1>2, <1>3, <1>4 DEF PatchShape
<1>6. QED BY <1>1, <1>3, <1>4, <1>5 DEF p

-----------------------------------------------------------------------------
(* What is laid out.                                                        *)

Laid ==
  /\ input \in Inputs /\ placed \subseteq Streams
  /\ InOrder(Streams, Len(input.bytes)) /\ CheckFields(input.bytes, Streams)
  /\ PackedFit

LEMMA PackedOf ==
  ASSUME Laid, NEW k \in packed
  PROVE  /\ k \in Entries
         /\ \E s \in Streams : s.id = k.id /\ s \in placed /\ Renewed(s, k)
         /\ \A s \in Streams : s.id = k.id => Renewed(s, k)
<1>1. PICK s \in placed : Renewed(s, k)
  BY DEF Laid, PackedFit
<1>2. s \in Streams /\ k \in Entries /\ s.id = k.id
  BY <1>1, RenewedEntry DEF Laid
<1>3. \A t \in Streams : t.id = k.id => t = s
  BY <1>2, InputTypes DEF Laid
<1>4. QED BY <1>1, <1>2, <1>3

LEMMA StreamPatchOf ==
  ASSUME Laid, NEW p \in StreamPatches
  PROVE  \E s \in Streams, k \in packed :
           s.id = k.id /\ Renewed(s, k) /\ p \in PatchesOf(s, k)
<1>1. PICK k \in packed, s \in Streams : s.id = k.id /\ p \in PatchesOf(s, k)
  BY DEF StreamPatches
<1>2. QED BY <1>1, PackedOf

(* A field of the new manifest is one of the old, and where that may be.    *)
LEMMA PackedField ==
  ASSUME Laid, NEW k \in packed, NEW f \in k.fields
  PROVE  /\ f.offset \in Nat /\ f.offset < Len(input.bytes)
         /\ f \in [offset : Nat, measures : Measures, adjust : Int]
         /\ [of |-> k.id, field |-> f] \in FieldsOf(Streams)
         /\ \A s \in Streams : f.offset < s.offset \/ End(s) <= f.offset
         /\ ~ FieldInSlack => \A s \in Streams :
              IsEdited(s) => f.offset < s.offset \/ End(s) + Slack(s) <= f.offset
         /\ \A l \in packed : \A g \in l.fields : g.offset = f.offset => l = k /\ g = f
<1>1. PICK e \in Streams : e.id = k.id /\ Renewed(e, k)
  BY PackedOf
<1>2. e.fields = k.fields /\ e \in Entries
  BY <1>1, RenewedEntry, InputTypes DEF Laid
<1>3. f \in [offset : Nat, measures : Measures, adjust : Int]
  BY <1>2 DEF Entries
<1>4. /\ f.offset < Len(input.bytes)
      /\ \A s \in Streams : f.offset < s.offset \/ End(s) <= f.offset
  BY <1>2 DEF Laid, CheckFields
<1>5. [of |-> k.id, field |-> f] \in FieldsOf(Streams)
  BY <1>1, <1>2 DEF FieldsOf
<1>6. ASSUME ~ FieldInSlack, NEW s \in Streams, IsEdited(s)
      PROVE  f.offset < s.offset \/ End(s) + Slack(s) <= f.offset
  <2>1. ~ (End(s) <= f.offset /\ f.offset < End(s) + Slack(s))
    BY <1>5, <1>6 DEF FieldInSlack
  <2>2. s.offset \in Nat /\ End(s) \in Nat /\ Slack(s) \in Nat /\ f.offset \in Nat
    BY <1>3, InputTypes, EndType, SlackOf DEF Laid
  <2>3. QED BY <1>4, <2>1, <2>2
<1>7. ASSUME NEW l \in packed, NEW g \in l.fields, g.offset = f.offset
      PROVE  l = k /\ g = f
  <2>1. PICK t \in Streams : t.id = l.id /\ Renewed(t, l)
    BY PackedOf
  <2>2. t.fields = l.fields
    BY <2>1, RenewedEntry DEF Laid
  <2>3. [of |-> l.id, field |-> g] \in FieldsOf(Streams)
    BY <2>1, <2>2 DEF FieldsOf
  <2>4. [of |-> l.id, field |-> g] = [of |-> k.id, field |-> f]
    BY <1>5, <1>7, <2>3 DEF Laid, CheckFields
  <2>5. l.id = k.id /\ g = f
    BY <2>4
  <2>6. QED BY <2>5 DEF Laid, PackedFit
<1>8. QED BY <1>3, <1>4, <1>5, <1>6, <1>7

LEMMA FieldPatchOf ==
  ASSUME Laid, \A e \in packed : \A f \in e.fields : Holds(f, e), NEW p \in FieldPatches
  PROVE  \E k \in packed : \E f \in k.fields :
           /\ PatchShape(p) /\ p.offset = f.offset /\ PatchEnd(p) = f.offset + 1
           /\ p = Patch(f.offset, <<Num(StoredValue(f, k))>>, 0)
           /\ p.bytes[1] = Num(StoredValue(f, k)) /\ Len(p.bytes) = 1
<1>1. PICK k \in packed : \E f \in k.fields : p = Patch(f.offset, <<Num(StoredValue(f, k))>>, 0)
  BY DEF FieldPatches
<1>. PICK f \in k.fields : p = Patch(f.offset, <<Num(StoredValue(f, k))>>, 0)
  BY <1>1
<1>2. f.offset \in Nat /\ StoredValue(f, k) \in 0 .. FieldMax
  BY PackedField DEF Holds
<1> DEFINE q == Patch(f.offset, <<Num(StoredValue(f, k))>>, 0)
<1>3. /\ PatchShape(q) /\ q.offset = f.offset /\ PatchEnd(q) = f.offset + 1
      /\ q.bytes[1] = Num(StoredValue(f, k)) /\ Len(q.bytes) = 1
  BY <1>2, FieldPatchShape
<1>4. p = q
  OBVIOUS
<1> HIDE DEF q
<1>5. QED BY <1>3, <1>4 DEF q

(* Every field has room for what it is to hold.                             *)
AllHold == \A e \in packed : \A f \in e.fields : Holds(f, e)

LEMMA PatchOf ==
  ASSUME Laid, AllHold, NEW p \in StreamPatches \cup FieldPatches
  PROVE  /\ PatchShape(p)
         /\ \/ \E s \in Streams, k \in packed :
                 s.id = k.id /\ Renewed(s, k) /\ p \in PatchesOf(s, k) /\ IsEdited(s) /\ LowPatch(p, s)
            \/ \E s \in Streams, k \in packed :
                 s.id = k.id /\ Renewed(s, k) /\ p \in PatchesOf(s, k) /\ HighPatch(p, k)
            \/ \E k \in packed : \E f \in k.fields :
                 /\ p.offset = f.offset /\ PatchEnd(p) = f.offset + 1
                 /\ p = Patch(f.offset, <<Num(StoredValue(f, k))>>, 0)
<1>1. CASE p \in StreamPatches
  <2>1. PICK s \in Streams, k \in packed : s.id = k.id /\ Renewed(s, k) /\ p \in PatchesOf(s, k)
    BY <1>1, StreamPatchOf
  <2>2. PatchShape(p) /\ IsEdited(s) /\ (LowPatch(p, s) \/ HighPatch(p, k))
    BY <2>1, StreamPatchShape DEF Laid
  <2>3. QED BY <2>1, <2>2
<1>2. CASE p \in FieldPatches
  BY <1>2, FieldPatchOf DEF AllHold
<1>3. QED BY <1>1, <1>2

(* Two patches overlap for one reason only: a field in the zero bytes that  *)
(* a stream grows into.                                                     *)
LEMMA PatchesAreApart ==
  ASSUME Laid, AllHold, ~ FieldInSlack
  PROVE  Apart(StreamPatches \cup FieldPatches)
<1> SUFFICES ASSUME NEW p \in StreamPatches \cup FieldPatches, NEW q \in StreamPatches \cup FieldPatches,
                    p # q, p.offset <= q.offset
             PROVE  PatchEnd(p) <= q.offset
  BY DEF Apart
<1>1. PatchShape(p) /\ PatchShape(q)
  BY PatchOf
<1>2. /\ p.offset \in Nat /\ q.offset \in Nat /\ PatchEnd(p) \in Nat /\ PatchEnd(q) \in Nat
      /\ p.offset < PatchEnd(p) /\ q.offset < PatchEnd(q)
  BY <1>1 DEF PatchShape
<1>3. /\ Len(input.bytes) \in Nat
      /\ \A s \in Streams :
           /\ s.offset \in Nat /\ End(s) \in Nat /\ Slack(s) \in Nat /\ s.offset < End(s)
           /\ End(s) + Slack(s) <= Len(input.bytes)
           /\ \A t \in Streams : s # t => \/ End(s) + Slack(s) <= t.offset
                                          \/ End(t) + Slack(t) <= s.offset
  BY InputTypes, EndType, SlackOf, RoomApart DEF Laid
<1>4. \A k \in packed : k.offset \in Nat /\ End(k) \in Nat /\ k.offset < End(k)
  BY PackedOf, EndType
<1>5. ASSUME NEW s \in Streams, NEW k \in packed, s.id = k.id, Renewed(s, k), p \in PatchesOf(s, k),
             IsEdited(s), LowPatch(p, s)
      PROVE  PatchEnd(p) <= q.offset
  <2>1. p.offset = s.offset /\ PatchEnd(p) <= End(s) + Slack(s)
    BY <1>5 DEF LowPatch
  <2>2. ASSUME NEW t \in Streams, NEW l \in packed, t.id = l.id, Renewed(t, l), q \in PatchesOf(t, l),
               LowPatch(q, t)
        PROVE  PatchEnd(p) <= q.offset
    <3>1. q.offset = t.offset
      BY <2>2 DEF LowPatch
    <3>2. s # t
      <4>1. ASSUME s = t PROVE p = q
        <5>1. k = l
          BY <1>5, <2>2, <4>1 DEF Laid, PackedFit
        <5>2. QED BY <1>5, <2>1, <2>2, <3>1, <4>1, <5>1, StreamPatchOne DEF Laid
      <4>2. QED BY <4>1
    <3>3. QED BY <1>2, <1>3, <2>1, <3>1, <3>2
  <2>3. ASSUME NEW l \in packed, HighPatch(q, l) PROVE PatchEnd(p) <= q.offset
    BY <1>2, <1>3, <1>4, <2>1, <2>3 DEF HighPatch
  <2>4. ASSUME NEW l \in packed, NEW f \in l.fields, q.offset = f.offset PROVE PatchEnd(p) <= q.offset
    <3>1. f.offset < s.offset \/ End(s) + Slack(s) <= f.offset
      BY <1>5, PackedField
    <3>2. QED BY <1>2, <1>3, <2>1, <2>4, <3>1
  <2>5. QED BY <2>2, <2>3, <2>4, PatchOf
<1>6. ASSUME NEW s \in Streams, NEW k \in packed, s.id = k.id, Renewed(s, k), p \in PatchesOf(s, k),
             HighPatch(p, k)
      PROVE  PatchEnd(p) <= q.offset
  <2>1. p.offset = k.offset /\ PatchEnd(p) = End(k) /\ k.offset >= Len(input.bytes)
    BY <1>6 DEF HighPatch
  <2>2. ASSUME NEW t \in Streams, LowPatch(q, t) PROVE FALSE
    <3>1. q.offset = t.offset
      BY <2>2 DEF LowPatch
    <3>2. QED BY <1>2, <1>3, <1>4, <2>1, <3>1
  <2>3. ASSUME NEW t \in Streams, NEW l \in packed, t.id = l.id, Renewed(t, l), q \in PatchesOf(t, l),
               HighPatch(q, l)
        PROVE  PatchEnd(p) <= q.offset
    <3>1. q.offset = l.offset /\ PatchEnd(q) = End(l) /\ l.offset >= Len(input.bytes)
      BY <2>3 DEF HighPatch
    <3>2. k # l
      <4>1. ASSUME k = l PROVE p = q
        <5>1. s = t
          BY <1>6, <2>3, <4>1, InputTypes DEF Laid
        <5>2. QED BY <1>6, <2>1, <2>3, <3>1, <4>1, <5>1, StreamPatchOne DEF Laid
      <4>2. QED BY <4>1
    <3>3. End(k) <= l.offset \/ End(l) <= k.offset
      BY <2>1, <3>1, <3>2 DEF Laid, PackedFit, Moved
    <3>4. QED BY <1>2, <1>4, <2>1, <3>1, <3>3
  <2>4. ASSUME NEW l \in packed, NEW f \in l.fields, q.offset = f.offset PROVE FALSE
    <3>1. f.offset < Len(input.bytes)
      BY <2>4, PackedField
    <3>2. QED BY <1>2, <1>3, <1>4, <2>1, <2>4, <3>1
  <2>5. QED BY <2>2, <2>3, <2>4, PatchOf
<1>7. ASSUME NEW k \in packed, NEW f \in k.fields, p.offset = f.offset, PatchEnd(p) = f.offset + 1,
             p = Patch(f.offset, <<Num(StoredValue(f, k))>>, 0)
      PROVE  PatchEnd(p) <= q.offset
  <2>1. ASSUME p.offset = q.offset PROVE FALSE
    <3>1. ASSUME NEW t \in Streams, LowPatch(q, t) PROVE FALSE
      <4>1. f.offset = t.offset
        BY <1>7, <2>1, <3>1 DEF LowPatch
      <4>2. f.offset < t.offset \/ End(t) <= f.offset
        BY PackedField
      <4>3. QED BY <1>3, <4>1, <4>2
    <3>2. ASSUME NEW l \in packed, HighPatch(q, l) PROVE FALSE
      <4>1. f.offset = l.offset /\ l.offset >= Len(input.bytes)
        BY <1>7, <2>1, <3>2 DEF HighPatch
      <4>2. f.offset < Len(input.bytes)
        BY PackedField
      <4>3. QED BY <1>3, <1>4, <4>1, <4>2
    <3>3. ASSUME NEW l \in packed, NEW g \in l.fields, q.offset = g.offset,
                 q = Patch(g.offset, <<Num(StoredValue(g, l))>>, 0)
          PROVE  FALSE
      <4>1. g.offset = f.offset
        BY <1>7, <2>1, <3>3
      <4>2. l = k /\ g = f
        BY <4>1, PackedField
      <4>3. QED BY <1>7, <3>3, <4>2
    <3>4. QED BY <3>1, <3>2, <3>3, PatchOf
  <2>2. QED BY <1>2, <1>7, <2>1
<1>8. QED BY <1>5, <1>6, <1>7, PatchOf

-----------------------------------------------------------------------------
(* What write_to puts between two patches, and in them.                     *)

LEMMA ZerosOf ==
  ASSUME NEW n \in Nat
  PROVE  Zeros(n) \in Seq(AnyByte) /\ Len(Zeros(n)) = n /\ \A i \in 1 .. n : Zeros(n)[i] = Zero
<1>1. Zero \in AnyByte
  BY DEF Zero, AnyByte
<1>2. QED BY <1>1 DEF Zeros

LEMMA ConcatOf ==
  ASSUME NEW s \in Seq(AnyByte), NEW t \in Seq(AnyByte), NEW r, r = s \o t
  PROVE  /\ r \in Seq(AnyByte) /\ Len(r) = Len(s) + Len(t)
         /\ \A i \in 1 .. Len(s) + Len(t) : r[i] = IF i <= Len(s) THEN s[i] ELSE t[i - Len(s)]
BY ConcatProperties

LEMMA CopyOf ==
  ASSUME input \in Inputs, NEW from \in Nat, NEW to \in Nat, from <= to, ~ CopyPanics(from, to)
  PROVE  /\ Copy(from, to) \in Seq(AnyByte) /\ Len(Copy(from, to)) = to - from
         /\ \A i \in 1 .. to - from : Copy(from, to)[i] = InputByte(from + i - 1)
<1> DEFINE N == Len(input.bytes)
<1>1. N \in Nat /\ input.bytes \in Seq(AnyByte)
  BY InputTypes
<1>2. CASE from = to
  <2>1. Copy(from, to) = <<>>
    BY <1>2 DEF Copy
  <2>2. QED BY <1>2, <2>1
<1>3. CASE from < to
  <2> DEFINE split == Max({Min({to, N}), from})
  <2>1. from <= N
    BY <1>1, <1>3 DEF CopyPanics
  <2>2. split \in Nat /\ from <= split /\ split <= N /\ split <= to /\ (split = N \/ split = to)
    <3> DEFINE m == Min({to, N})
    <3>1. m \in {to, N} /\ m <= to /\ m <= N
      <4>1. {to, N} \in SUBSET Nat /\ {to, N} # {}
        BY <1>1
      <4> HIDE DEF N
      <4>2. QED BY <4>1, MinOf
    <3>2. m \in Nat
      BY <1>1, <3>1
    <3> HIDE DEF m, N
    <3>3. {m, from} \in SUBSET (0 .. m) /\ {m, from} # {}
      BY <1>1, <1>3, <2>1, <3>1, <3>2
    <3>4. Max({m, from}) \in {m, from} /\ Max({m, from}) >= from /\ Max({m, from}) >= m
      BY <3>2, <3>3, MaxOf
    <3>5. split = Max({m, from})
      BY DEF m
    <3> HIDE DEF split
    <3>6. split = m
      BY <1>1, <1>3, <2>1, <3>1, <3>2, <3>4, <3>5
    <3>7. QED BY <1>1, <1>3, <2>1, <3>1, <3>2, <3>6
  <2>3. Copy(from, to) = SubSeq(input.bytes, from + 1, split) \o Zeros(to - split)
    <3>1. ~ (from >= to)
      BY <1>3
    <3>2. QED BY <3>1, Zenon DEF Copy
  <2> HIDE DEF split
  <2> DEFINE a == SubSeq(input.bytes, from + 1, split)
             z == Zeros(to - split)
  <2>4. /\ a \in Seq(AnyByte) /\ Len(a) = split - from
        /\ \A i \in 1 .. split - from : a[i] = input.bytes[from + i]
    <3>1. from + 1 \in Int /\ split \in Int
      BY <2>2
    <3>2. \A i \in (from + 1) .. split : input.bytes[i] \in AnyByte
      BY <1>1, <2>2
    <3>3. /\ SubSeq(input.bytes, from + 1, split) \in Seq(AnyByte)
          /\ Len(SubSeq(input.bytes, from + 1, split)) =
                IF from + 1 <= split THEN split - (from + 1) + 1 ELSE 0
          /\ \A i \in 1 .. split - (from + 1) + 1 :
                SubSeq(input.bytes, from + 1, split)[i] = input.bytes[(from + 1) + i - 1]
      BY <3>1, <3>2, SubSeqProperties
    <3>4. \A i \in 1 .. split - from : a[i] = input.bytes[from + i]
      BY <2>2, <3>3
    <3>5. QED BY <2>2, <3>3, <3>4
  <2>5. z \in Seq(AnyByte) /\ Len(z) = to - split /\ \A i \in 1 .. to - split : z[i] = Zero
    <3>1. to - split \in Nat
      BY <2>2
    <3>2. QED BY <3>1, ZerosOf
  <2> HIDE DEF a, z
  <2> DEFINE b == a \o z
  <2>6. /\ b \in Seq(AnyByte) /\ Len(b) = Len(a) + Len(z)
        /\ \A i \in 1 .. Len(a) + Len(z) : b[i] = IF i <= Len(a) THEN a[i] ELSE z[i - Len(a)]
    BY <2>4, <2>5, ConcatOf, ZenonT(40)
  <2>7. Copy(from, to) = b
    BY <2>3 DEF a, z
  <2> HIDE DEF b
  <2>8. Len(b) = to - from
    BY <2>2, <2>4, <2>5, <2>6
  <2>9. ASSUME NEW i \in 1 .. to - from PROVE b[i] = InputByte(from + i - 1)
    <3>1. i \in 1 .. Len(a) + Len(z)
      BY <2>6, <2>8
    <3>2. CASE i <= split - from
      <4>1. i \in 1 .. split - from /\ i <= Len(a)
        BY <2>2, <2>4, <3>2
      <4>2. b[i] = input.bytes[from + i]
        BY <2>4, <2>6, <3>1, <4>1
      <4>3. from + i - 1 < N /\ from + i - 1 + 1 = from + i
        BY <1>1, <2>2, <3>2
      <4>4. QED BY <4>1, <4>2, <4>3 DEF InputByte
    <3>3. CASE i > split - from
      <4>1. i - Len(a) \in 1 .. to - split /\ ~ (i <= Len(a))
        BY <2>2, <2>4, <3>3
      <4>2. b[i] = Zero
        BY <2>5, <2>6, <3>1, <4>1
      <4>3. ~ (from + i - 1 < N)
        BY <1>1, <2>2, <3>3
      <4>4. QED BY <4>2, <4>3 DEF InputByte
    <3>4. QED BY <2>2, <3>2, <3>3
  <2>10. QED BY <2>6, <2>7, <2>8, <2>9
<1>4. QED BY <1>2, <1>3

(* What is written up to the end of a patch.                                *)
LEMMA PatchPutIn ==
  ASSUME input \in Inputs, output \in Seq(AnyByte), NEW p, PatchShape(p),
         pos \in Nat, Len(output) = pos, pos <= p.offset, ~ CopyPanics(pos, p.offset)
  PROVE  LET out == output \o Copy(pos, p.offset) \o p.bytes
                           \o Zeros(PatchEnd(p) - p.offset - Len(p.bytes)) IN
         /\ out \in Seq(AnyByte) /\ Len(out) = PatchEnd(p)
         /\ \A i \in 0 .. PatchEnd(p) - 1 :
              out[i + 1] = IF i < pos THEN output[i + 1]
                           ELSE IF i < p.offset THEN InputByte(i) ELSE PatchByte(p, i)
<1> DEFINE c == Copy(pos, p.offset)
           m == PatchEnd(p) - p.offset - Len(p.bytes)
           z == Zeros(m)
           x == output \o c
           y == x \o p.bytes
           out == y \o z
<1>1. /\ p.offset \in Nat /\ PatchEnd(p) \in Nat /\ p.bytes \in Seq(AnyByte) /\ Len(p.bytes) \in Nat
      /\ p.offset + Len(p.bytes) <= PatchEnd(p)
  BY DEF PatchShape
<1>2. /\ c \in Seq(AnyByte) /\ Len(c) = p.offset - pos
      /\ \A i \in 1 .. p.offset - pos : c[i] = InputByte(pos + i - 1)
  BY <1>1, CopyOf
<1>3. m \in Nat /\ z \in Seq(AnyByte) /\ Len(z) = m /\ \A i \in 1 .. m : z[i] = Zero
  <2>1. m \in Nat
    BY <1>1
  <2>2. QED BY <2>1, ZerosOf
<1> HIDE DEF c, z
<1>4. /\ x \in Seq(AnyByte) /\ Len(x) = p.offset
      /\ \A i \in 1 .. p.offset : x[i] = IF i <= pos THEN output[i] ELSE c[i - pos]
  <2>1. /\ x \in Seq(AnyByte) /\ Len(x) = Len(output) + Len(c)
        /\ \A i \in 1 .. Len(output) + Len(c) :
             x[i] = IF i <= Len(output) THEN output[i] ELSE c[i - Len(output)]
    BY <1>2, ConcatOf, Zenon
  <2> HIDE DEF x
  <2>2. Len(output) + Len(c) = p.offset
    BY <1>1, <1>2
  <2>3. QED BY <2>1, <2>2
<1> HIDE DEF x
<1>5. /\ y \in Seq(AnyByte) /\ Len(y) = p.offset + Len(p.bytes)
      /\ \A i \in 1 .. p.offset + Len(p.bytes) :
           y[i] = IF i <= p.offset THEN x[i] ELSE p.bytes[i - p.offset]
  <2>1. /\ y \in Seq(AnyByte) /\ Len(y) = Len(x) + Len(p.bytes)
        /\ \A i \in 1 .. Len(x) + Len(p.bytes) :
             y[i] = IF i <= Len(x) THEN x[i] ELSE p.bytes[i - Len(x)]
    <3>1. x \in Seq(AnyByte) /\ p.bytes \in Seq(AnyByte)
      BY <1>1, <1>4
    <3>2. y = x \o p.bytes
      OBVIOUS
    <3> HIDE DEF y
    <3>3. QED BY <3>1, <3>2, ConcatOf
  <2> HIDE DEF y
  <2>2. QED BY <1>4, <2>1
<1> HIDE DEF y
<1>6. /\ out \in Seq(AnyByte) /\ Len(out) = PatchEnd(p)
      /\ \A i \in 1 .. PatchEnd(p) :
           out[i] = IF i <= p.offset + Len(p.bytes) THEN y[i] ELSE z[i - (p.offset + Len(p.bytes))]
  <2>1. /\ out \in Seq(AnyByte) /\ Len(out) = Len(y) + Len(z)
        /\ \A i \in 1 .. Len(y) + Len(z) : out[i] = IF i <= Len(y) THEN y[i] ELSE z[i - Len(y)]
    <3>1. y \in Seq(AnyByte) /\ z \in Seq(AnyByte)
      BY <1>3, <1>5
    <3>2. out = y \o z
      OBVIOUS
    <3> HIDE DEF out
    <3>3. QED BY <3>1, <3>2, ConcatOf
  <2> HIDE DEF out
  <2>2. Len(y) + Len(z) = PatchEnd(p)
    BY <1>1, <1>3, <1>5
  <2>3. QED BY <1>5, <2>1, <2>2
<1> HIDE DEF out, m
<1>7. ASSUME NEW i \in 0 .. PatchEnd(p) - 1
      PROVE  out[i + 1] = IF i < pos THEN output[i + 1]
                          ELSE IF i < p.offset THEN InputByte(i) ELSE PatchByte(p, i)
  <2>1. CASE i < pos
    <3>1. i + 1 \in 1 .. p.offset /\ i + 1 \in 1 .. PatchEnd(p) /\ i + 1 \in 1 .. p.offset + Len(p.bytes)
      BY <1>1, <2>1
    <3>2. out[i + 1] = x[i + 1]
      BY <1>1, <1>5, <1>6, <3>1
    <3>3. QED BY <1>1, <1>4, <2>1, <3>1, <3>2
  <2>2. CASE ~ (i < pos) /\ i < p.offset
    <3>1. i + 1 \in 1 .. p.offset /\ i + 1 \in 1 .. PatchEnd(p) /\ i + 1 \in 1 .. p.offset + Len(p.bytes)
      BY <1>1, <2>2
    <3>2. out[i + 1] = x[i + 1]
      BY <1>1, <1>5, <1>6, <3>1
    <3>3. x[i + 1] = c[i + 1 - pos] /\ i + 1 - pos \in 1 .. p.offset - pos
      BY <1>1, <1>4, <2>2, <3>1
    <3>4. pos + (i + 1 - pos) - 1 = i
      OBVIOUS
    <3>5. c[i + 1 - pos] = InputByte(i)
      BY <1>2, <3>3, <3>4
    <3>6. QED BY <2>2, <3>2, <3>3, <3>5
  <2>3. CASE ~ (i < p.offset) /\ i < p.offset + Len(p.bytes)
    <3>1. out[i + 1] = y[i + 1] /\ y[i + 1] = p.bytes[(i + 1) - p.offset]
      <4>1. /\ i + 1 \in 1 .. PatchEnd(p) /\ i + 1 \in 1 .. p.offset + Len(p.bytes)
            /\ i + 1 <= p.offset + Len(p.bytes) /\ ~ (i + 1 <= p.offset)
        BY <1>1, <2>3
      <4>2. out[i + 1] = y[i + 1]
        BY <1>6, <4>1, Zenon
      <4>3. y[i + 1] = p.bytes[(i + 1) - p.offset]
        BY <1>5, <4>1
      <4>4. QED BY <4>2, <4>3
    <3>2. (i + 1) - p.offset = i - p.offset + 1
      BY <1>1
    <3>3. QED BY <1>1, <2>3, <3>1, <3>2 DEF PatchByte
  <2>4. CASE ~ (i < p.offset + Len(p.bytes))
    <3>1. out[i + 1] = z[(i + 1) - (p.offset + Len(p.bytes))]
      <4>1. i + 1 \in 1 .. PatchEnd(p) /\ ~ (i + 1 <= p.offset + Len(p.bytes))
        BY <1>1, <2>4
      <4>2. out[i + 1] = IF i + 1 <= p.offset + Len(p.bytes) THEN y[i + 1]
                         ELSE z[(i + 1) - (p.offset + Len(p.bytes))]
        BY <1>6, <4>1, Zenon
      <4>3. QED BY <4>1, <4>2, Zenon
    <3>2. (i + 1) - (p.offset + Len(p.bytes)) \in 1 .. m
      BY <1>1, <2>4 DEF m
    <3>3. QED BY <1>1, <1>3, <2>4, <3>1, <3>2 DEF PatchByte
  <2>5. QED BY <1>1, <2>1, <2>2, <2>3, <2>4
<1>8. out = output \o Copy(pos, p.offset) \o p.bytes \o Zeros(PatchEnd(p) - p.offset - Len(p.bytes))
  BY DEF out, y, x, c, z, m
<1>9. QED BY <1>6, <1>7, <1>8

-----------------------------------------------------------------------------
(* What depends on the arguments alone stays as it is.                      *)
LEMMA SameInput ==
  ASSUME input' = input
  PROVE  /\ Streams' = Streams /\ input.bytes' = input.bytes
         /\ InOrder(Streams, Len(input.bytes))' = InOrder(Streams, Len(input.bytes))
         /\ CheckFields(input.bytes, Streams)' = CheckFields(input.bytes, Streams)
         /\ FieldInSlack' = FieldInSlack /\ Damaged' = Damaged
         /\ \A e : Plan(e)' = Plan(e)
         /\ \A s, k : Renewed(s, k)' = Renewed(s, k)
         /\ \A s, k : PatchesOf(s, k)' = PatchesOf(s, k)
         /\ \A p : MayChange(p)' = MayChange(p)
         /\ \A i : InputByte(i)' = InputByte(i)
<1>1. Streams' = Streams /\ input.bytes' = input.bytes
  BY DEF Streams
<1>2. InOrder(Streams, Len(input.bytes))' = InOrder(Streams, Len(input.bytes))
  BY DEF Streams, InOrder
<1>3. CheckFields(input.bytes, Streams)' = CheckFields(input.bytes, Streams)
  BY DEF Streams, CheckFields
<1>4. \A e : Slack(e)' = Slack(e)
  BY DEF Streams, Slack, NextStart
<1>5. \A e : Plan(e)' = Plan(e)
  BY DEF Streams, Plan, Slack, NextStart, CanRelocate, IsEdited
<1>6. \A s, k : Renewed(s, k)' = Renewed(s, k)
  BY DEF Streams, Renewed, Plan, Slack, NextStart, CanRelocate, IsEdited
<1>7. \A s, k : PatchesOf(s, k)' = PatchesOf(s, k)
  BY DEF Streams, PatchesOf, Plan, Slack, NextStart, CanRelocate, IsEdited
<1>8. \A p : MayChange(p)' = MayChange(p)
  BY DEF Streams, MayChange, IsEdited
<1>9. FieldInSlack' = FieldInSlack
  BY DEF Streams, FieldInSlack, IsEdited, Slack, NextStart
<1>10. Damaged' = Damaged
  BY DEF Streams, Damaged, Decodes
<1>11. \A i : InputByte(i)' = InputByte(i)
  BY DEF InputByte
<1>12. QED BY <1>1, <1>2, <1>3, <1>5, <1>6, <1>7, <1>8, <1>9, <1>10, <1>11

(* And what depends on the streams laid out.                                *)
LEMMA SamePacked ==
  ASSUME input' = input, packed' = packed, outputLen' = outputLen, placed' = placed
  PROVE  /\ PackedFit' = PackedFit /\ Moved' = Moved /\ PaddedBetween' = PaddedBetween
         /\ StreamPatches' = StreamPatches /\ FieldPatches' = FieldPatches
<1>1. Moved' = Moved /\ PaddedBetween' = PaddedBetween /\ FieldPatches' = FieldPatches
  BY DEF Moved, PaddedBetween, FieldPatches
<1>2. StreamPatches' = StreamPatches
  BY SameInput DEF StreamPatches
<1>3. PackedFit' = PackedFit
  BY SameInput DEF PackedFit, Moved
<1>4. QED BY <1>1, <1>2, <1>3

(* The invariant, for arguments that do not change.                         *)
Inv == input \in Inputs /\ IInv

(* The parts of the invariant while pack and write_to run.                  *)
Running == PlansFit /\ PackedFit /\ LaidOut /\ WrittenSoFar

LEMMA LaidNow ==
  ASSUME Inv, pc \notin {"Check", "Returned"}
  PROVE  Laid
BY DEF Inv, IInv, TypeOK, PlansFit, Laid

LEMMA InitInv == Init => Inv
<1> SUFFICES ASSUME Init PROVE Inv
  OBVIOUS
<1>1. input \in Inputs /\ Len(input.bytes) \in Nat /\ \A e \in Streams : e \in Entries
  BY InputTypes DEF Init
<1>2. TypeOK
  BY <1>1 DEF Init, TypeOK, Outcomes, Streams
<1>3. PlansFit
  <2>1. \A e \in Streams : plans[e.id] = None
    BY DEF Init, Streams
  <2>2. QED BY <2>1 DEF Init, PlansFit
<1>4. PackedFit
  BY DEF Init, PackedFit, Moved
<1>5. LaidOut
  BY DEF Init, LaidOut, StreamPatches
<1>6. WrittenSoFar
  BY DEF Init, WrittenSoFar
<1>7. WrittenIsFaithful /\ PlanIsWritable
  BY DEF Init, WrittenIsFaithful, PlanIsWritable
<1>8. QED BY <1>1, <1>2, <1>3, <1>4, <1>5, <1>6, <1>7 DEF Inv, IInv

(* A step that only goes on, or returns without having written.             *)
LEMMA GoesOn ==
  ASSUME TypeOK, UNCHANGED <<input, plans, placed, packed, outputLen, patches, output, pos>>,
         pc' \in {"Check", "Plan", "Place", "Fields", "Overlap", "Write", "Verify", "Returned"},
         outcome' \in Outcomes, outcome' # "None" <=> pc' = "Returned"
  PROVE  TypeOK'
<1>1. Streams' = Streams /\ input.bytes' = input.bytes
  BY SameInput
<1>2. QED BY <1>1 DEF TypeOK

Failures == {"InternalError", "Panicked", "VerifyFailed"}

LEMMA NothingToShow ==
  ASSUME outcome' \notin {"Written"} \cup Failures
  PROVE  WrittenIsFaithful' /\ PlanIsWritable'
BY DEF WrittenIsFaithful, PlanIsWritable, Failures

LEMMA CheckInv == Inv /\ Check => Inv'
<1> SUFFICES ASSUME Inv, Check PROVE Inv'
  OBVIOUS
<1> USE DEF Check, result, writer
<1>1. input' = input /\ input \in Inputs
  BY DEF Inv, IInv
<1>2. TypeOK'
  BY GoesOn DEF Inv, IInv, TypeOK, Return, Outcomes
<1>3. WrittenIsFaithful' /\ PlanIsWritable'
  <2>1. outcome' \in {"None", "Rejected"}
    BY DEF Inv, IInv, TypeOK, Return
  <2>2. QED BY <2>1, NothingToShow DEF Failures
<1>4. ASSUME pc' # "Returned" PROVE Running'
  <2>1. pc' = "Plan" /\ InOrder(Streams, Len(input.bytes)) /\ CheckFields(input.bytes, Streams)
    BY <1>4 DEF Return
  <2>2. PlansFit'
    <3>1. \A e \in Streams : plans[e.id] \in {None, Plan(e)}
      BY DEF Inv, IInv, PlansFit
    <3>2. (\A e \in Streams : plans[e.id] \in {None, Plan(e)})'
      BY <1>1, <3>1, SameInput
    <3>3. (InOrder(Streams, Len(input.bytes)) /\ CheckFields(input.bytes, Streams))'
      BY <1>1, <2>1, SameInput
    <3>4. QED BY <2>1, <3>2, <3>3 DEF PlansFit
  <2>3. PackedFit'
    BY <1>1, SamePacked DEF Inv, IInv
  <2>4. LaidOut'
    BY <1>1, <2>1, SamePacked DEF Inv, IInv, LaidOut
  <2>5. WrittenSoFar'
    BY <2>1 DEF Inv, IInv, WrittenSoFar
  <2>6. QED BY <2>2, <2>3, <2>4, <2>5 DEF Running
<1>5. QED BY <1>1, <1>2, <1>3, <1>4 DEF Inv, IInv, Running

LEMMA PlanStreamInv == Inv /\ PlanStream => Inv'
<1> SUFFICES ASSUME Inv, PlanStream PROVE Inv'
  OBVIOUS
<1> USE DEF PlanStream, result, writer
<1>1. input' = input /\ input \in Inputs /\ pc' = "Plan" /\ pc = "Plan"
  BY DEF Inv, IInv
<1>2. PICK e \in Streams : plans' = [plans EXCEPT ![e.id] = Plan(e)]
  OBVIOUS
<1>3. DOMAIN plans' = DOMAIN plans /\ Streams' = Streams
  BY <1>1, <1>2, SameInput
<1>4. TypeOK'
  BY <1>1, <1>3 DEF Inv, IInv, TypeOK
<1>5. PlansFit'
  <2>1. \A s \in Streams : plans[s.id] \in {None, Plan(s)} /\ s.id \in DOMAIN plans
    BY DEF Inv, IInv, PlansFit, TypeOK
  <2>2. \A s \in Streams : plans'[s.id] \in {None, Plan(s)}
    <3> SUFFICES ASSUME NEW s \in Streams PROVE plans'[s.id] \in {None, Plan(s)}
      OBVIOUS
    <3>1. CASE s.id = e.id
      <4>1. s = e
        BY <1>1, <3>1, InputTypes
      <4>2. QED BY <1>2, <2>1, <3>1, <4>1
    <3>2. CASE s.id # e.id
      BY <1>2, <2>1, <3>2
    <3>3. QED BY <3>1, <3>2
  <2>3. (\A s \in Streams : plans[s.id] \in {None, Plan(s)})'
    BY <1>1, <2>2, SameInput
  <2>4. (InOrder(Streams, Len(input.bytes)) /\ CheckFields(input.bytes, Streams))'
    BY <1>1, SameInput DEF Inv, IInv, PlansFit
  <2>5. QED BY <1>1, <2>3, <2>4 DEF PlansFit
<1>6. PackedFit'
  BY <1>1, SamePacked DEF Inv, IInv
<1>7. LaidOut'
  BY <1>1, SamePacked DEF Inv, IInv, LaidOut
<1>8. WrittenSoFar'
  BY <1>1 DEF Inv, IInv, WrittenSoFar
<1>9. WrittenIsFaithful' /\ PlanIsWritable'
  <2>1. outcome' = "None"
    BY <1>1 DEF Inv, IInv, TypeOK
  <2>2. QED BY <2>1, NothingToShow DEF Failures
<1>10. QED BY <1>1, <1>4, <1>5, <1>6, <1>7, <1>8, <1>9 DEF Inv, IInv

LEMMA PlanFailsInv == Inv /\ PlanFails => Inv'
<1> SUFFICES ASSUME Inv, PlanFails PROVE Inv'
  OBVIOUS
<1> USE DEF PlanFails, result, writer, Return
<1>1. TypeOK'
  BY GoesOn DEF Inv, IInv, Outcomes
<1>2. WrittenIsFaithful' /\ PlanIsWritable'
  BY NothingToShow DEF Failures
<1>3. QED BY <1>1, <1>2 DEF Inv, IInv

LEMMA EndPlanInv == Inv /\ EndPlan => Inv'
<1> SUFFICES ASSUME Inv, EndPlan PROVE Inv'
  OBVIOUS
<1> USE DEF EndPlan, result, writer
<1>1. input' = input /\ input \in Inputs /\ pc = "Plan" /\ pc' = "Place"
  BY DEF Inv, IInv
<1>2. TypeOK'
  BY GoesOn DEF Inv, IInv, TypeOK
<1>3. PlansFit'
  <2>1. \A e \in Streams : plans'[e.id] = Plan(e)
    BY <1>1 DEF Inv, IInv, PlansFit
  <2>2. (\A e \in Streams : plans[e.id] = Plan(e))'
    BY <1>1, <2>1, SameInput
  <2>3. (InOrder(Streams, Len(input.bytes)) /\ CheckFields(input.bytes, Streams))'
    BY <1>1, SameInput DEF Inv, IInv, PlansFit
  <2>4. QED BY <1>1, <2>2, <2>3 DEF PlansFit
<1>4. PackedFit' /\ LaidOut'
  BY <1>1, SamePacked DEF Inv, IInv, LaidOut
<1>5. WrittenSoFar'
  BY <1>1 DEF Inv, IInv, WrittenSoFar
<1>6. WrittenIsFaithful' /\ PlanIsWritable'
  <2>1. outcome' = "None"
    BY <1>1 DEF Inv, IInv, TypeOK
  <2>2. QED BY <2>1, NothingToShow DEF Failures
<1>7. QED BY <1>1, <1>2, <1>3, <1>4, <1>5, <1>6 DEF Inv, IInv

LEMMA NextMultipleOf ==
  ASSUME input \in Inputs, NEW n \in Nat
  PROVE  NextMultiple(n) \in Nat /\ NextMultiple(n) >= n
<1>1. input.align \in Nat \ {0}
  BY InputTypes
<1> DEFINE a == input.align
<1>2. (-n) % a \in 0 .. (a - 1)
  <2>1. a \in Int /\ a > 0 /\ -n \in Int
    BY <1>1
  <2> HIDE DEF a
  <2>2. QED BY <2>1
<1>3. QED BY <1>2 DEF NextMultiple

(* The step for one stream: its patches are added, and its new entry.       *)
LEMMA PlaceStreamDoes ==
  ASSUME Inv, PlaceStream
  PROVE  \E e \in Streams \ placed : \E k :
           /\ placed' = placed \cup {e} /\ packed' = packed \cup {k}
           /\ Renewed(e, k)
           /\ patches' = patches \cup PatchesOf(e, k)
           /\ IF k.offset >= Len(input.bytes)
              THEN k.offset >= outputLen /\ outputLen' = End(k) ELSE outputLen' = outputLen
<1>1. PICK e \in Streams \ placed :
        /\ placed' = placed \cup {e}
        /\ LET plan == plans[e.id]
               moved == NextMultiple(outputLen)
           IN  CASE plan.status # "Repacked" ->
                      packed' = packed \cup {e} /\ UNCHANGED <<patches, outputLen>>
                 [] plan.status = "Repacked" /\ plan.relocate ->
                      /\ patches' = patches \cup {Patch(e.offset, <<>>, End(e)),
                                                  Patch(moved, EditedBytes(e, plan.size), 0)}
                      /\ outputLen' = moved + plan.size
                      /\ packed' = packed \cup {[e EXCEPT !.offset = moved, !.size = plan.size,
                                                   !.decompressed = input.edits[e.id].decompressed]}
                 [] plan.status = "Repacked" /\ ~ plan.relocate ->
                      /\ patches' = patches \cup {Patch(e.offset, EditedBytes(e, plan.size), End(e))}
                      /\ packed' = packed \cup {[e EXCEPT !.size = plan.size,
                                                   !.decompressed = input.edits[e.id].decompressed]}
                      /\ UNCHANGED outputLen
  BY DEF PlaceStream
<1>2. plans[e.id] = Plan(e)
  BY DEF PlaceStream, Inv, IInv, PlansFit
<1>3. /\ input \in Inputs /\ InOrder(Streams, Len(input.bytes))
      /\ outputLen \in Nat /\ outputLen >= Len(input.bytes)
  BY DEF PlaceStream, Inv, IInv, TypeOK, PlansFit
<1>4. /\ e \in Entries /\ e.offset \in Nat /\ End(e) \in Nat /\ e.offset < End(e)
      /\ Slack(e) \in Nat /\ End(e) + Slack(e) <= Len(input.bytes) /\ Len(input.bytes) \in Nat
  BY <1>3, InputTypes, EndType, SlackOf, RoomApart
<1>5. ~ (e.offset >= Len(input.bytes))
  BY <1>4
<1> DEFINE moved == NextMultiple(outputLen)
           at(o) == [e EXCEPT !.offset = o, !.size = Plan(e).size,
                       !.decompressed = input.edits[e.id].decompressed]
<1>6. moved \in Nat /\ moved >= outputLen
  BY <1>3, NextMultipleOf
<1>7. CASE Plan(e).status # "Repacked"
  <2>0. packed' = packed \cup {e} /\ UNCHANGED <<patches, outputLen>>
    <3>1. plans[e.id].status # "Repacked"
      BY <1>2, <1>7
    <3>2. QED BY <1>1, <3>1
  <2>1. packed' = packed \cup {e} /\ patches' = patches /\ outputLen' = outputLen
    BY <2>0
  <2>2. Renewed(e, e) /\ PatchesOf(e, e) = {}
    BY <1>7 DEF Renewed, PatchesOf
  <2>3. patches' = patches \cup PatchesOf(e, e)
    BY <2>1, <2>2
  <2>4. QED BY <1>1, <1>5, <2>1, <2>2, <2>3, Zenon
<1>8. CASE Plan(e).status = "Repacked" /\ Plan(e).relocate
  <2> DEFINE k == at(moved)
  <2>1. /\ patches' = patches \cup {Patch(e.offset, <<>>, End(e)),
                                    Patch(moved, EditedBytes(e, Plan(e).size), 0)}
        /\ outputLen' = moved + Plan(e).size
        /\ packed' = packed \cup {k}
    BY <1>1, <1>2, <1>8
  <2>2. k.offset = moved /\ k.size = Plan(e).size
    BY <1>4 DEF Entries
  <2>3. k = [e EXCEPT !.offset = k.offset, !.size = Plan(e).size,
                      !.decompressed = input.edits[e.id].decompressed]
    BY <2>2
  <2> HIDE DEF k, moved
  <2>4. k.offset >= Len(input.bytes) /\ k.offset \in Nat
    BY <1>3, <1>4, <1>6, <2>2
  <2>5. Renewed(e, k)
    BY <1>8, <2>3, <2>4 DEF Renewed
  <2>6. PatchesOf(e, k) = {Patch(e.offset, <<>>, End(e)), Patch(moved, EditedBytes(e, Plan(e).size), 0)}
    BY <1>8, <2>2 DEF PatchesOf
  <2>7. outputLen' = End(k) /\ k.offset >= outputLen
    BY <1>6, <2>1, <2>2 DEF End
  <2>8. patches' = patches \cup PatchesOf(e, k)
    BY <2>1, <2>6
  <2>9. QED BY <1>1, <2>1, <2>4, <2>5, <2>7, <2>8
<1>9. CASE Plan(e).status = "Repacked" /\ ~ Plan(e).relocate
  <2> DEFINE k == [e EXCEPT !.size = Plan(e).size,
                     !.decompressed = input.edits[e.id].decompressed]
  <2>1. /\ patches' = patches \cup {Patch(e.offset, EditedBytes(e, Plan(e).size), End(e))}
        /\ packed' = packed \cup {k} /\ outputLen' = outputLen
    BY <1>1, <1>2, <1>9
  <2>2. k.offset = e.offset /\ k.size = Plan(e).size
    BY <1>4 DEF Entries
  <2>3. k = [e EXCEPT !.offset = k.offset, !.size = Plan(e).size,
                      !.decompressed = input.edits[e.id].decompressed]
    BY <1>4, <2>2 DEF Entries
  <2> HIDE DEF k
  <2>4. Renewed(e, k)
    BY <1>9, <2>2, <2>3 DEF Renewed
  <2>5. PatchesOf(e, k) = {Patch(e.offset, EditedBytes(e, Plan(e).size), End(e))}
    BY <1>9, <2>2 DEF PatchesOf
  <2>6. patches' = patches \cup PatchesOf(e, k) /\ ~ (k.offset >= Len(input.bytes))
    BY <1>5, <2>1, <2>2, <2>5
  <2>7. QED BY <1>1, <2>1, <2>4, <2>6
<1>10. QED BY <1>7, <1>8, <1>9

LEMMA PlaceStreamInv == Inv /\ PlaceStream => Inv'
<1> SUFFICES ASSUME Inv, PlaceStream PROVE Inv'
  OBVIOUS
<1>1. /\ input' = input /\ input \in Inputs /\ pc = "Place" /\ pc' = "Place"
      /\ UNCHANGED <<plans, output, pos, outcome>> /\ outcome = "None"
      /\ InOrder(Streams, Len(input.bytes)) /\ placed \subseteq Streams
      /\ Streams' = Streams /\ input.bytes' = input.bytes
  BY SameInput DEF PlaceStream, Inv, IInv, TypeOK, PlansFit, writer
<1>a. PICK e \in Streams \ placed : \E k :
           /\ placed' = placed \cup {e} /\ packed' = packed \cup {k}
           /\ Renewed(e, k)
           /\ patches' = patches \cup PatchesOf(e, k)
           /\ IF k.offset >= Len(input.bytes)
              THEN k.offset >= outputLen /\ outputLen' = End(k) ELSE outputLen' = outputLen
  BY PlaceStreamDoes
<1>2. PICK k :
           /\ placed' = placed \cup {e} /\ packed' = packed \cup {k}
           /\ Renewed(e, k)
           /\ patches' = patches \cup PatchesOf(e, k)
           /\ IF k.offset >= Len(input.bytes)
              THEN k.offset >= outputLen /\ outputLen' = End(k) ELSE outputLen' = outputLen
  BY <1>a
<1>3. /\ k \in Entries /\ k.id = e.id /\ k.offset \in Nat /\ End(k) \in Nat /\ k.offset < End(k)
      /\ e.offset \in Nat /\ End(e) \in Nat /\ Slack(e) \in Nat
      /\ End(e) + Slack(e) <= Len(input.bytes) /\ Len(input.bytes) \in Nat
      /\ outputLen \in Nat /\ outputLen >= Len(input.bytes)
      /\ outputLen' \in Nat /\ outputLen' >= outputLen
  <2>1. /\ k \in Entries /\ k.id = e.id /\ k.offset \in Nat /\ End(k) \in Nat /\ k.offset < End(k)
    BY <1>1, <1>2, RenewedEntry, EndType
  <2>2. outputLen \in Nat /\ outputLen >= Len(input.bytes)
    BY DEF Inv, IInv, TypeOK
  <2>3. /\ e.offset \in Nat /\ End(e) \in Nat /\ Slack(e) \in Nat
        /\ End(e) + Slack(e) <= Len(input.bytes) /\ Len(input.bytes) \in Nat
    BY <1>1, <1>2, InputTypes, EndType, SlackOf, RoomApart
  <2>4. QED BY <1>2, <2>1, <2>2, <2>3
<1>4. Laid
  BY <1>1, LaidNow
<1>5. \A l \in packed : l \in Entries /\ l.id # k.id /\ l.offset \in Nat /\ End(l) \in Nat
  <2> SUFFICES ASSUME NEW l \in packed PROVE l.id # k.id
    BY <1>4, PackedOf, EndType
  <2>1. PICK s \in Streams : s.id = l.id /\ s \in placed
    BY <1>4, PackedOf
  <2>2. s # e
    BY <1>2, <2>1
  <2>3. s.id # e.id
    BY <1>1, <2>2, InputTypes
  <2>4. QED BY <1>3, <2>1, <2>3
<1>6. TypeOK'
  <2>1. \A p \in patches' : p.offset < PatchEnd(p) /\ PatchEnd(p) <= outputLen'
    <3>1. ASSUME NEW p \in patches PROVE p.offset < PatchEnd(p) /\ PatchEnd(p) <= outputLen'
      <4>1. p.offset < PatchEnd(p) /\ PatchEnd(p) <= outputLen
        BY DEF Inv, IInv, TypeOK
      <4>2. PatchEnd(p) \in Nat
        <5>1. p \in StreamPatches
          BY <1>1 DEF Inv, IInv, LaidOut
        <5>2. PICK s \in Streams, l \in packed : Renewed(s, l) /\ p \in PatchesOf(s, l)
          BY <1>4, <5>1, StreamPatchOf
        <5>3. QED BY <1>1, <5>2, StreamPatchShape DEF PatchShape
      <4>3. QED BY <1>3, <4>1, <4>2
    <3>2. ASSUME NEW p \in PatchesOf(e, k) PROVE p.offset < PatchEnd(p) /\ PatchEnd(p) <= outputLen'
      <4>1. PatchShape(p) /\ (LowPatch(p, e) \/ HighPatch(p, k))
        BY <1>1, <1>2, StreamPatchShape
      <4>2. CASE LowPatch(p, e)
        BY <1>3, <4>1, <4>2 DEF PatchShape, LowPatch
      <4>3. CASE HighPatch(p, k)
        BY <1>2, <1>3, <4>1, <4>3 DEF PatchShape, HighPatch
      <4>4. QED BY <4>1, <4>2, <4>3
    <3>3. QED BY <1>2, <3>1, <3>2
  <2>2. {l.id : l \in packed'} = {s.id : s \in placed'}
    <3>1. {l.id : l \in packed} = {s.id : s \in placed}
      BY DEF Inv, IInv, TypeOK
    <3>2. {l.id : l \in packed'} = {l.id : l \in packed} \cup {k.id}
      BY <1>2
    <3>3. {s.id : s \in placed'} = {s.id : s \in placed} \cup {e.id}
      BY <1>2
    <3>4. QED BY <1>3, <3>1, <3>2, <3>3
  <2>3. placed' \subseteq Streams'
    BY <1>1, <1>2
  <2>4. /\ DOMAIN plans' = {s.id : s \in Streams'} /\ outputLen' >= Len(input'.bytes)
        /\ pos' = Len(output') /\ pos' <= outputLen'
    <3>1. pos = Len(output) /\ pos <= outputLen /\ DOMAIN plans = {s.id : s \in Streams}
      BY DEF Inv, IInv, TypeOK
    <3>2. output = <<>>
      BY <1>1 DEF Inv, IInv, WrittenSoFar
    <3>3. QED BY <1>1, <1>3, <3>1, <3>2
  <2>5. QED BY <1>1, <1>3, <2>1, <2>2, <2>3, <2>4 DEF TypeOK, Outcomes
<1>7. PlansFit'
  <2>1. \A s \in Streams : plans[s.id] = Plan(s) /\ plans[s.id] \in {None, Plan(s)}
    BY <1>1 DEF Inv, IInv, PlansFit
  <2>2. (\A s \in Streams : plans[s.id] = Plan(s) /\ plans[s.id] \in {None, Plan(s)})'
    BY <1>1, <2>1, SameInput
  <2>3. (InOrder(Streams, Len(input.bytes)) /\ CheckFields(input.bytes, Streams))'
    BY <1>1, <1>4, SameInput DEF Laid
  <2>4. QED BY <1>1, <2>2, <2>3 DEF PlansFit
<1>8. PackedFit'
  <2>0. PackedFit
    BY <1>4 DEF Laid
  <2>1. (\A l \in packed : \E s \in placed : Renewed(s, l))'
    <3>1. \A l \in packed : \E s \in placed : Renewed(s, l)
      BY <2>0 DEF PackedFit
    <3>2. \A l \in packed' : \E s \in placed' : Renewed(s, l)
      BY <1>2, <3>1
    <3>3. QED BY <1>1, <3>2, SameInput
  <2>2. \A l, m \in packed' : l.id = m.id => l = m
    BY <1>2, <1>5, <2>0 DEF PackedFit
  <2>3. Moved' = Moved \cup (IF k.offset >= Len(input.bytes) THEN {k} ELSE {})
    BY <1>1, <1>2 DEF Moved
  <2>4. CASE k.offset >= Len(input.bytes)
    <3>1. Moved' = Moved \cup {k} /\ outputLen' = End(k) /\ k.offset >= outputLen /\ k \in Moved'
      BY <1>2, <2>3, <2>4
    <3>2. \A l \in Moved : End(l) <= outputLen /\ l \in packed
      BY <2>0 DEF PackedFit, Moved
    <3>3. \A l \in Moved : End(l) <= k.offset /\ End(l) <= outputLen'
      BY <1>3, <1>5, <3>1, <3>2
    <3>4. \A l \in Moved' : End(l) <= outputLen'
      BY <1>3, <3>1, <3>3
    <3>5. \A l, m \in Moved' : l # m => End(l) <= m.offset \/ End(m) <= l.offset
      BY <2>0, <3>1, <3>3 DEF PackedFit
    <3>6. QED BY <2>1, <2>2, <3>1, <3>4, <3>5 DEF PackedFit
  <2>5. CASE ~ (k.offset >= Len(input.bytes))
    <3>1. Moved' = Moved /\ outputLen' = outputLen /\ input.bytes' = input.bytes
      BY <1>1, <1>2, <2>3, <2>5
    <3>2. /\ \A l \in Moved' : End(l) <= outputLen'
          /\ \A l, m \in Moved' : l # m => End(l) <= m.offset \/ End(m) <= l.offset
          /\ outputLen' = Len(input.bytes)' \/ \E l \in Moved' : End(l) = outputLen'
      BY <2>0, <3>1 DEF PackedFit
    <3>3. QED BY <2>1, <2>2, <3>2 DEF PackedFit
  <2>6. QED BY <2>4, <2>5
<1>9. LaidOut'
  <2>1. patches = StreamPatches
    BY <1>1 DEF Inv, IInv, LaidOut
  <2> DEFINE For(l) == UNION {PatchesOf(s, l) : s \in {t \in Streams : t.id = l.id}}
  <2>2. \A p : p \in StreamPatches' <=> \E l \in packed' : p \in For(l)
    <3>1. StreamPatches' = UNION {For(l) : l \in packed'}
      BY <1>1, SameInput DEF StreamPatches
    <3> HIDE DEF For
    <3>2. QED BY <3>1
  <2>3. For(k) = PatchesOf(e, k)
    <3>1. {t \in Streams : t.id = k.id} = {e}
      BY <1>1, <1>2, <1>3, InputTypes
    <3>2. QED BY <3>1
  <2>4. \A p : p \in StreamPatches <=> \E l \in packed : p \in For(l)
    <3>1. StreamPatches = UNION {For(l) : l \in packed}
      BY DEF StreamPatches
    <3> HIDE DEF For
    <3>2. QED BY <3>1
  <2> HIDE DEF For
  <2>5. \A p : p \in StreamPatches' <=> p \in patches'
    BY <1>2, <2>1, <2>2, <2>3, <2>4
  <2>6. patches' = StreamPatches'
    <3> DEFINE old == StreamPatches
               new == StreamPatches'
               laid == patches'
               added == PatchesOf(e, k)
    <3>1. laid = patches \cup added /\ new = UNION {For(l) : l \in packed'}
      BY <1>1, <1>2, SameInput DEF StreamPatches, For
    <3>2. \A p : p \in new <=> p \in laid
      BY <2>5
    <3> HIDE DEF new, laid, added
    <3>3. new = laid
      BY <3>1, <3>2
    <3>4. QED BY <3>3 DEF new, laid
  <2>7. QED BY <1>1, <2>6 DEF LaidOut
<1>10. WrittenSoFar'
  BY <1>1 DEF Inv, IInv, WrittenSoFar
<1>11. WrittenIsFaithful' /\ PlanIsWritable'
  BY <1>1, NothingToShow DEF Failures
<1>12. QED BY <1>1, <1>6, <1>7, <1>8, <1>9, <1>10, <1>11 DEF Inv, IInv

LEMMA EndPlaceInv == Inv /\ EndPlace => Inv'
<1> SUFFICES ASSUME Inv, EndPlace PROVE Inv'
  OBVIOUS
<1>1. /\ input' = input /\ input \in Inputs /\ pc = "Place"
      /\ UNCHANGED <<plans, placed, packed, output, pos>> /\ outcome = "None"
      /\ Streams' = Streams /\ input.bytes' = input.bytes
  BY SameInput DEF EndPlace, Inv, IInv, TypeOK, writer
<1>2. CASE TooLarge
  <2>1. pc' = "Returned" /\ outcome' = "TooLarge" /\ patches' = {} /\ outputLen' = Len(input.bytes)
    BY <1>2 DEF EndPlace, Return
  <2>2. output = <<>> /\ pos = 0 /\ Len(input.bytes) \in Nat
    BY <1>1, InputTypes DEF Inv, IInv, WrittenSoFar, TypeOK
  <2>3. TypeOK'
    <3>1. /\ placed' \subseteq Streams' /\ DOMAIN plans' = {e.id : e \in Streams'}
          /\ {e.id : e \in packed'} = {e.id : e \in placed'}
      BY <1>1 DEF Inv, IInv, TypeOK
    <3>2. /\ outputLen' \in Nat /\ outputLen' >= Len(input'.bytes)
          /\ pos' = 0 /\ output' = <<>> /\ 0 <= outputLen' /\ Len(<<>>) = 0
      BY <1>1, <2>1, <2>2
    <3>3. QED BY <2>1, <3>1, <3>2 DEF TypeOK, Outcomes
  <2>4. WrittenIsFaithful' /\ PlanIsWritable'
    BY <2>1, NothingToShow DEF Failures
  <2>5. QED BY <1>1, <2>1, <2>3, <2>4 DEF Inv, IInv
<1>3. CASE ~ TooLarge
  <2>1. pc' = "Fields" /\ UNCHANGED <<outcome, patches, outputLen>>
    BY <1>3 DEF EndPlace
  <2>2. TypeOK'
    BY <1>1, <2>1, GoesOn DEF Inv, IInv, TypeOK
  <2>3. PlansFit'
    <3>1. \A e \in Streams : plans'[e.id] = Plan(e) /\ Plan(e).status # "TooLarge"
      <4>1. \A e \in Streams : plans[e.id] = Plan(e)
        BY <1>1 DEF Inv, IInv, PlansFit
      <4>2. QED BY <1>1, <1>3, <4>1 DEF TooLarge
    <3>2. (\A e \in Streams : plans[e.id] = Plan(e) /\ Plan(e).status # "TooLarge")'
      BY <1>1, <3>1, SameInput
    <3>3. (InOrder(Streams, Len(input.bytes)) /\ CheckFields(input.bytes, Streams))'
      BY <1>1, SameInput DEF Inv, IInv, PlansFit
    <3>4. QED BY <2>1, <3>2, <3>3 DEF PlansFit
  <2>4. PackedFit' /\ LaidOut'
    BY <1>1, <2>1, SamePacked DEF Inv, IInv, LaidOut
  <2>5. WrittenSoFar'
    BY <1>1, <2>1 DEF Inv, IInv, WrittenSoFar
  <2>6. WrittenIsFaithful' /\ PlanIsWritable'
    BY <1>1, <2>1, NothingToShow DEF Failures
  <2>7. QED BY <1>1, <2>2, <2>3, <2>4, <2>5, <2>6 DEF Inv, IInv
<1>4. QED BY <1>2, <1>3

LEMMA PlansStay ==
  ASSUME Inv, input' = input, plans' = plans, pc \in {"Fields", "Overlap", "Write", "Verify"},
         pc' \in {"Fields", "Overlap", "Write", "Verify"}
  PROVE  PlansFit'
<1>1. \A e \in Streams : plans'[e.id] = Plan(e) /\ Plan(e).status # "TooLarge"
  BY DEF Inv, IInv, PlansFit
<1>2. (\A e \in Streams : plans[e.id] = Plan(e) /\ Plan(e).status # "TooLarge")'
  BY <1>1, SameInput
<1>3. (InOrder(Streams, Len(input.bytes)) /\ CheckFields(input.bytes, Streams))'
  BY SameInput DEF Inv, IInv, PlansFit
<1>4. QED BY <1>2, <1>3 DEF PlansFit

LEMMA UpdateFieldsInv == Inv /\ UpdateFields => Inv'
<1> SUFFICES ASSUME Inv, UpdateFields PROVE Inv'
  OBVIOUS
<1>1. /\ input' = input /\ input \in Inputs /\ pc = "Fields"
      /\ UNCHANGED <<plans, placed, outputLen, packed, output, pos>> /\ outcome = "None"
      /\ Streams' = Streams /\ input.bytes' = input.bytes
  BY SameInput DEF UpdateFields, Inv, IInv, TypeOK, writer
<1>2. CASE AllHold
  <2>1. pc' = "Overlap" /\ outcome' = outcome /\ patches' = patches \cup FieldPatches
    BY <1>2 DEF UpdateFields, AllHold
  <2>2. Laid
    BY <1>1, LaidNow
  <2>3. \A p \in patches' : p.offset < PatchEnd(p) /\ PatchEnd(p) <= outputLen
    <3>1. ASSUME NEW p \in FieldPatches PROVE p.offset < PatchEnd(p) /\ PatchEnd(p) <= outputLen
      <4>1. PICK k \in packed : \E f \in k.fields : p.offset = f.offset /\ PatchEnd(p) = f.offset + 1
        BY <1>2, <2>2, FieldPatchOf DEF AllHold
      <4>2. PICK f \in k.fields : p.offset = f.offset /\ PatchEnd(p) = f.offset + 1
        BY <4>1
      <4>3. f.offset \in Nat /\ f.offset < Len(input.bytes)
        BY <2>2, PackedField
      <4>4. outputLen \in Nat /\ outputLen >= Len(input.bytes) /\ Len(input.bytes) \in Nat
        BY <1>1, InputTypes DEF Inv, IInv, TypeOK
      <4>5. QED BY <4>2, <4>3, <4>4
    <3>2. QED BY <2>1, <3>1 DEF Inv, IInv, TypeOK
  <2>4. TypeOK'
    BY <1>1, <2>1, <2>3 DEF Inv, IInv, TypeOK, Outcomes
  <2>5. PackedFit' /\ StreamPatches' = StreamPatches /\ FieldPatches' = FieldPatches
    BY <1>1, SamePacked DEF Inv, IInv
  <2>6. LaidOut'
    <3>1. patches' = StreamPatches \cup FieldPatches
      BY <1>1, <2>1 DEF Inv, IInv, LaidOut
    <3>2. (\A e \in packed : \A f \in e.fields : Holds(f, e))'
      BY <1>1, <1>2 DEF AllHold
    <3>3. QED BY <2>1, <2>5, <3>1, <3>2 DEF LaidOut
  <2>7. WrittenSoFar'
    BY <1>1, <2>1 DEF Inv, IInv, WrittenSoFar
  <2>8. PlansFit'
    BY <1>1, <2>1, PlansStay
  <2>9. WrittenIsFaithful' /\ PlanIsWritable'
    BY <1>1, <2>1, NothingToShow DEF Failures
  <2>10. QED BY <1>1, <2>4, <2>5, <2>6, <2>7, <2>8, <2>9 DEF Inv, IInv
<1>3. CASE ~ AllHold
  <2>1. pc' = "Returned" /\ outcome' = "FieldTooSmall" /\ patches' = patches
    BY <1>3 DEF UpdateFields, AllHold, Return
  <2>2. TypeOK'
    BY <1>1, <2>1, GoesOn DEF Inv, IInv, Outcomes
  <2>3. WrittenIsFaithful' /\ PlanIsWritable'
    BY <2>1, NothingToShow DEF Failures
  <2>4. QED BY <1>1, <2>1, <2>2, <2>3 DEF Inv, IInv
<1>4. QED BY <1>2, <1>3

(* When nothing but the control state and the writer changes.               *)
LEMMA LaidStays ==
  ASSUME Inv, UNCHANGED <<input, plans, placed, patches, outputLen, packed>>,
         pc \in {"Overlap", "Write", "Verify"}, pc' \in {"Overlap", "Write", "Verify"},
         Apart(patches)
  PROVE  PlansFit' /\ PackedFit' /\ LaidOut'
<1>1. PlansFit'
  BY PlansStay
<1>2. PackedFit' /\ StreamPatches' = StreamPatches /\ FieldPatches' = FieldPatches
  BY SamePacked DEF Inv, IInv
<1>3. LaidOut'
  BY <1>2 DEF Inv, IInv, LaidOut
<1>4. QED BY <1>1, <1>2, <1>3

LEMMA PatchesLaid ==
  ASSUME Inv, pc \in {"Overlap", "Write", "Verify"}
  PROVE  /\ Laid /\ AllHold /\ patches = StreamPatches \cup FieldPatches
         /\ \A p \in patches : PatchShape(p) /\ PatchEnd(p) <= outputLen
         /\ Len(input.bytes) \in Nat /\ outputLen \in Nat /\ outputLen >= Len(input.bytes)
<1>1. Laid
  BY LaidNow
<1>2. AllHold /\ patches = StreamPatches \cup FieldPatches
  BY DEF Inv, IInv, LaidOut, AllHold
<1>3. \A p \in patches : PatchShape(p)
  BY <1>1, <1>2, PatchOf
<1>4. QED BY <1>1, <1>2, <1>3, InputTypes DEF Inv, IInv, TypeOK

LEMMA CheckOverlapInv == Inv /\ CheckOverlap => Inv'
<1> SUFFICES ASSUME Inv, CheckOverlap PROVE Inv'
  OBVIOUS
<1>1. /\ input' = input /\ input \in Inputs /\ pc = "Overlap"
      /\ UNCHANGED <<plans, placed, patches, outputLen, packed, output, pos>> /\ outcome = "None"
      /\ Streams' = Streams /\ input.bytes' = input.bytes
  BY SameInput DEF CheckOverlap, Inv, IInv, TypeOK, writer, result
<1>2. /\ Laid /\ AllHold /\ patches = StreamPatches \cup FieldPatches
      /\ \A p \in patches : PatchShape(p)
  BY <1>1, PatchesLaid
<1> DEFINE Overlap == \E p, q \in patches : p # q /\ p.offset <= q.offset /\ PatchEnd(p) > q.offset
<1>3. Overlap <=> ~ Apart(patches)
  <2>1. \A p, q \in patches : PatchEnd(p) > q.offset <=> ~ (PatchEnd(p) <= q.offset)
    BY <1>2 DEF PatchShape
  <2>2. QED BY <2>1 DEF Apart
<1>4. CASE Overlap
  <2>1. pc' = "Returned" /\ outcome' = "InternalError"
    BY <1>4 DEF CheckOverlap, Return
  <2>2. FieldInSlack
    BY <1>2, <1>3, <1>4, PatchesAreApart
  <2>3. FieldInSlack'
    BY <1>1, <2>2, SameInput
  <2>4. WrittenIsFaithful' /\ PlanIsWritable'
    BY <2>1, <2>3 DEF WrittenIsFaithful, PlanIsWritable
  <2>5. TypeOK'
    BY <1>1, <2>1, GoesOn DEF Inv, IInv, Outcomes
  <2>6. QED BY <1>1, <2>1, <2>4, <2>5 DEF Inv, IInv
<1>5. CASE ~ Overlap /\ input.dryRun
  <2>1. pc' = "Returned" /\ outcome' = "Planned"
    BY <1>5 DEF CheckOverlap, Return
  <2>2. TypeOK'
    BY <1>1, <2>1, GoesOn DEF Inv, IInv, Outcomes
  <2>3. WrittenIsFaithful' /\ PlanIsWritable'
    BY <2>1, NothingToShow DEF Failures
  <2>4. QED BY <1>1, <2>1, <2>2, <2>3 DEF Inv, IInv
<1>6. CASE ~ Overlap /\ ~ input.dryRun
  <2>1. pc' = "Write" /\ outcome' = outcome
    BY <1>6 DEF CheckOverlap
  <2>2. TypeOK'
    BY <1>1, <2>1, GoesOn DEF Inv, IInv, Outcomes
  <2>3. PlansFit' /\ PackedFit' /\ LaidOut'
    BY <1>1, <1>3, <1>6, <2>1, LaidStays
  <2>4. WrittenSoFar'
    <3>1. output = <<>> /\ pos = 0
      BY <1>1 DEF Inv, IInv, WrittenSoFar, TypeOK
    <3>2. \A p \in patches : PatchEnd(p) <= 0 \/ 0 <= p.offset
      BY <1>2 DEF PatchShape
    <3>3. <<>> \in Seq(AnyByte)
      OBVIOUS
    <3>4. QED BY <1>1, <2>1, <3>1, <3>2, <3>3 DEF WrittenSoFar
  <2>5. WrittenIsFaithful' /\ PlanIsWritable'
    BY <1>1, <2>1, NothingToShow DEF Failures
  <2>6. QED BY <1>1, <2>2, <2>3, <2>4, <2>5 DEF Inv, IInv
<1>7. QED BY <1>4, <1>5, <1>6

(* A patch past the end of the input is that of a stream that has moved.    *)
LEMMA PastTheEnd ==
  ASSUME Laid, AllHold, NEW p \in StreamPatches \cup FieldPatches,
         p.offset > Len(input.bytes) \/ PatchEnd(p) > Len(input.bytes)
  PROVE  \E k \in Moved : p.offset = k.offset /\ PatchEnd(p) = End(k)
<1>1. PatchShape(p) /\ Len(input.bytes) \in Nat
  BY PatchOf, InputTypes DEF Laid
<1>2. ~ (PatchEnd(p) <= Len(input.bytes))
  BY <1>1 DEF PatchShape
<1>3. ASSUME NEW s \in Streams, LowPatch(p, s) PROVE FALSE
  <2>1. End(s) + Slack(s) <= Len(input.bytes) /\ End(s) \in Nat /\ Slack(s) \in Nat
    BY RoomApart, SlackOf, InputTypes, EndType DEF Laid
  <2>2. QED BY <1>1, <1>2, <1>3, <2>1 DEF LowPatch, PatchShape
<1>4. ASSUME NEW k \in packed, NEW f \in k.fields, PatchEnd(p) = f.offset + 1 PROVE FALSE
  <2>1. f.offset \in Nat /\ f.offset < Len(input.bytes)
    BY PackedField
  <2>2. QED BY <1>1, <1>2, <1>4, <2>1
<1>5. PICK k \in packed : HighPatch(p, k)
  BY <1>3, <1>4, PatchOf
<1>6. QED BY <1>5 DEF HighPatch, Moved

LEMMA WritePatchInv == Inv /\ WritePatch => Inv'
<1> SUFFICES ASSUME Inv, WritePatch PROVE Inv'
  OBVIOUS
<1>1. /\ input' = input /\ input \in Inputs /\ pc = "Write"
      /\ UNCHANGED <<plans, placed, patches, outputLen, packed>> /\ outcome = "None"
      /\ Streams' = Streams /\ input.bytes' = input.bytes
  BY SameInput DEF WritePatch, Inv, IInv, TypeOK, result
<1>2. /\ Laid /\ AllHold /\ patches = StreamPatches \cup FieldPatches
      /\ \A p \in patches : PatchShape(p) /\ PatchEnd(p) <= outputLen
      /\ Len(input.bytes) \in Nat /\ outputLen \in Nat /\ outputLen >= Len(input.bytes)
  BY <1>1, PatchesLaid
<1>3. /\ Apart(patches) /\ output \in Seq(AnyByte) /\ pos = Len(output) /\ pos \in Nat
      /\ pos = 0 \/ \E p \in patches : PatchEnd(p) = pos
      /\ \A p \in patches : PatchEnd(p) <= pos \/ pos <= p.offset
      /\ \A i \in 0 .. pos - 1 :
           /\ \A p \in patches : Covers(p, i) => output[i + 1] = PatchByte(p, i)
           /\ (\A p \in patches : ~ Covers(p, i)) => output[i + 1] = InputByte(i)
  BY <1>1 DEF Inv, IInv, TypeOK, LaidOut, WrittenSoFar
<1>4. PICK p \in Unwritten :
        /\ \A q \in Unwritten : p.offset <= q.offset
        /\ IF CopyPanics(pos, p.offset)
           THEN Return("Panicked") /\ UNCHANGED writer
           ELSE /\ output' = output \o Copy(pos, p.offset) \o p.bytes
                               \o Zeros(PatchEnd(p) - p.offset - Len(p.bytes))
                /\ pos' = PatchEnd(p)
                /\ UNCHANGED <<pc, outcome>>
  BY DEF WritePatch
<1>5. p \in patches /\ PatchEnd(p) > pos /\ PatchShape(p)
  BY <1>2, <1>4 DEF Unwritten
<1>6. /\ \A q \in patches : q.offset \in Nat /\ PatchEnd(q) \in Nat /\ q.offset < PatchEnd(q)
      /\ \A q \in patches : PatchEnd(q) > pos => p.offset <= q.offset
      /\ pos <= p.offset
  <2>1. \A q \in patches : q.offset \in Nat /\ PatchEnd(q) \in Nat /\ q.offset < PatchEnd(q)
    BY <1>2 DEF PatchShape
  <2>2. QED BY <1>3, <1>4, <1>5, <2>1 DEF Unwritten
<1>7. CASE CopyPanics(pos, p.offset)
  <2>1. pc' = "Returned" /\ outcome' = "Panicked" /\ UNCHANGED <<output, pos>>
    BY <1>4, <1>7 DEF Return, writer
  <2>2. pos < p.offset /\ pos > Len(input.bytes)
    BY <1>7 DEF CopyPanics
  <2>3. PICK q \in patches : PatchEnd(q) = pos
    BY <1>2, <1>3, <2>2
  <2>4. PICK k \in Moved : PatchEnd(q) = End(k)
    BY <1>2, <2>2, <2>3, PastTheEnd
  <2>5. PICK l \in Moved : p.offset = l.offset
    <3>1. p.offset > Len(input.bytes)
      BY <1>2, <1>3, <1>5, <1>6, <2>2
    <3>2. QED BY <1>2, <1>5, <3>1, PastTheEnd
  <2>6. PaddedBetween
    BY <2>2, <2>3, <2>4, <2>5 DEF PaddedBetween
  <2>7. PaddedBetween'
    BY <1>1, <2>6, SamePacked
  <2>8. WrittenIsFaithful' /\ PlanIsWritable'
    BY <2>1, <2>7 DEF WrittenIsFaithful, PlanIsWritable
  <2>9. TypeOK'
    BY <1>1, <2>1, GoesOn DEF Inv, IInv, Outcomes
  <2>10. QED BY <1>1, <2>1, <2>8, <2>9 DEF Inv, IInv
<1>8. CASE ~ CopyPanics(pos, p.offset)
  <2>1. pc' = "Write" /\ outcome' = outcome /\ pos' = PatchEnd(p)
    BY <1>1, <1>4, <1>8
  <2>2. /\ output' \in Seq(AnyByte) /\ Len(output') = PatchEnd(p)
        /\ \A i \in 0 .. PatchEnd(p) - 1 :
             output'[i + 1] = IF i < pos THEN output[i + 1]
                              ELSE IF i < p.offset THEN InputByte(i) ELSE PatchByte(p, i)
    <3> DEFINE out == output \o Copy(pos, p.offset) \o p.bytes
                             \o Zeros(PatchEnd(p) - p.offset - Len(p.bytes))
    <3>1. /\ out \in Seq(AnyByte) /\ Len(out) = PatchEnd(p)
          /\ \A i \in 0 .. PatchEnd(p) - 1 :
               out[i + 1] = IF i < pos THEN output[i + 1]
                            ELSE IF i < p.offset THEN InputByte(i) ELSE PatchByte(p, i)
      BY <1>1, <1>3, <1>5, <1>6, <1>8, PatchPutIn
    <3>2. output' = out
      BY <1>4, <1>8
    <3> HIDE DEF out
    <3>3. QED BY <3>1, <3>2
  <2>3. TypeOK'
    <3>1. pos' = Len(output') /\ pos' <= outputLen
      BY <1>2, <1>5, <2>1, <2>2
    <3>2. QED BY <1>1, <2>1, <3>1 DEF Inv, IInv, TypeOK
  <2>4. PlansFit' /\ PackedFit' /\ LaidOut'
    BY <1>1, <1>3, <2>1, LaidStays
  <2>5. \A q \in patches : PatchEnd(q) <= PatchEnd(p) \/ (q # p /\ PatchEnd(p) <= q.offset)
    <3> SUFFICES ASSUME NEW q \in patches
                 PROVE  PatchEnd(q) <= PatchEnd(p) \/ (q # p /\ PatchEnd(p) <= q.offset)
      OBVIOUS
    <3>1. CASE PatchEnd(q) <= pos
      BY <1>3, <1>5, <1>6, <3>1
    <3>2. CASE q # p /\ PatchEnd(q) > pos
      BY <1>3, <1>5, <1>6, <3>2 DEF Apart
    <3>3. QED BY <1>3, <1>5, <1>6, <3>1, <3>2
  <2>6. ASSUME NEW i \in 0 .. PatchEnd(p) - 1
        PROVE  /\ \A q \in patches : Covers(q, i) => output'[i + 1] = PatchByte(q, i)
               /\ (\A q \in patches : ~ Covers(q, i)) => output'[i + 1] = InputByte(i)
    <3>1. i \in Nat /\ i < PatchEnd(p)
      BY <1>5, <1>6
    <3>2. CASE i < pos
      <4>1. i \in 0 .. pos - 1 /\ output'[i + 1] = output[i + 1]
        BY <1>3, <2>2, <3>1, <3>2
      <4>2. QED BY <1>3, <4>1
    <3>3. CASE ~ (i < pos) /\ i < p.offset
      <4>1. output'[i + 1] = InputByte(i)
        BY <2>2, <3>3
      <4>2. \A q \in patches : ~ Covers(q, i)
        BY <1>3, <1>5, <1>6, <3>1, <3>3 DEF Covers
      <4>3. QED BY <4>1, <4>2
    <3>4. CASE ~ (i < p.offset)
      <4>1. output'[i + 1] = PatchByte(p, i)
        BY <1>3, <1>5, <1>6, <2>2, <3>1, <3>4
      <4>2. Covers(p, i)
        BY <1>5, <1>6, <3>1, <3>4 DEF Covers
      <4>3. ASSUME NEW q \in patches, Covers(q, i) PROVE q = p
        <5>1. PatchEnd(q) > pos
          BY <1>3, <1>5, <1>6, <3>1, <3>4, <4>3 DEF Covers
        <5>2. p.offset <= q.offset
          BY <1>6, <5>1
        <5>3. ASSUME q # p PROVE FALSE
          <6>1. PatchEnd(p) <= q.offset
            BY <1>3, <1>5, <5>2, <5>3 DEF Apart
          <6>2. QED BY <1>5, <1>6, <3>1, <4>3, <6>1 DEF Covers
        <5>4. QED BY <5>3
      <4>4. QED BY <1>5, <4>1, <4>2, <4>3
    <3>5. QED BY <3>2, <3>3, <3>4
  <2>7. WrittenSoFar'
    <3>1. \A i \in 0 .. pos' - 1 :
            /\ \A q \in patches' : Covers(q, i) => output'[i + 1] = PatchByte(q, i)
            /\ (\A q \in patches' : ~ Covers(q, i)) => output'[i + 1] = InputByte(i)'
      BY <1>1, <2>1, <2>6, SameInput
    <3>2. \A q \in patches' : PatchEnd(q) <= pos' \/ pos' <= q.offset
      BY <1>1, <2>1, <2>5
    <3>3. \E q \in patches' : PatchEnd(q) = pos'
      BY <1>1, <1>5, <2>1
    <3>4. QED BY <2>1, <2>2, <3>1, <3>2, <3>3 DEF WrittenSoFar
  <2>8. WrittenIsFaithful' /\ PlanIsWritable'
    BY <1>1, <2>1, NothingToShow DEF Failures
  <2>9. QED BY <1>1, <2>3, <2>4, <2>7, <2>8 DEF Inv, IInv
<1>9. QED BY <1>7, <1>8

(* The patch of a new entry holds its bytes, where it is.                   *)
LEMMA PatchOfEntry ==
  ASSUME Laid, NEW k \in packed, NEW s \in Streams, s.id = k.id, Plan(s).status = "Repacked"
  PROVE  \E p \in StreamPatches :
           /\ p.offset = k.offset /\ p.bytes = EditedBytes(s, k.size) /\ Len(p.bytes) = k.size
           /\ End(k) <= PatchEnd(p)
           /\ k.offset >= Len(input.bytes) => PatchEnd(p) = End(k)
<1>1. Renewed(s, k) /\ k \in Entries /\ s \in Entries
  BY PackedOf, InputTypes DEF Laid
<1>2. /\ k.offset \in Nat /\ k.size \in Nat /\ End(k) \in Nat /\ End(k) = k.offset + k.size
      /\ s.offset \in Nat /\ End(s) \in Nat /\ s.offset < End(s) /\ Len(input.bytes) \in Nat
      /\ Slack(s) \in Nat /\ End(s) + Slack(s) <= Len(input.bytes)
  BY <1>1, EndType, InputTypes, SlackOf, RoomApart DEF Laid
<1> DEFINE clear == IF Plan(s).relocate THEN 0 ELSE End(s)
           p == Patch(k.offset, EditedBytes(s, k.size), clear)
<1>3. p \in PatchesOf(s, k)
  <2>1. CASE Plan(s).relocate
    BY <2>1 DEF PatchesOf
  <2>2. CASE ~ Plan(s).relocate
    <3>1. k.offset = s.offset
      BY <1>1, <2>2, RenewedEntry DEF AtHome, Laid
    <3>2. QED BY <2>2, <3>1 DEF PatchesOf
  <2>3. QED BY <2>1, <2>2
<1>4. p \in StreamPatches
  BY <1>3 DEF StreamPatches
<1>5. p.offset = k.offset /\ p.bytes = EditedBytes(s, k.size) /\ p.clearTo = clear
  BY DEF Patch
<1> HIDE DEF p
<1>6. Len(p.bytes) = k.size
  BY <1>1, <1>2, <1>5, EditedBytesType
<1>7. PatchEnd(p) = IF End(k) > clear THEN End(k) ELSE clear
  BY <1>2, <1>5, <1>6 DEF PatchEnd
<1>8. k.offset >= Len(input.bytes) => clear = 0
  <2>1. ASSUME ~ Plan(s).relocate, k.offset >= Len(input.bytes) PROVE FALSE
    <3>1. k.offset = s.offset
      BY <1>1, <2>1, RenewedEntry DEF AtHome, Laid
    <3>2. QED BY <1>2, <2>1, <3>1
  <2>2. QED BY <2>1
<1>9. clear \in Nat
  BY <1>2
<1> HIDE DEF clear
<1>10. QED BY <1>2, <1>4, <1>5, <1>6, <1>7, <1>8, <1>9

LEMMA WriteTailInv == Inv /\ WriteTail => Inv'
<1> SUFFICES ASSUME Inv, WriteTail PROVE Inv'
  OBVIOUS
<1>1. /\ input' = input /\ input \in Inputs /\ pc = "Write" /\ Unwritten = {}
      /\ UNCHANGED <<plans, placed, patches, outputLen, packed>> /\ outcome = "None"
      /\ Streams' = Streams /\ input.bytes' = input.bytes
  BY SameInput DEF WriteTail, Inv, IInv, TypeOK, result
<1>2. /\ Laid /\ AllHold /\ patches = StreamPatches \cup FieldPatches
      /\ \A p \in patches : PatchShape(p) /\ PatchEnd(p) <= outputLen
      /\ Len(input.bytes) \in Nat /\ outputLen \in Nat /\ outputLen >= Len(input.bytes)
  BY <1>1, PatchesLaid
<1>3. /\ Apart(patches) /\ output \in Seq(AnyByte) /\ pos = Len(output) /\ pos \in Nat
      /\ pos <= outputLen
      /\ \A i \in 0 .. pos - 1 :
           /\ \A p \in patches : Covers(p, i) => output[i + 1] = PatchByte(p, i)
           /\ (\A p \in patches : ~ Covers(p, i)) => output[i + 1] = InputByte(i)
  BY <1>1 DEF Inv, IInv, TypeOK, LaidOut, WrittenSoFar
<1>4. \A p \in patches : PatchEnd(p) <= pos /\ p.offset \in Nat /\ PatchEnd(p) \in Nat
  <2>1. \A p \in patches : ~ (PatchEnd(p) > pos)
    BY <1>1 DEF Unwritten
  <2>2. QED BY <1>2, <1>3, <2>1 DEF PatchShape
<1>5. ~ CopyPanics(pos, outputLen)
  <2> SUFFICES ASSUME pos < outputLen, pos > Len(input.bytes) PROVE FALSE
    BY DEF CopyPanics
  <2>1. PICK k \in Moved : End(k) = outputLen
    BY <1>2, <1>3 DEF Laid, PackedFit
  <2>2. k \in packed /\ k.offset >= Len(input.bytes)
    BY <2>1 DEF Moved
  <2>3. PICK s \in Streams : s.id = k.id /\ Renewed(s, k)
    BY <1>2, <2>2, PackedOf
  <2>4. Plan(s).status = "Repacked"
    <3>1. ASSUME Plan(s).status # "Repacked" PROVE FALSE
      <4>1. k.offset = s.offset
        BY <1>2, <2>3, <3>1, RenewedEntry DEF AtHome, Laid
      <4>2. /\ s.offset \in Nat /\ End(s) \in Nat /\ s.offset < End(s)
            /\ Slack(s) \in Nat /\ End(s) + Slack(s) <= Len(input.bytes)
        BY <1>2, EndType, InputTypes, SlackOf, RoomApart DEF Laid
      <4>3. QED BY <1>2, <2>2, <4>1, <4>2
    <3>2. QED BY <3>1
  <2>5. PICK p \in StreamPatches : PatchEnd(p) = End(k)
    BY <1>2, <2>2, <2>3, <2>4, PatchOfEntry
  <2>6. PatchEnd(p) <= pos
    BY <1>2, <1>4, <2>5
  <2>7. QED BY <1>2, <1>3, <2>1, <2>5, <2>6
<1>6. pc' = "Verify" /\ outcome' = outcome /\ pos' = outputLen /\ output' = output \o Copy(pos, outputLen)
  BY <1>5 DEF WriteTail
<1>7. /\ output' \in Seq(AnyByte) /\ Len(output') = outputLen
      /\ \A i \in 0 .. outputLen - 1 :
           output'[i + 1] = IF i < pos THEN output[i + 1] ELSE InputByte(i)
  <2> DEFINE c == Copy(pos, outputLen)
             out == output'
  <2>1. /\ c \in Seq(AnyByte) /\ Len(c) = outputLen - pos
        /\ \A i \in 1 .. outputLen - pos : c[i] = InputByte(pos + i - 1)
    BY <1>1, <1>2, <1>3, <1>5, CopyOf
  <2>2. out = output \o c
    BY <1>6
  <2> HIDE DEF c, out
  <2>3. /\ out \in Seq(AnyByte) /\ Len(out) = pos + Len(c)
        /\ \A i \in 1 .. pos + Len(c) : out[i] = IF i <= pos THEN output[i] ELSE c[i - pos]
    BY <1>3, <2>1, <2>2, ConcatOf
  <2>4. Len(out) = outputLen
    BY <1>2, <1>3, <2>1, <2>3
  <2>5. ASSUME NEW i \in 0 .. outputLen - 1
        PROVE  out[i + 1] = IF i < pos THEN output[i + 1] ELSE InputByte(i)
    <3>1. i + 1 \in 1 .. pos + Len(c)
      BY <1>2, <1>3, <2>1
    <3>2. CASE i < pos
      BY <1>3, <2>3, <3>1, <3>2
    <3>3. CASE ~ (i < pos)
      <4>1. out[i + 1] = c[(i + 1) - pos] /\ (i + 1) - pos \in 1 .. outputLen - pos
        BY <1>2, <1>3, <2>3, <3>1, <3>3
      <4>2. c[(i + 1) - pos] = InputByte(pos + ((i + 1) - pos) - 1)
        BY <2>1, <4>1
      <4>3. pos + ((i + 1) - pos) - 1 = i
        BY <1>3
      <4>4. QED BY <3>3, <4>1, <4>2, <4>3
    <3>4. QED BY <3>2, <3>3
  <2>6. QED BY <2>3, <2>4, <2>5 DEF out
<1>8. TypeOK'
  <2>1. pos' = Len(output') /\ pos' <= outputLen' /\ pc' = "Verify"
    BY <1>1, <1>2, <1>6, <1>7
  <2>2. \A p \in patches' : p.offset < PatchEnd(p) /\ PatchEnd(p) <= outputLen'
    BY <1>1 DEF Inv, IInv, TypeOK
  <2>3. QED BY <1>1, <1>6, <2>1, <2>2 DEF Inv, IInv, TypeOK
<1>9. PlansFit' /\ PackedFit' /\ LaidOut'
  BY <1>1, <1>3, <1>6, LaidStays
<1>10. ASSUME NEW i \in 0 .. outputLen - 1
       PROVE  /\ \A p \in patches : Covers(p, i) => output'[i + 1] = PatchByte(p, i)
              /\ (\A p \in patches : ~ Covers(p, i)) => output'[i + 1] = InputByte(i)
  <2>1. CASE i < pos
    <3>1. i \in 0 .. pos - 1 /\ output'[i + 1] = output[i + 1]
      BY <1>3, <1>7, <2>1
    <3>2. QED BY <1>3, <3>1
  <2>2. CASE ~ (i < pos)
    <3>1. output'[i + 1] = InputByte(i)
      BY <1>7, <2>2
    <3>2. \A p \in patches : ~ Covers(p, i)
      BY <1>3, <1>4, <2>2 DEF Covers
    <3>3. QED BY <3>1, <3>2
  <2>3. QED BY <2>1, <2>2
<1>11. WrittenSoFar'
  <2>1. \A i \in 0 .. pos' - 1 :
          /\ \A p \in patches' : Covers(p, i) => output'[i + 1] = PatchByte(p, i)
          /\ (\A p \in patches' : ~ Covers(p, i)) => output'[i + 1] = InputByte(i)'
    BY <1>1, <1>6, <1>10, SameInput
  <2>2. \A p \in patches' : PatchEnd(p) <= pos' \/ pos' <= p.offset
    BY <1>1, <1>2, <1>6
  <2>3. pos' = outputLen'
    BY <1>1, <1>6
  <2>4. QED BY <1>6, <1>7, <2>1, <2>2, <2>3 DEF WrittenSoFar
<1>12. WrittenIsFaithful' /\ PlanIsWritable'
  BY <1>1, <1>6, NothingToShow DEF Failures
<1>13. QED BY <1>1, <1>8, <1>9, <1>11, <1>12 DEF Inv, IInv

-----------------------------------------------------------------------------
(* What is written, once it is verified.                                    *)

(* The output is the input with the patches put in.                         *)
PutIn ==
  /\ Laid /\ AllHold /\ patches = StreamPatches \cup FieldPatches
  /\ Len(output) = outputLen /\ outputLen \in Nat /\ outputLen >= Len(input.bytes)
  /\ \A i \in 0 .. outputLen - 1 :
       /\ \A p \in patches : Covers(p, i) => output[i + 1] = PatchByte(p, i)
       /\ (\A p \in patches : ~ Covers(p, i)) => output[i + 1] = InputByte(i)

LEMMA AllPutIn ==
  ASSUME Inv, pc = "Verify"
  PROVE  PutIn
<1>1. pos = outputLen /\ pos = Len(output)
  BY DEF Inv, IInv, WrittenSoFar, TypeOK
<1>2. \A i \in 0 .. outputLen - 1 :
       /\ \A p \in patches : Covers(p, i) => output[i + 1] = PatchByte(p, i)
       /\ (\A p \in patches : ~ Covers(p, i)) => output[i + 1] = InputByte(i)
  BY <1>1 DEF Inv, IInv, WrittenSoFar
<1>3. QED BY <1>1, <1>2, PatchesLaid DEF PutIn

(* A byte of the input that is replaced is one that may change.             *)
LEMMA ChangesWhereItMay ==
  ASSUME PutIn, NEW i \in 0 .. Len(input.bytes) - 1
  PROVE  output[i + 1] = input.bytes[i + 1] \/ MayChange(i)
<1>1. /\ Len(input.bytes) \in Nat /\ i \in Nat /\ i < Len(input.bytes)
      /\ i \in 0 .. outputLen - 1 /\ Laid /\ AllHold /\ input \in Inputs
      /\ InOrder(Streams, Len(input.bytes))
  BY InputTypes DEF PutIn, Laid
<1>2. CASE \A p \in patches : ~ Covers(p, i)
  BY <1>1, <1>2 DEF PutIn, InputByte
<1>3. ASSUME NEW p \in patches, Covers(p, i) PROVE MayChange(i)
  <2>1. p \in StreamPatches \cup FieldPatches /\ PatchShape(p)
    BY <1>1, PatchOf DEF PutIn
  <2>2. ASSUME NEW s \in Streams, IsEdited(s), LowPatch(p, s) PROVE MayChange(i)
    <3>1. /\ s.offset \in Nat /\ End(s) \in Nat /\ Slack(s) \in Nat
          /\ \A q \in Nat : End(s) <= q /\ q < End(s) + Slack(s) =>
               input.useZeroSlack /\ input.bytes[q + 1] = Zero
      BY <1>1, InputTypes, EndType, SlackOf
    <3>2. s.offset <= i /\ i < End(s) + Slack(s)
      BY <1>1, <1>3, <2>1, <2>2, <3>1 DEF Covers, LowPatch, PatchShape
    <3>3. CASE i < End(s)
      BY <2>2, <3>2, <3>3 DEF MayChange
    <3>4. CASE ~ (i < End(s))
      <4>1. input.useZeroSlack
        BY <1>1, <3>1, <3>2, <3>4
      <4>2. \A q \in End(s) .. i : input.bytes[q + 1] = Zero
        BY <1>1, <3>1, <3>2
      <4>3. QED BY <2>2, <3>2, <4>1, <4>2 DEF MayChange
    <3>5. QED BY <3>3, <3>4
  <2>3. ASSUME NEW k \in packed, HighPatch(p, k) PROVE FALSE
    BY <1>1, <1>3, <2>1, <2>3 DEF Covers, HighPatch, PatchShape
  <2>4. ASSUME NEW k \in packed, NEW f \in k.fields, p.offset = f.offset, PatchEnd(p) = f.offset + 1
        PROVE  MayChange(i)
    <3>1. f.offset \in Nat /\ [of |-> k.id, field |-> f] \in FieldsOf(Streams)
      BY <1>1, PackedField
    <3>2. f.offset = i
      BY <1>1, <1>3, <2>4, <3>1 DEF Covers
    <3>3. [of |-> k.id, field |-> f].field.offset = i
      BY <3>2
    <3>4. QED BY <3>1, <3>3 DEF MayChange
  <2>5. QED BY <1>1, <2>1, <2>2, <2>3, <2>4, PatchOf
<1>4. QED BY <1>2, <1>3

(* The new entries lie in the output and apart.                             *)
LEMMA PackedInOrder ==
  ASSUME PutIn
  PROVE  InOrder(packed, Len(output))
<1>1. /\ Laid /\ input \in Inputs /\ InOrder(Streams, Len(input.bytes))
      /\ Len(input.bytes) \in Nat /\ Len(output) = outputLen
      /\ outputLen \in Nat /\ outputLen >= Len(input.bytes)
  BY InputTypes DEF PutIn, Laid
<1>2. ASSUME NEW k \in packed
      PROVE  \E s \in Streams : s.id = k.id /\ (AtHome(s, k) \/ k \in Moved)
  <2>1. PICK s \in Streams : s.id = k.id /\ Renewed(s, k)
    BY <1>1, PackedOf
  <2>2. AtHome(s, k) \/ k.offset >= Len(input.bytes)
    BY <1>1, <2>1, RenewedEntry
  <2>3. QED BY <2>1, <2>2 DEF Moved
<1>3. /\ \A s \in Streams :
           /\ s.offset \in Nat /\ End(s) \in Nat /\ Slack(s) \in Nat
           /\ End(s) + Slack(s) <= Len(input.bytes)
           /\ \A t \in Streams : s # t => \/ End(s) + Slack(s) <= t.offset
                                          \/ End(t) + Slack(t) <= s.offset
      /\ \A k \in packed : k.offset \in Nat /\ End(k) \in Nat
  BY <1>1, InputTypes, EndType, SlackOf, RoomApart, PackedOf
<1>4. \A k \in Moved : k.offset >= Len(input.bytes) /\ End(k) <= outputLen
  BY <1>1 DEF Laid, PackedFit, Moved
<1>5. ASSUME NEW k \in packed PROVE End(k) <= outputLen
  <2>1. PICK s \in Streams : AtHome(s, k) \/ k \in Moved
    BY <1>2
  <2>2. QED BY <1>1, <1>3, <1>4, <2>1 DEF AtHome
<1>6. ASSUME NEW k \in packed, NEW l \in packed, k # l
      PROVE  End(k) <= l.offset \/ End(l) <= k.offset
  <2>1. PICK s \in Streams : s.id = k.id /\ (AtHome(s, k) \/ k \in Moved)
    BY <1>2
  <2>2. PICK t \in Streams : t.id = l.id /\ (AtHome(t, l) \/ l \in Moved)
    BY <1>2
  <2>3. s # t
    BY <1>1, <1>6, <2>1, <2>2 DEF Laid, PackedFit
  <2>4. CASE AtHome(s, k) /\ AtHome(t, l)
    BY <1>3, <2>3, <2>4 DEF AtHome
  <2>5. CASE AtHome(s, k) /\ l \in Moved
    BY <1>1, <1>3, <1>4, <2>5 DEF AtHome
  <2>6. CASE k \in Moved /\ AtHome(t, l)
    BY <1>1, <1>3, <1>4, <2>6 DEF AtHome
  <2>7. CASE k \in Moved /\ l \in Moved
    BY <1>1, <1>6, <2>7 DEF Laid, PackedFit
  <2>8. QED BY <2>1, <2>2, <2>4, <2>5, <2>6, <2>7
<1>7. QED BY <1>1, <1>5, <1>6 DEF InOrder

(* Every stream decodes, unless the input was damaged.                      *)
LEMMA PackedDecodes ==
  ASSUME PutIn, \A s \in Streams : Plan(s).status # "TooLarge", ~ Damaged
  PROVE  StreamsDecode
<1> SUFFICES ASSUME NEW k \in packed
             PROVE  Decodes(output, k, IF IsEdited(k) THEN "Edited" ELSE "Original")
  BY DEF StreamsDecode
<1>1. /\ Laid /\ AllHold /\ input \in Inputs /\ InOrder(Streams, Len(input.bytes))
      /\ Len(input.bytes) \in Nat /\ Len(output) = outputLen
      /\ outputLen \in Nat /\ outputLen >= Len(input.bytes)
  BY InputTypes DEF PutIn, Laid
<1>2. PICK s \in Streams : s.id = k.id /\ Renewed(s, k)
  BY <1>1, PackedOf
<1>3. /\ k \in Entries /\ k.offset \in Nat /\ k.size \in Nat /\ End(k) \in Nat /\ End(k) = k.offset + k.size
      /\ s \in Entries /\ IsEdited(k) = IsEdited(s)
  BY <1>1, <1>2, PackedOf, EndType, InputTypes DEF IsEdited
<1>4. End(k) <= Len(output)
  BY PackedInOrder DEF InOrder
<1>5. CASE Plan(s).status = "Repacked"
  <2>1. PICK p \in StreamPatches :
           /\ p.offset = k.offset /\ p.bytes = EditedBytes(s, k.size) /\ Len(p.bytes) = k.size
           /\ End(k) <= PatchEnd(p)
    BY <1>1, <1>2, <1>5, PatchOfEntry
  <2>2. p \in patches /\ PatchShape(p)
    BY <1>1, <2>1, PatchOf DEF PutIn
  <2>3. ASSUME NEW i \in 0 .. k.size - 1
        PROVE  output[k.offset + i + 1] = Byte("Edited", k.id, i)
    <3>1. k.offset + i \in 0 .. outputLen - 1
      BY <1>1, <1>3, <1>4
    <3>2. Covers(p, k.offset + i)
      BY <1>3, <2>1, <2>2 DEF Covers, PatchShape
    <3>3. output[k.offset + i + 1] = PatchByte(p, k.offset + i)
      BY <2>2, <3>1, <3>2 DEF PutIn
    <3>4. k.offset + i < p.offset + Len(p.bytes) /\ ((k.offset + i) - p.offset) + 1 = i + 1
      BY <1>3, <2>1
    <3>5. PatchByte(p, k.offset + i) = EditedBytes(s, k.size)[i + 1]
      <4>1. PatchByte(p, k.offset + i) = p.bytes[((k.offset + i) - p.offset) + 1]
        BY <3>4 DEF PatchByte
      <4>2. QED BY <2>1, <3>4, <4>1
    <3>6. EditedBytes(s, k.size)[i + 1] = Byte("Edited", s.id, i)
      <4>1. i + 1 \in 1 .. k.size /\ i + 1 - 1 = i
        BY <1>3
      <4>2. \A j \in 1 .. k.size : EditedBytes(s, k.size)[j] = Byte("Edited", s.id, j - 1)
        BY <1>3, EditedBytesType
      <4>3. QED BY <4>1, <4>2
    <3>7. QED BY <1>2, <3>3, <3>5, <3>6
  <2>4. IsEdited(k)
    BY <1>1, <1>3, <1>5, PlanOf
  <2>5. QED BY <1>4, <2>3, <2>4 DEF Decodes
<1>6. CASE Plan(s).status # "Repacked"
  <2>1. k = s /\ ~ IsEdited(s)
    <3>1. Plan(s).status = "Unchanged"
      BY <1>1, <1>6, PlanOf
    <3>2. QED BY <1>1, <1>2, <1>6, <3>1, PlanOf DEF Renewed
  <2>2. Decodes(input.bytes, s, "Original")
    BY DEF Damaged
  <2>3. ASSUME NEW i \in 0 .. k.size - 1
        PROVE  output[k.offset + i + 1] = Byte("Original", k.id, i)
    <3> DEFINE at == k.offset + i
    <3>1. at \in 0 .. outputLen - 1 /\ s.offset <= at /\ at < End(s) /\ at \in Nat
      BY <1>1, <1>3, <1>4, <2>1
    <3>2. End(s) <= Len(input.bytes) /\ at < Len(input.bytes)
      BY <1>1, <1>3, <2>1, <2>2, <3>1 DEF Decodes
    <3> HIDE DEF at
    <3>3. ASSUME NEW p \in patches, Covers(p, at) PROVE FALSE
      <4>1. p \in StreamPatches \cup FieldPatches /\ PatchShape(p)
        BY <1>1, PatchOf DEF PutIn
      <4>2. ASSUME NEW t \in Streams, IsEdited(t), LowPatch(p, t) PROVE FALSE
        <5>1. s # t
          BY <2>1, <4>2
        <5>2. End(s) + Slack(s) <= t.offset \/ End(t) + Slack(t) <= s.offset
          BY <1>1, <5>1, RoomApart
        <5>3. /\ t.offset \in Nat /\ End(t) \in Nat /\ Slack(t) \in Nat
              /\ s.offset \in Nat /\ End(s) \in Nat /\ Slack(s) \in Nat
          BY <1>1, InputTypes, EndType, SlackOf
        <5>4. QED BY <3>1, <3>3, <4>1, <4>2, <5>2, <5>3 DEF Covers, LowPatch, PatchShape
      <4>3. ASSUME NEW l \in packed, HighPatch(p, l) PROVE FALSE
        BY <1>1, <3>1, <3>2, <3>3, <4>1, <4>3 DEF Covers, HighPatch, PatchShape
      <4>4. ASSUME NEW l \in packed, NEW f \in l.fields, p.offset = f.offset, PatchEnd(p) = f.offset + 1
            PROVE  FALSE
        <5>1. f.offset \in Nat /\ (f.offset < s.offset \/ End(s) <= f.offset)
          BY <1>1, PackedField
        <5>2. f.offset = at
          BY <3>1, <3>3, <4>4, <5>1 DEF Covers
        <5>3. QED BY <1>3, <2>1, <3>1, <5>1, <5>2
      <4>5. QED BY <1>1, <4>1, <4>2, <4>3, <4>4, PatchOf
    <3>4. output[at + 1] = input.bytes[at + 1]
      BY <3>1, <3>2, <3>3 DEF PutIn, InputByte
    <3>5. input.bytes[s.offset + i + 1] = Byte("Original", s.id, i)
      BY <2>1, <2>2 DEF Decodes
    <3>6. QED BY <2>1, <3>4, <3>5 DEF at
  <2>4. QED BY <1>3, <1>4, <2>1, <2>3 DEF Decodes
<1>7. QED BY <1>5, <1>6

(* The fields hold what the new manifest says, unless one was in the slack. *)
LEMMA PackedFields ==
  ASSUME PutIn, ~ FieldInSlack
  PROVE  CheckFields(output, packed)
<1>1. /\ Laid /\ AllHold /\ input \in Inputs /\ InOrder(Streams, Len(input.bytes))
      /\ Len(input.bytes) \in Nat /\ Len(output) = outputLen
      /\ outputLen \in Nat /\ outputLen >= Len(input.bytes)
  BY InputTypes DEF PutIn, Laid
<1>2. ASSUME NEW k \in packed, NEW f \in k.fields
      PROVE  /\ \A l \in packed : f.offset < l.offset \/ End(l) <= f.offset
             /\ f.offset < Len(output) /\ Holds(f, k)
             /\ output[f.offset + 1] = Num(StoredValue(f, k))
  <2>1. /\ f.offset \in Nat /\ f.offset < Len(input.bytes)
        /\ \A s \in Streams : f.offset < s.offset \/ End(s) <= f.offset
        /\ \A s \in Streams : IsEdited(s) => f.offset < s.offset \/ End(s) + Slack(s) <= f.offset
        /\ \A l \in packed : \A g \in l.fields : g.offset = f.offset => l = k /\ g = f
    BY <1>1, PackedField
  <2>2. Holds(f, k)
    BY <1>1 DEF AllHold
  <2>3. ASSUME NEW l \in packed PROVE f.offset < l.offset \/ End(l) <= f.offset
    <3>1. PICK t \in Streams : t.id = l.id /\ Renewed(t, l)
      BY <1>1, PackedOf
    <3>2. /\ l.offset \in Nat /\ End(l) \in Nat /\ t.offset \in Nat /\ End(t) \in Nat /\ Slack(t) \in Nat
      BY <1>1, PackedOf, InputTypes, EndType, SlackOf
    <3>3. CASE Plan(t).status # "Repacked"
      <4>1. l = t
        BY <3>1, <3>3 DEF Renewed
      <4>2. QED BY <2>1, <4>1
    <3>4. CASE Plan(t).status = "Repacked"
      <4>1. IsEdited(t) /\ (AtHome(t, l) \/ l.offset >= Len(input.bytes))
        BY <1>1, <3>1, <3>4, RenewedEntry
      <4>2. f.offset < t.offset \/ End(t) + Slack(t) <= f.offset
        BY <2>1, <4>1
      <4>3. QED BY <1>1, <2>1, <3>2, <4>1, <4>2 DEF AtHome
    <3>5. QED BY <3>3, <3>4
  <2>4. f.offset \in 0 .. outputLen - 1
    BY <1>1, <2>1
  <2>5. output[f.offset + 1] = Num(StoredValue(f, k))
    <3>1. ASSUME NEW p \in patches, Covers(p, f.offset)
          PROVE  output[f.offset + 1] = Num(StoredValue(f, k))
      <4>1. p \in StreamPatches \cup FieldPatches /\ PatchShape(p)
        BY <1>1, PatchOf DEF PutIn
      <4>2. ASSUME NEW t \in Streams, IsEdited(t), LowPatch(p, t) PROVE FALSE
        <5>1. t.offset \in Nat /\ End(t) \in Nat /\ Slack(t) \in Nat
          BY <1>1, InputTypes, EndType, SlackOf
        <5>2. f.offset < t.offset \/ End(t) + Slack(t) <= f.offset
          BY <2>1, <4>2
        <5>3. QED BY <2>1, <3>1, <4>1, <4>2, <5>1, <5>2 DEF Covers, LowPatch, PatchShape
      <4>3. ASSUME NEW l \in packed, HighPatch(p, l) PROVE FALSE
        BY <1>1, <2>1, <3>1, <4>1, <4>3 DEF Covers, HighPatch, PatchShape
      <4>4. PICK l \in packed : \E g \in l.fields :
              /\ p.offset = g.offset /\ PatchEnd(p) = g.offset + 1
              /\ p = Patch(g.offset, <<Num(StoredValue(g, l))>>, 0)
        BY <1>1, <4>1, <4>2, <4>3, PatchOf
      <4>5. PICK g \in l.fields :
              /\ p.offset = g.offset /\ PatchEnd(p) = g.offset + 1
              /\ p = Patch(g.offset, <<Num(StoredValue(g, l))>>, 0)
        BY <4>4
      <4>6. g.offset \in Nat
        BY <1>1, PackedField
      <4>7. g.offset = f.offset
        BY <2>1, <3>1, <4>5, <4>6 DEF Covers
      <4>8. l = k /\ g = f
        BY <2>1, <4>7
      <4>9. p.offset = f.offset /\ p.bytes = <<Num(StoredValue(f, k))>>
        BY <4>5, <4>8 DEF Patch
      <4>10. Len(p.bytes) = 1 /\ p.bytes[1] = Num(StoredValue(f, k))
        BY <4>9
      <4>11. f.offset < p.offset + Len(p.bytes) /\ f.offset - p.offset + 1 = 1
        BY <2>1, <4>9, <4>10
      <4>12. PatchByte(p, f.offset) = Num(StoredValue(f, k))
        BY <4>10, <4>11 DEF PatchByte
      <4>13. QED BY <2>4, <3>1, <4>12 DEF PutIn
    <3>2. CASE \A p \in patches : ~ Covers(p, f.offset)
      <4>1. output[f.offset + 1] = input.bytes[f.offset + 1]
        BY <2>1, <2>4, <3>2 DEF PutIn, InputByte
      <4>2. ASSUME input.bytes[f.offset + 1] # Num(StoredValue(f, k)) PROVE FALSE
        <5> DEFINE p == Patch(f.offset, <<Num(StoredValue(f, k))>>, 0)
        <5>1. p \in FieldPatches
          BY <4>2 DEF FieldPatches
        <5>2. p.offset = f.offset /\ PatchEnd(p) = f.offset + 1
          BY <2>1, <2>2, FieldPatchShape DEF Holds
        <5>3. p \in patches /\ Covers(p, f.offset)
          BY <2>1, <5>1, <5>2 DEF PutIn, Covers
        <5>4. QED BY <3>2, <5>3
      <4>3. QED BY <4>1, <4>2
    <3>3. QED BY <3>1, <3>2
  <2>6. QED BY <1>1, <2>1, <2>2, <2>3, <2>5
<1>3. ASSUME NEW x \in FieldsOf(packed), NEW y \in FieldsOf(packed), x.field.offset = y.field.offset
      PROVE  x = y
  <2>1. PICK k \in packed : \E f \in k.fields : x = [of |-> k.id, field |-> f]
    BY DEF FieldsOf
  <2>2. PICK f \in k.fields : x = [of |-> k.id, field |-> f]
    BY <2>1
  <2>3. PICK l \in packed : \E g \in l.fields : y = [of |-> l.id, field |-> g]
    BY DEF FieldsOf
  <2>4. PICK g \in l.fields : y = [of |-> l.id, field |-> g]
    BY <2>3
  <2>5. g.offset = f.offset
    BY <1>3, <2>2, <2>4
  <2>6. l = k /\ g = f
    BY <1>1, <2>5, PackedField
  <2>7. QED BY <2>2, <2>4, <2>6
<1>4. QED BY <1>2, <1>3 DEF CheckFields

LEMMA VerifyInv == Inv /\ Verify => Inv'
<1> SUFFICES ASSUME Inv, Verify PROVE Inv'
  OBVIOUS
<1>1. /\ input' = input /\ input \in Inputs /\ pc = "Verify" /\ pc' = "Returned"
      /\ UNCHANGED <<plans, placed, patches, outputLen, packed, output, pos>>
      /\ Streams' = Streams /\ input.bytes' = input.bytes
  BY SameInput DEF Verify, Inv, IInv, Return, result, writer
<1>2. PutIn
  BY <1>1, AllPutIn
<1> DEFINE Good == Len(output) = outputLen /\ StreamsDecode /\ CheckFields(output, packed)
<1>3. outcome' = IF Good THEN "Written" ELSE "VerifyFailed"
  BY DEF Verify, Return
<1>4. TypeOK'
  <2>1. outcome' \in {"Written", "VerifyFailed"}
    BY <1>3
  <2>2. QED BY <1>1, <2>1, GoesOn DEF Inv, IInv, Outcomes
<1>5. CASE Good
  <2>1. outcome' = "Written"
    BY <1>3, <1>5
  <2>2. \A i \in 0 .. Len(input'.bytes) - 1 : output'[i + 1] = input'.bytes[i + 1] \/ MayChange(i)'
    BY <1>1, <1>2, ChangesWhereItMay, SameInput
  <2>3. (\A e \in packed' : e.offset < Len(input'.bytes)) => Len(output') = Len(input'.bytes)
    <3>1. ASSUME \A e \in packed : e.offset < Len(input.bytes) PROVE Len(output) = Len(input.bytes)
      <4>1. Laid /\ Len(output) = outputLen
        BY <1>2 DEF PutIn
      <4>2. \A e \in packed : e.offset \in Nat /\ Len(input.bytes) \in Nat
        BY <1>1, <4>1, PackedOf, EndType, InputTypes
      <4>3. Moved = {}
        BY <3>1, <4>2 DEF Moved
      <4>4. QED BY <4>1, <4>3 DEF Laid, PackedFit
    <3>2. QED BY <1>1, <3>1
  <2>4. InOrder(packed', Len(output')) /\ CheckFields(output', packed')
    BY <1>1, <1>2, <1>5, PackedInOrder
  <2>5. WrittenIsFaithful'
    BY <2>2, <2>3, <2>4 DEF WrittenIsFaithful
  <2>6. PlanIsWritable'
    BY <2>1 DEF PlanIsWritable
  <2>7. QED BY <1>1, <1>4, <2>5, <2>6 DEF Inv, IInv
<1>6. CASE ~ Good
  <2>1. outcome' = "VerifyFailed"
    BY <1>3, <1>6
  <2>2. FieldInSlack \/ Damaged
    <3> SUFFICES ASSUME ~ FieldInSlack, ~ Damaged PROVE FALSE
      OBVIOUS
    <3>1. \A s \in Streams : Plan(s).status # "TooLarge"
      BY <1>1 DEF Inv, IInv, PlansFit
    <3>2. StreamsDecode /\ CheckFields(output, packed)
      BY <1>2, <3>1, PackedDecodes, PackedFields
    <3>3. QED BY <1>2, <1>6, <3>2 DEF PutIn
  <2>3. FieldInSlack' \/ Damaged'
    BY <1>1, <2>2, SameInput
  <2>4. WrittenIsFaithful' /\ PlanIsWritable'
    BY <2>1, <2>3 DEF WrittenIsFaithful, PlanIsWritable
  <2>5. QED BY <1>1, <1>4, <2>4 DEF Inv, IInv
<1>7. QED BY <1>5, <1>6

LEMMA StutterInv == Inv /\ UNCHANGED vars => Inv'
<1> SUFFICES ASSUME Inv, UNCHANGED vars PROVE Inv'
  OBVIOUS
<1>1. /\ input' = input /\ pc' = pc /\ plans' = plans /\ placed' = placed /\ patches' = patches
      /\ outputLen' = outputLen /\ packed' = packed /\ output' = output /\ pos' = pos
      /\ outcome' = outcome
  BY DEF vars, result, writer
<1>2. TypeOK'
  BY <1>1, GoesOn DEF Inv, IInv, TypeOK
<1>3. PlansFit' = PlansFit
  BY <1>1, SameInput DEF PlansFit
<1>4. PackedFit' = PackedFit /\ LaidOut' = LaidOut
  BY <1>1, SamePacked DEF LaidOut
<1>5. WrittenSoFar' = WrittenSoFar
  BY <1>1, SameInput DEF WrittenSoFar
<1>6. WrittenIsFaithful' = WrittenIsFaithful /\ PlanIsWritable' = PlanIsWritable
  <2>1. \A i : MayChange(i)' = MayChange(i)
    BY <1>1, SameInput
  <2>2. FieldInSlack' = FieldInSlack /\ PaddedBetween' = PaddedBetween /\ Damaged' = Damaged
    BY <1>1, SameInput, SamePacked
  <2>3. QED BY <1>1, <2>1, <2>2 DEF WrittenIsFaithful, PlanIsWritable
<1>7. QED BY <1>1, <1>2, <1>3, <1>4, <1>5, <1>6 DEF Inv, IInv

-----------------------------------------------------------------------------
(* What is planned fits the manifest, what is laid out is apart unless a    *)
(* field lies in the slack, and what is written is the input with the       *)
(* patches put in: pack, write_to and verify_output, step by step.          *)
THEOREM PackInvariant == Spec => []IInv
<1>1. Init => Inv
  BY InitInv
<1>2. Inv /\ [Next]_vars => Inv'
  BY CheckInv, PlanStreamInv, PlanFailsInv, EndPlanInv, PlaceStreamInv, EndPlaceInv,
     UpdateFieldsInv, CheckOverlapInv, WritePatchInv, WriteTailInv, VerifyInv, StutterInv
  DEF Next, Finished
<1>3. Inv => IInv
  BY DEF Inv
<1>4. QED BY <1>1, <1>2, <1>3, PTL DEF Spec

(* The state of a pack has its shape, and no patch reaches past the output. *)
THEOREM PackTypeCorrect == Spec => []TypeOK
<1>1. IInv => TypeOK
  BY DEF IInv
<1>2. QED BY <1>1, PackInvariant, PTL

(* A file that write_to leaves, and verify_output accepts, differs from the *)
(* input only in the slots of edited streams, the zero bytes behind them    *)
(* and the fields; the manifest that goes with it describes it.             *)
THEOREM PackIsFaithful == Spec => []WrittenIsFaithful
<1>1. IInv => WrittenIsFaithful
  BY DEF IInv
<1>2. QED BY <1>1, PackInvariant, PTL

(* The internal error of pack, the panic of write_to and a verification     *)
(* that fails have three causes and no other.                               *)
THEOREM PackFailsForCause == Spec => []PlanIsWritable
<1>1. IInv => PlanIsWritable
  BY DEF IInv
<1>2. QED BY <1>1, PackInvariant, PTL
=============================================================================
