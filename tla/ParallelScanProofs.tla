------------------------- MODULE ParallelScanProofs -------------------------
(***************************************************************************)
(* What the parallel scan guarantees for every input, every chunk size and *)
(* every pool of workers, with cancellation at any moment.                 *)
(***************************************************************************)
EXTENDS ParallelScan, FiniteSetTheorems, WellFoundedInduction, TLAPS

Spans == [start : 0 .. DataLen, end : 0 .. DataLen]

(* Division with remainder, in the form Work needs it.                      *)
LEMMA Multiples ==
  ASSUME NEW a \in Nat, NEW c \in Nat \ {0}
  PROVE  \E k \in 0 .. a : k * c <= a /\ a < k * c + c
<1> DEFINE k == a \div c
<1>1. k \in Int /\ (a % c) \in Int /\ a = c * k + (a % c) /\ 0 <= (a % c) /\ (a % c) < c
  OBVIOUS
<1>2. k >= 0 /\ k <= a
  BY <1>1
<1>3. k * c = c * k
  BY <1>1
<1>4. k \in 0 .. a /\ k * c <= a /\ a < k * c + c
  BY <1>1, <1>2, <1>3
<1> HIDE DEF k
<1>5. QED BY <1>4

(* Each unit of work is a proper part of one of the ranges and keeps its    *)
(* end as the window.                                                       *)
LEMMA WorkUnits ==
  ASSUME NEW R \in SUBSET Spans, NEW u \in Work(R)
  PROVE  /\ u \in Unit
         /\ u.from < u.to /\ u.to <= u.window
         /\ \E r \in R : r.start <= u.from /\ u.window = r.end
<1>1. PICK r \in R : u \in {UnitAt(q, r) : q \in UnitStarts(r)}
  BY DEF Work
<1>2. PICK q \in r.start .. r.end - 1 : u = UnitAt(q, r)
  BY <1>1 DEF UnitStarts
<1>3. r.start \in 0 .. DataLen /\ r.end \in 0 .. DataLen
  BY DEF Spans
<1>4. DataLen \in Nat /\ Chunk \in Nat \ {0}
  BY ScanAssumption
<1>5. QED BY <1>2, <1>3, <1>4 DEF Unit, UnitAt, Pos

(* Every offset of the input is in some unit of the verified pass.          *)
LEMMA WorkCovers ==
  ASSUME NEW p \in Pos
  PROVE  \E u \in Work({[start |-> 0, end |-> DataLen]}) : u.from <= p /\ p < u.to
<1>1. DataLen \in Nat /\ Chunk \in Nat \ {0} /\ p \in Nat /\ p < DataLen
  BY ScanAssumption DEF Pos
<1>2. PICK k \in 0 .. p : k * Chunk <= p /\ p < k * Chunk + Chunk
  BY <1>1, Multiples
<1> DEFINE q == k * Chunk
           r == [start |-> 0, end |-> DataLen]
           u == UnitAt(q, r)
<1>3. q \in Int /\ 0 <= q
  BY <1>1, <1>2
<1>4. q \in r.start .. r.end - 1 /\ k \in 0 .. DataLen /\ q = r.start + k * Chunk
  BY <1>1, <1>2, <1>3
<1>5. u \in Work({r})
  BY <1>4 DEF Work, UnitStarts
<1>6. u.from <= p /\ p < u.to
  BY <1>1, <1>2, <1>3 DEF UnitAt
<1>7. QED BY <1>5, <1>6

LEMMA GapTypes ==
  ASSUME NEW F \in SUBSET Stream
  PROVE  Gaps(F) \subseteq Spans
<1>1. DataLen \in Nat
  BY ScanAssumption
<1>2. QED BY <1>1 DEF Gaps, Spans, Stream, Pos

(* A gap of a set of disjoint streams shares no byte with any of them.      *)
LEMMA GapsApart ==
  ASSUME NEW F \in SUBSET Stream,
         \A s \in F : s.offset < s.end,
         \A s, t \in F : s # t => Disjoint(s, t),
         NEW g \in Gaps(F), NEW s \in F
  PROVE  s.end <= g.start \/ g.end <= s.offset
<1>1. DataLen \in Nat /\ s.offset \in Nat /\ s.end \in Nat
  BY ScanAssumption DEF Stream, Pos
<1>2. CASE g.start = 0 /\ \A t \in F : t.offset >= g.end
  BY <1>1, <1>2
<1>3. CASE \E t \in F : g.start = t.end /\ IsPrevious(F, t, g.end)
  <2>1. PICK t \in F : g.start = t.end /\ IsPrevious(F, t, g.end)
    BY <1>3
  <2>2. t.offset \in Nat /\ t.end \in Nat /\ t.offset < t.end /\ s.offset < s.end
    BY ScanAssumption DEF Stream, Pos
  <2>3. g.end \in Nat
    BY GapTypes, ScanAssumption DEF Spans
  <2>4. s.offset < g.end => s.offset <= t.offset
    BY <2>1 DEF IsPrevious
  <2>5. s = t \/ s.end <= t.offset \/ t.end <= s.offset
    BY DEF Disjoint
  <2>6. QED BY <1>1, <2>1, <2>2, <2>3, <2>4, <2>5
<1>4. QED BY <1>2, <1>3 DEF Gaps

(* The hits of a unit start in it and end within its window.                *)
LEMMA UnitHitsWithin ==
  ASSUME data \in Input, NEW pass \in Pass, NEW u \in Unit,
         u.from < u.to, u.to <= u.window,
         NEW h \in UnitHits(u, pass)
  PROVE  /\ h \in Stream
         /\ u.from <= h.offset /\ h.offset < h.end /\ h.end <= u.window
         /\ h.verified <=> pass = "Verified"
<1>1. PICK p \in u.from .. u.to - 1 :
        /\ TryAt(data, pass, p, u.window) # 0
        /\ h = [offset |-> p, end |-> TryAt(data, pass, p, u.window), verified |-> pass = "Verified"]
  BY DEF UnitHits
<1>2. DataLen \in Nat /\ u.window \in 0 .. DataLen /\ p \in Pos
  BY ScanAssumption DEF Unit, Pos
<1>3. data.try[pass] \in TryTable
  BY DEF Input
<1>4. LET e == TryAt(data, pass, p, u.window) IN e \in 0 .. DataLen /\ (e = 0 \/ (p < e /\ e <= u.window))
  BY <1>2, <1>3 DEF TryTable, TryAt
<1>5. p \in Nat
  BY <1>2 DEF Pos
<1>6. (pass = "Verified") \in BOOLEAN
  OBVIOUS
<1>7. h.offset = p /\ h.end = TryAt(data, pass, p, u.window) /\ (h.verified <=> pass = "Verified")
  BY <1>1
<1>8. h.offset \in Pos /\ h.end \in 1 .. DataLen
  BY <1>1, <1>2, <1>4, <1>5, <1>7
<1>9. h \in Stream
  BY <1>1, <1>6, <1>7, <1>8 DEF Stream
<1>10. u.from <= h.offset /\ h.offset < h.end /\ h.end <= u.window
  BY <1>1, <1>2, <1>4, <1>5, <1>7 DEF Unit, Pos
<1>11. QED BY <1>7, <1>9, <1>10

-----------------------------------------------------------------------------
(* Each step keeps the inductive invariant.                                 *)

(* A cancellation disturbs nothing: what is owed is only owed by scans that *)
(* are not cancelled.                                                       *)
LEMMA CancelKeeps ==
  ASSUME IInv, Cancel
  PROVE  IInv'
<1>0. TypeOK /\ AtRest /\ Kinds /\ Contained /\ LeftToRight /\ NoOverlap /\ Accounted
  BY DEF IInv
<1>1. TypeOK'
  BY <1>0, ScanAssumption DEF Cancel, TypeOK, Collecting, PCs, progress, merge
<1>2. AtRest'
  BY <1>0 DEF Cancel, TypeOK, AtRest, Collecting, Idle, progress, merge
<1>3. Kinds'
  BY <1>0 DEF Cancel, TypeOK, AtRest, Kinds, InVerified, Collecting, progress, merge
<1>4. Contained'
  BY <1>0 DEF Cancel, TypeOK, AtRest, Kinds, Contained, Collecting, InHand, Idle, progress, merge
<1>5. LeftToRight'
  BY <1>0 DEF Cancel, TypeOK, AtRest, Kinds, LeftToRight, InVerified, progress, merge
<1>6. NoOverlap'
  BY <1>0 DEF Cancel, NoOverlap, progress, merge
<1>7. Accounted'
  BY <1>0 DEF Cancel, TypeOK, AtRest, Accounted, InVerified, Covered, Accepted, InHand, Idle, progress, merge
<1>8. QED BY <1>1, <1>2, <1>3, <1>4, <1>5, <1>6, <1>7 DEF IInv

LEMMA CheckFormatsKeeps ==
  ASSUME IInv, CheckFormats
  PROVE  IInv'
<1>0. TypeOK /\ AtRest /\ Kinds /\ Contained /\ LeftToRight /\ NoOverlap /\ Accounted
  BY DEF IInv
<1>1. TypeOK'
  BY <1>0, ScanAssumption DEF CheckFormats, TypeOK, Collecting, PCs, progress, merge
<1>2. AtRest'
  BY <1>0 DEF CheckFormats, TypeOK, AtRest, Collecting, Idle, progress, merge
<1>3. Kinds'
  BY <1>0 DEF CheckFormats, TypeOK, AtRest, Kinds, InVerified, Collecting, progress, merge
<1>4. Contained'
  BY <1>0 DEF CheckFormats, TypeOK, AtRest, Kinds, Contained, Collecting, InHand, Idle, progress, merge
<1>5. LeftToRight'
  BY <1>0 DEF CheckFormats, TypeOK, AtRest, Kinds, LeftToRight, InVerified, progress, merge
<1>6. NoOverlap'
  BY <1>0 DEF CheckFormats, NoOverlap, progress, merge
<1>7. Accounted'
  BY <1>0 DEF CheckFormats, TypeOK, AtRest, Accounted, InVerified, Covered, Accepted, InHand, Idle, progress, merge
<1>8. QED BY <1>1, <1>2, <1>3, <1>4, <1>5, <1>6, <1>7 DEF IInv

(* The units of the verified pass cover every offset.                       *)
LEMMA StartVerifiedKeeps ==
  ASSUME IInv, StartVerified
  PROVE  IInv'
<1>0. TypeOK /\ AtRest /\ Kinds /\ Contained /\ LeftToRight /\ NoOverlap /\ Accounted
  BY DEF IInv
<1>1. TypeOK'
  <2>1. Work({[start |-> 0, end |-> DataLen]}) \subseteq Unit
    BY WorkUnits, ScanAssumption DEF Spans
  <2>2. QED BY <1>0, <2>1, ScanAssumption DEF StartVerified, StartPhase, TypeOK, AtRest, Idle, Collecting, PCs, progress, merge
<1>2. AtRest'
  BY <1>0 DEF StartVerified, StartPhase, TypeOK, AtRest, Collecting, Idle, progress, merge
<1>3. Kinds'
  BY <1>0 DEF StartVerified, StartPhase, TypeOK, AtRest, Kinds, InVerified, Collecting, progress, merge
<1>4. Contained'
  <2>1. \A u \in Work({[start |-> 0, end |-> DataLen]}) :
          u.from < u.to /\ u.to <= u.window /\ u.window = DataLen
    BY WorkUnits, ScanAssumption DEF Spans
  <2>2. InHand' = {}
    BY <1>0 DEF StartVerified, AtRest, Collecting, Idle, InHand, progress, merge
  <2>3. QED BY <1>0, <2>1, <2>2 DEF StartVerified, AtRest, Contained, Collecting, progress, merge
<1>5. LeftToRight'
  BY <1>0 DEF StartVerified, StartPhase, TypeOK, AtRest, Kinds, LeftToRight, InVerified, progress, merge
<1>6. NoOverlap'
  BY <1>0 DEF StartVerified, StartPhase, NoOverlap, progress, merge
<1>7. Accounted'
  <2>1. \A p \in Pos : \E u \in Work({[start |-> 0, end |-> DataLen]}) : u.from <= p /\ p < u.to
    BY WorkCovers
  <2>2. QED BY <1>0, <2>1 DEF StartVerified, TypeOK, AtRest, Accounted, InVerified, Covered, Accepted, InHand, progress, merge
<1>8. QED BY <1>1, <1>2, <1>3, <1>4, <1>5, <1>6, <1>7 DEF IInv

(* The units of the unverified pass keep clear of what was found.           *)
LEMMA StartUnverifiedKeeps ==
  ASSUME IInv, StartUnverified
  PROVE  IInv'
<1>0. TypeOK /\ AtRest /\ Kinds /\ Contained /\ LeftToRight /\ NoOverlap /\ Accounted
  BY DEF IInv
<1>1. TypeOK'
  <2>1. Work(Gaps(found)) \subseteq Unit
    BY <1>0, WorkUnits, GapTypes DEF TypeOK
  <2>2. GapBytes(Gaps(found)) \in Nat
    <3>1. IsFiniteSet(Pos)
      BY FS_Interval, ScanAssumption DEF Pos
    <3>2. QED BY <3>1, FS_Subset, FS_CardinalityType DEF GapBytes
  <2>3. QED BY <1>0, <2>1, <2>2 DEF StartUnverified, StartPhase, TypeOK, AtRest, Idle, Collecting, PCs, progress, merge
<1>2. AtRest'
  BY <1>0 DEF StartUnverified, StartPhase, TypeOK, AtRest, Collecting, Idle, progress, merge
<1>3. Kinds'
  BY <1>0 DEF StartUnverified, StartPhase, TypeOK, AtRest, Kinds, InVerified, Collecting, progress, merge
<1>4. Contained'
  <2>1. CASE "Unverified" \in data.passes
    <3>1. pc = "StartUnverified" /\ todo' = Work(Gaps(found)) /\ UNCHANGED <<found, busy, hits>> /\ pc' = "CollectUnverified"
      BY <2>1 DEF StartUnverified, merge
    <3>2. InHand' = {} /\ hits' = {}
      BY <1>0, <3>1 DEF AtRest, Collecting, Idle, InHand
    <3>3. \A u \in Work(Gaps(found)), s \in found : u.from < u.to /\ u.to <= u.window /\ Apart(u, s)
      <4> SUFFICES ASSUME NEW u \in Work(Gaps(found)), NEW s \in found
                   PROVE  u.from < u.to /\ u.to <= u.window /\ Apart(u, s)
        OBVIOUS
      <4>1. found \in SUBSET Stream /\ Gaps(found) \in SUBSET Spans
        BY <1>0, GapTypes DEF TypeOK
      <4>2. PICK g \in Gaps(found) : g.start <= u.from /\ u.window = g.end
        BY <4>1, WorkUnits
      <4>3. u \in Unit /\ u.from < u.to /\ u.to <= u.window
        BY <4>1, WorkUnits
      <4>4. s.end <= g.start \/ g.end <= s.offset
        BY <1>0, <4>1, GapsApart DEF Kinds, NoOverlap, Disjoint
      <4>5. s.end \in Int /\ g.start \in Int /\ u.from \in Int
        BY <4>1, <4>2, <4>3, ScanAssumption DEF Stream, Spans, Unit, Pos
      <4>6. QED BY <4>2, <4>3, <4>4, <4>5 DEF Apart
    <3>4. \A u \in Work(Gaps(found)) : u.from < u.to /\ u.to <= u.window
      BY <1>0, WorkUnits, GapTypes DEF TypeOK
    <3>5. QED BY <3>1, <3>2, <3>3, <3>4 DEF Contained, Collecting, Apart
  <2>2. CASE "Unverified" \notin data.passes
    BY <1>0, <2>2 DEF StartUnverified, Contained, Collecting
  <2>3. QED BY <2>1, <2>2
<1>5. LeftToRight'
  BY <1>0 DEF StartUnverified, StartPhase, TypeOK, AtRest, Kinds, LeftToRight, InVerified, progress, merge
<1>6. NoOverlap'
  BY <1>0 DEF StartUnverified, StartPhase, NoOverlap, progress, merge
<1>7. Accounted'
  BY <1>0 DEF StartUnverified, StartPhase, TypeOK, AtRest, Accounted, InVerified, Covered, Accepted, InHand, Idle, progress, merge
<1>8. QED BY <1>1, <1>2, <1>3, <1>4, <1>5, <1>6, <1>7 DEF IInv

LEMMA EndCollectKeeps ==
  ASSUME IInv, EndCollect
  PROVE  IInv'
<1>0. TypeOK /\ AtRest /\ Kinds /\ Contained /\ LeftToRight /\ NoOverlap /\ Accounted
  BY DEF IInv
<1>1. TypeOK'
  BY <1>0, ScanAssumption DEF EndCollect, TypeOK, Collecting, PCs, AtRest, Idle, progress, merge
<1>2. AtRest'
  BY <1>0 DEF EndCollect, TypeOK, AtRest, Collecting, Idle, progress, merge
<1>3. Kinds'
  BY <1>0 DEF EndCollect, TypeOK, AtRest, Kinds, InVerified, Collecting, progress, merge
<1>4. Contained'
  BY <1>0 DEF EndCollect, TypeOK, AtRest, Kinds, Contained, Collecting, InHand, Idle, progress, merge
<1>5. LeftToRight'
  BY <1>0 DEF EndCollect, TypeOK, AtRest, Kinds, LeftToRight, InVerified, progress, merge
<1>6. NoOverlap'
  BY <1>0 DEF EndCollect, NoOverlap, progress, merge
<1>7. Accounted'
  BY <1>0 DEF EndCollect, TypeOK, AtRest, Accounted, InVerified, Covered, Accepted, InHand, Idle, progress, merge
<1>8. QED BY <1>1, <1>2, <1>3, <1>4, <1>5, <1>6, <1>7 DEF IInv

(* A hit is kept only past the last stream; one that is dropped starts in it. *)
LEMMA MergeVerifiedKeeps ==
  ASSUME IInv, MergeVerified
  PROVE  IInv'
<1>0. TypeOK /\ AtRest /\ Kinds /\ Contained /\ LeftToRight /\ NoOverlap /\ Accounted
  BY DEF IInv
<1>1. TypeOK'
  <2>1. PICK h \in pending :
          /\ IF h.offset >= lastEnd
             THEN found' = found \cup {h} /\ lastEnd' = h.end
             ELSE UNCHANGED <<found, lastEnd>>
          /\ pending' = pending \ {h}
    BY DEF MergeVerified
  <2>2. h \in Stream /\ h.end \in 0 .. DataLen
    BY <1>0, ScanAssumption DEF TypeOK, Stream
  <2>3. QED BY <1>0, <2>1, <2>2 DEF MergeVerified, TypeOK, Collecting, PCs, progress
<1>2. AtRest'
  BY <1>0 DEF MergeVerified, IsFirst, TypeOK, AtRest, Collecting, Idle, progress, merge
<1>3. Kinds'
  BY <1>0 DEF MergeVerified, IsFirst, TypeOK, AtRest, Kinds, InVerified, Collecting, progress, merge
<1>4. Contained'
  BY <1>0 DEF MergeVerified, IsFirst, TypeOK, AtRest, Kinds, Contained, Collecting, InHand, Idle, progress, merge
<1>5. LeftToRight'
  <2>1. PICK h \in pending :
          /\ IsFirst(h)
          /\ IF h.offset >= lastEnd
             THEN found' = found \cup {h} /\ lastEnd' = h.end
             ELSE UNCHANGED <<found, lastEnd>>
          /\ pending' = pending \ {h}
    BY DEF MergeVerified
  <2>2. /\ h \in Stream /\ h.offset \in Nat /\ h.end \in Nat /\ h.offset < h.end /\ h.verified
        /\ lastEnd \in Nat
    BY <1>0, ScanAssumption DEF MergeVerified, TypeOK, Kinds, Stream, Pos
  <2>3. \A s \in found \cup pending : s.offset \in Nat /\ s.end \in Nat
    BY <1>0, ScanAssumption DEF TypeOK, Stream, Pos
  <2>4. \A s \in found : s.end <= lastEnd
    BY <1>0 DEF MergeVerified, LeftToRight
  <2>5. \A s \in found' : s.end <= lastEnd'
    BY <2>1, <2>2, <2>3, <2>4
  <2>6. lastEnd' # 0 => \E s \in found' : s.end = lastEnd'
    BY <1>0, <2>1 DEF MergeVerified, LeftToRight
  <2>7. \A s \in found', k \in pending' : s.offset <= k.offset
    BY <1>0, <2>1 DEF MergeVerified, LeftToRight, IsFirst
  <2>8. QED BY <2>5, <2>6, <2>7 DEF MergeVerified, LeftToRight
<1>6. NoOverlap'
  <2>1. PICK h \in pending :
          /\ IsFirst(h)
          /\ IF h.offset >= lastEnd
             THEN found' = found \cup {h} /\ lastEnd' = h.end
             ELSE UNCHANGED <<found, lastEnd>>
          /\ pending' = pending \ {h}
    BY DEF MergeVerified
  <2>2. /\ h \in Stream /\ h.offset \in Nat /\ h.end \in Nat /\ h.offset < h.end /\ h.verified
        /\ lastEnd \in Nat
    BY <1>0, ScanAssumption DEF MergeVerified, TypeOK, Kinds, Stream, Pos
  <2>3. \A s \in found \cup pending : s.offset \in Nat /\ s.end \in Nat
    BY <1>0, ScanAssumption DEF TypeOK, Stream, Pos
  <2>4. \A s \in found : s.end <= lastEnd
    BY <1>0 DEF MergeVerified, LeftToRight
  <2>5. h.offset >= lastEnd => \A s \in found : s.end <= h.offset
    BY <2>2, <2>3, <2>4
  <2>6. QED BY <1>0, <2>1, <2>5 DEF NoOverlap
<1>7. Accounted'
  <2>1. PICK h \in pending :
          /\ IsFirst(h)
          /\ IF h.offset >= lastEnd
             THEN found' = found \cup {h} /\ lastEnd' = h.end
             ELSE UNCHANGED <<found, lastEnd>>
          /\ pending' = pending \ {h}
    BY DEF MergeVerified
  <2>2. /\ h \in Stream /\ h.offset \in Nat /\ h.end \in Nat /\ h.offset < h.end /\ h.verified
        /\ lastEnd \in Nat
    BY <1>0, ScanAssumption DEF MergeVerified, TypeOK, Kinds, Stream, Pos
  <2>3. \A s \in found \cup pending : s.offset \in Nat /\ s.end \in Nat
    BY <1>0, ScanAssumption DEF TypeOK, Stream, Pos
  <2>4. ASSUME h.offset < lastEnd PROVE Covered(h.offset)
    <3>1. PICK s \in found : s.end = lastEnd
      BY <1>0, <2>2, <2>4 DEF MergeVerified, LeftToRight
    <3>2. s.offset <= h.offset /\ s.verified
      BY <1>0 DEF MergeVerified, LeftToRight, Kinds, InVerified
    <3>3. QED BY <2>4, <3>1, <3>2 DEF Covered
  <2>5. Covered(h.offset)'
    BY <2>1, <2>2, <2>4 DEF Covered
  <2>6. \A p \in Pos : Covered(p) => Covered(p)'
    BY <2>1 DEF Covered
  <2>7. \A p \in Pos : Accepted(p)' <=> Accepted(p)
    BY DEF MergeVerified, Accepted
  <2>8. ~ cancelled' => \A p \in Pos : Accepted(p)' => Covered(p)' \/ \E k \in pending' : k.offset = p
    BY <1>0, <2>1, <2>5, <2>6, <2>7 DEF MergeVerified, Accounted
  <2>9. QED BY <1>0, <2>8 DEF MergeVerified, Accounted, InVerified
<1>8. QED BY <1>1, <1>2, <1>3, <1>4, <1>5, <1>6, <1>7 DEF IInv

LEMMA EndMergeVerifiedKeeps ==
  ASSUME IInv, EndMergeVerified
  PROVE  IInv'
<1>0. TypeOK /\ AtRest /\ Kinds /\ Contained /\ LeftToRight /\ NoOverlap /\ Accounted
  BY DEF IInv
<1>1. TypeOK'
  BY <1>0 DEF EndMergeVerified, TypeOK, Collecting, PCs, AtRest, Idle, progress, merge
<1>2. AtRest'
  BY <1>0 DEF EndMergeVerified, TypeOK, AtRest, Collecting, Idle, progress, merge
<1>3. Kinds'
  BY <1>0 DEF EndMergeVerified, TypeOK, AtRest, Kinds, InVerified, Collecting, progress, merge
<1>4. Contained'
  BY <1>0 DEF EndMergeVerified, TypeOK, AtRest, Kinds, Contained, Collecting, InHand, Idle, progress, merge
<1>5. LeftToRight'
  BY <1>0 DEF EndMergeVerified, TypeOK, AtRest, Kinds, LeftToRight, InVerified, progress, merge
<1>6. NoOverlap'
  BY <1>0 DEF EndMergeVerified, NoOverlap, progress, merge
<1>7. Accounted'
  BY <1>0 DEF EndMergeVerified, TypeOK, AtRest, Accounted, InVerified, Covered, Accepted, InHand, Idle, progress, merge
<1>8. QED BY <1>1, <1>2, <1>3, <1>4, <1>5, <1>6, <1>7 DEF IInv

LEMMA TakeUnverifiedKeeps ==
  ASSUME IInv, TakeUnverified
  PROVE  IInv'
<1>0. TypeOK /\ AtRest /\ Kinds /\ Contained /\ LeftToRight /\ NoOverlap /\ Accounted
  BY DEF IInv
<1>1. TypeOK'
  BY <1>0, ScanAssumption DEF TakeUnverified, IsFirst, TypeOK, Collecting, PCs, progress, merge
<1>2. AtRest'
  BY <1>0 DEF TakeUnverified, IsFirst, TypeOK, AtRest, Collecting, Idle, progress, merge
<1>3. Kinds'
  BY <1>0 DEF TakeUnverified, IsFirst, TypeOK, AtRest, Kinds, InVerified, Collecting, progress, merge
<1>4. Contained'
  BY <1>0 DEF TakeUnverified, IsFirst, TypeOK, AtRest, Kinds, Contained, Collecting, InHand, Idle, progress, merge
<1>5. LeftToRight'
  BY <1>0 DEF TakeUnverified, IsFirst, TypeOK, AtRest, Kinds, LeftToRight, InVerified, progress, merge
<1>6. NoOverlap'
  BY <1>0 DEF TakeUnverified, IsFirst, NoOverlap, progress, merge
<1>7. Accounted'
  BY <1>0 DEF TakeUnverified, IsFirst, TypeOK, AtRest, Accounted, InVerified, Covered, Accepted, InHand, Idle, progress, merge
<1>8. QED BY <1>1, <1>2, <1>3, <1>4, <1>5, <1>6, <1>7 DEF IInv

LEMMA LookAheadKeeps ==
  ASSUME IInv, LookAhead
  PROVE  IInv'
<1>0. TypeOK /\ AtRest /\ Kinds /\ Contained /\ LeftToRight /\ NoOverlap /\ Accounted
  BY DEF IInv
<1>1. TypeOK'
  BY <1>0, ScanAssumption DEF LookAhead, IsFirst, TypeOK, Collecting, PCs, progress, merge
<1>2. AtRest'
  BY <1>0 DEF LookAhead, IsFirst, TypeOK, AtRest, Collecting, Idle, progress, merge
<1>3. Kinds'
  BY <1>0 DEF LookAhead, IsFirst, TypeOK, AtRest, Kinds, InVerified, Collecting, progress, merge
<1>4. Contained'
  BY <1>0 DEF LookAhead, IsFirst, TypeOK, AtRest, Kinds, Contained, Collecting, InHand, Idle, progress, merge
<1>5. LeftToRight'
  BY <1>0 DEF LookAhead, IsFirst, TypeOK, AtRest, Kinds, LeftToRight, InVerified, progress, merge
<1>6. NoOverlap'
  BY <1>0 DEF LookAhead, IsFirst, NoOverlap, progress, merge
<1>7. Accounted'
  BY <1>0 DEF LookAhead, IsFirst, TypeOK, AtRest, Accounted, InVerified, Covered, Accepted, InHand, Idle, progress, merge
<1>8. QED BY <1>1, <1>2, <1>3, <1>4, <1>5, <1>6, <1>7 DEF IInv

(* The match kept lies in its gap, after every unverified stream so far.    *)
LEMMA KeepBestKeeps ==
  ASSUME IInv, KeepBest
  PROVE  IInv'
<1>0. TypeOK /\ AtRest /\ Kinds /\ Contained /\ LeftToRight /\ NoOverlap /\ Accounted
  BY DEF IInv
<1>1. TypeOK'
  BY <1>0, ScanAssumption DEF KeepBest, TypeOK, Collecting, PCs, progress, merge
<1>2. AtRest'
  BY <1>0 DEF KeepBest, TypeOK, AtRest, Collecting, Idle, progress, merge
<1>3. Kinds'
  BY <1>0 DEF KeepBest, TypeOK, AtRest, Kinds, InVerified, Collecting, progress, merge
<1>4. Contained'
  BY <1>0 DEF KeepBest, TypeOK, AtRest, Kinds, Contained, Collecting, InHand, Idle, progress, merge
<1>5. LeftToRight'
  BY <1>0 DEF KeepBest, TypeOK, AtRest, Kinds, LeftToRight, InVerified, progress, merge
<1>6. NoOverlap'
  <2>1. pc = "MergeUnverified" /\ best \in hits /\ found' = found \cup {best}
    BY <1>0 DEF KeepBest, TypeOK
  <2>2. \A s \in found : s.verified => Disjoint(s, best)
    BY <1>0, <2>1 DEF Contained
  <2>3. \A s \in found : ~ s.verified => s.end <= best.offset
    BY <1>0, <2>1 DEF LeftToRight, KeepBest
  <2>4. QED BY <1>0, <2>1, <2>2, <2>3 DEF NoOverlap, Disjoint
<1>7. Accounted'
  BY <1>0 DEF KeepBest, TypeOK, AtRest, Accounted, InVerified, Covered, Accepted, InHand, Idle, progress, merge
<1>8. QED BY <1>1, <1>2, <1>3, <1>4, <1>5, <1>6, <1>7 DEF IInv

LEMMA EndMergeUnverifiedKeeps ==
  ASSUME IInv, EndMergeUnverified
  PROVE  IInv'
<1>0. TypeOK /\ AtRest /\ Kinds /\ Contained /\ LeftToRight /\ NoOverlap /\ Accounted
  BY DEF IInv
<1>1. TypeOK'
  BY <1>0, ScanAssumption DEF EndMergeUnverified, TypeOK, Collecting, PCs, progress, merge
<1>2. AtRest'
  BY <1>0 DEF EndMergeUnverified, TypeOK, AtRest, Collecting, Idle, progress, merge
<1>3. Kinds'
  BY <1>0 DEF EndMergeUnverified, TypeOK, AtRest, Kinds, InVerified, Collecting, progress, merge
<1>4. Contained'
  BY <1>0 DEF EndMergeUnverified, TypeOK, AtRest, Kinds, Contained, Collecting, InHand, Idle, progress, merge
<1>5. LeftToRight'
  BY <1>0 DEF EndMergeUnverified, TypeOK, AtRest, Kinds, LeftToRight, InVerified, progress, merge
<1>6. NoOverlap'
  BY <1>0 DEF EndMergeUnverified, NoOverlap, progress, merge
<1>7. Accounted'
  BY <1>0 DEF EndMergeUnverified, TypeOK, AtRest, Accounted, InVerified, Covered, Accepted, InHand, Idle, progress, merge
<1>8. QED BY <1>1, <1>2, <1>3, <1>4, <1>5, <1>6, <1>7 DEF IInv

(* Streams that do not overlap start at different offsets, so they are      *)
(* finitely many and can be counted.                                        *)
LEMMA StartParamsKeeps ==
  ASSUME IInv, StartParams
  PROVE  IInv'
<1>0. TypeOK /\ AtRest /\ Kinds /\ Contained /\ LeftToRight /\ NoOverlap /\ Accounted
  BY DEF IInv
<1>1. TypeOK'
  <2>1. IsFiniteSet(found)
    <3> DEFINE f == [s \in found |-> s.offset]
    <3>1. IsFiniteSet(Pos)
      BY FS_Interval, ScanAssumption DEF Pos
    <3>2. \A s \in found : s.offset \in Pos /\ s.offset \in Nat /\ s.end \in Nat /\ s.offset < s.end
      BY <1>0, ScanAssumption DEF TypeOK, Kinds, Stream, Pos
    <3>3. \A s, t \in found : s.offset = t.offset => s = t
      BY <1>0, <3>2 DEF NoOverlap
    <3>4. f \in Injection(found, Pos)
      BY <3>2, <3>3 DEF Injection, IsInjective
    <3>5. QED BY <3>1, <3>4, FS_Injection
  <2>2. QED BY <1>0, <2>1, FS_CardinalityType DEF StartParams, StartPhase, TypeOK, AtRest, Idle, Collecting, PCs, progress, merge
<1>2. AtRest'
  BY <1>0 DEF StartParams, StartPhase, TypeOK, AtRest, Collecting, Idle, progress, merge
<1>3. Kinds'
  BY <1>0 DEF StartParams, StartPhase, TypeOK, AtRest, Kinds, InVerified, Collecting, progress, merge
<1>4. Contained'
  BY <1>0 DEF StartParams, StartPhase, TypeOK, AtRest, Kinds, Contained, Collecting, InHand, Idle, progress, merge
<1>5. LeftToRight'
  BY <1>0 DEF StartParams, StartPhase, TypeOK, AtRest, Kinds, LeftToRight, InVerified, progress, merge
<1>6. NoOverlap'
  BY <1>0 DEF StartParams, StartPhase, NoOverlap, progress, merge
<1>7. Accounted'
  BY <1>0 DEF StartParams, TypeOK, AtRest, Accounted, InVerified, Covered, Accepted, InHand, Idle, Collecting
<1>8. QED BY <1>1, <1>2, <1>3, <1>4, <1>5, <1>6, <1>7 DEF IInv

LEMMA EndParamsKeeps ==
  ASSUME IInv, EndParams
  PROVE  IInv'
<1>0. TypeOK /\ AtRest /\ Kinds /\ Contained /\ LeftToRight /\ NoOverlap /\ Accounted
  BY DEF IInv
<1>1. TypeOK'
  BY <1>0, ScanAssumption DEF EndParams, TypeOK, Collecting, PCs, progress, merge
<1>2. AtRest'
  BY <1>0 DEF EndParams, TypeOK, AtRest, Collecting, Idle, progress, merge
<1>3. Kinds'
  BY <1>0 DEF EndParams, TypeOK, AtRest, Kinds, InVerified, Collecting, progress, merge
<1>4. Contained'
  BY <1>0 DEF EndParams, TypeOK, AtRest, Kinds, Contained, Collecting, InHand, Idle, progress, merge
<1>5. LeftToRight'
  BY <1>0 DEF EndParams, TypeOK, AtRest, Kinds, LeftToRight, InVerified, progress, merge
<1>6. NoOverlap'
  BY <1>0 DEF EndParams, NoOverlap, progress, merge
<1>7. Accounted'
  BY <1>0, ZenonT(40) DEF EndParams, TypeOK, AtRest, Accounted, InVerified, Covered, Accepted, InHand, Idle, progress, merge
<1>8. QED BY <1>1, <1>2, <1>3, <1>4, <1>5, <1>6, <1>7 DEF IInv

LEMMA ReturnKeeps ==
  ASSUME IInv, Return
  PROVE  IInv'
<1>0. TypeOK /\ AtRest /\ Kinds /\ Contained /\ LeftToRight /\ NoOverlap /\ Accounted
  BY DEF IInv
<1>1. TypeOK'
  BY <1>0, ScanAssumption DEF Return, TypeOK, Collecting, PCs, progress, merge
<1>2. AtRest'
  BY <1>0 DEF Return, TypeOK, AtRest, Collecting, Idle, progress, merge
<1>3. Kinds'
  BY <1>0 DEF Return, TypeOK, AtRest, Kinds, InVerified, Collecting, progress, merge
<1>4. Contained'
  BY <1>0 DEF Return, TypeOK, AtRest, Kinds, Contained, Collecting, InHand, Idle, progress, merge
<1>5. LeftToRight'
  BY <1>0 DEF Return, TypeOK, AtRest, Kinds, LeftToRight, InVerified, progress, merge
<1>6. NoOverlap'
  BY <1>0 DEF Return, NoOverlap, progress, merge
<1>7. Accounted'
  BY <1>0 DEF Return, TypeOK, AtRest, Accounted, InVerified, Covered, Accepted, InHand, Idle, progress, merge
<1>8. QED BY <1>1, <1>2, <1>3, <1>4, <1>5, <1>6, <1>7 DEF IInv

(* A unit passes from the queue to a worker, and is lost only when cancelled. *)
LEMMA TakeKeeps ==
  ASSUME IInv, NEW w \in Workers, Take(w)
  PROVE  IInv'
<1>0. TypeOK /\ AtRest /\ Kinds /\ Contained /\ LeftToRight /\ NoOverlap /\ Accounted
  BY DEF IInv
<1>1. TypeOK'
  BY <1>0, ScanAssumption DEF Take, TypeOK, Collecting, PCs, progress, merge
<1>2. AtRest'
  BY <1>0 DEF Take, TypeOK, AtRest, Collecting, Idle, progress, merge
<1>3. Kinds'
  BY <1>0 DEF Take, TypeOK, AtRest, Kinds, InVerified, Collecting, progress, merge
<1>4. Contained'
  BY <1>0 DEF Take, TypeOK, AtRest, Kinds, Contained, Collecting, InHand, Idle, progress, merge
<1>5. LeftToRight'
  BY <1>0 DEF Take, TypeOK, AtRest, Kinds, LeftToRight, InVerified, progress, merge
<1>6. NoOverlap'
  BY <1>0 DEF Take, NoOverlap, progress, merge
<1>7. Accounted'
  <2>1. PICK item \in todo :
          /\ todo' = todo \ {item}
          /\ busy' = IF cancelled THEN busy ELSE [busy EXCEPT ![w] = item]
    BY DEF Take
  <2>2. item # None
    BY <1>0, ParallelAssumption DEF Take, TypeOK, Unit
  <2>3. ~ cancelled => item \in InHand' /\ InHand \subseteq InHand'
    <3> SUFFICES ASSUME ~ cancelled PROVE item \in InHand' /\ InHand \subseteq InHand'
      OBVIOUS
    <3>1. busy' = [busy EXCEPT ![w] = item] /\ busy[w] = None
      BY <2>1 DEF Take
    <3>2. busy'[w] = item /\ \A v \in Workers : v # w => busy'[v] = busy[v]
      BY <1>0, <3>1 DEF TypeOK
    <3>3. QED BY <2>2, <3>1, <3>2 DEF InHand
  <2>4. todo' \cup InHand' \subseteq todo \cup InHand
    BY <1>0, <2>1 DEF TypeOK, InHand
  <2>5. ~ cancelled => todo' \cup InHand' = todo \cup InHand
    BY <2>1, <2>3, <2>4
  <2>6. QED BY <1>0, <2>5 DEF Take, Accounted, InVerified, Collecting, Covered, Accepted, progress, merge
<1>8. QED BY <1>1, <1>2, <1>3, <1>4, <1>5, <1>6, <1>7 DEF IInv

(* A worker turns a unit into its hits, which stay in the unit's window.    *)
LEMMA FinishUnitKeeps ==
  ASSUME IInv, NEW w \in Workers, FinishUnit(w)
  PROVE  IInv'
<1>0. TypeOK /\ AtRest /\ Kinds /\ Contained /\ LeftToRight /\ NoOverlap /\ Accounted
  BY DEF IInv
<1>1. TypeOK'
  <2>1. LET u == busy[w] IN u \in Unit /\ u \in InHand /\ u.from < u.to /\ u.to <= u.window /\ u.window \in 1 .. DataLen
    BY <1>0 DEF FinishUnit, TypeOK, InHand, Contained, Unit
  <2>2. data \in Input /\ CurrentPass \in Pass
    BY <1>0 DEF TypeOK, CurrentPass, Pass
  <2>3. UnitHits(busy[w], CurrentPass) \subseteq Stream
    BY <2>1, <2>2, UnitHitsWithin
  <2>4. done + (busy[w].to - busy[w].from) \in Nat
    BY <1>0, <2>1, ScanAssumption DEF TypeOK, Unit, Pos
  <2>5. QED BY <1>0, <2>3, <2>4 DEF FinishUnit, Advance, TypeOK, AtRest, Collecting, PCs, merge
<1>2. AtRest'
  BY <1>0 DEF FinishUnit, Advance, TypeOK, AtRest, Collecting, Idle, progress, merge
<1>3. Kinds'
  <2>1. LET u == busy[w] IN u \in Unit /\ u \in InHand /\ u.from < u.to /\ u.to <= u.window /\ u.window \in 1 .. DataLen
    BY <1>0 DEF FinishUnit, TypeOK, InHand, Contained, Unit
  <2>2. data \in Input /\ CurrentPass \in Pass
    BY <1>0 DEF TypeOK, CurrentPass, Pass
  <2>3. \A h \in UnitHits(busy[w], CurrentPass) : h.offset < h.end /\ (h.verified <=> CurrentPass = "Verified")
    BY <2>1, <2>2, UnitHitsWithin
  <2>4. QED BY <1>0, <2>3 DEF FinishUnit, Kinds, InVerified, Collecting, CurrentPass
<1>4. Contained'
  <2>1. LET u == busy[w] IN u \in Unit /\ u \in InHand /\ u.from < u.to /\ u.to <= u.window /\ u.window \in 1 .. DataLen
    BY <1>0 DEF FinishUnit, TypeOK, InHand, Contained, Unit
  <2>2. data \in Input /\ CurrentPass \in Pass
    BY <1>0 DEF TypeOK, CurrentPass, Pass
  <2>3. todo' = todo /\ found' = found /\ pc' = pc /\ InHand' \subseteq InHand
    BY <1>0 DEF FinishUnit, InHand, TypeOK
  <2>4. ASSUME pc = "CollectUnverified", NEW h \in UnitHits(busy[w], CurrentPass), NEW s \in found
        PROVE  Disjoint(s, h)
    <3>1. Apart(busy[w], s)
      BY <1>0, <2>1, <2>4 DEF Contained
    <3>2. h \in Stream /\ busy[w].from <= h.offset /\ h.end <= busy[w].window
      BY <2>1, <2>2, UnitHitsWithin
    <3>3. /\ s.offset \in Int /\ s.end \in Int /\ h.offset \in Int /\ h.end \in Int
          /\ busy[w].from \in Int /\ busy[w].window \in Int
      BY <1>0, <2>1, <3>2, ScanAssumption DEF TypeOK, Stream, Unit, Pos
    <3>4. QED BY <3>1, <3>2, <3>3 DEF Apart, Disjoint
  <2>5. hits' = hits \cup UnitHits(busy[w], CurrentPass)
    BY DEF FinishUnit
  <2>6. pc \in {"CollectVerified", "CollectUnverified"}
    BY DEF FinishUnit, Collecting
  <2>7. QED BY <1>0, <2>3, <2>4, <2>5, <2>6 DEF Contained, Collecting, Apart, Disjoint
<1>5. LeftToRight'
  BY <1>0 DEF FinishUnit, Advance, TypeOK, AtRest, Kinds, LeftToRight, InVerified, progress, merge
<1>6. NoOverlap'
  BY <1>0 DEF FinishUnit, Advance, NoOverlap, progress, merge
<1>7. Accounted'
  <2>1. LET u == busy[w] IN u \in Unit /\ u \in InHand /\ u.from < u.to /\ u.to <= u.window /\ u.window \in 1 .. DataLen
    BY <1>0 DEF FinishUnit, TypeOK, InHand, Contained, Unit
  <2>2. data \in Input /\ CurrentPass \in Pass
    BY <1>0 DEF TypeOK, CurrentPass, Pass
  <2>3. ASSUME pc = "CollectVerified", ~ cancelled, NEW p \in Pos
        PROVE  \/ \E u \in todo' \cup InHand' : u.from <= p /\ p < u.to
               \/ Accepted(p) => \E h \in hits' : h.offset = p
    <3>1. CASE \E h \in hits : h.offset = p
      BY <3>1 DEF FinishUnit
    <3>2. CASE busy[w].from <= p /\ p < busy[w].to
      <4>1. busy[w].window = DataLen /\ CurrentPass = "Verified"
        BY <1>0, <2>1, <2>3 DEF Contained, CurrentPass
      <4>2. p \in busy[w].from .. busy[w].to - 1
        BY <2>1, <3>2, ScanAssumption DEF Unit, Pos
      <4>3. ASSUME Accepted(p) PROVE \E h \in UnitHits(busy[w], CurrentPass) : h.offset = p
        <5> DEFINE h == [offset |-> p, end |-> TryAt(data, CurrentPass, p, busy[w].window),
                         verified |-> CurrentPass = "Verified"]
        <5>1. TryAt(data, CurrentPass, p, busy[w].window) # 0
          BY <4>1, <4>3 DEF Accepted
        <5>2. h \in UnitHits(busy[w], CurrentPass)
          BY <4>2, <5>1 DEF UnitHits
        <5>3. QED BY <5>2
      <4>4. QED BY <4>3 DEF FinishUnit
    <3>3. CASE \E u \in todo \cup InHand : u # busy[w] /\ u.from <= p /\ p < u.to
      <4>1. \A u \in InHand : u # busy[w] => u \in InHand'
        BY <1>0 DEF FinishUnit, InHand, TypeOK
      <4>2. QED BY <3>3, <4>1 DEF FinishUnit
    <3>4. CASE ~ Accepted(p)
      BY <3>4
    <3>5. QED BY <1>0, <2>3, <3>1, <3>2, <3>3, <3>4 DEF Accounted
  <2>4. pc' = pc /\ cancelled' = cancelled /\ data' = data /\ found' = found /\ matched' = matched /\ outcome' = outcome
    BY DEF FinishUnit
  <2>5. \A p \in Pos : Accepted(p)' = Accepted(p) /\ Covered(p)' = Covered(p)
    BY <2>4 DEF Accepted, Covered
  <2>6. pc \in {"CollectVerified", "CollectUnverified"}
    BY DEF FinishUnit, Collecting
  <2>7. QED BY <1>0, <2>3, <2>4, <2>5, <2>6 DEF Accounted, InVerified
<1>8. QED BY <1>1, <1>2, <1>3, <1>4, <1>5, <1>6, <1>7 DEF IInv

LEMMA FinishMatchKeeps ==
  ASSUME IInv, NEW w \in Workers, FinishMatch(w)
  PROVE  IInv'
<1>0. TypeOK /\ AtRest /\ Kinds /\ Contained /\ LeftToRight /\ NoOverlap /\ Accounted
  BY DEF IInv
<1>1. TypeOK'
  <2>1. pc = "Params" /\ ~ Collecting /\ busy[w] # None /\ busy[w] \in InHand
    BY DEF FinishMatch, Collecting, InHand
  <2>2. busy[w] \in Stream /\ busy[w] \in found
    BY <1>0, <2>1 DEF TypeOK, Contained
  <2>3. QED BY <1>0, <2>1, <2>2 DEF FinishMatch, Advance, TypeOK, Collecting, PCs, merge
<1>2. AtRest'
  BY <1>0 DEF FinishMatch, Advance, TypeOK, AtRest, Collecting, Idle, progress, merge
<1>3. Kinds'
  BY <1>0 DEF FinishMatch, Advance, TypeOK, AtRest, Kinds, InVerified, Collecting, progress, merge
<1>4. Contained'
  BY <1>0 DEF FinishMatch, Advance, TypeOK, AtRest, Kinds, Contained, Collecting, InHand, Idle, progress, merge
<1>5. LeftToRight'
  BY <1>0 DEF FinishMatch, Advance, TypeOK, AtRest, Kinds, LeftToRight, InVerified, progress, merge
<1>6. NoOverlap'
  BY <1>0 DEF FinishMatch, Advance, NoOverlap, progress, merge
<1>7. Accounted'
  BY <1>0 DEF FinishMatch, Advance, TypeOK, AtRest, Accounted, InVerified, Covered, Accepted, InHand, Idle, progress, merge
<1>8. QED BY <1>1, <1>2, <1>3, <1>4, <1>5, <1>6, <1>7 DEF IInv

-----------------------------------------------------------------------------
LEMMA InitInvariant == Init => IInv
<1> SUFFICES ASSUME Init PROVE IInv
  OBVIOUS
<1>1. data \in Input
  BY ScanAssumption DEF Init
<1>2. TypeOK
  <2>1. busy \in [Workers -> {None} \cup IF Collecting THEN Unit ELSE Stream]
    BY DEF Init
  <2>2. pending = {} /\ hits = {} /\ todo = {} /\ found = {} /\ matched = {} /\ best = None
    BY DEF Init
  <2>3. done = 0 /\ total = 0 /\ lastEnd \in 0 .. DataLen
    BY ScanAssumption DEF Init
  <2>4. /\ pc \in PCs /\ cancelled \in BOOLEAN /\ phase \in {"Verified", "Unverified", "Params"}
        /\ outcome \in {"None", "Ok", "Cancelled", "Unavailable"}
    BY DEF Init, PCs
  <2>5. QED BY <1>1, <2>1, <2>2, <2>3, <2>4 DEF TypeOK
<1>3. AtRest
  BY DEF Init, AtRest, Collecting, Idle
<1>a. Kinds /\ LeftToRight
  BY DEF Init, Kinds, LeftToRight, InVerified
<1>b. Contained
  BY DEF Init, Contained, Collecting
<1>4. NoOverlap /\ Accounted
  BY DEF Init, NoOverlap, Accounted, InVerified
<1>5. QED BY <1>2, <1>3, <1>a, <1>b, <1>4 DEF IInv

LEMMA StepInvariant == IInv /\ [Next]_vars => IInv'
<1> SUFFICES ASSUME IInv, [Next]_vars PROVE IInv'
  OBVIOUS
<1>1. CASE Cancel
  BY <1>1, CancelKeeps
<1>2. CASE Caller
  BY <1>2, CheckFormatsKeeps, StartVerifiedKeeps, StartUnverifiedKeeps, EndCollectKeeps,
     MergeVerifiedKeeps, EndMergeVerifiedKeeps, TakeUnverifiedKeeps, LookAheadKeeps,
     KeepBestKeeps, EndMergeUnverifiedKeeps, StartParamsKeeps, EndParamsKeeps, ReturnKeeps
     DEF Caller
<1>3. CASE \E w \in Workers : Worker(w)
  BY <1>3, TakeKeeps, FinishUnitKeeps, FinishMatchKeeps DEF Worker
<1>4. CASE UNCHANGED vars
  BY <1>4 DEF vars, progress, merge, IInv, TypeOK, AtRest, Kinds, Contained, LeftToRight,
              NoOverlap, Accounted, Collecting, Idle, InVerified, InHand, Covered, Accepted
<1>5. QED BY <1>1, <1>2, <1>3, <1>4 DEF Next, Finished

(* The state of a scan is what its passes rely on, at every moment.         *)
THEOREM ScanInvariant == Spec => []IInv
<1>1. QED BY InitInvariant, StepInvariant, PTL DEF Spec

(* Every variable of the scan keeps its type: a worker never holds a unit   *)
(* of one phase in another.                                                 *)
THEOREM ScanTypeCorrect == Spec => []TypeOK
<1>1. IInv => TypeOK
  BY DEF IInv
<1>2. QED BY <1>1, ScanInvariant, PTL

(* No two streams the scan holds ever share a byte, for every input, chunk  *)
(* size, pool and moment of cancellation.                                   *)
THEOREM ScanNeverOverlaps == Spec => []NoOverlap
<1>1. IInv => NoOverlap
  BY DEF IInv
<1>2. QED BY <1>1, ScanInvariant, PTL

(* A scan that returns Ok has skipped nothing: each offset where a          *)
(* self-verifying codec accepts a stream lies in a stream found, and the    *)
(* settings of every stream were searched for if asked.                     *)
THEOREM ScanOkIsWhole == Spec => []OkIsWhole
<1>1. ASSUME IInv, outcome = "Ok" PROVE pc = "Returned" /\ data.available
  BY <1>1 DEF IInv, Accounted
<1>2. ASSUME IInv, outcome = "Ok", "Verified" \in data.passes, NEW p \in Pos, Accepted(p)
      PROVE  Covered(p)
  BY <1>1, <1>2 DEF IInv, Accounted, InVerified
<1>3. IInv => OkIsWhole
  <2>1. ASSUME IInv, outcome = "Ok" PROVE data.matchParams => matched = found
    BY <2>1 DEF IInv, Accounted
  <2>2. QED BY <1>2, <2>1 DEF OkIsWhole, Covered, Accepted
<1>4. QED BY <1>3, ScanInvariant, PTL

-----------------------------------------------------------------------------
(* The progress of the scan adds up.                                        *)

(* The units of work of disjoint ranges partition the bytes of the ranges.  *)

LEMMA MultiplesApart ==
  ASSUME NEW c \in Nat, NEW k \in Nat, NEW l \in Nat, k < l
  PROVE  k * c + c <= l * c
<1> DEFINE d == l - k - 1
<1>1. d \in Nat /\ l = k + 1 + d
  OBVIOUS
<1>2. d * c \in Nat
  BY <1>1
<1>3. (k + 1 + d) * c = k * c + c + d * c
  BY <1>1
<1> HIDE DEF d
<1>4. QED BY <1>1, <1>2, <1>3

LEMMA UnitsOfRangeApart ==
  ASSUME NEW r \in Spans, NEW u \in Work({r}), NEW v \in Work({r}), u # v
  PROVE  u.to <= v.from \/ v.to <= u.from
<1>1. PICK k \in 0 .. DataLen : u = UnitAt(r.start + k * Chunk, r)
  BY DEF Work, UnitStarts
<1>2. PICK l \in 0 .. DataLen : v = UnitAt(r.start + l * Chunk, r)
  BY DEF Work, UnitStarts
<1>3. /\ DataLen \in Nat /\ Chunk \in Nat \ {0} /\ k \in Nat /\ l \in Nat
      /\ r.start \in Nat /\ r.end \in Nat
  BY ScanAssumption DEF Spans
<1>4. k * Chunk \in Nat /\ l * Chunk \in Nat
  BY <1>3
<1>5. k # l
  BY <1>1, <1>2
<1>6. k < l => k * Chunk + Chunk <= l * Chunk
  BY <1>3, MultiplesApart
<1>7. l < k => l * Chunk + Chunk <= k * Chunk
  BY <1>3, MultiplesApart
<1> DEFINE a == k * Chunk
           b == l * Chunk
<1> HIDE DEF a, b
<1>8. /\ u.from = r.start + a /\ v.from = r.start + b
      /\ u.to <= r.start + a + Chunk /\ v.to <= r.start + b + Chunk
  BY <1>1, <1>2, <1>3, <1>4 DEF UnitAt, a, b
<1>9. u.to \in Int /\ v.to \in Int /\ a \in Nat /\ b \in Nat
  BY <1>1, <1>2, <1>3, <1>4 DEF UnitAt, a, b
<1>10. QED BY <1>3, <1>5, <1>6, <1>7, <1>8, <1>9 DEF a, b

LEMMA UnitsCoverRange ==
  ASSUME NEW r \in Spans, NEW p \in Nat, r.start <= p, p < r.end
  PROVE  \E u \in Work({r}) : u.from <= p /\ p < u.to
<1>1. /\ DataLen \in Nat /\ Chunk \in Nat \ {0}
      /\ r.start \in Nat /\ r.end \in Nat /\ r.end <= DataLen /\ p - r.start \in Nat
  BY ScanAssumption DEF Spans
<1>2. PICK k \in 0 .. p - r.start : k * Chunk <= p - r.start /\ p - r.start < k * Chunk + Chunk
  BY <1>1, Multiples
<1> DEFINE q == r.start + k * Chunk
           u == UnitAt(q, r)
<1>3. k * Chunk \in Nat /\ q \in Nat
  BY <1>1, <1>2
<1>4. q \in r.start .. r.end - 1 /\ k \in 0 .. DataLen
  BY <1>1, <1>2, <1>3
<1>5. u \in Work({r})
  BY <1>4 DEF Work, UnitStarts
<1>6. u.from <= p /\ p < u.to
  BY <1>1, <1>2, <1>3 DEF UnitAt
<1>7. QED BY <1>5, <1>6

(* A unit of several ranges is a unit of one of them, and stays in it.      *)
LEMMA UnitOfRange ==
  ASSUME NEW R \in SUBSET Spans, NEW u \in Work(R)
  PROVE  \E r \in R : u \in Work({r}) /\ r.start <= u.from /\ u.to <= r.end /\ u \in Unit
<1>1. PICK r \in R : u \in Work({r})
  BY DEF Work
<1>2. u \in Unit /\ u.to <= u.window /\ r.start <= u.from /\ u.window = r.end
  BY <1>1, WorkUnits
<1>3. QED BY <1>1, <1>2

LEMMA UnitsPartition ==
  ASSUME NEW R \in SUBSET Spans,
         \A g, h \in R : g # h => g.end <= h.start \/ h.end <= g.start
  PROVE  /\ \A u, v \in Work(R) : u # v => u.to <= v.from \/ v.to <= u.from
         /\ \A p \in Pos : (\E u \in Work(R) : u.from <= p /\ p < u.to)
                             <=> (\E r \in R : r.start <= p /\ p < r.end)
<1>1. ASSUME NEW u \in Work(R), NEW v \in Work(R), u # v
      PROVE  u.to <= v.from \/ v.to <= u.from
  <2>1. PICK g \in R : u \in Work({g}) /\ g.start <= u.from /\ u.to <= g.end /\ u \in Unit
    BY UnitOfRange
  <2>2. PICK h \in R : v \in Work({h}) /\ h.start <= v.from /\ v.to <= h.end /\ v \in Unit
    BY UnitOfRange
  <2>3. CASE g = h
    BY <1>1, <2>1, <2>2, <2>3, UnitsOfRangeApart
  <2>4. CASE g # h
    <3>1. /\ g.start \in Int /\ g.end \in Int /\ h.start \in Int /\ h.end \in Int
          /\ u.from \in Int /\ u.to \in Int /\ v.from \in Int /\ v.to \in Int
      BY <2>1, <2>2, ScanAssumption DEF Spans, Unit, Pos
    <3>2. g.end <= h.start \/ h.end <= g.start
      BY <2>4
    <3>3. QED BY <2>1, <2>2, <3>1, <3>2
  <2>5. QED BY <2>3, <2>4
<1>2. ASSUME NEW p \in Pos, NEW u \in Work(R), u.from <= p, p < u.to
      PROVE  \E r \in R : r.start <= p /\ p < r.end
  <2>1. PICK r \in R : r.start <= u.from /\ u.to <= r.end /\ u \in Unit
    BY UnitOfRange
  <2>2. r.start \in Int /\ r.end \in Int /\ u.from \in Int /\ u.to \in Int /\ p \in Int
    BY <2>1, ScanAssumption DEF Spans, Unit, Pos
  <2>3. QED BY <1>2, <2>1, <2>2
<1>3. ASSUME NEW p \in Pos, NEW r \in R, r.start <= p, p < r.end
      PROVE  \E u \in Work(R) : u.from <= p /\ p < u.to
  <2>1. PICK u \in Work({r}) : u.from <= p /\ p < u.to
    BY <1>3, UnitsCoverRange, ScanAssumption DEF Pos
  <2>2. u \in Work(R)
    BY <2>1 DEF Work
  <2>3. QED BY <2>1, <2>2
<1>4. QED BY <1>1, <1>2, <1>3

(* No byte is in two gaps.                                                  *)
LEMMA GapsDisjoint ==
  ASSUME NEW F \in SUBSET Stream,
         \A s \in F : s.offset < s.end,
         \A s, t \in F : s # t => Disjoint(s, t),
         NEW g \in Gaps(F), NEW h \in Gaps(F), g # h
  PROVE  g.end <= h.start \/ h.end <= g.start
<1> DEFINE Bounds == {s.offset : s \in F} \cup {DataLen}
           AtStart(x) == x.start = 0 /\ x.end \in Bounds /\ (\A s \in F : s.offset >= x.end)
           After(x, s) == x.start = s.end /\ x.end \in Bounds /\ IsPrevious(F, s, x.end)
<1>1. DataLen \in Nat /\ \A s \in F : s.offset \in Nat /\ s.end \in Nat /\ s.offset < s.end /\ s.end <= DataLen
  BY ScanAssumption DEF Stream, Pos
<1>2. \A x \in Gaps(F) : x = [start |-> x.start, end |-> x.end] /\ (AtStart(x) \/ \E s \in F : After(x, s))
  BY DEF Gaps
<1>3. \A x \in Gaps(F) : x.start \in Nat /\ x.end \in Nat /\ x.end <= DataLen
  BY GapTypes, <1>1 DEF Spans
<1>4. g.start # h.start \/ g.end # h.end
  BY <1>2
<1>5. ASSUME NEW x \in Gaps(F), NEW y \in Gaps(F), AtStart(x), AtStart(y)
      PROVE  x.end <= y.end
  <2>1. CASE y.end = DataLen
    BY <1>1, <1>3, <1>5, <2>1
  <2>2. CASE \E s \in F : y.end = s.offset
    BY <1>5, <2>2
  <2>3. QED BY <1>5, <2>1, <2>2
<1>6. ASSUME NEW x \in Gaps(F), NEW y \in Gaps(F), AtStart(x), NEW s \in F, After(y, s)
      PROVE  x.end <= y.start
  BY <1>1, <1>3, <1>6
<1>7. ASSUME NEW x \in Gaps(F), NEW y \in Gaps(F), NEW s \in F, After(x, s), After(y, s)
      PROVE  x.end <= y.end
  <2>1. s.offset < y.end
    BY <1>7 DEF IsPrevious
  <2>2. CASE y.end = DataLen
    BY <1>1, <1>3, <1>7, <2>2
  <2>3. CASE \E t \in F : y.end = t.offset
    <3>1. PICK t \in F : y.end = t.offset
      BY <2>3
    <3>2. ~ (t.offset < x.end)
      BY <1>1, <1>7, <2>1, <3>1 DEF IsPrevious
    <3>3. QED BY <1>1, <1>3, <3>1, <3>2
  <2>4. QED BY <1>7, <2>2, <2>3
<1>8. ASSUME NEW x \in Gaps(F), NEW y \in Gaps(F), NEW s \in F, NEW t \in F, After(x, s), After(y, t),
             s.end <= t.offset
      PROVE  x.end <= y.start
  <2>1. ~ (t.offset < x.end)
    BY <1>1, <1>8 DEF IsPrevious
  <2>2. QED BY <1>1, <1>3, <1>8, <2>1
<1>9. CASE AtStart(g) /\ AtStart(h)
  BY <1>3, <1>4, <1>5, <1>9
<1>10. CASE \E s \in F : (AtStart(g) /\ After(h, s)) \/ (AtStart(h) /\ After(g, s))
  BY <1>6, <1>10
<1>11. CASE \E s, t \in F : After(g, s) /\ After(h, t)
  <2>1. PICK s \in F, t \in F : After(g, s) /\ After(h, t)
    BY <1>11
  <2>2. CASE s = t
    BY <1>3, <1>4, <1>7, <2>1, <2>2
  <2>3. CASE s # t
    BY <1>8, <2>1, <2>3 DEF Disjoint
  <2>4. QED BY <2>2, <2>3
<1> HIDE DEF AtStart, After
<1>12. QED BY <1>2, <1>9, <1>10, <1>11

-----------------------------------------------------------------------------
(* What is left, and how many it is.                                        *)

LEMMA PosFinite == IsFiniteSet(Pos) /\ Cardinality(Pos) = DataLen
<1>1. DataLen \in Nat
  BY ScanAssumption
<1>2. IsFiniteSet(Pos) /\ Cardinality(Pos) = IF 0 > DataLen - 1 THEN 0 ELSE DataLen - 1 - 0 + 1
  BY <1>1, FS_Interval DEF Pos
<1>3. QED BY <1>1, <1>2

LEMMA LeftFinite ==
  ASSUME IInv, IsFiniteSet(found)
  PROVE  IsFiniteSet(Left) /\ Cardinality(Left) \in Nat
<1>1. CASE Collecting
  <2>1. Left \subseteq Pos
    BY <1>1 DEF Left
  <2>2. QED BY <2>1, PosFinite, FS_Subset, FS_CardinalityType
<1>2. CASE ~ Collecting
  <2>1. Left \subseteq found
    BY <1>2 DEF IInv, AtRest, Contained, Left, InHand, Idle
  <2>2. QED BY <2>1, FS_Subset, FS_CardinalityType
<1>3. QED BY <1>1, <1>2

(* A step that hands nothing out and finishes nothing leaves the count.     *)
LEMMA NothingLeftKeeps ==
  ASSUME IInv, ProgressInv, todo = {}, Idle, UNCHANGED <<todo, busy, done, total, cancelled>>,
         IsFiniteSet(found'), outcome' = "Ok" => ~ cancelled \/ outcome = "Ok"
  PROVE  ProgressInv'
<1>1. InHand = {} /\ InHand' = {} /\ todo' = {}
  BY DEF InHand, Idle
<1>2. Left = {} /\ Left' = {}
  BY <1>1 DEF Left
<1>3. HandedOutOnce'
  BY <1>1 DEF ProgressInv, HandedOutOnce
<1>4. QED BY <1>2, <1>3 DEF ProgressInv

(* A phase begins with all of its total left.                               *)
LEMMA StartPhaseKeeps ==
  ASSUME IInv, ProgressInv, Idle, UNCHANGED <<busy, cancelled, found, outcome>>, done' = 0,
         Collecting' => \A u, v \in todo' : u # v => u.to <= v.from \/ v.to <= u.from,
         IsFiniteSet(Left'), Cardinality(Left') = total'
  PROVE  ProgressInv'
<1>1. InHand' = {}
  BY DEF InHand, Idle
<1>2. HandedOutOnce'
  BY <1>1 DEF ProgressInv, HandedOutOnce
<1>3. Cardinality(Left)' \in Nat
  BY FS_CardinalityType
<1>4. QED BY <1>2, <1>3 DEF ProgressInv

LEMMA StartVerifiedAddsUp ==
  ASSUME IInv, ProgressInv, StartVerified
  PROVE  ProgressInv'
<1>1. pc = "StartVerified" /\ UNCHANGED <<cancelled, busy, found, outcome>>
  BY DEF StartVerified
<1>2. todo = {} /\ Idle
  BY <1>1 DEF IInv, AtRest, Collecting
<1>3. CASE "Verified" \in data.passes
  <2> DEFINE R == {[start |-> 0, end |-> DataLen]}
  <2>1. todo' = Work(R) /\ done' = 0 /\ total' = DataLen /\ pc' = "CollectVerified"
    BY <1>3 DEF StartVerified, StartPhase
  <2>2. R \in SUBSET Spans
    BY ScanAssumption DEF Spans
  <2>3. /\ \A u, v \in Work(R) : u # v => u.to <= v.from \/ v.to <= u.from
        /\ \A p \in Pos : \E u \in Work(R) : u.from <= p /\ p < u.to
    BY <2>2, UnitsPartition, WorkCovers
  <2>4. Left' = Pos
    BY <2>1, <2>3 DEF Left, Collecting
  <2>5. QED BY <1>1, <1>2, <2>1, <2>3, <2>4, PosFinite, StartPhaseKeeps
<1>4. CASE "Verified" \notin data.passes
  <2>1. UNCHANGED <<todo, busy, done, total, cancelled, found, outcome>>
    BY <1>1, <1>4 DEF StartVerified, progress
  <2>2. QED BY <1>2, <2>1, NothingLeftKeeps DEF ProgressInv
<1>5. QED BY <1>3, <1>4

LEMMA StartUnverifiedAddsUp ==
  ASSUME IInv, ProgressInv, StartUnverified
  PROVE  ProgressInv'
<1>1. pc = "StartUnverified" /\ UNCHANGED <<cancelled, busy, found, outcome>>
  BY DEF StartUnverified
<1>2. todo = {} /\ Idle
  BY <1>1 DEF IInv, AtRest, Collecting
<1>3. CASE "Unverified" \in data.passes
  <2> DEFINE R == Gaps(found)
  <2>1. todo' = Work(R) /\ done' = 0 /\ total' = GapBytes(R) /\ pc' = "CollectUnverified"
    BY <1>3 DEF StartUnverified, StartPhase
  <2>2. found \in SUBSET Stream /\ R \in SUBSET Spans
    BY GapTypes DEF IInv, TypeOK
  <2>3. \A g, h \in R : g # h => g.end <= h.start \/ h.end <= g.start
    <3>1. /\ \A s \in found : s.offset < s.end
          /\ \A s, t \in found : s # t => Disjoint(s, t)
      BY DEF IInv, Kinds, NoOverlap, Disjoint
    <3>2. QED BY <2>2, <3>1, GapsDisjoint
  <2> HIDE DEF R
  <2>4. /\ \A u, v \in Work(R) : u # v => u.to <= v.from \/ v.to <= u.from
        /\ \A p \in Pos : (\E u \in Work(R) : u.from <= p /\ p < u.to)
                            <=> (\E r \in R : r.start <= p /\ p < r.end)
    BY <2>2, <2>3, UnitsPartition
  <2>5. InHand' = {}
    BY <1>1, <1>2 DEF InHand, Idle
  <2>6. Left' = {p \in Pos : \E g \in R : g.start <= p /\ p < g.end}
    BY <2>1, <2>4, <2>5 DEF Left, Collecting
  <2>7. IsFiniteSet(Left') /\ Cardinality(Left') = total'
    <3>1. Left' \subseteq Pos
      BY <2>6
    <3>2. QED BY <2>1, <2>6, <3>1, PosFinite, FS_Subset DEF GapBytes
  <2>8. QED BY <1>1, <1>2, <2>1, <2>4, <2>7, StartPhaseKeeps
<1>4. CASE "Unverified" \notin data.passes
  <2>1. UNCHANGED <<todo, busy, done, total, cancelled, found, outcome>>
    BY <1>1, <1>4 DEF StartUnverified, progress
  <2>2. QED BY <1>2, <2>1, NothingLeftKeeps DEF ProgressInv
<1>5. QED BY <1>3, <1>4

LEMMA StartParamsAddsUp ==
  ASSUME IInv, ProgressInv, StartParams
  PROVE  ProgressInv'
<1>1. pc = "StartParams" /\ UNCHANGED <<cancelled, busy, found, outcome>>
  BY DEF StartParams
<1>2. todo = {} /\ Idle
  BY <1>1 DEF IInv, AtRest, Collecting
<1>3. CASE data.matchParams
  <2>1. todo' = found /\ done' = 0 /\ total' = Cardinality(found) /\ pc' = "Params"
    BY <1>3 DEF StartParams, StartPhase
  <2>2. InHand' = {}
    BY <1>1, <1>2 DEF InHand, Idle
  <2>3. Left' = found /\ ~ Collecting'
    BY <2>1, <2>2 DEF Left, Collecting
  <2>4. QED BY <1>1, <1>2, <2>1, <2>3, StartPhaseKeeps DEF ProgressInv
<1>4. CASE ~ data.matchParams
  <2>1. UNCHANGED <<todo, busy, done, total, cancelled, found, outcome>>
    BY <1>1, <1>4 DEF StartParams, progress
  <2>2. QED BY <1>2, <2>1, NothingLeftKeeps DEF ProgressInv
<1>5. QED BY <1>3, <1>4

(* While merging and in between nothing is out.                             *)
LEMMA CallerAddsUp ==
  ASSUME IInv, ProgressInv, Caller
  PROVE  ProgressInv'
<1>1. CASE StartVerified \/ StartUnverified \/ StartParams
  BY <1>1, StartVerifiedAddsUp, StartUnverifiedAddsUp, StartParamsAddsUp
<1>2. CASE \/ CheckFormats \/ EndCollect \/ MergeVerified \/ EndMergeVerified \/ TakeUnverified
           \/ LookAhead \/ KeepBest \/ EndMergeUnverified \/ EndParams \/ Return
  <2>1. UNCHANGED <<todo, busy, done, total, cancelled>>
    BY <1>2 DEF CheckFormats, EndCollect, MergeVerified, EndMergeVerified, TakeUnverified, LookAhead,
                KeepBest, EndMergeUnverified, EndParams, Return, progress
  <2>2. todo = {} /\ Idle
    BY <1>2 DEF CheckFormats, EndCollect, MergeVerified, EndMergeVerified, TakeUnverified, LookAhead,
                KeepBest, EndMergeUnverified, EndParams, Return, IInv, AtRest, Collecting
  <2>3. found' = found \/ \E h : found' = found \cup {h}
    BY <1>2 DEF CheckFormats, EndCollect, MergeVerified, EndMergeVerified, TakeUnverified, LookAhead,
                KeepBest, EndMergeUnverified, EndParams, Return
  <2>4. IsFiniteSet(found')
    BY <2>3, FS_AddElement DEF ProgressInv
  <2>5. outcome' = "Ok" => ~ cancelled \/ outcome = "Ok"
    BY <1>2 DEF CheckFormats, EndCollect, MergeVerified, EndMergeVerified, TakeUnverified, LookAhead,
                KeepBest, EndMergeUnverified, EndParams, Return
  <2>6. QED BY <2>1, <2>2, <2>4, <2>5, NothingLeftKeeps
<1>3. QED BY <1>1, <1>2 DEF Caller

-----------------------------------------------------------------------------
(* The workers.                                                             *)

(* Only a cancellation loses what is left.                                  *)
LEMMA TakeAddsUp ==
  ASSUME IInv, ProgressInv, NEW w \in Workers, Take(w)
  PROVE  ProgressInv'
<1>1. PICK item \in todo :
        /\ todo' = todo \ {item}
        /\ busy' = IF cancelled THEN busy ELSE [busy EXCEPT ![w] = item]
  BY DEF Take
<1>2. /\ UNCHANGED <<pc, cancelled, done, total, found, outcome>> /\ busy[w] = None
      /\ Collecting' = Collecting
  BY DEF Take, progress, Collecting
<1>3. /\ busy \in [Workers -> {None} \cup IF Collecting THEN Unit ELSE Stream]
      /\ todo \subseteq IF Collecting THEN Unit ELSE Stream
      /\ done \in Nat /\ total \in Nat
  BY DEF IInv, TypeOK
<1>4. item # None
  BY <1>3, ParallelAssumption DEF Unit
<1>5. outcome # "Ok"
  BY DEF Take, IInv, Accounted, Collecting
<1>6. IsFiniteSet(Left) /\ Cardinality(Left) \in Nat
  BY LeftFinite DEF ProgressInv
<1>7. CASE cancelled
  <2>1. todo' \subseteq todo /\ InHand' = InHand /\ busy' = busy
    BY <1>1, <1>7 DEF InHand
  <2>2. Left' \subseteq Left
    BY <1>2, <2>1 DEF Left
  <2>3. Cardinality(Left') <= Cardinality(Left) /\ Cardinality(Left') \in Nat
    BY <1>6, <2>2, FS_Subset, FS_CardinalityType
  <2>4. HandedOutOnce'
    BY <1>2, <2>1 DEF ProgressInv, HandedOutOnce
  <2>5. QED BY <1>2, <1>3, <1>5, <1>6, <1>7, <2>3, <2>4 DEF ProgressInv
<1>8. CASE ~ cancelled
  <2>1. busy'[w] = item /\ \A v \in Workers : v # w => busy'[v] = busy[v]
    BY <1>1, <1>3, <1>8
  <2>2. InHand' = InHand \cup {item}
    BY <1>2, <1>4, <2>1 DEF InHand
  <2>3. todo' \cup InHand' = todo \cup InHand
    BY <1>1, <2>2
  <2>4. Left' = Left
    BY <1>2, <2>3 DEF Left
  <2>5. item \notin InHand
    BY DEF ProgressInv, HandedOutOnce
  <2>6. todo' \cap InHand' = {}
    BY <1>1, <2>2 DEF ProgressInv, HandedOutOnce
  <2>7. \A v, x \in Workers : v # x /\ busy'[v] # None => busy'[v] # busy'[x]
    BY <1>4, <2>1, <2>5 DEF ProgressInv, HandedOutOnce, InHand
  <2>8. HandedOutOnce'
    BY <1>2, <2>3, <2>6, <2>7 DEF ProgressInv, HandedOutOnce
  <2>9. QED BY <1>2, <2>4, <2>8 DEF ProgressInv
<1>9. QED BY <1>7, <1>8

(* What a worker lets go of is nobody else's.                               *)
LEMMA LettingGo ==
  ASSUME IInv, ProgressInv, NEW w \in Workers, busy[w] # None, busy' = [busy EXCEPT ![w] = None],
         UNCHANGED <<todo, pc>>
  PROVE  /\ InHand' = InHand \ {busy[w]} /\ busy[w] \in InHand /\ busy[w] \notin todo
         /\ HandedOutOnce'
<1>1. busy'[w] = None /\ \A v \in Workers : v # w => busy'[v] = busy[v]
  BY DEF IInv, TypeOK
<1>2. busy[w] \in InHand /\ busy[w] \notin todo
  BY DEF InHand, ProgressInv, HandedOutOnce
<1>3. InHand' = InHand \ {busy[w]}
  BY <1>1 DEF InHand, ProgressInv, HandedOutOnce
<1>4. \A v, x \in Workers : v # x /\ busy'[v] # None => busy'[v] # busy'[x]
  BY <1>1 DEF ProgressInv, HandedOutOnce
<1>5. todo' \cap InHand' = {}
  BY <1>3 DEF ProgressInv, HandedOutOnce
<1>6. Collecting' => \A u, v \in todo' \cup InHand' : u # v => u.to <= v.from \/ v.to <= u.from
  BY <1>3 DEF ProgressInv, HandedOutOnce, Collecting
<1>7. HandedOutOnce'
  BY <1>4, <1>5, <1>6 DEF HandedOutOnce
<1>8. QED BY <1>2, <1>3, <1>7

LEMMA FinishUnitAddsUp ==
  ASSUME IInv, ProgressInv, NEW w \in Workers, FinishUnit(w)
  PROVE  ProgressInv'
<1> DEFINE u == busy[w]
           bytes == u.from .. u.to - 1
<1>1. /\ Collecting /\ u # None /\ busy' = [busy EXCEPT ![w] = None] /\ done' = done + (u.to - u.from)
      /\ UNCHANGED <<todo, pc, cancelled, total, found, outcome>>
  BY DEF FinishUnit, Advance
<1>2. InHand' = InHand \ {u} /\ u \in InHand /\ u \notin todo /\ HandedOutOnce'
  BY <1>1, LettingGo
<1>3. u \in Unit /\ u.from < u.to /\ todo \cup InHand \subseteq Unit
  BY <1>1, <1>2 DEF IInv, TypeOK, InHand, Contained
<1>4. DataLen \in Nat /\ u.from \in Nat /\ u.to \in Nat /\ u.to <= DataLen
  BY <1>3, ScanAssumption DEF Unit, Pos
<1> HIDE DEF u
<1>5. bytes \subseteq Left
  <2>1. bytes \subseteq Pos
    BY <1>4 DEF Pos
  <2>2. \A p \in bytes : u.from <= p /\ p < u.to
    BY <1>4
  <2>3. QED BY <1>1, <1>2, <2>1, <2>2 DEF Left
<1>6. Left' = Left \ bytes
  <2>1. Collecting'
    BY <1>1 DEF Collecting
  <2>2. \A v \in todo \cup InHand : v # u => v.to <= u.from \/ u.to <= v.from
    BY <1>1, <1>2 DEF ProgressInv, HandedOutOnce
  <2>3. \A p \in Pos : p \in bytes <=> u.from <= p /\ p < u.to
    BY <1>4 DEF Pos
  <2>4. \A v \in todo \cup InHand, p \in Pos : v # u /\ v.from <= p /\ p < v.to => p \notin bytes
    BY <1>3, <1>4, <2>2, <2>3, ScanAssumption DEF Unit, Pos
  <2>5. todo' \cup InHand' = (todo \cup InHand) \ {u}
    BY <1>1, <1>2
  <2>6. QED BY <1>1, <2>1, <2>3, <2>4, <2>5 DEF Left
<1>7. IsFiniteSet(Left) /\ Cardinality(Left) \in Nat
  BY LeftFinite DEF ProgressInv
<1>8. Left \cap bytes = bytes
  BY <1>5
<1>9. Cardinality(bytes) = u.to - u.from
  <2> DEFINE a == u.from
             b == u.to - 1
  <2>1. a \in Int /\ b \in Int /\ a <= b /\ b - a + 1 = u.to - u.from
    BY <1>3, <1>4
  <2> HIDE DEF a, b
  <2>2. Cardinality(a .. b) = b - a + 1
    BY <2>1, FS_Interval
  <2>3. QED BY <2>1, <2>2 DEF a, b
<1>10. Cardinality(Left') = Cardinality(Left) - (u.to - u.from)
  <2> HIDE DEF bytes
  <2>1. Cardinality(Left \ bytes) = Cardinality(Left) - Cardinality(Left \cap bytes)
    BY <1>7, FS_Difference
  <2>2. QED BY <1>6, <1>8, <1>9, <2>1
<1>11. done \in Nat /\ total \in Nat
  BY DEF IInv, TypeOK
<1>12. QED BY <1>1, <1>2, <1>4, <1>7, <1>10, <1>11 DEF ProgressInv

LEMMA FinishMatchAddsUp ==
  ASSUME IInv, ProgressInv, NEW w \in Workers, FinishMatch(w)
  PROVE  ProgressInv'
<1>1. /\ pc = "Params" /\ busy[w] # None /\ busy' = [busy EXCEPT ![w] = None] /\ done' = done + 1
      /\ UNCHANGED <<todo, pc, cancelled, total, found, outcome>>
  BY DEF FinishMatch, Advance
<1>2. InHand' = InHand \ {busy[w]} /\ busy[w] \in InHand /\ busy[w] \notin todo /\ HandedOutOnce'
  BY <1>1, LettingGo
<1>3. Left' = Left \ {busy[w]} /\ busy[w] \in Left
  BY <1>1, <1>2 DEF Left, Collecting
<1>4. IsFiniteSet(Left) /\ Cardinality(Left) \in Nat
  BY LeftFinite DEF ProgressInv
<1>5. Cardinality(Left') = Cardinality(Left) - 1
  BY <1>3, <1>4, FS_RemoveElement
<1>6. done \in Nat /\ total \in Nat
  BY DEF IInv, TypeOK
<1>7. QED BY <1>1, <1>2, <1>4, <1>5, <1>6 DEF ProgressInv

LEMMA CancelAddsUp ==
  ASSUME IInv, ProgressInv, Cancel \/ UNCHANGED vars
  PROVE  ProgressInv'
<1>1. UNCHANGED <<pc, todo, busy, done, total, found, outcome>> /\ (cancelled => cancelled')
  BY DEF Cancel, vars, progress
<1>2. InHand' = InHand /\ Collecting' = Collecting
  BY <1>1 DEF InHand, Collecting
<1>3. Left' = Left
  BY <1>1, <1>2 DEF Left
<1>4. HandedOutOnce'
  BY <1>1, <1>2 DEF ProgressInv, HandedOutOnce
<1>5. QED BY <1>1, <1>3, <1>4 DEF ProgressInv

-----------------------------------------------------------------------------
(* Together with what the passes rely on, what is done and what is left     *)
(* always make up the total (Progress::advance, scan.rs), unless a          *)
(* cancellation lost some of it.                                            *)
THEOREM ProgressInvariant == Spec => []ProgressInv
<1>1. Init => ProgressInv
  <2> SUFFICES ASSUME Init PROVE ProgressInv
    OBVIOUS
  <2>1. InHand = {} /\ todo = {} /\ found = {} /\ done = 0 /\ total = 0 /\ ~ Collecting
    BY DEF Init, InHand, Collecting
  <2>2. Left = {} /\ HandedOutOnce
    BY <2>1 DEF Init, Left, HandedOutOnce
  <2>3. QED BY <2>1, <2>2, FS_EmptySet DEF ProgressInv
<1>2. IInv /\ ProgressInv /\ [Next]_vars => ProgressInv'
  BY CallerAddsUp, TakeAddsUp, FinishUnitAddsUp, FinishMatchAddsUp, CancelAddsUp
     DEF Next, Worker, Finished
<1>3. QED BY <1>1, <1>2, ScanInvariant, PTL DEF Spec

(* The counters never run past their total, and a scan that returns Ok has  *)
(* counted every byte or stream of its last phase (Progress, scan.rs).      *)
THEOREM ScanProgressExact == Spec => []ProgressExact
<1>1. IInv /\ ProgressInv => ProgressExact
  <2> SUFFICES ASSUME IInv, ProgressInv PROVE ProgressExact
    OBVIOUS
  <2>1. Cardinality(Left) \in Nat /\ done \in Nat /\ total \in Nat
    BY LeftFinite DEF ProgressInv, IInv, TypeOK
  <2>2. outcome = "Ok" => Left = {}
    BY DEF IInv, Accounted, AtRest, Left, InHand, Idle, Collecting
  <2>3. QED BY <2>1, <2>2, FS_EmptySet DEF ProgressInv, ProgressExact
<1>2. QED BY <1>1, ScanInvariant, ProgressInvariant, PTL

-----------------------------------------------------------------------------
(* The scan runs down.                                                      *)

(* There are finitely many streams and units.                               *)
LEMMA FinitelyMany == IsFiniteSet(Stream) /\ IsFiniteSet(Unit)
<1> DEFINE Lens == 1 .. DataLen
           Bits == 0 .. 1
           f == [s \in Stream |-> <<s.offset, <<s.end, IF s.verified THEN 1 ELSE 0>>>>]
           g == [u \in Unit |-> <<u.from, <<u.to, u.window>>>>]
<1>1. IsFiniteSet(Pos) /\ IsFiniteSet(Lens) /\ IsFiniteSet(Bits)
  <2>1. DataLen \in Int /\ 0 \in Int /\ 1 \in Int
    BY ScanAssumption
  <2>2. QED BY <2>1, PosFinite, FS_Interval
<1>2. /\ f \in Injection(Stream, Pos \X (Lens \X Bits))
      /\ g \in Injection(Unit, Pos \X (Lens \X Lens))
  <2>1. /\ f \in [Stream -> Pos \X (Lens \X Bits)]
        /\ g \in [Unit -> Pos \X (Lens \X Lens)]
    BY DEF Stream, Unit
  <2>2. \A s, t \in Stream : f[s] = f[t] => s = t
    BY DEF Stream
  <2>3. \A u, v \in Unit : g[u] = g[v] => u = v
    BY DEF Unit
  <2> HIDE DEF f, g, Lens, Bits
  <2>4. QED BY <2>1, <2>2, <2>3 DEF Injection, IsInjective
<1> HIDE DEF f, g, Lens, Bits
<1>3. IsFiniteSet(Pos \X (Lens \X Bits)) /\ IsFiniteSet(Pos \X (Lens \X Lens))
  BY <1>1, FS_Product
<1>4. QED BY <1>2, <1>3, FS_Injection

(* What is left to do is finite, so it can be counted.                      *)
LEMMA StepsCounted ==
  ASSUME IInv
  PROVE  /\ IsFiniteSet(todo) /\ IsFiniteSet(InHand) /\ IsFiniteSet(pending)
         /\ Cardinality(todo) \in Nat /\ Cardinality(InHand) \in Nat
         /\ Cardinality(pending) \in Nat
<1>1. todo \subseteq Stream \cup Unit /\ pending \subseteq Stream
  BY DEF IInv, TypeOK
<1>2. InHand \subseteq Stream \cup Unit
  BY DEF IInv, TypeOK, InHand
<1>3. IsFiniteSet(Stream \cup Unit)
  BY FinitelyMany, FS_Union
<1>4. IsFiniteSet(todo) /\ IsFiniteSet(InHand) /\ IsFiniteSet(pending)
  BY <1>1, <1>2, <1>3, FinitelyMany, FS_Subset
<1>5. QED BY <1>4, FS_CardinalityType

(* One more or one less.                                                    *)
LEMMA OneLess ==
  ASSUME NEW S, IsFiniteSet(S), NEW x \in S
  PROVE  Cardinality(S \ {x}) = Cardinality(S) - 1
BY FS_RemoveElement

LEMMA OneMore ==
  ASSUME NEW S, IsFiniteSet(S), NEW x
  PROVE  IsFiniteSet(S \cup {x}) /\ Cardinality(S \cup {x}) <= Cardinality(S) + 1
<1>1. Cardinality(S) \in Nat
  BY FS_CardinalityType
<1>2. Cardinality(S \cup {x}) = Cardinality(S) \/ Cardinality(S \cup {x}) = Cardinality(S) + 1
  BY FS_AddElement
<1>3. IsFiniteSet(S \cup {x})
  BY FS_AddElement
<1>4. QED BY <1>1, <1>2, <1>3

(* The steps of the calling thread between the merges reach a later stage.  *)
LEMMA CallerRunsDown ==
  ASSUME IInv, Caller
  PROVE  RunsDown
<1>1. CASE CheckFormats \/ StartVerified \/ StartUnverified \/ EndCollect \/ EndMergeVerified
           \/ EndMergeUnverified \/ StartParams \/ EndParams \/ Return
  <2>1. StagesLeft[pc'] < StagesLeft[pc]
    BY <1>1 DEF CheckFormats, StartVerified, StartUnverified, EndCollect, EndMergeVerified,
                EndMergeUnverified, StartParams, EndParams, Return, StagesLeft
  <2>2. QED BY <2>1 DEF RunsDown
<1>2. ASSUME NEW h \in pending, pending' = pending \ {h}, UNCHANGED <<pc, todo, busy, cancelled>>,
             best = None \/ best' # None \/ best' = best, best' = None => best = None
      PROVE  RunsDown
  <2>1. InHand' = InHand
    BY <1>2 DEF InHand
  <2>2. Cardinality(pending') = Cardinality(pending) - 1
    BY <1>2, StepsCounted, OneLess
  <2>3. Cardinality(todo') = Cardinality(todo) /\ Cardinality(InHand') = Cardinality(InHand)
    BY <1>2, <2>1
  <2>4. StepsLeft' < StepsLeft
    BY <1>2, <2>2, <2>3, StepsCounted DEF StepsLeft
  <2>5. QED BY <1>2, <2>4 DEF RunsDown
<1>3. CASE MergeVerified
  <2>1. PICK h \in pending : pending' = pending \ {h}
    BY <1>3 DEF MergeVerified
  <2>2. UNCHANGED <<pc, todo, busy, cancelled, best>>
    BY <1>3 DEF MergeVerified
  <2>3. QED BY <1>2, <2>1, <2>2
<1>4. CASE TakeUnverified
  <2>1. PICK h \in pending : best' = h /\ pending' = pending \ {h}
    BY <1>4 DEF TakeUnverified
  <2>2. UNCHANGED <<pc, todo, busy, cancelled>> /\ best = None
    BY <1>4 DEF TakeUnverified
  <2>3. h # None
    BY ParallelAssumption DEF IInv, TypeOK
  <2>4. QED BY <1>2, <2>1, <2>2, <2>3
<1>5. CASE LookAhead
  <2>1. PICK h \in pending : best' \in {best, h} /\ pending' = pending \ {h}
    BY <1>5 DEF LookAhead
  <2>2. UNCHANGED <<pc, todo, busy, cancelled>> /\ best # None
    BY <1>5 DEF LookAhead
  <2>3. h # None
    BY ParallelAssumption DEF IInv, TypeOK
  <2>4. QED BY <1>2, <2>1, <2>2, <2>3
<1>6. CASE KeepBest
  <2>1. UNCHANGED <<pc, todo, busy, cancelled, pending>> /\ best # None /\ best' = None
    BY <1>6 DEF KeepBest
  <2>2. InHand' = InHand
    BY <2>1 DEF InHand
  <2>3. StepsLeft' < StepsLeft
    BY <2>1, <2>2, StepsCounted DEF StepsLeft
  <2>4. QED BY <2>1, <2>3 DEF RunsDown
<1>7. QED BY <1>1, <1>3, <1>4, <1>5, <1>6 DEF Caller

(* A unit goes from those to take to a worker and then away; two workers    *)
(* never have the same.                                                     *)
LEMMA WorkerRunsDown ==
  ASSUME IInv, ProgressInv, NEW w \in Workers, Worker(w)
  PROVE  RunsDown
<1> DEFINE C == IF cancelled THEN 0 ELSE 1
           B == IF best = None THEN 0 ELSE 1
<1>1. UNCHANGED <<pc, pending, best, cancelled>>
  BY DEF Worker, Take, FinishUnit, FinishMatch, merge
<1>2. CASE Take(w)
  <2>1. PICK item \in todo :
          /\ todo' = todo \ {item}
          /\ busy' = IF cancelled THEN busy ELSE [busy EXCEPT ![w] = item]
    BY <1>2 DEF Take
  <2>2. Cardinality(todo') = Cardinality(todo) - 1
    BY <2>1, StepsCounted, OneLess
  <2>3. InHand' \subseteq InHand \cup {item}
    BY <2>1 DEF InHand, IInv, TypeOK
  <2>4. Cardinality(InHand') <= Cardinality(InHand) + 1 /\ Cardinality(InHand') \in Nat
    <3>1. IsFiniteSet(InHand \cup {item}) /\ Cardinality(InHand \cup {item}) <= Cardinality(InHand) + 1
      BY StepsCounted, OneMore
    <3>2. /\ IsFiniteSet(InHand')
          /\ Cardinality(InHand') <= Cardinality(InHand \cup {item})
      BY <2>3, <3>1, FS_Subset
    <3>3. Cardinality(InHand \cup {item}) \in Nat /\ Cardinality(InHand') \in Nat
      BY <3>1, <3>2, FS_CardinalityType
    <3>4. QED BY <3>1, <3>2, <3>3, StepsCounted
  <2>5. StepsLeft' < StepsLeft
    BY <1>1, <2>2, <2>4, StepsCounted DEF StepsLeft
  <2>6. QED BY <1>1, <2>5 DEF RunsDown
<1>3. CASE FinishUnit(w) \/ FinishMatch(w)
  <2>1. busy[w] # None /\ busy' = [busy EXCEPT ![w] = None] /\ UNCHANGED <<todo, pc>>
    BY <1>3 DEF FinishUnit, FinishMatch
  <2>2. InHand' = InHand \ {busy[w]} /\ busy[w] \in InHand
    BY <2>1, LettingGo
  <2>3. Cardinality(InHand') = Cardinality(InHand) - 1
    BY <2>2, StepsCounted, OneLess
  <2>4. StepsLeft' < StepsLeft
    BY <1>1, <2>1, <2>3, StepsCounted DEF StepsLeft
  <2>5. QED BY <1>1, <2>4 DEF RunsDown
<1>4. QED BY <1>2, <1>3 DEF Worker

LEMMA CancelRunsDown ==
  ASSUME IInv, Cancel
  PROVE  RunsDown
<1>1. UNCHANGED <<pc, todo, busy, pending, best>> /\ ~ cancelled /\ cancelled'
  BY DEF Cancel, merge
<1>2. InHand' = InHand
  BY <1>1 DEF InHand
<1>3. StepsLeft' < StepsLeft
  BY <1>1, <1>2, StepsCounted DEF StepsLeft
<1>4. QED BY <1>1, <1>3 DEF RunsDown

(* A scan cannot go on for ever: every step, of the calling thread, of a    *)
(* worker or of whoever cancels, lowers a pair of natural numbers (the      *)
(* stages of scan_with_progress, and the steps left in one).                *)
THEOREM ScanRunsDown == Spec => [](StepsLeft \in Nat) /\ [][RunsDown]_vars
<1>1. IInv => StepsLeft \in Nat
  BY StepsCounted DEF StepsLeft
<1>2. IInv /\ ProgressInv /\ [Next]_vars => [RunsDown]_vars
  <2> SUFFICES ASSUME IInv, ProgressInv, Next PROVE RunsDown \/ UNCHANGED vars
    OBVIOUS
  <2>1. QED BY CallerRunsDown, WorkerRunsDown, CancelRunsDown DEF Next, Finished
<1>3. QED BY <1>1, <1>2, ScanInvariant, ProgressInvariant, PTL DEF Spec

(* A set of numbers has a least one.                                        *)
LEMMA LeastNumber ==
  ASSUME NEW T \in SUBSET Nat, T # {}
  PROVE  \E x \in T : \A y \in T : x <= y
<1> DEFINE R == OpToRel(<, Nat)
<1>1. IsWellFoundedOn(R, Nat)
  BY NatLessThanWellFounded, Zenon
<1>2. \A x, y \in Nat : x < y => <<x, y>> \in R
  BY DEF OpToRel
<1> HIDE DEF R
<1>3. PICK x \in T : \A y \in T : ~ (<<y, x>> \in R)
  BY <1>1, WFMin, Zenon
<1>4. ASSUME NEW y \in T PROVE x <= y
  <2>1. x \in Nat /\ y \in Nat
    OBVIOUS
  <2>2. ~ (y < x)
    BY <1>2, <1>3, <2>1, Zenon
  <2>3. QED BY <2>1, <2>2
<1>5. QED BY <1>4, Zenon

(* Of the hits that are left there is a first one.                          *)
LEMMA FirstHit ==
  ASSUME IInv, pending # {}
  PROVE  \E h \in pending : IsFirst(h)
<1>1. \A h \in pending : h.offset \in Nat
  BY DEF IInv, TypeOK, Stream, Pos
<1>2. {h.offset : h \in pending} \in SUBSET Nat /\ {h.offset : h \in pending} # {}
  BY <1>1
<1>3. \E x \in {h.offset : h \in pending} : \A y \in {h.offset : h \in pending} : x <= y
  BY <1>2, LeastNumber
<1>4. QED BY <1>3 DEF IsFirst

(* Until it has returned, some thread of the scan has an action whose guard *)
(* holds.  With ScanRunsDown this is why it returns as long as they run.    *)
THEOREM ScanNeverStuck == Spec => []NeverStuck
<1>1. IInv => NeverStuck
  <2> SUFFICES ASSUME IInv, pc # "Returned" PROVE CallerCan \/ \E w \in Workers : WorkerCan(w)
    BY DEF NeverStuck
  <2>1. pc \in PCs
    BY DEF IInv, TypeOK
  (* A stage with workers: all items are done, or a worker is wanted.       *)
  <2>2. CASE Collecting \/ pc = "Params"
    <3>1. CASE todo = {} /\ Idle
      BY <2>2, <3>1 DEF CallerCan
    <3>2. CASE ~Idle
      <4>1. PICK w \in Workers : busy[w] # None
        BY <3>2 DEF Idle
      <4>2. QED BY <2>2, <4>1 DEF WorkerCan
    <3>3. CASE todo # {} /\ Idle
      <4>1. PICK w \in Workers : TRUE
        BY ParallelAssumption
      <4>2. busy[w] = None
        BY <3>3 DEF Idle
      <4>3. QED BY <2>2, <3>3, <4>2 DEF WorkerCan
    <3>4. QED BY <3>1, <3>2, <3>3
  <2>3. CASE pc = "MergeVerified"
    BY <2>3, FirstHit DEF CallerCan
  (* A merge with a best hit: the first one starts inside it, or none does. *)
  <2>4. CASE pc = "MergeUnverified"
    <3>1. CASE best = None
      BY <2>4, <3>1, FirstHit DEF CallerCan
    <3>2. ASSUME best # None, NEW k \in pending, ~ (k.offset >= best.end)
          PROVE  \E h \in pending : IsFirst(h) /\ h.offset < best.end
      <4>1. PICK h \in pending : IsFirst(h)
        BY <3>2, FirstHit
      <4>2. h.offset <= k.offset
        BY <4>1, <3>2 DEF IsFirst
      <4>3. h.offset \in Int /\ k.offset \in Int /\ best.end \in Int
        BY <3>2 DEF IInv, TypeOK, Stream, Pos
      <4>4. QED BY <3>2, <4>1, <4>2, <4>3
    <3>3. QED BY <2>4, <3>1, <3>2 DEF CallerCan
  <2>5. CASE pc \in {"CheckFormats", "StartVerified", "StartUnverified", "StartParams", "Return"}
    BY <2>5 DEF CallerCan
  <2>6. QED BY <2>1, <2>2, <2>3, <2>4, <2>5 DEF PCs, Collecting
<1>2. QED BY <1>1, ScanInvariant, PTL
=============================================================================
