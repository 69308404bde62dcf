---------------------------- MODULE FormatsProofs -----------------------------
(***************************************************************************)
(* Proofs about the parts of zscan-core that MCFormats puts side by side    *)
(* for TLC: the length fields, the inflate loop, the settings of the        *)
(* deflate family and the Oodle library. Each for its own specification, so *)
(* for any files, stream sizes, recorded settings, threads and paths.       *)
(***************************************************************************)
EXTENDS Fields, Inflater, ZlibSettings, OodleLibrary, WellFoundedInduction, TLAPS

-----------------------------------------------------------------------------
(* A set of numbers that is not empty has a least one.                      *)

LEMMA LeastOf ==
  ASSUME NEW T \in SUBSET Nat, T # {}
  PROVE  \E x \in T : \A y \in T : x <= y
<1> DEFINE R == OpToRel(<, Nat)
<1>1. IsWellFoundedOn(R, Nat)
  BY NatLessThanWellFounded
<1>2. \A x, y \in Nat : x < y => <<x, y>> \in R
  BY DEF OpToRel
<1> HIDE DEF R
<1>3. PICK x \in T : \A y \in T : ~ (<<y, x>> \in R)
  BY <1>1, WFMin, Zenon
<1>4. ASSUME NEW y \in T PROVE x <= y
  <2>1. x \in Nat /\ y \in Nat OBVIOUS
  <2>2. ~ (<<y, x>> \in R) BY <1>3
  <2>3. ~ (y < x) BY <1>2, <2>1, <2>2, Zenon
  <2>4. QED BY <2>1, <2>3
<1>5. QED BY <1>4, Zenon

-----------------------------------------------------------------------------
(* Fields: what matches is a field that check_fields accepts, what is       *)
(* accepted and large enough matches, and prefer_widths drops a match only  *)
(* for one that it clashes with.                                            *)

LEMMA FieldsOfInput ==
  ASSUME input' = input
  PROVE  /\ Matching' = Matching
         /\ \A c : Correct(c)' = Correct(c)
<1>1. Matching' = Matching
  BY DEF Matching, Near, Global, Candidate, Room, GapEnd, InGap, Size, Ids, StreamEnd, Measured,
         Positions, End, Largest, Smallest, InsideStream, Holds, BytesOfField
<1>2. ASSUME NEW c PROVE Correct(c)' = Correct(c)
  BY DEF Correct, Size, Ids, StreamEnd, Measured, End, InsideStream, Holds, BytesOfField
<1>3. QED BY <1>1, <1>2

LEMMA FieldsInputType ==
  ASSUME input \in Files
  PROVE  /\ Size \in Nat
         /\ \A i \in Ids : input.streams[i].offset \in Nat /\ StreamEnd(i) \in Nat
         /\ \A i \in Ids : input.streams[i].offset <= StreamEnd(i)
<1>1. /\ input.data \in Seq(0 .. Base - 1)
      /\ input.streams \in Seq([offset : Nat, compressed : Nat, decompressed : Nat])
  BY FieldsAssumption
<1>2. Size \in Nat
  BY <1>1 DEF Size
<1>3. ASSUME NEW i \in Ids
      PROVE  /\ input.streams[i].offset \in Nat /\ StreamEnd(i) \in Nat
             /\ input.streams[i].offset <= StreamEnd(i)
  <2>1. input.streams[i] \in [offset : Nat, compressed : Nat, decompressed : Nat]
    <3>1. \A S : \A s \in Seq(S) : \A j \in DOMAIN s : s[j] \in S
      OBVIOUS
    <3>2. QED BY <1>1, <3>1, Zenon DEF Ids
  <2>2. QED BY <2>1 DEF StreamEnd
<1>4. QED BY <1>2, <1>3

(* The end of a gap: the first stream that begins after p, or the file's end. *)
LEMMA GapEndIsLeast ==
  ASSUME input \in Files, NEW p \in Nat
  PROVE  /\ \A i \in Ids : input.streams[i].offset > p => GapEnd(p) <= input.streams[i].offset
         /\ \/ GapEnd(p) = Size
            \/ \E i \in Ids : input.streams[i].offset > p /\ GapEnd(p) = input.streams[i].offset
<1> DEFINE after == {input.streams[i].offset : i \in {j \in Ids : input.streams[j].offset > p}}
<1>1. after \subseteq Nat
  BY FieldsInputType
<1>2. CASE after = {}
  BY <1>2 DEF GapEnd
<1>3. CASE after # {}
  <2>1. \E e \in after : \A o \in after : e <= o
    BY <1>1, <1>3, LeastOf
  <2>2. GapEnd(p) = CHOOSE e \in after : \A o \in after : e <= o
    BY <1>3 DEF GapEnd
  <2>3. GapEnd(p) \in after /\ \A o \in after : GapEnd(p) <= o
    BY <2>1, <2>2
  <2>4. QED BY <2>3
<1>4. QED BY <1>2, <1>3

LEMMA MatchingIsCorrect ==
  ASSUME input \in Files, NEW c \in Matching
  PROVE  Correct(c)
<1>1. PICK i \in Ids : c \in Near(i) \/ c \in Global(i)
  BY DEF Matching
<1>2. CASE c \in Near(i)
  BY <1>2 DEF Near, Candidate, Correct, Widths
<1>3. CASE c \in Global(i)
  <2>1. /\ c.stream = i /\ c.width \in {4, 8}
        /\ c.offset \in Positions(0, Size) /\ InGap(c.offset)
        /\ Room(c.offset, c.width) /\ Holds(c, Measured(i, c.measures))
    BY <1>3 DEF Global, Candidate
  <2>2. c.offset \in Nat
    BY <2>1, FieldsInputType DEF Positions
  <2>3. End(c) <= GapEnd(c.offset) /\ End(c) <= Size
    BY <2>1 DEF Room, End
  <2>4. ASSUME NEW j \in Ids, c.offset < StreamEnd(j), input.streams[j].offset < End(c)
        PROVE  FALSE
    <3>1. /\ input.streams[j].offset \in Nat /\ StreamEnd(j) \in Nat /\ End(c) \in Nat
          /\ Size \in Nat
      BY <2>1, <2>2, FieldsInputType DEF End
    <3>2. ~ (input.streams[j].offset <= c.offset)
      BY <2>1, <2>2, <2>4, <3>1 DEF InGap, Positions
    <3>3. GapEnd(c.offset) <= input.streams[j].offset
      BY <2>2, <3>1, <3>2, GapEndIsLeast
    <3>4. GapEnd(c.offset) \in Nat
      BY <2>2, GapEndIsLeast, FieldsInputType
    <3>5. QED BY <2>3, <2>4, <3>1, <3>3, <3>4
  <2>5. ~ InsideStream(c)
    BY <2>4 DEF InsideStream
  <2>6. QED BY <2>1, <2>3, <2>5 DEF Correct, Widths
<1>4. QED BY <1>1, <1>2, <1>3

LEMMA LargeAndCorrectMatches ==
  ASSUME input \in Files, NEW i \in Ids, NEW p \in Positions(0, Size), NEW w \in {4, 8},
         NEW e \in Endians, NEW m \in {"compressed", "decompressed", "offset"},
         Correct(Candidate(i, p, w, e, m)), Measured(i, m) >= MinGlobal
  PROVE  Candidate(i, p, w, e, m) \in Matching
<1> DEFINE c == Candidate(i, p, w, e, m)
<1>1. /\ c.stream = i /\ c.offset = p /\ c.width = w /\ c.endian = e /\ c.measures = m
  BY DEF Candidate
<1>2. p \in Nat /\ Size \in Nat
  BY FieldsInputType DEF Positions
<1>3. End(c) \in Nat /\ End(c) = p + w /\ p < End(c) /\ End(c) <= Size
  BY <1>1, <1>2 DEF End, Correct
<1>4. ASSUME NEW j \in Ids PROVE ~ (p < StreamEnd(j) /\ input.streams[j].offset < End(c))
  BY <1>1 DEF Correct, InsideStream
<1>5. InGap(p)
  <2> SUFFICES ASSUME NEW j \in Ids, p \in Positions(input.streams[j].offset, StreamEnd(j))
               PROVE  FALSE
    BY DEF InGap
  <2>1. input.streams[j].offset \in Nat /\ StreamEnd(j) \in Nat
    BY FieldsInputType
  <2>2. QED BY <1>2, <1>3, <1>4, <2>1 DEF Positions
<1>6. End(c) <= GapEnd(p)
  <2>1. CASE GapEnd(p) = Size
    BY <1>3, <2>1
  <2>2. ASSUME NEW j \in Ids, input.streams[j].offset > p, GapEnd(p) = input.streams[j].offset
        PROVE  End(c) <= GapEnd(p)
    <3>1. /\ input.streams[j].offset \in Nat /\ StreamEnd(j) \in Nat
          /\ input.streams[j].offset <= StreamEnd(j)
      BY FieldsInputType
    <3>2. p < StreamEnd(j)
      BY <1>2, <2>2, <3>1
    <3>3. ~ (input.streams[j].offset < End(c))
      BY <1>4, <3>2
    <3>4. QED BY <1>3, <2>2, <3>1, <3>3
  <2>3. QED BY <1>2, <2>1, <2>2, GapEndIsLeast
<1>7. Room(c.offset, c.width)
  BY <1>1, <1>3, <1>6 DEF Room
<1>8. Holds(c, Measured(i, c.measures)) /\ Measured(i, c.measures) >= MinGlobal
  BY <1>1 DEF Correct
<1>9. c \in Global(i)
  <2>1. c \in {Candidate(i, q, x, y, z) : q \in {r \in Positions(0, Size) : InGap(r)}, x \in {4, 8},
                                          y \in Endians, z \in {"compressed", "decompressed", "offset"}}
    BY <1>5
  <2> HIDE DEF c
  <2>2. QED BY <1>7, <1>8, <2>1 DEF Global
<1>10. QED BY <1>9 DEF Matching

LEMMA DetectKeepsFields ==
  ASSUME FieldsInv, Detect
  PROVE  FieldsInv'
<1> USE DEF FieldsInv, Detect
<1>1. Matching' = Matching /\ \A c : Correct(c)' = Correct(c)
  BY FieldsOfInput
<1>2. QED BY <1>1 DEF RefusedForOverlap

LEMMA PreferKeepsFields ==
  ASSUME FieldsInv, Prefer
  PROVE  FieldsInv'
<1> USE DEF FieldsInv, Prefer
<1>1. Matching' = Matching /\ \A c : Correct(c)' = Correct(c)
  BY FieldsOfInput
<1>2. Foremost \subseteq left
  BY DEF Foremost
<1>3. left' \cup found' \subseteq Matching'
  BY <1>1, <1>2
<1>4. ASSUME NEW c \in Matching \ left' PROVE KeptOrClashes(c)'
  <2>1. CASE c \notin left
    BY <2>1 DEF KeptOrClashes, Clash
  <2>2. CASE c \in Foremost /\ \A k \in found : ~ Clash(k, c)
    BY <2>2 DEF KeptOrClashes
  <2>3. CASE \E k \in found : Clash(k, c)
    BY <2>3 DEF KeptOrClashes, Clash
  <2>4. QED BY <2>1, <2>2, <2>3
<1>5. QED BY <1>1, <1>3, <1>4 DEF RefusedForOverlap

LEMMA EndDetectKeepsFields ==
  ASSUME FieldsInv, EndDetect
  PROVE  FieldsInv'
<1> USE DEF FieldsInv, EndDetect
<1>1. Matching' = Matching /\ \A c : Correct(c)' = Correct(c)
  BY FieldsOfInput
<1>2. QED BY <1>1 DEF RefusedForOverlap, KeptOrClashes

LEMMA ApplyKeepsFields ==
  ASSUME FieldsInv, Apply
  PROVE  FieldsInv'
<1> USE DEF FieldsInv, Apply
<1>1. Matching' = Matching /\ \A c : Correct(c)' = Correct(c)
  BY FieldsOfInput
<1>2. \A c \in Unambiguous : Correct(c)
  BY MatchingIsCorrect DEF Unambiguous
<1>3. \A c \in fields' : Correct(c)'
  BY <1>1, <1>2
<1>4. \A c, d \in fields' : c.offset = d.offset => c = d
  BY DEF Unambiguous
<1>5. QED BY <1>1, <1>3, <1>4 DEF RefusedForOverlap

LEMMA CheckKeepsFields ==
  ASSUME FieldsInv, Check
  PROVE  FieldsInv'
<1> USE DEF FieldsInv, Check
<1>1. Matching' = Matching /\ \A c : Correct(c)' = Correct(c)
  BY FieldsOfInput
<1>2. step' = "refused" => \E c, d \in fields : c.offset # d.offset /\ Share(c, d)
  BY DEF Disjoint
<1>3. RefusedForOverlap'
  BY <1>1, <1>2 DEF RefusedForOverlap, Share, End
<1>4. step' # "matched" /\ step' # "detected"
  OBVIOUS
<1>5. QED BY <1>1, <1>3, <1>4

(* What prefer_widths keeps and what apply_unambiguous adds, in every file  *)
(* and after any number of rounds.                                          *)
THEOREM FieldsInvariant == FieldsSpec => []FieldsInv
<1>1. FieldsInit => FieldsInv
  BY DEF FieldsInit, FieldsInv, RefusedForOverlap
<1>2. FieldsInv /\ [FieldsNext]_fieldsVars => FieldsInv'
  <2> SUFFICES ASSUME FieldsInv, [FieldsNext]_fieldsVars PROVE FieldsInv'
    OBVIOUS
  <2>1. CASE UNCHANGED fieldsVars
    <3>1. Matching' = Matching /\ \A c : Correct(c)' = Correct(c)
      BY <2>1, FieldsOfInput DEF fieldsVars
    <3>2. QED BY <2>1, <3>1 DEF FieldsInv, fieldsVars, RefusedForOverlap, KeptOrClashes, Clash, Share, End
  <2>2. QED
    BY <2>1, DetectKeepsFields, PreferKeepsFields, EndDetectKeepsFields, ApplyKeepsFields,
       CheckKeepsFields DEF FieldsNext
<1>3. QED BY <1>1, <1>2, PTL DEF FieldsSpec

(* A place outside the streams that holds a large enough size or offset is a *)
(* candidate or clashes with one, also where it crosses the end of a chunk. *)
THEOREM FieldsNoneMissed == FieldsSpec => []NoneMissed
<1>1. FieldsInv => NoneMissed
  BY LargeAndCorrectMatches DEF FieldsInv, NoneMissed, KeptOrClashes
<1>2. QED BY <1>1, FieldsInvariant, PTL

(* fields --apply is refused only for candidates at two places that overlap. *)
THEOREM FieldsRefusedForOverlap == FieldsSpec => []RefusedForOverlap
<1>1. FieldsInv => RefusedForOverlap
  BY DEF FieldsInv
<1>2. QED BY <1>1, FieldsInvariant, PTL

-----------------------------------------------------------------------------
(* The inflate loop.                                                        *)

LEMMA InflaterInitFits == InflaterInit => InflaterInv
<1> SUFFICES ASSUME InflaterInit PROVE InflaterInv
  OBVIOUS
<1>1. PICK max \in MaxOutputs : ctx = [max |-> IF max = 0 THEN 1 ELSE max, buf |-> 0]
  BY DEF InflaterInit
<1>2. max \in Nat
  BY InflaterAssumption
<1>3. ctx \in [max : Nat \ {0}, buf : Nat] /\ ctx.buf <= ctx.max
  BY <1>1, <1>2
<1>4. QED BY <1>3 DEF InflaterInit, InflaterInv, AnswerForgetsAttempts

LEMMA InflateBeginsKeeps ==
  ASSUME InflaterInv, InflateBegins
  PROVE  InflaterInv' /\ ctx'.max = ctx.max
<1> DEFINE first == IF ctx.buf < Floor THEN Floor ELSE ctx.buf
<1>1. PICK body \in Bodies : inflating' = {[body |-> body, out |-> 0]}
  BY DEF InflateBegins
<1>2. ctx' = [ctx EXCEPT !.buf = first]
  BY DEF InflateBegins
<1>3. /\ ctx \in [max : Nat \ {0}, buf : Nat] /\ ctx.buf <= ctx.max
  BY DEF InflaterInv
<1>4. first \in Nat /\ first > 0 /\ first <= ctx.max
  BY <1>3, InflaterAssumption DEF Floor, Smaller
<1>5. ctx' \in [max : Nat \ {0}, buf : Nat] /\ ctx'.max = ctx.max /\ ctx'.buf = first
  <2> HIDE DEF first
  <2> QED BY <1>2, <1>3, <1>4
<1>6. body.size \in Nat
  BY InflaterAssumption DEF Bodies
<1>7. \A run \in inflating' :
        /\ run \in [body : Bodies, out : Nat]
        /\ run.out <= run.body.size /\ run.out <= ctx'.buf /\ ctx'.buf > 0
  BY <1>1, <1>4, <1>5, <1>6
<1>8. UNCHANGED last
  BY DEF InflateBegins
<1>9. AnswerForgetsAttempts'
  BY <1>5, <1>8 DEF InflaterInv, AnswerForgetsAttempts, TooLarge, Outcome
<1>10. QED BY <1>4, <1>5, <1>7, <1>8, <1>9 DEF InflaterInv

(* A pass of the loop that goes round, and one that ends it.                *)
LEMMA InflateLoopKeeps ==
  ASSUME InflaterInv, InflateLoop
  PROVE  /\ InflaterInv' /\ ctx'.max = ctx.max
         /\ inflating' # {} => ctx.buf < ctx'.buf
<1>1. /\ ctx \in [max : Nat \ {0}, buf : Nat] /\ ctx.buf <= ctx.max
      /\ \A l \in last : l.body \in Bodies
      /\ AnswerForgetsAttempts
  BY DEF InflaterInv
<1>2. PICK run \in inflating :
        LET out == run.out + Smaller(run.body.size - run.out, ctx.buf - run.out) IN
        \/ /\ out = run.body.size
           /\ GiveAnswer(run.body, Outcome(run.body, out)) /\ UNCHANGED ctx
        \/ /\ out < run.body.size /\ ctx.buf >= ctx.max
           /\ GiveAnswer(run.body, TooLarge) /\ UNCHANGED ctx
        \/ /\ out < run.body.size /\ ctx.buf < ctx.max
           /\ ctx' = [ctx EXCEPT !.buf = Doubled(@)]
           /\ inflating' = {[run EXCEPT !.out = out]}
           /\ UNCHANGED last
  BY DEF InflateLoop
<1> DEFINE size == run.body.size
           out == run.out + Smaller(size - run.out, ctx.buf - run.out)
<1>3. /\ run \in [body : Bodies, out : Nat]
      /\ run.out <= size /\ run.out <= ctx.buf /\ ctx.buf > 0
  BY DEF InflaterInv
<1>4. run.body \in Bodies /\ size \in Nat /\ run.out \in Nat
  BY <1>3, InflaterAssumption DEF Bodies
<1>5. out = Smaller(size, ctx.buf) /\ out \in Nat
  BY <1>1, <1>3, <1>4 DEF Smaller
<1>6. CASE out = size /\ GiveAnswer(run.body, Outcome(run.body, out)) /\ UNCHANGED ctx
  <2>1. inflating' = {} /\ last' = {[body |-> run.body, answer |-> Outcome(run.body, size)]}
    BY <1>6 DEF GiveAnswer
  <2>2. size <= ctx.max
    BY <1>1, <1>4, <1>5, <1>6 DEF Smaller
  <2>3. ~ (size > ctx.max)
    BY <2>2, <1>1, <1>4
  <2>4. \A l \in last' : l.body = run.body /\ l.answer = Outcome(run.body, size)
    BY <2>1
  <2>5. AnswerForgetsAttempts'
    BY <2>3, <2>4, <1>6, Zenon DEF AnswerForgetsAttempts
  <2>6. QED BY <1>1, <1>4, <1>6, <2>1, <2>5 DEF InflaterInv
<1>7. CASE /\ out < size /\ ctx.buf >= ctx.max
           /\ GiveAnswer(run.body, TooLarge) /\ UNCHANGED ctx
  <2>1. inflating' = {} /\ last' = {[body |-> run.body, answer |-> TooLarge]}
    BY <1>7 DEF GiveAnswer
  <2>2. size > ctx.max
    BY <1>1, <1>4, <1>5, <1>7 DEF Smaller
  <2>3. AnswerForgetsAttempts'
    BY <2>1, <2>2, <1>7 DEF AnswerForgetsAttempts, TooLarge
  <2>4. QED BY <1>1, <1>4, <1>7, <2>1, <2>3 DEF InflaterInv
<1>8. CASE /\ out < size /\ ctx.buf < ctx.max
           /\ ctx' = [ctx EXCEPT !.buf = Doubled(@)]
           /\ inflating' = {[run EXCEPT !.out = out]}
           /\ UNCHANGED last
  <2> DEFINE longer == Doubled(ctx.buf)
  <2>1. longer \in Nat /\ ctx.buf < longer /\ longer <= ctx.max
    BY <1>1, <1>3, <1>8 DEF Doubled, Smaller
  <2>2. /\ ctx' \in [max : Nat \ {0}, buf : Nat]
        /\ ctx'.max = ctx.max /\ ctx'.buf = longer
    <3>1. ctx' = [ctx EXCEPT !.buf = longer]
      BY <1>8
    <3> HIDE DEF longer
    <3>2. QED BY <3>1, <1>1, <2>1
  <2>3. out <= size /\ out <= ctx.buf
    BY <1>1, <1>4, <1>5 DEF Smaller
  <2>4. \A r \in inflating' :
          /\ r \in [body : Bodies, out : Nat]
          /\ r.out <= r.body.size /\ r.out <= ctx'.buf /\ ctx'.buf > 0
    <3>1. inflating' = {[run EXCEPT !.out = out]}
      BY <1>8
    <3> HIDE DEF out
    <3>2. QED BY <3>1, <1>1, <1>3, <1>4, <1>5, <2>1, <2>2, <2>3
  <2>5. AnswerForgetsAttempts'
    BY <1>1, <1>8, <2>2 DEF AnswerForgetsAttempts, TooLarge, Outcome
  <2>6. QED BY <1>1, <1>8, <2>1, <2>2, <2>4, <2>5 DEF InflaterInv
<1>9. QED BY <1>2, <1>6, <1>7, <1>8

LEMMA InflaterStep ==
  ASSUME InflaterInv, [InflaterNext]_inflaterVars
  PROVE  InflaterInv'
<1>1. CASE InflateBegins BY <1>1, InflateBeginsKeeps
<1>2. CASE InflateLoop BY <1>2, InflateLoopKeeps
<1>3. CASE UNCHANGED inflaterVars
  BY <1>3 DEF inflaterVars, InflaterInv, AnswerForgetsAttempts, TooLarge, Outcome
<1>4. QED BY <1>1, <1>2, <1>3 DEF InflaterNext

(* What is out fits the body and a buffer that keeps to the limit.          *)
THEOREM InflaterInvariant == InflaterSpec => []InflaterInv
BY InflaterInitFits, InflaterStep, PTL DEF InflaterSpec

(* The answer of an attempt is the one a fresh buffer would give, whatever  *)
(* the attempts before have left (DecodeCtx::inflate).                      *)
THEOREM InflateForgets == InflaterSpec => []AnswerForgetsAttempts
<1>1. InflaterInv => AnswerForgetsAttempts
  BY DEF InflaterInv
<1>2. QED BY <1>1, InflaterInvariant, PTL

(* The loop of inflate ends: each time it goes round the buffer is longer,  *)
(* and it never exceeds the limit.                                          *)
THEOREM InflateLoopEnds == InflaterSpec => LoopAdvances
<1> DEFINE Advances == inflating # {} /\ inflating' # {} => ctx.buf < ctx'.buf /\ ctx'.buf <= ctx.max
<1>1. InflaterInv /\ [InflaterNext]_inflaterVars => [Advances]_inflaterVars
  <2> SUFFICES ASSUME InflaterInv, InflaterNext PROVE Advances
    BY Zenon
  <2>1. CASE InflateBegins BY <2>1 DEF InflateBegins
  <2>2. CASE InflateLoop
    <3>1. InflaterInv' /\ ctx'.max = ctx.max /\ (inflating' # {} => ctx.buf < ctx'.buf)
      BY <2>2, InflateLoopKeeps
    <3>2. QED BY <3>1 DEF InflaterInv
  <2>3. QED BY <2>1, <2>2 DEF InflaterNext
<1>2. QED BY <1>1, InflaterInvariant, PTL DEF InflaterSpec, LoopAdvances

-----------------------------------------------------------------------------
(* The settings of the deflate family: the search.                          *)

LEMMA PlaceOf ==
  /\ \A m \in 1 .. 9 : Place(MemLevels, m) \in Nat
  /\ \A w \in 9 .. 15 : Place(Windows, w) \in Nat
  /\ \A l \in 1 .. 9 : Place(Levels, l) \in Nat
  /\ \A s \in {"default", "filtered", "fixed"} : Place(EachLevel, s) \in Nat
  /\ \A s \in {"rle", "huffman"} : Place(AfterLevels, s) \in Nat
<1>1. ASSUME NEW s, NEW n \in Nat, DOMAIN s = 1 .. n, NEW x, \E k \in DOMAIN s : s[k] = x
      PROVE  Place(s, x) \in Nat
  <2>1. Place(s, x) \in DOMAIN s
    BY <1>1, Zenon DEF Place
  <2>2. QED BY <1>1, <2>1
<1>2. ASSUME NEW m \in 1 .. 9 PROVE Place(MemLevels, m) \in Nat
  <2>1. DOMAIN MemLevels = 1 .. 9 /\ \E k \in DOMAIN MemLevels : MemLevels[k] = m
    BY DEF MemLevels
  <2>2. QED BY <1>1, <2>1, 9 \in Nat
<1>3. ASSUME NEW w \in 9 .. 15 PROVE Place(Windows, w) \in Nat
  <2>1. DOMAIN Windows = 1 .. 7 /\ \E k \in DOMAIN Windows : Windows[k] = w
    BY DEF Windows
  <2>2. QED BY <1>1, <2>1, 7 \in Nat
<1>4. ASSUME NEW l \in 1 .. 9 PROVE Place(Levels, l) \in Nat
  <2>1. DOMAIN Levels = 1 .. 9 /\ \E k \in DOMAIN Levels : Levels[k] = l
    BY DEF Levels
  <2>2. QED BY <1>1, <2>1, 9 \in Nat
<1>5. ASSUME NEW s \in {"default", "filtered", "fixed"} PROVE Place(EachLevel, s) \in Nat
  <2>1. DOMAIN EachLevel = 1 .. 3 /\ \E k \in DOMAIN EachLevel : EachLevel[k] = s
    BY DEF EachLevel
  <2>2. QED BY <1>1, <2>1, 3 \in Nat
<1>6. ASSUME NEW s \in {"rle", "huffman"} PROVE Place(AfterLevels, s) \in Nat
  <2>1. DOMAIN AfterLevels = 1 .. 2 /\ \E k \in DOMAIN AfterLevels : AfterLevels[k] = s
    BY DEF AfterLevels
  <2>2. QED BY <1>1, <2>1, 2 \in Nat
<1>7. QED BY <1>2, <1>3, <1>4, <1>5, <1>6

(* What is tried is valid, and has its turn.                                *)
LEMMA TriedFits ==
  ASSUME NEW p \in Tried
  PROVE  p \in ValidSettings /\ Turn(p) \in Nat
<1>1. PICK w \in Ways, b \in WindowsFor(made.header, made.size), m \in MemLevelsFor(made.block) :
        p = Setting(w[1], b, m, w[2])
  BY DEF Tried
<1>2. b \in 9 .. 15
  BY DEF WindowsFor
<1>3. m \in 1 .. 9
  BY DEF MemLevelsFor
<1>4. \/ w[1] \in 1 .. 9 /\ w[2] \in {"default", "filtered", "fixed"}
      \/ w[1] = 6 /\ w[2] \in {"rle", "huffman"}
      \/ w[1] = 0 /\ w[2] = "default"
  BY DEF Ways
<1>5. p \in ValidSettings /\ p.level = w[1] /\ p.strategy = w[2] /\ p.mem = m /\ p.window = b
  BY <1>1, <1>2, <1>3, <1>4 DEF Setting, ValidSettings, Strategies
<1>6. WayPlace(p) \in Nat
  <2>1. CASE w[1] \in 1 .. 9 /\ w[2] \in {"default", "filtered", "fixed"}
    <3>1. WayPlace(p) = 4 * Place(Levels, p.level) + Place(EachLevel, p.strategy)
      BY <1>5, <2>1 DEF WayPlace
    <3>2. QED BY <3>1, <1>5, <2>1, PlaceOf
  <2>2. CASE w[1] = 6 /\ w[2] \in {"rle", "huffman"}
    <3>1. WayPlace(p) = 90 + Place(AfterLevels, p.strategy)
      BY <1>5, <2>2 DEF WayPlace
    <3>2. QED BY <3>1, <1>5, <2>2, PlaceOf
  <2>3. CASE w[1] = 0
    BY <1>5, <2>3 DEF WayPlace
  <2>4. QED BY <1>4, <2>1, <2>2, <2>3
<1>7. Place(MemLevels, p.mem) \in Nat /\ Place(Windows, p.window) \in Nat
  BY <1>2, <1>3, <1>5, PlaceOf
<1>8. QED BY <1>5, <1>6, <1>7 DEF Turn

(* The settings that the search is bound to come to for a stream made with  *)
(* p, if not to others before, and if the first block does not rule out p's *)
(* memory level.                                                            *)
Equivalent(p) ==
  Setting(IF p.level # 0 /\ p.strategy \in {"huffman", "rle"} THEN 6 ELSE p.level,
          IF made.header \in 9 .. 15 \/ 2 ^ p.window - Margin < made.size THEN p.window ELSE 15,
          p.mem,
          IF p.level = 0 \/ (p.level \in 1 .. 3 /\ p.strategy = "filtered") THEN "default" ELSE p.strategy)

LEMMA EquivalentIsTried ==
  ASSUME MadeFits, ~FillsBuffer
  PROVE  Equivalent(made.params) \in Tried
<1> DEFINE p == made.params
           l == IF p.level # 0 /\ p.strategy \in {"huffman", "rle"} THEN 6 ELSE p.level
           s == IF p.level = 0 \/ (p.level \in 1 .. 3 /\ p.strategy = "filtered") THEN "default" ELSE p.strategy
           b == IF made.header \in 9 .. 15 \/ 2 ^ p.window - Margin < made.size THEN p.window ELSE 15
<1>1. /\ p.level \in 0 .. 9 /\ p.window \in 9 .. 15 /\ p.mem \in 1 .. 9 /\ p.strategy \in Strategies
  BY ZlibAssumption DEF MadeFits, ValidSettings
<1>2. <<l, s>> \in Ways
  <2>1. \/ l \in 1 .. 9 /\ s \in {"default", "fixed"}
        \/ l \in 4 .. 9 /\ s = "filtered"
        \/ <<l, s>> \in {<<6, "rle">>, <<6, "huffman">>, <<0, "default">>}
    <3>1. CASE p.level = 0
      BY <3>1
    <3>2. CASE p.level # 0 /\ p.strategy \in {"huffman", "rle"}
      BY <3>2
    <3>3. CASE p.level # 0 /\ p.strategy = "filtered"
      BY <1>1, <3>3
    <3>4. CASE p.level # 0 /\ p.strategy \in {"default", "fixed"}
      BY <1>1, <3>4
    <3>5. QED BY <1>1, <3>1, <3>2, <3>3, <3>4 DEF Strategies
  <2> HIDE DEF l, s
  <2>2. QED BY <2>1 DEF Ways
<1>3. b \in WindowsFor(made.header, made.size)
  <2>1. CASE made.header \in 9 .. 15
    BY <2>1, <1>1 DEF WindowsFor, MadeFits
  <2>2. CASE made.header \notin 9 .. 15
    <3>1. b \in 9 .. 15 /\ (b = 15 \/ 2 ^ b - Margin < made.size)
      BY <2>2, <1>1
    <3> HIDE DEF b
    <3>2. QED BY <2>2, <3>1 DEF WindowsFor
  <2>3. QED BY <2>1, <2>2
<1>4. p.mem \in MemLevelsFor(made.block)
  <2>1. made.block \in FirstBlocks(p, made.size)
    BY DEF MadeFits
  <2> DEFINE block == made.block
  <2>2. \/ block.stored
        \/ ~ block.stored /\ block.last /\ block.symbols < Capacity(p.mem) /\ block.symbols \in Int
        \/ ~ block.stored /\ ~ block.last /\ block.symbols = Capacity(p.mem)
    BY <2>1, <1>1, ZlibAssumption DEF FirstBlocks, FillsBuffer
  <2>3. Capacity(p.mem) \in Int
    BY <1>1 DEF Capacity
  <2>4. QED BY <1>1, <2>2, <2>3 DEF MemLevelsFor
<1>5. Equivalent(p) = Setting(<<l, s>>[1], b, p.mem, <<l, s>>[2])
  BY DEF Equivalent
<1> HIDE DEF l, s, b
<1>6. \A w \in Ways : Setting(w[1], b, p.mem, w[2]) \in Tried
  BY <1>3, <1>4 DEF Tried
<1>7. QED BY <1>2, <1>5, <1>6, Zenon

LEMMA EquivalentReproduces ==
  ASSUME MadeFits
  PROVE  Reproduces(Equivalent(made.params))
<1> DEFINE p == made.params
           q == Equivalent(p)
<1>1. /\ p.level \in 0 .. 9 /\ p.window \in 9 .. 15 /\ p.mem \in 1 .. 9 /\ p.strategy \in Strategies
      /\ made.size \in Nat
  BY ZlibAssumption DEF MadeFits, ValidSettings
<1>2. Way(q) = Way(p)
  BY <1>1 DEF Way, Equivalent, Setting, Strategies
<1>3. q.mem = p.mem
  BY DEF Equivalent, Setting
<1>4. (IF made.size <= 2 ^ q.window - Margin THEN 15 ELSE q.window)
        = (IF made.size <= 2 ^ p.window - Margin THEN 15 ELSE p.window)
  <2>1. 2 ^ p.window \in Int
    BY <1>1
  <2>2. q.window = IF made.header \in 9 .. 15 \/ 2 ^ p.window - Margin < made.size THEN p.window ELSE 15
    BY DEF Equivalent, Setting
  <2>3. CASE q.window = p.window
    BY <2>3
  <2>4. CASE q.window = 15 /\ ~ (2 ^ p.window - Margin < made.size)
    BY <1>1, <2>1, <2>4 DEF Margin
  <2>5. QED BY <2>2, <2>3, <2>4
<1>5. QED BY <1>2, <1>3, <1>4, Zenon DEF Reproduces, Output

(* No buffer is larger than that of memory level 9.                         *)
LEMMA FullestBlock ==
  ASSUME FillsBuffer, made.params.mem = 9
  PROVE  MemLevelsFor(made.block) = {}
<1> DEFINE C == [m \in 1 .. 9 |-> Capacity(m)]
<1>1. /\ 2 ^ 7 = 128 /\ 2 ^ 8 = 256 /\ 2 ^ 9 = 512 /\ 2 ^ 10 = 1024 /\ 2 ^ 11 = 2048
      /\ 2 ^ 12 = 4096 /\ 2 ^ 13 = 8192 /\ 2 ^ 14 = 16384 /\ 2 ^ 15 = 32768
  OBVIOUS
<1>2. /\ C[1] = 127 /\ C[2] = 255 /\ C[3] = 511 /\ C[4] = 1023 /\ C[5] = 2047
      /\ C[6] = 4095 /\ C[7] = 8191 /\ C[8] = 16383 /\ C[9] = 32767
  BY <1>1 DEF Capacity
<1>3. \A m \in 1 .. 9 : m = 1 \/ m = 2 \/ m = 3 \/ m = 4 \/ m = 5 \/ m = 6 \/ m = 7 \/ m = 8 \/ m = 9
  OBVIOUS
<1>4. \A m \in 1 .. 9 : Capacity(m) = C[m]
  BY Zenon
<1>5. made.block.symbols = C[9] /\ made.block.last /\ ~made.block.stored
  BY <1>4, 9 \in 1 .. 9 DEF FillsBuffer
<1> HIDE DEF C
<1>6. \A m \in 1 .. 9 : ~(C[m] > C[9])
  BY <1>2, <1>3
<1>7. \A m \in 1 .. 9 : ~(Capacity(m) > made.block.symbols)
  BY <1>4, <1>5, <1>6
<1>8. QED BY <1>5, <1>7 DEF MemLevelsFor

LEMMA FindFinds ==
  ASSUME ZlibInv, Find
  PROVE  ZlibInv'
<1> DEFINE good == {p \in Tried : Reproduces(p)}
<1>1. /\ phase' = "searched" /\ UNCHANGED <<made, encoder>>
      /\ settings' = {p \in good : \A q \in good : Turn(p) <= Turn(q)}
  BY DEF Find
<1>2. /\ MadeFits' /\ FitsDeclaredWindow' /\ Tried' = Tried
      /\ FillsBuffer' = FillsBuffer /\ made' = made
  BY <1>1 DEF ZlibInv, MadeFits, FitsDeclaredWindow, Tried, FillsBuffer
<1>3. ASSUME ~FillsBuffer PROVE settings' # {}
  <2> DEFINE turns == {Turn(p) : p \in good}
  <2>1. turns \in SUBSET Nat
    BY TriedFits
  <2>2. turns # {}
    BY <1>3, EquivalentIsTried, EquivalentReproduces DEF ZlibInv
  <2>3. PICK n \in turns : \A k \in turns : n <= k
    <3> HIDE DEF turns
    <3> QED BY <2>1, <2>2, LeastOf
  <2>4. PICK p \in good : Turn(p) = n
    BY <2>3
  <2>5. \A q \in good : Turn(p) <= Turn(q)
    BY <2>3, <2>4
  <2> HIDE DEF good
  <2>6. QED BY <2>5, <1>1
<1>4. settings' \subseteq Tried
  BY <1>1
<1>5. ASSUME FillsBuffer, made.params.mem = 9 PROVE settings' = {}
  <2>1. Tried = {}
    BY <1>5, FullestBlock DEF Tried
  <2>2. QED BY <2>1, <1>4
<1>6. SearchFindsSettings'
  BY <1>2, <1>3, <1>5 DEF SearchFindsSettings
<1>7. QED BY <1>2, <1>4, <1>6 DEF ZlibInv

-----------------------------------------------------------------------------
(* What an edit is encoded with.                                            *)

(* Of two windows that zlib encodes with, the first reaches no further than *)
(* the second declares.                                                     *)
LEMMA Reach ==
  /\ \A w, h \in 9 .. 15 : w <= h => 2 ^ w - Margin <= 2 ^ h
  /\ 2 ^ 9 - Margin <= 2 ^ 8
<1> DEFINE P == [w \in 9 .. 15 |-> 2 ^ w]
<1>1. /\ 2 ^ 8 = 256 /\ 2 ^ 9 = 512 /\ 2 ^ 10 = 1024 /\ 2 ^ 11 = 2048 /\ 2 ^ 12 = 4096
      /\ 2 ^ 13 = 8192 /\ 2 ^ 14 = 16384 /\ 2 ^ 15 = 32768
  OBVIOUS
<1>2. /\ P[9] = 512 /\ P[10] = 1024 /\ P[11] = 2048 /\ P[12] = 4096
      /\ P[13] = 8192 /\ P[14] = 16384 /\ P[15] = 32768
  BY <1>1
<1>3. \A w \in 9 .. 15 : w = 9 \/ w = 10 \/ w = 11 \/ w = 12 \/ w = 13 \/ w = 14 \/ w = 15
  OBVIOUS
<1>4. \A w \in 9 .. 15 : 2 ^ w = P[w]
  BY Zenon
<1> HIDE DEF P
<1>5. \A w, h \in 9 .. 15 : w <= h => P[w] - Margin <= P[h]
  BY <1>2, <1>3 DEF Margin
<1>6. QED BY <1>1, <1>4, <1>5 DEF Margin

LEMMA EncodeKeeps ==
  ASSUME ZlibInv, Encode
  PROVE  ZlibInv'
<1>1. PICK base \in {Adapted(p) : p \in settings \cup Recorded} \cup {DefaultParams} :
        \E p \in {base} \cup Stronger(base) : encoder' = {p}
  BY DEF Encode
<1>2. PICK p \in {base} \cup Stronger(base) : encoder' = {p}
  BY <1>1
<1>3. phase' = "encoded" /\ phase = "searched" /\ UNCHANGED <<made, settings>>
  BY DEF Encode
<1>4. made.header \in 0 .. 15 /\ (made.header = 0 \/ made.header \in 8 .. 15)
  BY ZlibAssumption DEF ZlibInv, MadeFits, ValidSettings
<1>5. HeaderWindow \in 9 .. 15
  BY <1>4 DEF HeaderWindow
<1>6. settings \cup Recorded \subseteq ValidSettings
  BY TriedFits, ZlibAssumption DEF ZlibInv
<1>7. base \in ValidSettings /\ base.window <= HeaderWindow
  <2>1. ASSUME NEW q \in ValidSettings
        PROVE  Adapted(q) \in ValidSettings /\ Adapted(q).window <= HeaderWindow
    <3> DEFINE w == IF q.window < HeaderWindow THEN q.window ELSE HeaderWindow
    <3>1. w \in 9 .. 15 /\ w <= HeaderWindow
      BY <1>5 DEF ValidSettings
    <3>2. Adapted(q) = [q EXCEPT !.window = w]
      BY DEF Adapted
    <3> HIDE DEF w
    <3>3. QED BY <3>1, <3>2 DEF ValidSettings
  <2>2. DefaultParams \in ValidSettings /\ DefaultParams.window <= HeaderWindow
    BY <1>5 DEF DefaultParams, Setting, ValidSettings, Strategies
  <2>3. CASE base = DefaultParams
    BY <2>2, <2>3
  <2>4. CASE base \in {Adapted(q) : q \in settings \cup Recorded}
    BY <2>1, <2>4, <1>6
  <2>5. QED BY <1>1, <2>3, <2>4
<1>8. IsValid(p) /\ p.window = base.window
  <2>1. CASE p = base
    BY <2>1, <1>7 DEF IsValid, ValidSettings
  <2>2. CASE p \in Stronger(base)
    BY <2>2, <1>7 DEF IsValid, ValidSettings, Stronger, Setting
  <2>3. QED BY <1>2, <2>1, <2>2
<1>9. made.header # 0 => 2 ^ p.window - Margin <= 2 ^ made.header
  <2>1. CASE made.header = 8
    <3>1. p.window = 9
      BY <1>7, <1>8, <2>1 DEF HeaderWindow, IsValid
    <3>2. QED BY <2>1, <3>1, Reach
  <2>2. CASE made.header \in 9 .. 15
    <3>1. p.window \in 9 .. 15 /\ p.window <= made.header
      BY <1>7, <1>8, <2>2 DEF HeaderWindow, IsValid
    <3>2. QED BY <2>2, <3>1, Reach
  <2>3. QED BY <1>4, <2>1, <2>2
<1>10. FitsDeclaredWindow'
  BY <1>2, <1>3, <1>8, <1>9 DEF FitsDeclaredWindow
<1>11. QED BY <1>3, <1>10 DEF ZlibInv, MadeFits, SearchFindsSettings, FillsBuffer, Tried

LEMMA ZlibInitFits == ZlibInit => ZlibInv
<1> SUFFICES ASSUME ZlibInit PROVE ZlibInv
  OBVIOUS
<1>1. PICK p \in MadeWith, size \in DataSizes :
        \E zlib \in BOOLEAN : \E block \in FirstBlocks(p, size) :
          \E header \in IF zlib THEN {p.window} \cup (IF p.window = 9 THEN {8} ELSE {}) ELSE {0} :
            made = [params |-> p, size |-> size, block |-> block, header |-> header]
  BY DEF ZlibInit
<1>2. PICK block \in FirstBlocks(p, size), header \in {0, p.window} \cup (IF p.window = 9 THEN {8} ELSE {}) :
        made = [params |-> p, size |-> size, block |-> block, header |-> header]
  BY <1>1
<1>3. MadeFits
  BY <1>1, <1>2 DEF MadeFits
<1>4. phase = "made" /\ settings = {} /\ encoder = {}
  BY DEF ZlibInit
<1>5. QED BY <1>3, <1>4 DEF ZlibInv, SearchFindsSettings, FitsDeclaredWindow

LEMMA ZlibStep ==
  ASSUME ZlibInv, [ZlibNext]_zlibVars
  PROVE  ZlibInv'
<1>1. CASE Find BY <1>1, FindFinds
<1>2. CASE Encode BY <1>2, EncodeKeeps
<1>3. CASE UNCHANGED zlibVars
  BY <1>3 DEF zlibVars, ZlibInv, MadeFits, SearchFindsSettings, FillsBuffer, FitsDeclaredWindow, Tried
<1>4. QED BY <1>1, <1>2, <1>3 DEF ZlibNext

(* What is known of a stream is true of the settings it was made with, only *)
(* what is tried is found, and what is not found had a full last block.     *)
THEOREM ZlibInvariant == ZlibSpec => []ZlibInv
BY ZlibInitFits, ZlibStep, PTL DEF ZlibSpec

(* find_params finds settings for every stream that zlib made, of any       *)
(* length, whatever its first block and its header leave out of the search, *)
(* unless its only block filled the buffer; then, for the largest buffer,   *)
(* it finds none.                                                           *)
THEOREM ZlibSearchFinds == ZlibSpec => []SearchFindsSettings
<1>1. ZlibInv => SearchFindsSettings
  BY DEF ZlibInv
<1>2. QED BY <1>1, ZlibInvariant, PTL

(* Whatever settings are found, recorded by hand or stronger, an edit is    *)
(* encoded with a window that the stream's header allows for.               *)
THEOREM ZlibFitsDeclaredWindow == ZlibSpec => []FitsDeclaredWindow
<1>1. ZlibInv => FitsDeclaredWindow
  BY DEF ZlibInv
<1>2. QED BY <1>1, ZlibInvariant, PTL

-----------------------------------------------------------------------------
(* The Oodle library.                                                       *)

(* What DllPath and a change of it give is a path, or none.                 *)
LEMMA PathTypes ==
  ASSUME OodleTypes
  PROVE  DllPath \in AnyPath
BY DEF OodleTypes, DllPath, AnyPath

LEMMA SetDllKeeps ==
  ASSUME OodleInv, SetDll
  PROVE  OodleInv'
<1>1. PICK p \in Paths \cup {NoPath} :
        LET now == IF p # NoPath THEN p ELSE Environment IN
        /\ configured' = p
        /\ use' = [t \in Threads |-> IF InUse(t) THEN [use[t] EXCEPT !.seen = @ \cup {now}] ELSE use[t]]
  BY DEF SetDll
<1>2. \A t \in Threads :
        /\ use'[t].at = use[t].at /\ use'[t].path = use[t].path
        /\ use[t].seen \subseteq use'[t].seen
        /\ use'[t] \in [at : Stages, path : AnyPath, seen : SUBSET AnyPath]
  BY <1>1 DEF OodleInv, OodleTypes, AnyPath
<1>3. UNCHANGED <<loaded, lock>>
  BY DEF SetDll
<1>4. OodleTypes'
  BY <1>1, <1>2, <1>3 DEF OodleInv, OodleTypes
<1>5. OneInside'
  BY <1>2, <1>3 DEF OodleInv, OneInside
<1>6. LookUpsHold' /\ UsesWhatIsConfigured'
  BY <1>2, <1>3 DEF OodleInv, LookUpsHold, UsesWhatIsConfigured, IsLoaded
<1>7. LoadedOnce'
  BY <1>3 DEF OodleInv, LoadedOnce
<1>8. QED BY <1>4, <1>5, <1>6, <1>7 DEF OodleInv

(* A use begins, ends, or waits for the lock: the table is not touched.     *)
LEMMA UseKeeps ==
  ASSUME OodleInv, NEW t \in Threads, Ask(t) \/ Enter(t) \/ Return(t)
  PROVE  OodleInv'
<1>1. OodleTypes'
  <2>1. CASE Ask(t)
    BY <2>1, PathTypes DEF OodleInv, OodleTypes, Ask, Stages
  <2>2. CASE Enter(t)
    BY <2>2 DEF OodleInv, OodleTypes, Enter, Stages
  <2>3. CASE Return(t)
    BY <2>3 DEF OodleInv, OodleTypes, Return, Stages, Idle, AnyPath
  <2>4. QED BY <2>1, <2>2, <2>3
<1>2. OneInside'
  BY OodleAssumption DEF OodleInv, OodleTypes, OneInside, Ask, Enter, Return, Idle
<1>3. LookUpsHold' /\ UsesWhatIsConfigured'
  <2>1. /\ use \in [Threads -> [at : Stages, path : AnyPath, seen : SUBSET AnyPath]]
        /\ LookUpsHold /\ UsesWhatIsConfigured
    BY DEF OodleInv, OodleTypes
  <2>2. loaded' = loaded
    BY DEF Ask, Enter, Return
  <2>3. CASE Ask(t)
    BY <2>1, <2>2, <2>3 DEF LookUpsHold, UsesWhatIsConfigured, IsLoaded, Ask
  <2>4. CASE Enter(t)
    BY <2>1, <2>2, <2>4 DEF LookUpsHold, UsesWhatIsConfigured, IsLoaded, Enter
  <2>5. CASE Return(t)
    BY <2>1, <2>2, <2>5 DEF LookUpsHold, UsesWhatIsConfigured, IsLoaded, Return, Idle
  <2>6. QED BY <2>3, <2>4, <2>5
<1>4. LoadedOnce'
  BY DEF OodleInv, LoadedOnce, Ask, Enter, Return
<1>5. QED BY <1>1, <1>2, <1>3, <1>4 DEF OodleInv

LEMMA LookUpKeeps ==
  ASSUME OodleInv, NEW t \in Threads, LookUp(t)
  PROVE  OodleInv'
<1>1. OodleTypes'
  BY DEF OodleInv, OodleTypes, LookUp, Stages
<1>2. OneInside'
  BY OodleAssumption DEF OodleInv, OodleTypes, OneInside, LookUp
<1>3. LookUpsHold' /\ UsesWhatIsConfigured'
  BY DEF OodleInv, OodleTypes, LookUpsHold, UsesWhatIsConfigured, IsLoaded, LookUp
<1>4. LoadedOnce'
  BY DEF OodleInv, LoadedOnce, LookUp
<1>5. QED BY <1>1, <1>2, <1>3, <1>4 DEF OodleInv

(* The library that comes was missing when the thread looked, and the lock  *)
(* kept it missing; nobody else was about to load one.                      *)
LEMMA LoadKeeps ==
  ASSUME OodleInv, NEW t \in Threads, Load(t)
  PROVE  OodleInv'
<1>1. PICK outcome \in {"has", "failed", "panicked"} :
        /\ loaded' = IF outcome = "has" THEN Append(loaded, use[t].path) ELSE loaded
        /\ use' = [use EXCEPT ![t].at = outcome]
  BY DEF Load
<1>2. use[t].path \in AnyPath /\ ~ IsLoaded(use[t].path) /\ lock = t
  BY DEF OodleInv, OodleTypes, OneInside, LookUpsHold, Load
<1>3. \A q : IsLoaded(q)' <=> IsLoaded(q) \/ (outcome = "has" /\ q = use[t].path)
  <2>1. loaded \in Seq(AnyPath)
    BY DEF OodleInv, OodleTypes
  <2>2. CASE outcome = "has"
    <3>1. loaded' = Append(loaded, use[t].path)
      BY <1>1, <2>2
    <3>2. /\ DOMAIN loaded' = DOMAIN loaded \cup {Len(loaded) + 1}
          /\ loaded'[Len(loaded) + 1] = use[t].path
          /\ \A k \in DOMAIN loaded : loaded'[k] = loaded[k]
      BY <1>2, <2>1, <3>1
    <3>3. QED BY <2>2, <3>2 DEF IsLoaded
  <2>3. CASE outcome # "has"
    BY <1>1, <2>3 DEF IsLoaded
  <2>4. QED BY <2>2, <2>3
<1>4. OodleTypes'
  BY <1>1, <1>2 DEF OodleInv, OodleTypes, Load, Stages
<1>5. OneInside'
  BY <1>1, <1>2, OodleAssumption DEF OodleInv, OodleTypes, OneInside, Load
<1>6. LookUpsHold' /\ UsesWhatIsConfigured'
  BY <1>1, <1>2, <1>3 DEF OodleInv, OodleTypes, OneInside, LookUpsHold, UsesWhatIsConfigured, Load
<1>7. LoadedOnce'
  BY <1>1, <1>2 DEF OodleInv, OodleTypes, LoadedOnce, IsLoaded
<1>8. QED BY <1>4, <1>5, <1>6, <1>7 DEF OodleInv

(* Whatever the threads and the user do, a thread that is about to load has *)
(* the lock and finds its library still missing.                            *)
THEOREM OodleInvariant == OodleSpec => []OodleInv
<1>1. OodleInit => OodleInv
  BY DEF OodleInit, OodleInv, OodleTypes, OneInside, LookUpsHold, LoadedOnce, UsesWhatIsConfigured,
         Idle, AnyPath, Stages
<1>2. OodleInv /\ [OodleNext]_oodleVars => OodleInv'
  <2>1. CASE OodleNext
    BY <2>1, SetDllKeeps, UseKeeps, LookUpKeeps, LoadKeeps DEF OodleNext
  <2>2. CASE UNCHANGED oodleVars
    BY <2>2 DEF oodleVars, OodleInv, OodleTypes, OneInside, LookUpsHold, LoadedOnce,
                UsesWhatIsConfigured, IsLoaded
  <2>3. QED BY <2>1, <2>2
<1>3. QED BY <1>1, <1>2, PTL DEF OodleSpec

(* No library is loaded twice, however many threads meet at its first use   *)
(* (plugins.rs, LOADED).                                                    *)
THEOREM OodleLoadedOnce == OodleSpec => []LoadedOnce
<1>1. OodleInv => LoadedOnce
  BY DEF OodleInv
<1>2. QED BY <1>1, OodleInvariant, PTL

(* A decode works with a library that was configured since it began.        *)
THEOREM OodleUsesWhatIsConfigured == OodleSpec => []UsesWhatIsConfigured
<1>1. OodleInv => UsesWhatIsConfigured
  BY DEF OodleInv
<1>2. QED BY <1>1, OodleInvariant, PTL
=============================================================================
