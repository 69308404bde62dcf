------------------------------- MODULE Fields -------------------------------
(***************************************************************************)
(* fields.rs: detect_fields looks for the places that hold a stream's size  *)
(* or offset, prefer_widths drops all but one of those that share bytes,    *)
(* apply_unambiguous adds what is left to the manifest, and check_fields    *)
(* decides whether the manifest may be saved (zscan fields --apply, and the *)
(* front end's "Detect length fields").                                    *)
(*                                                                         *)
(* The bytes of a file are digits of base Base, which is 256 in the code.   *)
(* A field is the first match of the four nested loops or of the search     *)
(* through the gaps; duplicates are dropped, so candidates are a set.       *)
(***************************************************************************)
EXTENDS Integers, Sequences, FiniteSets, SequencesExt

CONSTANTS
  Base,       (* how many values a byte has                                 *)
  Window,     (* bytes before a stream searched for any value               *)
  MinGlobal,  (* elsewhere, values from this one on                         *)
  Chunk,      (* bytes of a gap searched as one unit                        *)
  Files,      (* the files: their bytes and the streams the manifest lists  *)
  MaxRounds   (* bound: how often fields --apply is run                     *)

ASSUME FieldsAssumption ==
  /\ Base \in Nat \ {0, 1} /\ Chunk \in Nat \ {0} /\ {Window, MinGlobal, MaxRounds} \subseteq Nat
  /\ \A f \in Files :
       /\ f.data \in Seq(0 .. Base - 1)
       /\ f.streams \in Seq([offset : Nat, compressed : Nat, decompressed : Nat])

VARIABLES
  input,      (* the file and its streams                                   *)
  left,       (* what matched and prefer_widths has not come to yet         *)
  found,      (* the candidates of the present round                        *)
  fields,     (* the fields that the manifest lists, each with its stream   *)
  step,       (* "ready", "matched", "detected", "applied"; "refused" ends  *)
  rounds      (* how many rounds are over                                   *)

fieldsVars == <<input, left, found, fields, step, rounds>>

Size == Len(input.data)
Ids == DOMAIN input.streams
StreamEnd(i) == input.streams[i].offset + input.streams[i].compressed
Measured(i, m) == input.streams[i][m]

Widths == {1, 2, 4, 8}
Endians == {"little", "big"}
End(c) == c.offset + c.width
Share(a, b) == a.offset < End(b) /\ b.offset < End(a)

(* The bytes of a field: places count from 0, sequences from 1.             *)
BytesOfField(c) == SubSeq(input.data, c.offset + 1, End(c))

ReadUint(bytes, endian) ==
  FoldLeft(LAMBDA v, b : v * Base + b, 0, IF endian = "big" THEN bytes ELSE Reverse(bytes))

Holds(c, value) == ReadUint(BytesOfField(c), c.endian) = value

InsideStream(c) ==
  \E i \in Ids : c.offset < StreamEnd(i) /\ input.streams[i].offset < End(c)

Candidate(i, p, width, endian, m) ==
  [stream |-> i, offset |-> p, width |-> width, endian |-> endian, measures |-> m]

FieldsInit ==
  /\ input \in Files
  /\ left = {} /\ found = {} /\ fields = {}
  /\ step = "ready" /\ rounds = 0

-----------------------------------------------------------------------------
(* detect_fields: near a stream any value but zero, elsewhere large ones.    *)

Positions(a, b) == a .. b - 1
Largest(a, b) == IF a < b THEN b ELSE a
Smallest(a, b) == IF a < b THEN a ELSE b

Near(i) ==
  LET at == input.streams[i].offset IN
  {c \in {Candidate(i, p, w, e, m) : p \in Positions(Largest(0, at - Window), at), w \in {2, 4, 8},
                                     e \in Endians, m \in {"compressed", "decompressed"}} :
     /\ End(c) <= at /\ ~ InsideStream(c) /\ End(c) <= Size
     /\ Holds(c, Measured(i, c.measures)) /\ Measured(i, c.measures) # 0}

(* The ranges between the streams, cut into chunks; a field may start in    *)
(* one chunk and end in the next, but not leave its gap.                    *)
GapEnd(p) ==
  LET after == {input.streams[i].offset : i \in {j \in Ids : input.streams[j].offset > p}} IN
  IF after = {} THEN Size ELSE CHOOSE e \in after : \A o \in after : e <= o

InGap(p) == \A i \in Ids : p \notin Positions(input.streams[i].offset, StreamEnd(i))

GapStart(p) ==
  LET before == {StreamEnd(i) : i \in {j \in Ids : StreamEnd(j) <= p}} IN
  CHOOSE s \in before \cup {0} : \A o \in before : s >= o

ChunkEnd(p) ==
  Smallest(GapStart(p) + ((p - GapStart(p)) \div Chunk + 1) * Chunk, GapEnd(p))

(* Mutant: a field must end in the chunk it starts in.                      *)
RoomInChunk(p, width) == p + width <= ChunkEnd(p) /\ p + width <= Size

Room(p, width) == p + width <= GapEnd(p) /\ p + width <= Size

Global(i) ==
  {c \in {Candidate(i, p, w, e, m) : p \in {q \in Positions(0, Size) : InGap(q)}, w \in {4, 8},
                                     e \in Endians, m \in {"compressed", "decompressed", "offset"}} :
     /\ Room(c.offset, c.width)
     /\ Measured(i, c.measures) >= MinGlobal
     /\ Holds(c, Measured(i, c.measures))}

Matching == UNION {Near(i) \cup Global(i) : i \in Ids}

Detect ==
  /\ step = "ready" /\ rounds < MaxRounds
  /\ left' = Matching /\ found' = {}
  /\ step' = "matched"
  /\ UNCHANGED <<input, fields, rounds>>

(* prefer_widths: of candidates for one quantity that share bytes, the first *)
(* in the file, and there 4 bytes before 8 before 2.                        *)
Clash(a, b) ==
  a.stream = b.stream /\ a.measures = b.measures /\ a.endian = b.endian /\ Share(a, b)

Rank(width) == CASE width = 4 -> 0 [] width = 8 -> 1 [] OTHER -> 2

Before(a, b) ==
  \/ a.stream < b.stream
  \/ a.stream = b.stream /\ a.offset < b.offset
  \/ a.stream = b.stream /\ a.offset = b.offset /\ Rank(a.width) < Rank(b.width)

(* The next one in this order, with those that tie with it, which it does   *)
(* not clash with.                                                          *)
Foremost == {c \in left : \A d \in left : ~ Before(d, c)}

Prefer ==
  /\ step = "matched" /\ left # {}
  /\ found' = found \cup {c \in Foremost : \A k \in found : ~ Clash(k, c)}
  /\ left' = left \ Foremost
  /\ UNCHANGED <<input, fields, step, rounds>>

EndDetect ==
  /\ step = "matched" /\ left = {}
  /\ step' = "detected"
  /\ UNCHANGED <<input, left, found, fields, rounds>>

-----------------------------------------------------------------------------
(* apply_unambiguous: at a place that one candidate claims and no field of   *)
(* the manifest.                                                            *)

(* Mutant: a place that two candidates claim goes to both.                  *)
AddAll == {c \in found : \A f \in fields : f.offset # c.offset}

Unambiguous ==
  {c \in found : /\ \A d \in found : d.offset = c.offset => d = c
                 /\ \A f \in fields : f.offset # c.offset}

Apply ==
  /\ step = "detected"
  /\ fields' = fields \cup Unambiguous
  /\ step' = "applied"
  /\ UNCHANGED <<input, left, found, rounds>>

(* check_fields, of one field and of all.                                   *)
Correct(c) ==
  /\ c.width \in Widths
  /\ ~ InsideStream(c)
  /\ End(c) <= Size /\ Holds(c, Measured(c.stream, c.measures))

Disjoint(S) == \A c, d \in S : Share(c, d) => c = d

(* The manifest is saved, and the command can be run again, or refused with *)
(* the file left as it was.                                                 *)
Check ==
  /\ step = "applied"
  /\ step' = IF (\A c \in fields : Correct(c)) /\ Disjoint(fields) THEN "ready" ELSE "refused"
  /\ rounds' = rounds + 1
  /\ UNCHANGED <<input, left, found, fields>>

FieldsNext == Detect \/ Prefer \/ EndDetect \/ Apply \/ Check

FieldsSpec == FieldsInit /\ [][FieldsNext]_fieldsVars

-----------------------------------------------------------------------------
(* Properties.                                                              *)

(* Nothing is missed, at a chunk's end least of all: a place outside the    *)
(* streams that holds a large enough size or offset is a candidate, or      *)
(* shares bytes with the candidate for the same quantity that was kept.     *)
NoneMissed ==
  step = "detected" =>
    \A i \in Ids, p \in Positions(0, Size), w \in {4, 8}, e \in Endians,
       m \in {"compressed", "decompressed", "offset"} :
      LET c == Candidate(i, p, w, e, m) IN
      End(c) <= Size /\ Correct(c) /\ Measured(i, m) >= MinGlobal =>
        \E k \in found : k = c \/ Clash(k, c)

(* What --apply adds is refused for one reason only: candidates at different *)
(* places that share bytes, each of them the only one at its place.         *)
RefusedForOverlap ==
  step = "refused" =>
    /\ \A c \in fields : Correct(c)
    /\ \A c, d \in fields : c.offset = d.offset => c = d
    /\ \E c, d \in fields : c.offset # d.offset /\ Share(c, d)

(* The inductive invariant behind the two: candidates are correct, those    *)
(* that were dropped clash with one that was kept, and the manifest lists   *)
(* one field at a place.                                                    *)
KeptOrClashes(c) == \E k \in found : k = c \/ Clash(k, c)

FieldsInv ==
  /\ input \in Files
  /\ left \cup found \subseteq Matching
  /\ step = "matched" => \A c \in Matching \ left : KeptOrClashes(c)
  /\ step = "detected" => \A c \in Matching : KeptOrClashes(c)
  /\ \A c \in fields : Correct(c)
  /\ \A c, d \in fields : c.offset = d.offset => c = d
  /\ RefusedForOverlap

(* "Add the unambiguous candidates to manifest: those at a location no other *)
(* candidate claims" (apply_unambiguous), "so pack keeps them up to date"    *)
(* (the help of --apply): what is added is accepted.                        *)
AppliedFieldsAreAccepted == step # "refused"
=============================================================================
