-------------------------------- MODULE Pack --------------------------------
(***************************************************************************)
(* crates/zscan-core/src/pack.rs: planning how edited streams go back into *)
(* a file (pack), writing the planned file (write_to) and checking what    *)
(* was written (verify_output).  What happens to the file on disk is       *)
(* WriteViaTemp's.                                                         *)
(*                                                                         *)
(* Bytes are abstracted to what they are part of: a byte is zero, or the   *)
(* i-th of a stream, or a length field, which is one byte here, or none of *)
(* these.  The codecs are outside: an edit says how long its stream gets   *)
(* with the original settings and with the strongest ones.                 *)
(***************************************************************************)
EXTENDS Integers, Sequences, FiniteSets, FiniteSetsExt

CONSTANTS
  Inputs,       (* Calls of pack: a file, a manifest, edits and options.   *)
  FieldMax,     (* The largest value a length field holds.                 *)
  LocalHeader,  (* LOCAL_HEADER of can_relocate, 16 in the code.           *)
  None

Measures == {"Compressed", "Decompressed", "Offset"}

(* A manifest entry, and an edit.  No codec's stream is empty.              *)
Entries ==
  [id : Nat, offset : Nat, size : Nat \ {0}, decompressed : Nat,
   fields : SUBSET [offset : Nat, measures : Measures, adjust : Int]]

EncodedEdits == [first : Nat \ {0}, strongest : Nat \ {0}, decompressed : Nat]

AnyByte == {"Zero", "Other", "Field", "Original", "Edited"} \X Int \X Int

ASSUME PackAssumption ==
  /\ FieldMax \in Nat /\ LocalHeader \in Nat /\ None \notin EncodedEdits
  /\ \A c \in Inputs :
       /\ c.bytes \in Seq(AnyByte) /\ c.streams \subseteq Entries
       /\ \A e, s \in c.streams : e.id = s.id => e = s
       /\ c.edits \in [{e.id : e \in c.streams} -> EncodedEdits \cup {None}]
       /\ c.align \in Nat \ {0}
       /\ {c.sourceMatches, c.verifySource, c.useZeroSlack, c.relocate, c.dryRun} \subseteq BOOLEAN

(* Bytes.                                                                   *)
Zero == <<"Zero", 0, 0>>
Other == <<"Other", 0, 0>>
Num(v) == IF v = 0 THEN Zero ELSE <<"Field", v, 0>>
Byte(kind, id, i) == <<kind, id, i>>

End(e) == e.offset + e.size

(* measure, and what a field holds for its stream.                          *)
Measure(e, m) ==
  CASE m = "Compressed" -> e.size [] m = "Decompressed" -> e.decompressed [] m = "Offset" -> e.offset

StoredValue(f, e) == Measure(e, f.measures) + f.adjust

Holds(f, e) == StoredValue(f, e) \in 0 .. FieldMax

FieldsOf(streams) == UNION {{[of |-> e.id, field |-> f] : f \in e.fields} : e \in streams}

(* check_fields: fields lie in the file, outside the streams and apart from *)
(* each other, and hold what they should.                                   *)
CheckFields(bytes, streams) ==
  /\ \A e \in streams : \A f \in e.fields :
       /\ \A s \in streams : f.offset < s.offset \/ End(s) <= f.offset
       /\ f.offset < Len(bytes)
       /\ Holds(f, e) /\ bytes[f.offset + 1] = Num(StoredValue(f, e))
  /\ \A x, y \in FieldsOf(streams) : x # y => x.field.offset # y.field.offset

(* sorted_streams.                                                          *)
InOrder(streams, len) ==
  \A e \in streams : End(e) <= len /\ \A s \in streams : s # e => End(e) <= s.offset \/ End(s) <= e.offset

(* decode_stream finds the contents the entry tells of.                     *)
Decodes(bytes, e, kind) ==
  End(e) <= Len(bytes) /\ \A i \in 0 .. e.size - 1 : bytes[e.offset + i + 1] = Byte(kind, e.id, i)

-----------------------------------------------------------------------------
VARIABLES
  input,     (* the arguments of pack                                      *)
  pc,
  plans,     (* the StreamPlan of each stream planned, by id               *)
  placed,    (* streams whose patches have been laid out                   *)
  patches,
  outputLen,
  packed,    (* PackResult::manifest                                       *)
  output,    (* what write_to has written                                  *)
  pos,       (* how far write_to is                                        *)
  outcome

result == <<patches, outputLen, packed>>
writer == <<output, pos>>
vars == <<input, pc, plans, placed, result, writer, outcome>>

Streams == input.streams

IsEdited(e) == input.edits[e.id] # None

(* Mutant: zeros after the new bytes do not count.                          *)
BytesEnd(p) == p.offset + Len(p.bytes)

PatchEnd(p) == IF p.offset + Len(p.bytes) > p.clearTo THEN p.offset + Len(p.bytes) ELSE p.clearTo

Init ==
  /\ input \in Inputs
  /\ pc = "Check"
  /\ plans = [i \in {e.id : e \in input.streams} |-> None]
  /\ placed = {}
  /\ patches = {}
  /\ outputLen = Len(input.bytes)
  /\ packed = {}
  /\ output = <<>> /\ pos = 0
  /\ outcome = "None"

Return(o) == pc' = "Returned" /\ outcome' = o

-----------------------------------------------------------------------------
(* pack.                                                                    *)

Check ==
  /\ pc = "Check"
  /\ IF (input.sourceMatches \/ ~ input.verifySource) /\ InOrder(Streams, Len(input.bytes))
          /\ CheckFields(input.bytes, Streams)
     THEN pc' = "Plan" /\ UNCHANGED outcome
     ELSE Return("Rejected")
  /\ UNCHANGED <<input, plans, placed, result, writer>>

(* Where the next stream starts, or the file ends.                          *)
NextStart(e) ==
  Min({s.offset : s \in {s \in Streams : s.offset > e.offset}} \cup {Len(input.bytes)})

(* Mutant: whatever lies before the next stream is free.                    *)
GapAfter(e) == IF input.useZeroSlack THEN NextStart(e) - End(e) ELSE 0

Slack(e) ==
  IF input.useZeroSlack
  THEN Max({n \in 0 .. NextStart(e) - End(e) :
              \A i \in 0 .. n - 1 : input.bytes[End(e) + i + 1] = Zero})
  ELSE 0

(* can_relocate.                                                            *)
CanRelocate(e) ==
  /\ \E f \in e.fields : f.measures = "Offset"
  /\ \E f \in e.fields : f.measures = "Compressed"
  /\ ~ \E f \in e.fields : f.offset + 1 <= e.offset /\ f.offset + 1 + LocalHeader > e.offset

(* fit: stronger settings only if the first ones are not enough.            *)
Fit(edit, available) ==
  IF edit.first <= available THEN edit.first ELSE Min({edit.first, edit.strongest})

(* plan_stream.                                                             *)
Plan(e) ==
  IF ~ IsEdited(e) THEN [status |-> "Unchanged"]
  ELSE LET available == e.size + Slack(e)
           n == Fit(input.edits[e.id], available)
       IN  IF n > available /\ ~ (input.relocate /\ CanRelocate(e))
           THEN [status |-> "TooLarge", relocatable |-> CanRelocate(e)]
           ELSE [status |-> "Repacked", size |-> n, relocate |-> n > available]

(* Streams are planned in parallel, each by itself.  The original of an     *)
(* edited one must still decode.                                            *)
PlanStream ==
  /\ pc = "Plan"
  /\ \E e \in Streams :
       /\ plans[e.id] = None
       /\ IsEdited(e) => Decodes(input.bytes, e, "Original")
       /\ plans' = [plans EXCEPT ![e.id] = Plan(e)]
  /\ UNCHANGED <<input, pc, placed, result, writer, outcome>>

(* It does not, or the codec cannot encode the edit, or not decode that.    *)
PlanFails ==
  /\ pc = "Plan"
  /\ \E e \in Streams : plans[e.id] = None /\ IsEdited(e)
  /\ Return("CodecFailed")
  /\ UNCHANGED <<input, plans, placed, result, writer>>

EndPlan ==
  /\ pc = "Plan"
  /\ \A e \in Streams : plans[e.id] # None
  /\ pc' = "Place"
  /\ UNCHANGED <<input, plans, placed, result, writer, outcome>>

NextMultiple(n) == n + ((-n) % input.align)

EditedBytes(e, n) == [i \in 1 .. n |-> Byte("Edited", e.id, i - 1)]

Patch(offset, bytes, clearTo) == [offset |-> offset, bytes |-> bytes, clearTo |-> clearTo]

(* Patches are laid out in offset order; a stream that moves goes to the    *)
(* end of the output as it is by then.                                      *)
PlaceStream ==
  /\ pc = "Place"
  /\ \E e \in Streams \ placed :
       /\ \A s \in Streams \ placed : e.offset <= s.offset
       /\ placed' = placed \cup {e}
       /\ LET plan == plans[e.id]
              moved == NextMultiple(outputLen)
          IN  CASE plan.status # "Repacked" ->
                     packed' = packed \cup {e} /\ UNCHANGED <<patches, outputLen>>
                [] plan.status = "Repacked" /\ plan.relocate ->
                     /\ patches' = patches \cup {Patch(e.offset, <<>>, End(e)),
                                                 Patch(moved, EditedBytes(e, plan.size), 0)}
                     /\ outputLen' = moved + plan.size
                     /\ packed' = packed \cup {[e EXCEPT !.offset = moved, !.size = plan.size,
                                                  !.decompressed = input.edits[e.id].decompressed]}
                [] plan.status = "Repacked" /\ ~ plan.relocate ->
                     /\ patches' = patches \cup {Patch(e.offset, EditedBytes(e, plan.size), End(e))}
                     /\ packed' = packed \cup {[e EXCEPT !.size = plan.size,
                                                  !.decompressed = input.edits[e.id].decompressed]}
                     /\ UNCHANGED outputLen
  /\ UNCHANGED <<input, pc, plans, writer, outcome>>

TooLarge == \E e \in Streams : plans[e.id].status = "TooLarge"

EndPlace ==
  /\ pc = "Place"
  /\ placed = Streams
  /\ IF TooLarge
     THEN Return("TooLarge") /\ patches' = {} /\ outputLen' = Len(input.bytes)
     ELSE pc' = "Fields" /\ UNCHANGED <<outcome, patches, outputLen>>
  /\ UNCHANGED <<input, plans, placed, packed, writer>>

(* Mutant: fields are compared with what the old entries say.               *)
OldFieldPatches ==
  UNION {{Patch(f.offset, <<Num(StoredValue(f, e))>>, 0) :
            f \in {g \in e.fields : input.bytes[g.offset + 1] # Num(StoredValue(g, e))}} : e \in Streams}

FieldPatches ==
  UNION {{Patch(f.offset, <<Num(StoredValue(f, e))>>, 0) :
            f \in {g \in e.fields : input.bytes[g.offset + 1] # Num(StoredValue(g, e))}} : e \in packed}

UpdateFields ==
  /\ pc = "Fields"
  /\ IF \A e \in packed : \A f \in e.fields : Holds(f, e)
     THEN patches' = patches \cup FieldPatches /\ pc' = "Overlap" /\ UNCHANGED outcome
     ELSE Return("FieldTooSmall") /\ UNCHANGED patches
  /\ UNCHANGED <<input, plans, placed, outputLen, packed, writer>>

(* The last check of pack.  A caller that only wanted a plan is done.       *)
CheckOverlap ==
  /\ pc = "Overlap"
  /\ IF \E p, q \in patches : p # q /\ p.offset <= q.offset /\ PatchEnd(p) > q.offset
     THEN Return("InternalError")
     ELSE IF input.dryRun THEN Return("Planned") ELSE pc' = "Write" /\ UNCHANGED outcome
  /\ UNCHANGED <<input, plans, placed, result, writer>>

-----------------------------------------------------------------------------
(* write_to and verify_output.                                              *)

Zeros(n) == [i \in 1 .. n |-> Zero]

(* The copy closure of write_to: input bytes, then zeros past its end.  The *)
(* slice of the input is out of bounds when it would start past that end.   *)
CopyPanics(from, to) == from < to /\ from > Len(input.bytes)

Copy(from, to) ==
  IF from >= to THEN <<>>
  ELSE LET split == Max({Min({to, Len(input.bytes)}), from})
       IN  SubSeq(input.bytes, from + 1, split) \o Zeros(to - split)

Unwritten == {p \in patches : PatchEnd(p) > pos}

WritePatch ==
  /\ pc = "Write"
  /\ \E p \in Unwritten :
       /\ \A q \in Unwritten : p.offset <= q.offset
       /\ IF CopyPanics(pos, p.offset)
          THEN Return("Panicked") /\ UNCHANGED writer
          ELSE /\ output' = output \o Copy(pos, p.offset) \o p.bytes
                              \o Zeros(PatchEnd(p) - p.offset - Len(p.bytes))
               /\ pos' = PatchEnd(p)
               /\ UNCHANGED <<pc, outcome>>
  /\ UNCHANGED <<input, plans, placed, result>>

WriteTail ==
  /\ pc = "Write"
  /\ Unwritten = {}
  /\ IF CopyPanics(pos, outputLen)
     THEN Return("Panicked") /\ UNCHANGED writer
     ELSE /\ output' = output \o Copy(pos, outputLen)
          /\ pos' = outputLen
          /\ pc' = "Verify" /\ UNCHANGED outcome
  /\ UNCHANGED <<input, plans, placed, result>>

(* Every stream decodes to what it should where the new manifest has it.    *)
StreamsDecode ==
  \A e \in packed : Decodes(output, e, IF IsEdited(e) THEN "Edited" ELSE "Original")

Verify ==
  /\ pc = "Verify"
  /\ Return(IF Len(output) = outputLen /\ StreamsDecode /\ CheckFields(output, packed)
            THEN "Written" ELSE "VerifyFailed")
  /\ UNCHANGED <<input, plans, placed, result, writer>>

Finished == pc = "Returned" /\ UNCHANGED vars

Next ==
  \/ Check \/ PlanStream \/ PlanFails \/ EndPlan \/ PlaceStream \/ EndPlace
  \/ UpdateFields \/ CheckOverlap \/ WritePatch \/ WriteTail \/ Verify \/ Finished

Spec == Init /\ [][Next]_vars

-----------------------------------------------------------------------------
Outcomes ==
  {"None", "Rejected", "CodecFailed", "TooLarge", "FieldTooSmall", "InternalError", "Planned",
   "Panicked", "Written", "VerifyFailed"}

(* The state has its shape; what is laid out or written fits the output.    *)
TypeOK ==
  /\ pc \in {"Check", "Plan", "Place", "Fields", "Overlap", "Write", "Verify", "Returned"}
  /\ outcome \in Outcomes /\ (outcome # "None" <=> pc = "Returned")
  /\ placed \subseteq Streams /\ DOMAIN plans = {e.id : e \in Streams}
  /\ outputLen \in Nat /\ outputLen >= Len(input.bytes)
  /\ \A p \in patches : p.offset < PatchEnd(p) /\ PatchEnd(p) <= outputLen
  /\ pos = Len(output) /\ pos <= outputLen
  /\ {e.id : e \in packed} = {e.id : e \in placed}

(* The slot of an edited stream, with the zero bytes behind it if these are *)
(* free, and the fields: all that packing may change.                       *)
MayChange(p) ==
  \/ \E e \in Streams :
       /\ IsEdited(e) /\ e.offset <= p
       /\ p < End(e) \/ (input.useZeroSlack /\ \A q \in End(e) .. p : input.bytes[q + 1] = Zero)
  \/ \E x \in FieldsOf(Streams) : x.field.offset = p

(* A file that is written differs from the input only where it has to, the  *)
(* input's length is kept unless a stream moved, and the new manifest       *)
(* describes it, so that it can be packed again ("Unedited streams come     *)
(* back bit for bit", README; verify_output).  Verification looks at the    *)
(* streams and fields only, not at the bytes between them.                  *)
WrittenIsFaithful ==
  outcome = "Written" =>
    /\ \A p \in 0 .. Len(input.bytes) - 1 : output[p + 1] = input.bytes[p + 1] \/ MayChange(p)
    /\ (\A e \in packed : e.offset < Len(input.bytes)) => Len(output) = Len(input.bytes)
    /\ InOrder(packed, Len(output)) /\ CheckFields(output, packed)

(* What the plan does not look at: a field in the zero bytes a stream grows *)
(* into, padding between two streams that moved, and an unedited stream     *)
(* that was damaged before (only with verify_source off).                   *)
FieldInSlack ==
  \E e \in Streams, x \in FieldsOf(Streams) :
    IsEdited(e) /\ End(e) <= x.field.offset /\ x.field.offset < End(e) + Slack(e)

Moved == {e \in packed : e.offset >= Len(input.bytes)}

PaddedBetween == \E e, s \in Moved : End(e) < s.offset

Damaged == \E e \in Streams : ~ Decodes(input.bytes, e, "Original")

(* Apart from these, what pack plans can be written and passes verification *)
(* for every choice of edits, slack, moves and alignment.                   *)
PlanIsWritable ==
  /\ outcome = "InternalError" => FieldInSlack
  /\ outcome = "Panicked" => PaddedBetween
  /\ outcome = "VerifyFailed" => FieldInSlack \/ Damaged

-----------------------------------------------------------------------------
(* The inductive invariant behind the two.                                  *)

(* What is planned is Plan of a manifest that was found to be in order, and *)
(* only what fits is laid out to the end.                                   *)
PlansFit ==
  /\ pc # "Check" => InOrder(Streams, Len(input.bytes)) /\ CheckFields(input.bytes, Streams)
  /\ \A e \in Streams : plans[e.id] \in {None, Plan(e)}
  /\ pc \notin {"Check", "Plan"} => \A e \in Streams : plans[e.id] = Plan(e)
  /\ pc \notin {"Check", "Plan", "Place"} => \A e \in Streams : Plan(e).status # "TooLarge"

(* The new entry of a stream: as it was, or of another size and contents    *)
(* where it was or behind the input.                                        *)
Renewed(s, k) ==
  \/ Plan(s).status # "Repacked" /\ k = s
  \/ /\ Plan(s).status = "Repacked"
     /\ k = [s EXCEPT !.offset = k.offset, !.size = Plan(s).size,
                      !.decompressed = input.edits[s.id].decompressed]
     /\ IF Plan(s).relocate THEN k.offset \in Nat /\ k.offset >= Len(input.bytes)
        ELSE k.offset = s.offset

(* What has moved is apart, and the output ends with the last of it.        *)
PackedFit ==
  /\ \A k \in packed : \E s \in placed : Renewed(s, k)
  /\ \A k, l \in packed : k.id = l.id => k = l
  /\ \A k \in Moved : End(k) <= outputLen
  /\ \A k, l \in Moved : k # l => End(k) <= l.offset \/ End(l) <= k.offset
  /\ outputLen = Len(input.bytes) \/ \E k \in Moved : End(k) = outputLen

PatchesOf(s, k) ==
  IF Plan(s).status # "Repacked" THEN {}
  ELSE IF Plan(s).relocate
  THEN {Patch(s.offset, <<>>, End(s)), Patch(k.offset, EditedBytes(s, k.size), 0)}
  ELSE {Patch(s.offset, EditedBytes(s, k.size), End(s))}

StreamPatches ==
  UNION {UNION {PatchesOf(s, k) : s \in {t \in Streams : t.id = k.id}} : k \in packed}

Apart(S) == \A p, q \in S : p # q /\ p.offset <= q.offset => PatchEnd(p) <= q.offset

(* There are patches for the streams, then for the fields too; write_to     *)
(* starts when they are apart.                                              *)
LaidOut ==
  /\ pc \in {"Check", "Plan", "Place", "Fields"} => patches = StreamPatches
  /\ pc \in {"Overlap", "Write", "Verify"} =>
       /\ patches = StreamPatches \cup FieldPatches
       /\ \A e \in packed : \A f \in e.fields : Holds(f, e)
  /\ pc \in {"Write", "Verify"} => Apart(patches)

(* The byte that a patch gives at a place, and that the input gives.        *)
Covers(p, i) == p.offset <= i /\ i < PatchEnd(p)
PatchByte(p, i) == IF i < p.offset + Len(p.bytes) THEN p.bytes[i - p.offset + 1] ELSE Zero
InputByte(i) == IF i < Len(input.bytes) THEN input.bytes[i + 1] ELSE Zero

(* write_to is between two patches, and what it has written is the input    *)
(* with the patches before put in.                                          *)
WrittenSoFar ==
  /\ pc \notin {"Write", "Verify"} => output = <<>>
  /\ pc = "Write" => pos = 0 \/ \E p \in patches : PatchEnd(p) = pos
  /\ pc = "Verify" => pos = outputLen
  /\ pc \in {"Write", "Verify"} =>
       /\ output \in Seq(AnyByte)
       /\ \A p \in patches : PatchEnd(p) <= pos \/ pos <= p.offset
       /\ \A i \in 0 .. pos - 1 :
            /\ \A p \in patches : Covers(p, i) => output[i + 1] = PatchByte(p, i)
            /\ (\A p \in patches : ~ Covers(p, i)) => output[i + 1] = InputByte(i)

IInv ==
  /\ TypeOK
  /\ pc # "Returned" => PlansFit /\ PackedFit /\ LaidOut /\ WrittenSoFar
  /\ WrittenIsFaithful /\ PlanIsWritable

-----------------------------------------------------------------------------
(* What the comments promise and the code does not keep.                    *)

(* "internal error: changes at .. and .. overlap" is not meant to happen.   *)
PatchesApart == outcome # "InternalError"

(* "Stream the packed file to w: the input with each patch applied, then    *)
(* any relocated streams" (write_to).                                       *)
WriteEnds == outcome # "Panicked"
=============================================================================
