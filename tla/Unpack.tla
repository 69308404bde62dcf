------------------------------- MODULE Unpack -------------------------------
(***************************************************************************)
(* unpack.rs and the commands unpack and rebuild: a directory that holds   *)
(* everything needed to recreate a file, written part by part with the     *)
(* index last, and the file recreated from it, checked against the size     *)
(* and CRC-32 the index records.                                           *)
(***************************************************************************)
EXTENDS Cli

CONSTANTS
  Corrected   (* the streams whose settings do not reproduce them: they    *)
              (* need a file in recon/ (preflate corrections, or verbatim)  *)

ASSUME UnpackAssumption == Corrected \subseteq Streams

VARIABLES
  made,       (* the directory is there, with streams/ and recon/           *)
  index,      (* unpack.json                                                *)
  gaps,       (* gaps.bin                                                   *)
  contents,   (* streams/, a file per stream                                *)
  recon,      (* recon/, a file per stream that needs one                   *)
  meddled     (* history: the user changed a contents file, or two unpacks  *)
              (* wrote the directory                                        *)

unpackVars == <<made, index, gaps, contents, recon, meddled>>

(* gaps.bin: every part that no listed stream covers.                       *)
Gaps(v, S) == [is |-> "gaps", bytes |-> [s \in Parts \ S |-> v[s]]]
Index(v, S) == [is |-> "index", source |-> v, streams |-> S]
Indexes == [is : {"index"}, source : Bytes, streams : SUBSET Streams]

UnpackInit ==
  /\ CliInit
  /\ made = FALSE
  /\ index = NoFile /\ gaps = NoFile
  /\ contents = [s \in Streams |-> NoFile]
  /\ recon = [s \in Corrected |-> NoFile]
  /\ meddled = FALSE

(* Nothing that belongs to the other commands changes.                      *)
Apart == UNCHANGED <<file, temp, runs, orphans, shared, dirVars>>

Unpacking(p, pc) == proc[p].cmd = "unpack" /\ At(p, pc)

-----------------------------------------------------------------------------
(* unpack FILE -d DIR: the directory must be new or empty.                  *)

UnpackStart(p) ==
  /\ Input.is = "binary" /\ ~made
  /\ \E man \in (IF Loadable THEN {file["manifest"]} ELSE {})
                  \cup {Manifest(Input.bytes, found, {}) : found \in Filters} :
       /\ Matches(man.source, Input.bytes)
       /\ Start(p, [Command("unpack", "mkdir", Input.bytes, man) EXCEPT !.todo = man.streams])
  /\ UNCHANGED <<file, temp, orphans, shared, dirVars, unpackVars>>

UnpackMkdir(p) ==
  /\ Unpacking(p, "mkdir")
  /\ made' = TRUE
  /\ meddled' = (meddled \/ \E q \in Procs \ {p} : proc[q].cmd = "unpack")
  /\ Goto(p, "gaps")
  /\ UNCHANGED <<index, gaps, contents, recon>> /\ Apart

UnpackGapsOpen(p) ==
  /\ Unpacking(p, "gaps")
  /\ gaps' = Cut
  /\ Goto(p, "gaps opened")
  /\ UNCHANGED <<made, index, contents, recon, meddled>> /\ Apart

UnpackGapsWrite(p) ==
  /\ Unpacking(p, "gaps opened")
  /\ gaps' \in AfterWrite(gaps, Gaps(proc[p].data, proc[p].man.streams))
  /\ Goto(p, "tasks")
  /\ UNCHANGED <<made, index, contents, recon, meddled>> /\ Apart

(* unpack_stream, a task per stream, in parallel: contents first, then the  *)
(* reconstruction data, if the method choose_method found needs any. A      *)
(* stream is in todo, then in open while its contents are written, then in  *)
(* the domain of plan with what it still has to do.                         *)
Stage(p, s) ==
  CASE s \in proc[p].todo -> "contents"
    [] s \in proc[p].open -> "contents opened"
    [] s \in DOMAIN proc[p].plan -> proc[p].plan[s]
    [] OTHER -> "done"

SetStage(p, s, stage) ==
  LET others == [t \in DOMAIN proc[p].plan \ {s} |-> proc[p].plan[t]] IN
  proc' = [proc EXCEPT
             ![p].todo = @ \ {s},
             ![p].open = IF stage = "contents opened" THEN @ \cup {s} ELSE @ \ {s},
             ![p].plan = IF stage \in {"recon", "recon opened"}
                         THEN [t \in DOMAIN others \cup {s} |-> IF t = s THEN stage ELSE others[t]]
                         ELSE others]

ContentsOpen(p, s) ==
  /\ Unpacking(p, "tasks") /\ Stage(p, s) = "contents"
  /\ contents' = [contents EXCEPT ![s] = Cut]
  /\ SetStage(p, s, "contents opened")
  /\ UNCHANGED <<made, index, gaps, recon, meddled>> /\ Apart

ContentsWrite(p, s) ==
  /\ Unpacking(p, "tasks") /\ Stage(p, s) = "contents opened"
  /\ \E c \in AfterWrite(contents[s], Content(proc[p].data[s])) : contents' = [contents EXCEPT ![s] = c]
  /\ SetStage(p, s, IF s \in Corrected THEN "recon" ELSE "done")
  /\ UNCHANGED <<made, index, gaps, recon, meddled>> /\ Apart

ReconOpen(p, s) ==
  /\ Unpacking(p, "tasks") /\ Stage(p, s) = "recon"
  /\ recon' = [recon EXCEPT ![s] = Cut]
  /\ SetStage(p, s, "recon opened")
  /\ UNCHANGED <<made, index, gaps, contents, meddled>> /\ Apart

(* What is recorded corrects exactly these contents.                        *)
ReconWrite(p, s) ==
  /\ Unpacking(p, "tasks") /\ Stage(p, s) = "recon opened"
  /\ \E c \in AfterWrite(recon[s], Content(proc[p].data[s])) : recon' = [recon EXCEPT ![s] = c]
  /\ SetStage(p, s, "done")
  /\ UNCHANGED <<made, index, gaps, contents, meddled>> /\ Apart

TasksDone(p) == proc[p].todo = {} /\ proc[p].open = {} /\ proc[p].plan = NoData

(* Mutant: the index is written while the streams are being unpacked.       *)
IndexEarly(p) ==
  /\ Unpacking(p, "tasks")
  /\ index' = Index(proc[p].man.source, proc[p].man.streams)
  /\ UNCHANGED <<proc, made, gaps, contents, recon, meddled>> /\ Apart

IndexOpen(p) ==
  /\ Unpacking(p, "tasks") /\ TasksDone(p)
  /\ index' = Cut
  /\ Goto(p, "index opened")
  /\ UNCHANGED <<made, gaps, contents, recon, meddled>> /\ Apart

IndexWrite(p) ==
  /\ Unpacking(p, "index opened")
  /\ index' \in AfterWrite(index, Index(proc[p].man.source, proc[p].man.streams))
  /\ End(p)
  /\ UNCHANGED <<made, gaps, contents, recon, meddled>> /\ Apart

(* A step fails: the first error ends the command, what is written stays.   *)
UnpackFails(p) ==
  /\ proc[p].cmd = "unpack"
  /\ End(p)
  /\ UNCHANGED unpackVars /\ Apart

-----------------------------------------------------------------------------
(* rebuild DIR -o OUT. rebuild_file creates the temporary file before the   *)
(* index is read.                                                           *)

RebuildStart(p) ==
  /\ \E o \in Outputs : Start(p, [Command("rebuild", "create", NoData, NoFile) EXCEPT !.out = o])
  /\ UNCHANGED <<file, temp, orphans, shared, dirVars, unpackVars>>

(* recreate: the stream, if contents and corrections belong together;       *)
(* anything else, of the right length or not, otherwise.                    *)
Recreated(s) ==
  IF s \in Corrected /\ recon[s] # contents[s] THEN Damage ELSE contents[s].data

(* What rebuild_stream refuses: contents that are missing, or changed since *)
(* unpack, and corrections that are missing.                                *)
StreamFits(idx, s) ==
  /\ contents[s] = Content(idx.source[s])
  /\ s \in Corrected => recon[s] # NoFile

(* The sizes agree only if the index and the gaps cover the file together.  *)
Complete ==
  /\ index.is = "index" /\ gaps.is = "gaps"
  /\ DOMAIN gaps.bytes = Parts \ index.streams
  /\ \A s \in index.streams : StreamFits(index, s)

Built == [s \in Parts |-> IF s \in index.streams THEN Recreated(s) ELSE gaps.bytes[s]]

(* Mutant: a rebuild that cannot read its directory writes what it has.     *)
RebuildAnyway(p) ==
  /\ proc[p].cmd = "rebuild" /\ At(p, "fill")
  /\ proc' = [proc EXCEPT ![p].pc = "write"]
  /\ UNCHANGED unpackVars /\ Apart

(* rebuild: the bytes are made of the index, the gaps and every stream, and *)
(* none of them is compared with the original before it is written.  (Large *)
(* directories are read and written in batches; here it is one.)            *)
RebuildFill(p) ==
  /\ proc[p].cmd = "rebuild" /\ At(p, "fill")
  /\ IF Complete
     THEN proc' = [proc EXCEPT ![p].pc = "write", ![p].man = index, ![p].plan = Built]
     ELSE Goto(p, "remove")
  /\ UNCHANGED unpackVars /\ Apart

(* Mutant: the CRC-32 of the result is not compared.                        *)
RebuildUnchecked(p) ==
  /\ proc[p].cmd = "rebuild" /\ At(p, "written")
  /\ Goto(p, "rename")
  /\ UNCHANGED unpackVars /\ Apart

(* All has been written: what was written, hashed on the way, must have the *)
(* size and CRC-32 of the original.  The file is not read back.             *)
RebuildCheck(p) ==
  /\ proc[p].cmd = "rebuild" /\ At(p, "written")
  /\ Goto(p, IF proc[p].plan = proc[p].man.source THEN "rename" ELSE "remove")
  /\ UNCHANGED unpackVars /\ Apart

RebuildEnd(p) ==
  /\ proc[p].cmd = "rebuild" /\ At(p, "renamed")
  /\ End(p)
  /\ UNCHANGED unpackVars /\ Apart

(* The user edits an unpacked stream, as if it were an extracted one.       *)
Meddle(s, c) ==
  /\ Quiet /\ edits < MaxEdits /\ contents[s].is = "content" /\ contents[s] # Content(c)
  /\ contents' = [contents EXCEPT ![s] = Content(c)]
  /\ edits' = edits + 1
  /\ meddled' = TRUE
  /\ UNCHANGED <<fileVars, dir, torn, made, index, gaps, recon>>

UnpackStep(p) ==
  \/ UnpackStart(p) \/ UnpackMkdir(p) \/ UnpackGapsOpen(p) \/ UnpackGapsWrite(p)
  \/ \E s \in Streams : ContentsOpen(p, s) \/ ContentsWrite(p, s)
  \/ \E s \in Corrected : ReconOpen(p, s) \/ ReconWrite(p, s)
  \/ IndexOpen(p) \/ IndexWrite(p) \/ UnpackFails(p)
  \/ RebuildStart(p) \/ RebuildFill(p) \/ RebuildCheck(p) \/ RebuildEnd(p)
=============================================================================
