----------------------------- MODULE Workspace ------------------------------
(***************************************************************************)
(* All the commands of zscan-cli on one set of files: what holds on disk    *)
(* whatever commands are run, one after another or two at a time, killed    *)
(* or failing anywhere.                                                    *)
(***************************************************************************)
EXTENDS Unpack

vars == <<fileVars, dirVars, unpackVars>>

Init == UnpackInit

Next ==
  \/ \E p \in Procs :
       \/ WriteStep(p) /\ UNCHANGED <<dirVars, unpackVars>>
       \/ CliStep(p) /\ UNCHANGED unpackVars
       \/ UnpackStep(p)
  \/ \E s \in Streams, c \in Contents : Edit(s, c) /\ UNCHANGED unpackVars
  \/ \E v \in Versions : Update(v) /\ UNCHANGED unpackVars
  \/ \E s \in Streams, c \in Contents : Meddle(s, c)

Spec == Init /\ [][Next]_vars

-----------------------------------------------------------------------------
(* Types.                                                                   *)
StreamFiles == {NoFile, Cut} \cup {Content(c) : c \in Data}
Binaries == [is : {"binary"}, bytes : Bytes]
Manifests == [is : {"manifest"}, source : Bytes, streams : SUBSET Streams, fields : SUBSET Fields]
FitManifests == {man \in Manifests : FieldsFit(man)}
GapFiles == UNION {[is : {"gaps"}, bytes : [Parts \ S -> Data]] : S \in SUBSET Streams}
Unfinished == UNION {[S -> {"recon", "recon opened"}] : S \in SUBSET Corrected}

(* Where manifests are saved, in place.                                     *)
Saved == ManifestNames \cup {"manifest"}

(* What a process runs, by the kind of command.                             *)
Saver ==
  [cmd : {"scan", "fields", "try"}, pc : {"save", "saving"}, data : Bytes, man : FitManifests,
   out : {"none"}, target : Saved, handle : {"none"}, plan : {NoData}, todo : {{}}, open : {{}},
   failed : {FALSE}, alone : BOOLEAN]
Extractor ==
  [cmd : {"extract"}, pc : {"tasks"}, data : Bytes, man : FitManifests,
   out : {"none"}, target : {"none"}, handle : {"none"}, plan : {NoData},
   todo : SUBSET Streams, open : SUBSET Streams, failed : BOOLEAN, alone : BOOLEAN]
Packer ==
  [cmd : {"pack"},
   pc : {"create", "write", "written", "rename", "remove", "renamed", "save", "saving"},
   data : Bytes, man : FitManifests, out : Outputs \ {"input"}, target : ManifestNames \cup {"none"},
   handle : {"none", "temp", "file", "gone"}, plan : Bytes, todo : {{}}, open : {{}},
   failed : {FALSE}, alone : BOOLEAN]
Unpacker ==
  [cmd : {"unpack"}, pc : {"mkdir", "gaps", "gaps opened", "tasks", "index opened"},
   data : Bytes, man : FitManifests, out : {"none"}, target : {"none"}, handle : {"none"},
   plan : Unfinished, todo : SUBSET Streams, open : SUBSET Streams, failed : {FALSE},
   alone : BOOLEAN]
Rebuilder ==
  [cmd : {"rebuild"}, pc : {"create", "fill", "write", "written", "rename", "remove", "renamed"},
   data : {NoData}, man : Indexes \cup {NoFile}, out : Outputs, target : {"none"},
   handle : {"none", "temp", "file", "gone"}, plan : Bytes \cup {NoData}, todo : {{}}, open : {{}},
   failed : {FALSE}, alone : BOOLEAN]
Running == Saver \cup Extractor \cup Packer \cup Unpacker \cup Rebuilder

(* What a command goes on with is what it has read.                         *)
RunsOnWhatItRead(r) ==
  /\ r.cmd = "pack" /\ r.pc \in {"save", "saving"} => r.target # "none"
  /\ r.cmd = "rebuild" /\ r.pc \in {"write", "written", "rename"} =>
       r.plan \in Bytes /\ r.man \in Indexes
  /\ r.cmd = "rebuild" /\ r.pc = "rename" => r.plan = r.man.source
  /\ r.cmd = "extract" => \A s \in r.open : r.man.source[s] = r.data[s]
  /\ r.cmd = "unpack" => r.man.source = r.data

(* Each file holds one of the things a command or the user puts there, and  *)
(* a process runs one of the commands.                                      *)
TypeOK ==
  /\ file \in [Names -> {NoFile, Cut} \cup Binaries \cup FitManifests]
  /\ temp \in [Outputs -> {NoFile, Cut} \cup Binaries]
  /\ proc \in [Procs -> {Idle} \cup Running]
  /\ \A p \in Procs : proc[p] # Idle => RunsOnWhatItRead(proc[p])
  /\ runs \in 0 .. MaxRuns /\ edits \in 0 .. MaxEdits /\ shared \subseteq Outputs
  /\ orphans \subseteq Outputs /\ torn \subseteq Streams /\ {made, meddled} \subseteq BOOLEAN
  /\ dir \in [Streams -> StreamFiles] /\ contents \in [Streams -> StreamFiles]
  /\ recon \in [Corrected -> StreamFiles]
  /\ index \in {NoFile, Cut} \cup Indexes
  /\ gaps \in {NoFile, Cut} \cup GapFiles

(* output.rs: whatever fails or is killed, an output is the old file or a   *)
(* finished new one, as long as no second command was writing it, and no    *)
(* command was told to save a manifest there (that is done in place).       *)
OutputIsWhole == \A o \in Outputs \ Saved : file[o] = Cut => o \in shared

(* Once the commands have ended, a temporary file is there only if one of   *)
(* them was killed or panicked while it was writing it, or failed to remove *)
(* it; and not even then if a later command for that output came to its end. *)
NoTempLeft == Quiet => \A o \in Outputs : temp[o] # NoFile => o \in orphans

(* A manifest on disk that parses can be packed with: it lists no fields    *)
(* that check_fields refuses, whichever commands added them.                *)
ManifestsFit == \A n \in Names : file[n].is = "manifest" => FieldsFit(file[n])

(* No stream that was damaged, but for those whose file was half-written    *)
(* when a pack took it for an edit.                                         *)
Clean == [Parts -> Contents]
OnlyTorn(bytes) == \A s \in Parts : bytes[s] = Damage => s \in torn

(* Rebuild looks at what it wrote, not at the file: if the directory was    *)
(* changed, another command for the same output may rename the result into  *)
(* place before it is found wrong.  An input that was rebuilt so is read by *)
(* every command.                                                           *)
Spoilt(o) == meddled /\ {o, "input"} \cap shared # {}

(* What pack and rebuild put in place holds, stream by stream, what some    *)
(* input or the user's edit held.  A half-written file that was taken for   *)
(* an edit damages that stream and no other, and a directory whose parts do *)
(* not belong together is only a danger when two commands write one output. *)
NoDamage ==
  \A o \in Outputs : file[o].is = "binary" => Spoilt(o) \/ OnlyTorn(file[o].bytes)

(* The index is written last: once it is there (and nobody meddled with the *)
(* directory, or unpacked into it at the same time) the rest is there too,  *)
(* whole, and rebuilds the input it names.                                  *)
IndexMeansRebuildable ==
  index.is = "index" /\ ~meddled => Complete /\ Built = index.source

(* The commands rename a finished output into place.                        *)
Renames(p, cmd) ==
  /\ proc[p].cmd = cmd /\ proc[p].pc = "rename"
  /\ proc'[p].cmd = cmd /\ proc'[p].pc = "renamed"

(* A pack that no other command was beside puts in place the present input  *)
(* with exactly the edits that are in the directory: none is lost, and a    *)
(* stream with none, or that was never extracted, stays.                    *)
PackKeepsEveryEdit ==
  [][\A p \in Procs : Renames(p, "pack") /\ proc[p].alone =>
       LET packed == file'[proc[p].out].bytes IN
       \A s \in Parts :
         IF s \in proc[p].man.streams /\ dir[s].is = "content"
         THEN packed[s] = dir[s].data
         ELSE packed[s] = Input.bytes[s] \/ (s \in Streams /\ dir[s] = Cut)]_vars

-----------------------------------------------------------------------------
(* The inductive invariant behind them.                                     *)

Runs(p, cmd) == proc[p].cmd = cmd

(* Two commands write an output together only once it is known as shared.   *)
OneWriter ==
  \A p, q \in Procs, o \in Outputs : p # q /\ Writing(p, o) /\ Writing(q, o) => o \in shared

(* A command that has the output for itself finds in the temporary file     *)
(* what it put there, up to the moment it renames it.                       *)
OwnTemp(p, o) ==
  proc[p].pc # "remove" =>
    /\ proc[p].handle = "temp"
    /\ proc[p].pc \in {"fill", "write"} => temp[o] = Cut
    /\ proc[p].pc \in {"written", "rename"} => temp[o] = Binary(proc[p].plan)

TempIsOwn ==
  \A p \in Procs, o \in Outputs :
    Writing(p, o) /\ (o \notin shared \/ proc[p].alone) => OwnTemp(p, o)

(* A temporary file belongs to a command, or was left there by one.         *)
TempIsOwned ==
  \A o \in Outputs : temp[o] # NoFile => o \in orphans \/ \E p \in Procs : Writing(p, o)

WritesFit == OneWriter /\ TempIsOwn /\ TempIsOwned

(* A command that was alone so far still is, so what it read is still so.   *)
StillAlone ==
  \A p, q \in Procs : p # q /\ proc[p] # Idle /\ proc[p].alone => proc[q] = Idle

(* A stream goes out as it is in the directory; one that is there unchanged *)
(* is left to the check of the written file, which compares it.             *)
TakesEdit(p, s) ==
  \/ proc[p].plan[s] = dir[s].data
  \/ /\ proc[p].pc # "rename"
     /\ proc[p].plan[s] = proc[p].data[s] /\ dir[s] = Content(proc[p].man.source[s])

PacksWhatIsThere ==
  \A p \in Procs :
    Runs(p, "pack") /\ proc[p].alone /\ proc[p].pc \in {"create", "write", "written", "rename"} =>
      /\ Input = Binary(proc[p].data)
      /\ \A s \in Parts :
           IF s \in proc[p].man.streams /\ dir[s].is = "content"
           THEN TakesEdit(p, s)
           ELSE proc[p].plan[s] = proc[p].data[s] \/ (s \in Streams /\ dir[s] = Cut)

AloneFits == StillAlone /\ PacksWhatIsThere

(* Where damage is, while the input holds none.  A rebuild may have read    *)
(* parts that do not belong together if the directory was changed, and then *)
(* its temporary file holds damage until it is found out.                   *)
SourcesAreClean ==
  /\ index.is = "index" => index.source \in Clean
  /\ \A s \in Streams : dir[s] # Content(Damage)
  /\ \A p \in Procs : proc[p] # Idle /\ ~Runs(p, "rebuild") => proc[p].data \in Clean

PlansAreClean ==
  /\ \A p \in Procs : Runs(p, "pack") => OnlyTorn(proc[p].plan)
  /\ \A p \in Procs : Runs(p, "rebuild") /\ proc[p].pc \in {"write", "written", "rename"} =>
       proc[p].man.source \in Clean /\ (~meddled => proc[p].plan = proc[p].man.source)

WrittenIsClean ==
  /\ Input.is = "binary" => Input.bytes \in Clean
  /\ \A o \in Outputs :
       /\ file[o].is = "binary" /\ ~(meddled /\ o \in shared) => OnlyTorn(file[o].bytes)
       /\ temp[o].is = "binary" /\ ~meddled =>
            IF o = "input" THEN temp[o].bytes \in Clean ELSE OnlyTorn(temp[o].bytes)

DamageFits ==
  ~(meddled /\ "input" \in shared) => SourcesAreClean /\ PlansAreClean /\ WrittenIsClean

(* How far an unpack has come, a stream at a time.                          *)
StreamUnpacked(p, s) ==
  LET whole == Content(proc[p].data[s]) IN
  /\ s \in proc[p].open => s \notin proc[p].todo /\ s \notin DOMAIN proc[p].plan /\ contents[s] = Cut
  /\ s \in DOMAIN proc[p].plan =>
       /\ s \notin proc[p].todo
       /\ proc[p].plan[s] = "recon opened" => recon[s] = Cut
  /\ s \notin proc[p].todo \cup proc[p].open => contents[s] = whole
  /\ s \in Corrected \ (proc[p].todo \cup proc[p].open \cup DOMAIN proc[p].plan) => recon[s] = whole

UnpackedSoFar(p) ==
  LET r == proc[p] IN
  /\ r.todo \cup r.open \cup DOMAIN r.plan \subseteq r.man.streams
  /\ r.pc \in {"gaps", "gaps opened"} =>
       r.todo = r.man.streams /\ r.open = {} /\ r.plan = NoData
  /\ r.pc = "gaps opened" => gaps = Cut
  /\ r.pc \in {"tasks", "index opened"} =>
       gaps = Gaps(r.data, r.man.streams) /\ \A s \in r.man.streams : StreamUnpacked(p, s)
  /\ IF r.pc = "index opened" THEN TasksDone(p) /\ index = Cut ELSE index = NoFile

(* One unpack writes the directory, and none once the index is there.       *)
UnpackFits ==
  /\ \A p \in Procs : Runs(p, "unpack") /\ proc[p].pc = "mkdir" =>
       proc[p].todo = proc[p].man.streams /\ proc[p].open = {} /\ proc[p].plan = NoData
  /\ ~made => index = NoFile /\ \A p \in Procs : Runs(p, "unpack") => proc[p].pc = "mkdir"
  /\ made /\ ~meddled =>
       /\ \A p, q \in Procs : Runs(p, "unpack") /\ Runs(q, "unpack") => p = q
       /\ \A p \in Procs : Runs(p, "unpack") => proc[p].pc # "mkdir" /\ UnpackedSoFar(p)
       /\ index.is = "index" =>
            Complete /\ Built = index.source /\ \A p \in Procs : ~Runs(p, "unpack")

IInv == TypeOK /\ OutputIsWhole /\ WritesFit /\ AloneFits /\ DamageFits /\ UnpackFits
=============================================================================
