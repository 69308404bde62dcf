-------------------------- MODULE WorkspaceProofs ---------------------------
(***************************************************************************)
(* Proofs of the properties of Workspace, for any streams, names, processes*)
(* and bounds.  First what each step of a command, and each step of the    *)
(* user, does to the files and to the process that takes it, one lemma an  *)
(* action, and from these that every variable keeps its type.  Then the    *)
(* inductive invariant: the steps of a process fall into a few shapes, and *)
(* each part of the invariant is kept by every shape that can disturb it.  *)
(***************************************************************************)
EXTENDS Workspace, TLAPS


-----------------------------------------------------------------------------
(* The kinds of command.                                                    *)

(* The name of a command tells its kind.                                    *)
LEMMA Kinds ==
  ASSUME NEW r \in {Idle} \cup Running
  PROVE  /\ r = Idle <=> r.cmd = "none"
         /\ r \in Saver <=> r.cmd \in {"scan", "fields", "try"}
         /\ r \in Extractor <=> r.cmd = "extract"
         /\ r \in Packer <=> r.cmd = "pack"
         /\ r \in Unpacker <=> r.cmd = "unpack"
         /\ r \in Rebuilder <=> r.cmd = "rebuild"
<1>1. /\ Idle.cmd = "none"
      /\ \A t \in Saver : t.cmd \in {"scan", "fields", "try"}
  BY DEF Idle, Saver
<1>2. /\ \A t \in Extractor : t.cmd = "extract"
      /\ \A t \in Unpacker : t.cmd = "unpack"
  BY DEF Extractor, Unpacker
<1>3. /\ \A t \in Packer : t.cmd = "pack"
      /\ \A t \in Rebuilder : t.cmd = "rebuild"
  BY DEF Packer, Rebuilder
<1>4. r = Idle \/ r \in Saver \/ r \in Extractor \/ r \in Packer \/ r \in Unpacker \/ r \in Rebuilder
  BY DEF Running
<1> HIDE DEF Idle, Saver, Extractor, Packer, Unpacker, Rebuilder
<1>5. QED BY <1>1, <1>2, <1>3, <1>4

(* What another command does leaves a command as it is, but for its handle  *)
(* and whether it was alone.                                                *)
LEMMA OthersChange ==
  ASSUME NEW r \in Running, NEW h \in {"none", "temp", "file", "gone"},
         r.cmd \in {"pack", "rebuild"} \/ h = "none"
  PROVE  /\ [r EXCEPT !.alone = FALSE] \in Running
         /\ [r EXCEPT !.handle = h] \in Running
<1>1. CASE r \in Saver
  BY <1>1 DEF Running, Saver
<1>2. CASE r \in Extractor
  BY <1>2 DEF Running, Extractor
<1>3. CASE r \in Packer
  BY <1>3 DEF Running, Packer
<1>4. CASE r \in Unpacker
  BY <1>4 DEF Running, Unpacker
<1>5. CASE r \in Rebuilder
  BY <1>5 DEF Running, Rebuilder
<1>6. QED BY <1>1, <1>2, <1>3, <1>4, <1>5 DEF Running

(* A command that goes on remains one of its kind.                          *)
LEMMA SaverGoes ==
  ASSUME NEW r \in Saver, NEW pc \in {"save", "saving"}
  PROVE  [r EXCEPT !.pc = pc] \in Saver
  BY DEF Saver

LEMMA PackerGoes ==
  ASSUME NEW r \in Packer,
         NEW pc \in {"create", "write", "written", "rename", "remove", "renamed", "save", "saving"}
  PROVE  [r EXCEPT !.pc = pc] \in Packer
  BY DEF Packer

LEMMA RebuilderGoes ==
  ASSUME NEW r \in Rebuilder, NEW pc \in {"create", "fill", "write", "written", "rename", "remove", "renamed"}
  PROVE  [r EXCEPT !.pc = pc] \in Rebuilder
  BY DEF Rebuilder

LEMMA UnpackerGoes ==
  ASSUME NEW r \in Unpacker,
         NEW pc \in {"mkdir", "gaps", "gaps opened", "tasks", "index opened"}
  PROVE  [r EXCEPT !.pc = pc] \in Unpacker
  BY DEF Unpacker

LEMMA QuietIsBoolean == Quiet \in BOOLEAN
  BY DEF Quiet

(* The commands as they start.                                              *)
LEMMA SaverStarts ==
  ASSUME NEW cmd \in {"scan", "fields", "try"}, NEW v \in Bytes, NEW m \in FitManifests, NEW t \in Saved
  PROVE  LET c == [Command(cmd, "save", v, m) EXCEPT !.target = t] IN
         /\ c \in Saver /\ c.cmd = cmd /\ c.alone = Quiet /\ c.data = v
  BY QuietIsBoolean DEF Command, Saver

LEMMA ExtractorStarts ==
  ASSUME NEW v \in Bytes, NEW m \in FitManifests
  PROVE  LET c == [Command("extract", "tasks", v, m) EXCEPT !.todo = m.streams] IN
         /\ c \in Extractor /\ c.cmd = "extract" /\ c.open = {} /\ c.alone = Quiet /\ c.data = v
<1>1. m.streams \in SUBSET Streams
  BY DEF FitManifests, Manifests
<1>2. QED BY <1>1, QuietIsBoolean DEF Command, Extractor

LEMMA UnpackerStarts ==
  ASSUME NEW v \in Bytes, NEW m \in FitManifests
  PROVE  LET c == [Command("unpack", "mkdir", v, m) EXCEPT !.todo = m.streams] IN
         /\ c \in Unpacker /\ c.cmd = "unpack" /\ c.alone = Quiet
         /\ c.data = v /\ c.man = m /\ c.pc = "mkdir"
         /\ c.todo = m.streams /\ c.open = {} /\ c.plan = NoData
<1>1. m.streams \in SUBSET Streams
  BY DEF FitManifests, Manifests
<1>2. NoData \in Unfinished
  <2>1. {} \in SUBSET Corrected /\ NoData \in [{} -> {"recon", "recon opened"}]
    BY DEF NoData
  <2>2. QED BY <2>1 DEF Unfinished
<1>3. QED BY <1>1, <1>2, QuietIsBoolean DEF Command, Unpacker

LEMMA RebuilderStarts ==
  ASSUME NEW o \in Outputs
  PROVE  LET c == [Command("rebuild", "create", NoData, NoFile) EXCEPT !.out = o] IN
         /\ c \in Rebuilder /\ c.cmd = "rebuild" /\ c.pc = "create" /\ c.alone = Quiet
  BY QuietIsBoolean DEF Command, Rebuilder

-----------------------------------------------------------------------------
(* What a step does to the processes.                                       *)

ProcOK ==
  /\ proc \in [Procs -> {Idle} \cup Running]
  /\ \A p \in Procs : proc[p] # Idle => RunsOnWhatItRead(proc[p])

(* What the steps of other processes leave as it is.                        *)
Keeps(r, t) ==
  /\ t.cmd = r.cmd /\ t.pc = r.pc /\ t.data = r.data /\ t.man = r.man /\ t.out = r.out
  /\ t.target = r.target /\ t.plan = r.plan /\ t.todo = r.todo /\ t.open = r.open
  /\ (r = Idle <=> t = Idle)

OthersKeep(p) == \A q \in Procs \ {p} : Keeps(proc[q], proc'[q])

(* ... and all but the steps that rename or remove a file.                  *)
Stays(q) ==
  /\ Keeps(proc[q], proc'[q])
  /\ proc[q] # Idle => proc'[q].handle = proc[q].handle /\ (proc'[q].alone => proc[q].alone)

OthersStay(p) == \A q \in Procs \ {p} : Stays(q)

(* t goes on where r was, at pc with handle h.                              *)
Follows(r, t, pc, h) ==
  /\ r # Idle /\ t # Idle /\ t.pc = pc /\ t.handle = h
  /\ t.cmd = r.cmd /\ t.data = r.data /\ t.man = r.man /\ t.out = r.out /\ t.target = r.target
  /\ t.plan = r.plan /\ t.todo = r.todo /\ t.open = r.open /\ t.alone = r.alone

Moved(p, pc, h) == Follows(proc[p], proc'[p], pc, h)

LEMMA ChangesKeep ==
  ASSUME NEW r \in Running, NEW h
  PROVE  /\ Keeps(r, [r EXCEPT !.alone = FALSE]) /\ [r EXCEPT !.alone = FALSE].handle = r.handle
         /\ [r EXCEPT !.alone = FALSE].alone = FALSE
         /\ Keeps(r, [r EXCEPT !.handle = h]) /\ [r EXCEPT !.handle = h].handle = h
         /\ [r EXCEPT !.handle = h].alone = r.alone
<1>1. CASE r \in Saver
  BY <1>1 DEF Keeps, Saver, Idle
<1>2. CASE r \in Extractor
  BY <1>2 DEF Keeps, Extractor, Idle
<1>3. CASE r \in Packer
  BY <1>3 DEF Keeps, Packer, Idle
<1>4. CASE r \in Unpacker
  BY <1>4 DEF Keeps, Unpacker, Idle
<1>5. CASE r \in Rebuilder
  BY <1>5 DEF Keeps, Rebuilder, Idle
<1>6. QED BY <1>1, <1>2, <1>3, <1>4, <1>5 DEF Running

LEMMA KeepsFit ==
  ASSUME NEW r, NEW t, Keeps(r, t), RunsOnWhatItRead(r)
  PROVE  RunsOnWhatItRead(t)
  BY DEF Keeps, RunsOnWhatItRead

(* A process goes on as r and the others stay as they are.                  *)
LEMMA GoesOn ==
  ASSUME ProcOK, NEW p \in Procs, NEW r \in {Idle} \cup Running,
         r # Idle => RunsOnWhatItRead(r), proc' = [proc EXCEPT ![p] = r]
  PROVE  /\ ProcOK' /\ proc'[p] = r
         /\ \A q \in Procs \ {p} : proc'[q] = proc[q]
         /\ OthersStay(p)
<1> HIDE DEF Idle, Running, RunsOnWhatItRead
<1>1. proc' \in [Procs -> {Idle} \cup Running] /\ proc'[p] = r /\ \A q \in Procs \ {p} : proc'[q] = proc[q]
  BY DEF ProcOK
<1>2. ProcOK'
  BY <1>1 DEF ProcOK
<1>3. OthersStay(p)
  BY <1>1 DEF OthersStay, Stays, Keeps
<1>4. QED BY <1>1, <1>2, <1>3

(* A process ends.                                                          *)
LEMMA Ends ==
  ASSUME ProcOK, NEW p \in Procs, End(p)
  PROVE  /\ ProcOK' /\ proc'[p] = Idle
         /\ \A q \in Procs \ {p} : proc'[q] = proc[q]
         /\ OthersStay(p)
<1>1. proc' = [proc EXCEPT ![p] = Idle]
  BY DEF End
<1>2. QED BY <1>1, GoesOn

(* A command starts: the others are no longer alone.                        *)
LEMMA Starts ==
  ASSUME ProcOK, NEW p \in Procs, NEW c \in Running, RunsOnWhatItRead(c), Start(p, c)
  PROVE  /\ ProcOK' /\ proc[p] = Idle /\ proc'[p] = c /\ OthersStay(p)
         /\ \A q \in Procs \ {p} : proc[q] # Idle => ~ proc'[q].alone
<1>1. \A q \in Procs : proc'[q] = IF q = p THEN c ELSE IF proc[q] = Idle THEN Idle
                                  ELSE [proc[q] EXCEPT !.alone = FALSE]
  BY DEF Start
<1>2. proc[p] = Idle
  BY DEF Start
<1>3. ASSUME NEW q \in Procs \ {p}
      PROVE  /\ proc'[q] \in {Idle} \cup Running /\ Keeps(proc[q], proc'[q])
             /\ proc'[q] # Idle => RunsOnWhatItRead(proc'[q])
             /\ proc[q] # Idle => ~ proc'[q].alone /\ proc'[q].handle = proc[q].handle
  <2>1. CASE proc[q] = Idle
    <3>1. proc'[q] = Idle
      BY <1>1, <2>1
    <3>2. QED BY <2>1, <3>1 DEF Keeps
  <2>2. CASE proc[q] # Idle
    <3>1. proc[q] \in Running /\ RunsOnWhatItRead(proc[q])
      BY <2>2 DEF ProcOK
    <3>2. proc'[q] = [proc[q] EXCEPT !.alone = FALSE]
      BY <1>1, <2>2
    <3>3. proc'[q] \in Running
      BY <3>1, <3>2, OthersChange
    <3>4. Keeps(proc[q], proc'[q]) /\ ~ proc'[q].alone /\ proc'[q].handle = proc[q].handle
      BY <3>1, <3>2, ChangesKeep
    <3>5. QED BY <3>1, <3>3, <3>4, KeepsFit
  <2>3. QED BY <2>1, <2>2
<1>4. proc' \in [Procs -> {Idle} \cup Running]
  <2>1. \A q \in Procs : proc'[q] \in {Idle} \cup Running
    BY <1>1, <1>3
  <2>2. proc' = [q \in Procs |-> proc'[q]]
    BY DEF Start
  <2>3. QED BY <2>1, <2>2
<1>5. ProcOK'
  BY <1>1, <1>3, <1>4 DEF ProcOK
<1>6. QED BY <1>1, <1>2, <1>3, <1>5 DEF OthersStay, Stays

(* A process renames or removes a temporary file and goes on as r.          *)
LEMMA HandlesChange ==
  ASSUME ProcOK, NEW p \in Procs, NEW o \in Outputs, NEW what, NEW r \in {Idle} \cup Running,
         r # Idle => RunsOnWhatItRead(r), Handles(p, o, what, r)
  PROVE  /\ ProcOK' /\ proc'[p] = r /\ OthersKeep(p)
         /\ \A q \in Procs \ {p} :
              /\ proc[q] # Idle => proc'[q].alone = proc[q].alone
              /\ proc[q].cmd \notin {"pack", "rebuild"} \/ proc[q].out # o => proc'[q] = proc[q]
<1>1. \A q \in Procs : proc'[q] = IF q = p THEN r
                                  ELSE IF proc[q].cmd # "none" /\ proc[q].out = o
                                       THEN [proc[q] EXCEPT !.handle = HandleAfter(@, what)]
                                       ELSE proc[q]
  BY DEF Handles
<1>2. ASSUME NEW q \in Procs \ {p}
      PROVE  /\ proc'[q] \in {Idle} \cup Running /\ Keeps(proc[q], proc'[q])
             /\ proc'[q] # Idle => RunsOnWhatItRead(proc'[q])
             /\ proc[q] # Idle => proc'[q].alone = proc[q].alone
             /\ proc[q].cmd \notin {"pack", "rebuild"} \/ proc[q].out # o => proc'[q] = proc[q]
  <2>1. CASE proc[q].cmd # "none" /\ proc[q].out = o
    <3>1. proc[q] \in Running /\ RunsOnWhatItRead(proc[q])
      <4>1. proc[q] # Idle
        BY <2>1 DEF Idle
      <4>2. QED BY <4>1 DEF ProcOK
    <3>0. PICK h : h = HandleAfter(proc[q].handle, what)
      OBVIOUS
    <3>2. proc'[q] = [proc[q] EXCEPT !.handle = h]
      BY <1>1, <2>1, <3>0
    <3>3. o # "none"
      BY FilesAssumption
    <3>4. proc[q].cmd \in {"pack", "rebuild"}
      BY <2>1, <3>1, <3>3 DEF Running, Saver, Extractor, Unpacker, Packer, Rebuilder
    <3>5. h \in {"none", "temp", "file", "gone"}
      <4>1. proc[q].handle \in {"none", "temp", "file", "gone"}
        BY <3>1 DEF Running, Saver, Extractor, Unpacker, Packer, Rebuilder
      <4>2. QED BY <3>0, <4>1 DEF HandleAfter
    <3>6. proc'[q] \in Running
      <4>1. [proc[q] EXCEPT !.handle = h] \in Running
        BY <3>1, <3>4, <3>5, OthersChange
      <4>2. QED BY <3>2, <4>1
    <3>7. Keeps(proc[q], proc'[q]) /\ proc'[q].alone = proc[q].alone
      <4>1. Keeps(proc[q], [proc[q] EXCEPT !.handle = h]) 
        BY <3>1, ChangesKeep
      <4>2. [proc[q] EXCEPT !.handle = h].alone = proc[q].alone
        BY <3>1, ChangesKeep
      <4>3. QED BY <3>2, <4>1, <4>2
    <3>8. QED BY <2>1, <3>1, <3>4, <3>6, <3>7, KeepsFit
  <2>2. CASE ~ (proc[q].cmd # "none" /\ proc[q].out = o)
    <3>1. proc'[q] = proc[q]
      BY <1>1, <2>2
    <3>2. QED BY <3>1 DEF Keeps, ProcOK
  <2>3. QED BY <2>1, <2>2
<1>3. proc' \in [Procs -> {Idle} \cup Running]
  <2>1. \A q \in Procs : proc'[q] \in {Idle} \cup Running
    BY <1>1, <1>2
  <2>2. proc' = [q \in Procs |-> proc'[q]]
    BY DEF Handles
  <2>3. QED BY <2>1, <2>2
<1>4. proc'[p] = r
  BY <1>1
<1>5. ProcOK'
  BY <1>2, <1>3, <1>4 DEF ProcOK
<1>6. QED BY <1>2, <1>4, <1>5 DEF OthersKeep

LEMMA RunningIsNotIdle ==
  ASSUME NEW r \in Running
  PROVE  r.cmd # "none" /\ r # Idle
<1>1. r.cmd # "none"
  BY DEF Running, Saver, Extractor, Packer, Unpacker, Rebuilder
<1>2. Idle.cmd = "none"
  BY DEF Idle
<1>3. QED BY <1>1, <1>2

(* A process goes to its next step.                                         *)
LEMMA NextStep ==
  ASSUME NEW r \in Running, NEW pc, NEW t, t = [r EXCEPT !.pc = pc]
  PROVE  Follows(r, t, pc, r.handle)
<1>1. t.pc = pc /\ t.handle = r.handle /\ t.cmd = r.cmd /\ t.data = r.data /\ t.man = r.man /\ t.out = r.out
  <2>1. CASE r \in Saver
    BY <2>1 DEF Saver
  <2>2. CASE r \in Extractor
    BY <2>2 DEF Extractor
  <2>3. CASE r \in Packer
    BY <2>3 DEF Packer
  <2>4. CASE r \in Unpacker
    BY <2>4 DEF Unpacker
  <2>5. CASE r \in Rebuilder
    BY <2>5 DEF Rebuilder
  <2>6. QED BY <2>1, <2>2, <2>3, <2>4, <2>5 DEF Running
<1>2. t.target = r.target /\ t.plan = r.plan /\ t.todo = r.todo /\ t.open = r.open /\ t.alone = r.alone
  <2>1. CASE r \in Saver
    BY <2>1 DEF Saver
  <2>2. CASE r \in Extractor
    BY <2>2 DEF Extractor
  <2>3. CASE r \in Packer
    BY <2>3 DEF Packer
  <2>4. CASE r \in Unpacker
    BY <2>4 DEF Unpacker
  <2>5. CASE r \in Rebuilder
    BY <2>5 DEF Rebuilder
  <2>6. QED BY <2>1, <2>2, <2>3, <2>4, <2>5 DEF Running
<1>3. r.cmd # "none" /\ Idle.cmd = "none"
  BY RunningIsNotIdle DEF Idle
<1>4. r # Idle /\ t # Idle
  BY ONLY <1>1, <1>3
<1>5. QED BY <1>1, <1>2, <1>4 DEF Follows

LEMMA NextStepAndHandle ==
  ASSUME NEW r \in Packer \cup Rebuilder, NEW pc, NEW h, NEW t, t = [r EXCEPT !.pc = pc, !.handle = h]
  PROVE  Follows(r, t, pc, h)
<1>1. t.pc = pc /\ t.handle = h /\ t.cmd = r.cmd /\ t.data = r.data /\ t.man = r.man /\ t.out = r.out
  <2>1. CASE r \in Packer
    BY <2>1 DEF Packer
  <2>2. CASE r \in Rebuilder
    BY <2>2 DEF Rebuilder
  <2>3. QED BY <2>1, <2>2
<1>2. t.target = r.target /\ t.plan = r.plan /\ t.todo = r.todo /\ t.open = r.open /\ t.alone = r.alone
  <2>1. CASE r \in Packer
    BY <2>1 DEF Packer
  <2>2. CASE r \in Rebuilder
    BY <2>2 DEF Rebuilder
  <2>3. QED BY <2>1, <2>2
<1>3. r.cmd # "none" /\ Idle.cmd = "none"
  BY RunningIsNotIdle DEF Idle, Running
<1>4. r # Idle /\ t # Idle
  BY ONLY <1>1, <1>3
<1>5. QED BY <1>1, <1>2, <1>4 DEF Follows

-----------------------------------------------------------------------------
(* Types, an action at a time.                                              *)

FilesOK ==
  /\ file \in [Names -> {NoFile, Cut} \cup Binaries \cup FitManifests]
  /\ temp \in [Outputs -> {NoFile, Cut} \cup Binaries]
  /\ runs \in 0 .. MaxRuns /\ shared \subseteq Outputs /\ orphans \subseteq Outputs

DirOK == dir \in [Streams -> StreamFiles] /\ edits \in 0 .. MaxEdits /\ torn \subseteq Streams

FlagsOK == {made, meddled} \subseteq BOOLEAN

UnpackOK ==
  /\ contents \in [Streams -> StreamFiles] /\ recon \in [Corrected -> StreamFiles]
  /\ index \in {NoFile, Cut} \cup Indexes
  /\ gaps \in {NoFile, Cut} \cup GapFiles

LEMMA TypesSplit == TypeOK <=> ProcOK /\ FilesOK /\ DirOK /\ FlagsOK /\ UnpackOK
  BY DEF TypeOK, ProcOK, FilesOK, DirOK, FlagsOK, UnpackOK

(* A process that goes to its next step keeps its type.                     *)
LEMMA FollowsFit ==
  ASSUME NEW r, NEW t, NEW pc, NEW h, Follows(r, t, pc, h), RunsOnWhatItRead(r),
         r.cmd = "pack" /\ pc \in {"save", "saving"} => r.target # "none",
         r.cmd = "rebuild" /\ pc \in {"write", "written", "rename"} =>
           r.plan \in Bytes /\ r.man \in Indexes,
         r.cmd = "rebuild" /\ pc = "rename" => r.plan = r.man.source
  PROVE  RunsOnWhatItRead(t)
  BY DEF RunsOnWhatItRead, Follows

LEMMA Moves ==
  ASSUME ProcOK, NEW p \in Procs, NEW pc, Goto(p, pc), proc[p] # Idle,
         [proc[p] EXCEPT !.pc = pc] \in Running,
         proc[p].cmd = "pack" /\ pc \in {"save", "saving"} => proc[p].target # "none",
         proc[p].cmd = "rebuild" /\ pc \in {"write", "written", "rename"} =>
           proc[p].plan \in Bytes /\ proc[p].man \in Indexes,
         proc[p].cmd = "rebuild" /\ pc = "rename" => proc[p].plan = proc[p].man.source
  PROVE  ProcOK' /\ OthersStay(p) /\ Moved(p, pc, proc[p].handle)
<1>1. PICK r : r = [proc[p] EXCEPT !.pc = pc]
  OBVIOUS
<1>2. proc[p] \in Running /\ RunsOnWhatItRead(proc[p])
  BY DEF ProcOK
<1>3. Follows(proc[p], r, pc, proc[p].handle)
  BY <1>1, <1>2, NextStep
<1>4. RunsOnWhatItRead(r)
  BY <1>2, <1>3, FollowsFit
<1>5. proc' = [proc EXCEPT ![p] = r] /\ r \in Running
  BY <1>1 DEF Goto
<1>6. ProcOK' /\ OthersStay(p) /\ proc'[p] = r
  BY <1>4, <1>5, GoesOn
<1>7. QED BY <1>3, <1>6 DEF Moved

LEMMA MovesHandle ==
  ASSUME ProcOK, NEW p \in Procs, NEW pc \in {"write", "fill", "renamed"}, NEW h \in {"none", "temp"},
         NEW r, r = [proc[p] EXCEPT !.pc = pc, !.handle = h],
         (proc[p].cmd = "pack" /\ pc # "fill") \/ (proc[p].cmd = "rebuild" /\ pc # "write")
  PROVE  r \in Running /\ RunsOnWhatItRead(r) /\ Follows(proc[p], r, pc, h)
<1>1. proc[p] \in Running /\ RunsOnWhatItRead(proc[p]) /\ proc[p] \in Packer \cup Rebuilder
  BY Kinds, RunningIsNotIdle DEF ProcOK
<1>2. Follows(proc[p], r, pc, h)
  BY <1>1, NextStepAndHandle
<1>3. RunsOnWhatItRead(r)
  BY <1>1, <1>2, FollowsFit
<1>4. r \in Running
  <2>1. CASE proc[p] \in Packer
    <3>1. pc # "fill"
      BY <2>1 DEF Packer
    <3>2. r \in Packer
      BY <2>1, <3>1 DEF Packer
    <3>3. QED BY <3>2 DEF Running
  <2>2. CASE proc[p] \in Rebuilder
    <3>1. pc # "write"
      BY <2>2 DEF Rebuilder
    <3>2. r \in Rebuilder
      BY <2>2, <3>1 DEF Rebuilder
    <3>3. QED BY <3>2 DEF Running
  <2>3. QED BY <1>1, <2>1, <2>2
<1>5. QED BY <1>2, <1>3, <1>4

LEMMA FileKinds ==
  /\ NoFile.is = "nothing" /\ Cut.is = "cut" /\ NoFile # Cut
  /\ \A v : Binary(v).is = "binary" /\ Binary(v).bytes = v /\ Binary(v) # Cut /\ Binary(v) # NoFile
  /\ \A b \in Binaries : b.is = "binary" /\ b.bytes \in Bytes /\ b = Binary(b.bytes)
  /\ \A m \in FitManifests : m.is = "manifest"
  /\ \A v \in Bytes : Binary(v) \in Binaries
<1>1. NoFile.is = "nothing" /\ Cut.is = "cut"
  BY DEF NoFile, Cut
<1>2. \A v : Binary(v).is = "binary" /\ Binary(v).bytes = v
  BY DEF Binary
<1>3. \A b \in Binaries : b.is = "binary" /\ b.bytes \in Bytes /\ b = Binary(b.bytes)
  BY DEF Binaries, Binary
<1>4. \A m \in FitManifests : m.is = "manifest"
  BY DEF FitManifests, Manifests
<1>5. \A v \in Bytes : Binary(v) \in Binaries
  BY DEF Binaries, Binary
<1>6. NoFile # Cut /\ \A v : Binary(v) # Cut /\ Binary(v) # NoFile
  BY ONLY <1>1, <1>2
<1>7. QED BY <1>1, <1>2, <1>3, <1>4, <1>5, <1>6

(* What a write can leave: what was written, or a mixture, but only over    *)
(* something else than an emptied file.                                     *)
LEMMA WriteLeaves ==
  ASSUME NEW old, NEW new, NEW c \in AfterWrite(old, new)
  PROVE  c \in {new, Cut} /\ (old = Cut => c = new)
  BY DEF AfterWrite

LEMMA SavedNames == Saved \subseteq Names /\ "none" \notin Names /\ Outputs \subseteq Names /\ "input" \in Names
  BY FilesAssumption, CliAssumption DEF Saved

(* Manifest::save.                                                          *)
LEMMA AtSave ==
  ASSUME ProcOK, NEW p \in Procs, NEW pc \in {"save", "saving"}, At(p, pc)
  PROVE  /\ proc[p] # Idle /\ proc[p] \in Saver \cup Packer /\ proc[p].target \in Saved
         /\ proc[p].man \in FitManifests
<1>1. proc[p] # Idle /\ proc[p].pc = pc
  BY DEF At, Idle
<1>2. proc[p] \in Running /\ RunsOnWhatItRead(proc[p])
  BY <1>1 DEF ProcOK
<1>3. proc[p] \in Saver \cup Packer
  BY <1>1, <1>2 DEF Running, Extractor, Unpacker, Rebuilder
<1>4. CASE proc[p] \in Saver
  BY <1>1, <1>4 DEF Saver
<1>5. CASE proc[p] \in Packer
  BY <1>1, <1>2, <1>5 DEF Packer, RunsOnWhatItRead, Saved
<1>6. QED BY <1>1, <1>3, <1>4, <1>5

LEMMA SaveCreateStep ==
  ASSUME TypeOK, NEW p \in Procs, SaveCreate(p)
  PROVE  ProcOK' /\ FilesOK' /\ OthersStay(p) /\ Moved(p, "saving", proc[p].handle)
<1>0. ProcOK /\ FilesOK
  BY TypesSplit
<1>1. At(p, "save") /\ Goto(p, "saving") /\ file' = [file EXCEPT ![proc[p].target] = Cut]
      /\ UNCHANGED <<temp, runs, orphans, shared>>
  BY DEF SaveCreate
<1>2. proc[p] # Idle /\ proc[p] \in Saver \cup Packer /\ proc[p].target \in Saved
  BY <1>0, <1>1, AtSave
<1>3. [proc[p] EXCEPT !.pc = "saving"] \in Running
  BY <1>2, SaverGoes, PackerGoes DEF Running
<1>4. proc[p].cmd # "rebuild" /\ proc[p].target # "none"
  BY <1>2, SavedNames DEF Saver, Packer
<1>5. ProcOK' /\ OthersStay(p) /\ Moved(p, "saving", proc[p].handle)
  BY <1>0, <1>1, <1>2, <1>3, <1>4, Moves
<1>6. FilesOK'
  BY <1>0, <1>1, <1>2, SavedNames, FileKinds DEF FilesOK
<1>7. QED BY <1>5, <1>6

LEMMA SaveWriteStep ==
  ASSUME TypeOK, NEW p \in Procs, SaveWrite(p)
  PROVE  ProcOK' /\ FilesOK' /\ OthersStay(p) /\ proc'[p] = Idle
<1>0. ProcOK /\ FilesOK
  BY TypesSplit
<1>1. At(p, "saving") /\ End(p) /\ UNCHANGED <<temp, runs, orphans, shared>>
  BY DEF SaveWrite
<1>2. proc[p].target \in Saved /\ proc[p].man \in FitManifests
  BY <1>0, <1>1, AtSave
<1>3. ProcOK' /\ OthersStay(p) /\ proc'[p] = Idle
  BY <1>0, <1>1, Ends
<1>4. PICK c \in AfterWrite(file[proc[p].target], proc[p].man) :
        file' = [file EXCEPT ![proc[p].target] = c]
  BY DEF SaveWrite
<1>5. c.is # "binary" /\ c \in {NoFile, Cut} \cup Binaries \cup FitManifests
  <2>1. c \in {proc[p].man, Cut}
    BY <1>4, WriteLeaves
  <2>2. QED BY <1>2, <2>1, FileKinds
<1>6. FilesOK'
  BY <1>0, <1>1, <1>2, <1>4, <1>5, SavedNames DEF FilesOK
<1>7. QED BY <1>3, <1>6

(* Steps that end a command, whatever the reason, and touch no file.        *)
LEMMA EndStep ==
  ASSUME TypeOK, NEW p \in Procs, End(p), UNCHANGED <<file, temp, runs, shared>>,
         orphans' \subseteq Outputs
  PROVE  ProcOK' /\ FilesOK' /\ OthersStay(p) /\ proc'[p] = Idle
<1>0. ProcOK /\ FilesOK
  BY TypesSplit
<1>1. FilesOK'
  BY <1>0 DEF FilesOK
<1>2. QED BY <1>0, <1>1, Ends

(* write_via_temp.                                                          *)
LEMMA Writers ==
  ASSUME ProcOK, NEW p \in Procs, NEW pc \in {"create", "fill", "write", "written", "rename", "remove", "renamed"}, At(p, pc)
  PROVE  /\ proc[p] # Idle /\ proc[p] \in Packer \cup Rebuilder /\ proc[p].out \in Outputs
         /\ proc[p].cmd \in {"pack", "rebuild"} /\ proc[p].pc = pc
         /\ proc[p].cmd = "pack" => proc[p].out # "input"
         /\ pc = "fill" => proc[p].cmd = "rebuild"
         /\ pc \in {"write", "written", "rename"} => proc[p].plan \in Bytes
         /\ pc \in {"write", "written", "rename"} /\ proc[p].cmd = "rebuild" => proc[p].man \in Indexes
         /\ pc = "rename" /\ proc[p].cmd = "rebuild" => proc[p].plan = proc[p].man.source
<1>1. proc[p] # Idle /\ proc[p].pc = pc
  BY DEF At, Idle
<1>2. proc[p] \in Running /\ RunsOnWhatItRead(proc[p])
  BY <1>1 DEF ProcOK
<1>3. proc[p] \in Packer \cup Rebuilder
  BY <1>1, <1>2 DEF Running, Saver, Extractor, Unpacker
<1>4. CASE proc[p] \in Packer
  BY <1>1, <1>4 DEF Packer
<1>5. CASE proc[p] \in Rebuilder
  BY <1>1, <1>2, <1>5 DEF Rebuilder, RunsOnWhatItRead
<1>6. QED BY <1>1, <1>3, <1>4, <1>5

LEMMA TempCreateStep ==
  ASSUME TypeOK, NEW p \in Procs, TempCreate(p)
  PROVE  /\ ProcOK' /\ FilesOK' /\ OthersStay(p)
         /\ \E pc \in {"fill", "write"} : Moved(p, pc, "temp")
<1>0. ProcOK /\ FilesOK
  BY TypesSplit
<1>1. At(p, "create") /\ temp' = [temp EXCEPT ![proc[p].out] = Cut] /\ shared' = SharedBy(p)
      /\ UNCHANGED <<file, runs, orphans>>
  BY DEF TempCreate
<1>2. proc[p].out \in Outputs /\ proc[p].cmd \in {"pack", "rebuild"}
  BY <1>0, <1>1, Writers
<1>3. PICK pc : pc = IF proc[p].cmd = "rebuild" THEN "fill" ELSE "write"
  OBVIOUS
<1>4. PICK r : r = [proc[p] EXCEPT !.pc = pc, !.handle = "temp"]
  OBVIOUS
<1>5. proc' = [proc EXCEPT ![p] = r]
  BY <1>0, <1>3, <1>4 DEF TempCreate, ProcOK
<1>6. r \in Running /\ RunsOnWhatItRead(r) /\ Follows(proc[p], r, pc, "temp")
  BY <1>0, <1>2, <1>3, <1>4, MovesHandle
<1>7. ProcOK' /\ OthersStay(p) /\ Moved(p, pc, "temp")
  BY <1>0, <1>5, <1>6, GoesOn DEF Moved
<1>8. shared' \subseteq Outputs
  BY <1>0, <1>1, <1>2 DEF SharedBy, FilesOK
<1>9. FilesOK'
  BY <1>0, <1>1, <1>2, <1>8 DEF FilesOK
<1>10. QED BY <1>3, <1>7, <1>9

LEMMA TempFailsStep ==
  ASSUME TypeOK, NEW p \in Procs, TempFails(p)
  PROVE  ProcOK' /\ FilesOK' /\ OthersStay(p) /\ Moved(p, "remove", proc[p].handle)
<1>0. ProcOK /\ FilesOK
  BY TypesSplit
<1>1. PICK pc \in {"create", "fill", "write", "written", "rename"} : At(p, pc)
  BY DEF TempFails
<1>2. Goto(p, "remove") /\ shared' = SharedBy(p) /\ UNCHANGED <<file, temp, runs, orphans>>
  BY DEF TempFails
<1>3. proc[p] # Idle /\ proc[p] \in Packer \cup Rebuilder /\ proc[p].out \in Outputs
  BY <1>0, <1>1, Writers
<1>4. [proc[p] EXCEPT !.pc = "remove"] \in Running
  BY <1>3, PackerGoes, RebuilderGoes DEF Running
<1>5. ProcOK' /\ OthersStay(p) /\ Moved(p, "remove", proc[p].handle)
  BY <1>0, <1>2, <1>3, <1>4, Moves
<1>6. FilesOK'
  BY <1>0, <1>2, <1>3 DEF FilesOK, SharedBy
<1>7. QED BY <1>5, <1>6

LEMMA TempWriteStep ==
  ASSUME TypeOK, NEW p \in Procs, TempWrite(p)
  PROVE  ProcOK' /\ FilesOK' /\ OthersStay(p) /\ Moved(p, "written", proc[p].handle)
<1>0. ProcOK /\ FilesOK
  BY TypesSplit
<1>1. At(p, "write") /\ Goto(p, "written") /\ UNCHANGED <<runs, orphans, shared>>
  BY DEF TempWrite
<1>2. /\ proc[p] # Idle /\ proc[p] \in Packer \cup Rebuilder /\ proc[p].out \in Outputs
      /\ proc[p].plan \in Bytes /\ (proc[p].cmd = "rebuild" => proc[p].man \in Indexes)
  BY <1>0, <1>1, Writers
<1>3. [proc[p] EXCEPT !.pc = "written"] \in Running
  BY <1>2, PackerGoes, RebuilderGoes DEF Running
<1>4. ProcOK' /\ OthersStay(p) /\ Moved(p, "written", proc[p].handle)
  BY <1>0, <1>1, <1>2, <1>3, Moves
<1>5. FilesOK'
  <2> DEFINE new == Binary(proc[p].plan)
             o == proc[p].out
  <2>1. new \in Binaries
    BY <1>2, FileKinds
  <2>2. CASE \E c \in AfterWrite(temp[o], new) : temp' = [temp EXCEPT ![o] = c] /\ UNCHANGED file
    <3>1. PICK c \in AfterWrite(temp[o], new) : temp' = [temp EXCEPT ![o] = c] /\ UNCHANGED file
      BY <2>2
    <3> HIDE DEF new, o
    <3>2. c \in {Cut} \cup Binaries
      BY <2>1, <3>1, WriteLeaves
    <3>3. QED BY <1>0, <1>1, <3>1, <3>2 DEF FilesOK
  <2>3. CASE \E c \in AfterWrite(file[o], new) : file' = [file EXCEPT ![o] = c] /\ UNCHANGED temp
    <3>1. PICK c \in AfterWrite(file[o], new) : file' = [file EXCEPT ![o] = c] /\ UNCHANGED temp
      BY <2>3
    <3> HIDE DEF new, o
    <3>2. c \in {Cut} \cup Binaries
      BY <2>1, <3>1, WriteLeaves
    <3>3. QED BY <1>0, <1>1, <3>1, <3>2 DEF FilesOK
  <2>4. CASE UNCHANGED <<file, temp>>
    BY <1>0, <1>1, <2>4 DEF FilesOK
  <2>5. QED BY <2>2, <2>3, <2>4 DEF TempWrite
<1>6. QED BY <1>4, <1>5

(* Renaming or removing a file changes the handles of those who have it.    *)
OthersOn(p, o) ==
  /\ OthersKeep(p)
  /\ \A q \in Procs \ {p} :
       /\ proc[q] # Idle => proc'[q].alone = proc[q].alone
       /\ proc[q].cmd \notin {"pack", "rebuild"} \/ proc[q].out # o => proc'[q] = proc[q]

LEMMA TempRenameStep ==
  ASSUME TypeOK, NEW p \in Procs, TempRename(p)
  PROVE  /\ ProcOK' /\ FilesOK'
         /\ IF temp[proc[p].out] = NoFile
            THEN OthersStay(p) /\ Moved(p, "remove", proc[p].handle)
            ELSE OthersOn(p, proc[p].out) /\ Moved(p, "renamed", "none")
<1>0. ProcOK /\ FilesOK
  BY TypesSplit
<1>1. At(p, "rename") /\ UNCHANGED <<runs, shared>>
  BY DEF TempRename
<1>2. /\ proc[p] # Idle /\ proc[p] \in Packer \cup Rebuilder /\ proc[p].out \in Outputs
      /\ proc[p].cmd \in {"pack", "rebuild"}
  BY <1>0, <1>1, Writers
<1>3. CASE temp[proc[p].out] = NoFile
  <2>1. Goto(p, "remove") /\ UNCHANGED <<file, temp, orphans>>
    BY <1>3 DEF TempRename
  <2>2. [proc[p] EXCEPT !.pc = "remove"] \in Running
    BY <1>2, PackerGoes, RebuilderGoes DEF Running
  <2>3. ProcOK' /\ OthersStay(p) /\ Moved(p, "remove", proc[p].handle)
    BY <1>0, <1>2, <2>1, <2>2, Moves
  <2>4. FilesOK'
    BY <1>0, <1>1, <2>1 DEF FilesOK
  <2>5. QED BY <1>3, <2>3, <2>4
<1>4. CASE temp[proc[p].out] # NoFile
  <2>1. PICK r : r = [proc[p] EXCEPT !.pc = "renamed", !.handle = "none"]
    OBVIOUS
  <2>2. /\ file' = [file EXCEPT ![proc[p].out] = temp[proc[p].out]]
        /\ temp' = [temp EXCEPT ![proc[p].out] = NoFile]
        /\ Handles(p, proc[p].out, "rename", r) /\ orphans' = orphans \ {proc[p].out}
    BY <1>4, <2>1 DEF TempRename
  <2>3. r \in Running /\ RunsOnWhatItRead(r) /\ Follows(proc[p], r, "renamed", "none")
    BY <1>0, <1>2, <2>1, MovesHandle
  <2>4. ProcOK' /\ OthersOn(p, proc[p].out) /\ Moved(p, "renamed", "none")
    BY <1>0, <1>2, <2>2, <2>3, HandlesChange DEF Moved, OthersOn
  <2>5. FilesOK'
    BY <1>0, <1>1, <1>2, <2>2, SavedNames DEF FilesOK
  <2>6. QED BY <1>4, <2>4, <2>5
<1>5. QED BY <1>3, <1>4

(* The two ways in which removing a file can end.                           *)
Removed(p) ==
  /\ temp' = [temp EXCEPT ![proc[p].out] = NoFile]
  /\ Handles(p, proc[p].out, "remove", Idle) /\ orphans' = orphans \ {proc[p].out}

NotRemoved(p) ==
  temp[proc[p].out] # NoFile /\ End(p) /\ orphans' = orphans \cup {proc[p].out} /\ temp' = temp

LEMMA TempRemoveStep ==
  ASSUME TypeOK, NEW p \in Procs, TempRemove(p)
  PROVE  /\ ProcOK' /\ FilesOK' /\ proc'[p] = Idle
         /\ \/ Removed(p) /\ OthersOn(p, proc[p].out)
            \/ NotRemoved(p) /\ OthersStay(p)
<1>0. ProcOK /\ FilesOK
  BY TypesSplit
<1>1. At(p, "remove") /\ (Removed(p) \/ NotRemoved(p)) /\ UNCHANGED <<file, runs, shared>>
  BY DEF TempRemove, Removed, NotRemoved
<1>2. proc[p].out \in Outputs
  BY <1>0, <1>1, Writers
<1>3. CASE Removed(p)
  <2>1. ProcOK' /\ OthersOn(p, proc[p].out) /\ proc'[p] = Idle
    BY <1>0, <1>2, <1>3, HandlesChange DEF OthersOn, Removed
  <2>2. FilesOK'
    BY <1>0, <1>1, <1>2, <1>3 DEF FilesOK, Removed
  <2>3. QED BY <1>3, <2>1, <2>2
<1>4. CASE NotRemoved(p)
  <2>1. ProcOK' /\ OthersStay(p) /\ proc'[p] = Idle
    BY <1>0, <1>4, Ends DEF NotRemoved
  <2>2. FilesOK'
    BY <1>0, <1>1, <1>2, <1>4 DEF FilesOK, NotRemoved
  <2>3. QED BY <1>4, <2>1, <2>2
<1>5. QED BY <1>1, <1>3, <1>4

(* A command that panics or is killed.                                      *)
LEMMA AbandonStep ==
  ASSUME TypeOK, NEW p \in Procs, Abandon(p)
  PROVE  ProcOK' /\ FilesOK' /\ OthersStay(p) /\ proc'[p] = Idle
<1>0. ProcOK /\ FilesOK
  BY TypesSplit
<1>1. End(p) /\ UNCHANGED <<file, temp, runs, shared>>
  BY DEF Abandon
<1>2. ASSUME Writing(p, proc[p].out) PROVE proc[p].out \in Outputs
  <2>1. proc[p] # Idle
    BY <1>2 DEF Writing, Idle
  <2>2. QED BY <1>0, <1>2, <2>1 DEF ProcOK, Writing, Running, Saver, Extractor, Unpacker, Packer, Rebuilder
<1>3. orphans' \subseteq Outputs
  BY <1>0, <1>2 DEF Abandon, FilesOK
<1>4. QED BY <1>1, <1>3, EndStep

-----------------------------------------------------------------------------
(* Types: the commands that work with a manifest.                           *)

(* p starts command c; those beside it are alone no more.                   *)
Begins(p, c) ==
  /\ proc[p] = Idle /\ proc'[p] = c /\ OthersStay(p)
  /\ \A q \in Procs \ {p} : proc[q] # Idle => ~ proc'[q].alone

LEMMA BeginStep ==
  ASSUME TypeOK, NEW p \in Procs, NEW c \in Running, RunsOnWhatItRead(c), Start(p, c),
         UNCHANGED <<file, temp, orphans, shared>>
  PROVE  ProcOK' /\ FilesOK' /\ Begins(p, c)
<1>0. ProcOK /\ FilesOK
  BY TypesSplit
<1>1. /\ ProcOK' /\ proc[p] = Idle /\ proc'[p] = c /\ OthersStay(p)
      /\ \A q \in Procs \ {p} : proc[q] # Idle => ~ proc'[q].alone
  BY <1>0, Starts
<1>2. runs' \in 0 .. MaxRuns
  BY <1>0, FilesAssumption DEF Start, FilesOK
<1>3. FilesOK'
  BY <1>0, <1>2 DEF FilesOK
<1>4. QED BY <1>1, <1>3 DEF Begins

LEMMA InputIsBytes ==
  ASSUME FilesOK, Input.is = "binary"
  PROVE  Input.bytes \in Bytes
<1>1. Input \in {NoFile, Cut} \cup Binaries \cup FitManifests
  BY SavedNames DEF FilesOK, Input
<1>2. QED BY <1>1, FileKinds

LEMMA ManifestsAreFit ==
  ASSUME FilesOK, Loadable
  PROVE  file["manifest"] \in FitManifests
<1>1. file["manifest"] \in {NoFile, Cut} \cup Binaries \cup FitManifests
  BY FilesAssumption DEF FilesOK
<1>2. QED BY <1>1, FileKinds DEF Loadable

LEMMA FitFields ==
  ASSUME NEW m \in FitManifests
  PROVE  m.source \in Bytes /\ m.streams \in SUBSET Streams /\ m.fields \in SUBSET Fields /\ FieldsFit(m)
  BY DEF FitManifests, Manifests

(* A manifest that lists no fields fits.                                    *)
LEMMA NewManifests ==
  ASSUME NEW v \in Bytes, NEW S \in SUBSET Streams, NEW F \in SUBSET Fields
  PROVE  LET m == Manifest(v, S, F) IN
         /\ m \in Manifests /\ m.source = v /\ m.streams = S /\ m.fields = F
         /\ (F = {} => m \in FitManifests)
<1> DEFINE m == Manifest(v, S, F)
<1>1. m \in Manifests /\ m.source = v /\ m.streams = S /\ m.fields = F
  BY DEF Manifest, Manifests
<1>2. ASSUME F = {} PROVE FieldsFit(m)
  <2>1. m.fields = {}
    BY <1>1, <1>2
  <2> HIDE DEF m
  <2>2. ASSUME NEW pair \in Overlapping PROVE ~ (pair \subseteq m.fields)
    <3>1. pair # {}
      BY FilesAssumption
    <3>2. QED BY <2>1, <3>1
  <2>3. QED BY <2>2 DEF FieldsFit
<1>3. QED BY <1>1, <1>2 DEF FitManifests

LEMMA ScanStep ==
  ASSUME TypeOK, NEW p \in Procs, Scan(p)
  PROVE  /\ ProcOK' /\ FilesOK'
         /\ \E c \in Saver : Begins(p, c) /\ c.alone = Quiet /\ c.data = Input.bytes
<1>0. ProcOK /\ FilesOK
  BY TypesSplit
<1>1. PICK S \in Filters, out \in ManifestNames \ {"input"} :
        Start(p, [Command("scan", "save", Input.bytes, Manifest(Input.bytes, S, {})) EXCEPT !.target = out])
  BY DEF Scan
<1>2. Input.bytes \in Bytes
  BY <1>0, InputIsBytes DEF Scan
<1>3. Manifest(Input.bytes, S, {}) \in FitManifests
  BY <1>2, NewManifests, CliAssumption
<1>4. PICK c : c = [Command("scan", "save", Input.bytes, Manifest(Input.bytes, S, {})) EXCEPT !.target = out]
  OBVIOUS
<1>5. c \in Saver /\ c.cmd = "scan" /\ c.alone = Quiet /\ c.data = Input.bytes
  BY <1>2, <1>3, <1>4, SaverStarts DEF Saved
<1>6. c \in Running /\ RunsOnWhatItRead(c)
  BY <1>5 DEF Running, RunsOnWhatItRead
<1>7. ProcOK' /\ FilesOK' /\ Begins(p, c)
  BY <1>1, <1>4, <1>6, BeginStep DEF Scan
<1>8. QED BY <1>5, <1>7

(* fields --apply and try save the manifest they loaded, extended.          *)
LEMMA ExtendStep ==
  ASSUME TypeOK, NEW p \in Procs, ApplyFields(p) \/ Try(p)
  PROVE  /\ ProcOK' /\ FilesOK'
         /\ \E c \in Saver : Begins(p, c) /\ c.alone = Quiet /\ c.data = Input.bytes
<1>0. ProcOK /\ FilesOK
  BY TypesSplit
<1>1. PICK cmd \in {"fields", "try"}, S \in SUBSET Streams, F \in SUBSET Fields :
        LET m == [file["manifest"] EXCEPT !.streams = @ \cup S, !.fields = @ \cup F] IN
        /\ FieldsFit(m)
        /\ Start(p, [Command(cmd, "save", Input.bytes, m) EXCEPT !.target = "manifest"])
  <2>1. CASE ApplyFields(p)
    <3>1. PICK F \in SUBSET (Fields \ file["manifest"].fields) :
            LET m == [file["manifest"] EXCEPT !.fields = @ \cup F] IN
            /\ FieldsFit(m)
            /\ Start(p, [Command("fields", "save", Input.bytes, m) EXCEPT !.target = "manifest"])
      BY <2>1 DEF ApplyFields
    <3>2. file["manifest"] \in FitManifests
      BY <1>0, <2>1, ManifestsAreFit DEF ApplyFields
    <3>3. [file["manifest"] EXCEPT !.fields = @ \cup F] =
            [file["manifest"] EXCEPT !.streams = @ \cup {}, !.fields = @ \cup F]
      BY <3>2 DEF FitManifests, Manifests
    <3>4. QED BY <3>1, <3>3
  <2>2. CASE Try(p)
    <3>1. PICK s \in Streams \ file["manifest"].streams, read \in {{}} \cup {{f} : f \in Fields} :
            LET m == [file["manifest"] EXCEPT !.streams = @ \cup {s}, !.fields = @ \cup read] IN
            /\ FieldsFit(m)
            /\ Start(p, [Command("try", "save", Input.bytes, m) EXCEPT !.target = "manifest"])
      BY <2>2 DEF Try
    <3>2. {s} \in SUBSET Streams /\ read \in SUBSET Fields
      OBVIOUS
    <3>3. QED BY <3>1, <3>2
  <2>3. QED BY <2>1, <2>2
<1>2. /\ Input.is = "binary" /\ Loadable /\ UNCHANGED <<file, temp, orphans, shared>>
  BY DEF ApplyFields, Try
<1>3. Input.bytes \in Bytes /\ file["manifest"] \in FitManifests
  BY <1>0, <1>2, InputIsBytes, ManifestsAreFit
<1>4. PICK m : m = [file["manifest"] EXCEPT !.streams = @ \cup S, !.fields = @ \cup F]
  OBVIOUS
<1>5. m \in FitManifests
  <2>1. m \in Manifests
    BY <1>3, <1>4 DEF FitManifests, Manifests
  <2>2. QED BY <1>1, <1>4, <2>1 DEF FitManifests
<1>6. PICK c : c = [Command(cmd, "save", Input.bytes, m) EXCEPT !.target = "manifest"]
  OBVIOUS
<1>7. c \in Saver /\ c.cmd = cmd /\ c.alone = Quiet /\ c.data = Input.bytes
  BY <1>3, <1>5, <1>6, SaverStarts DEF Saved
<1>8. c \in Running /\ RunsOnWhatItRead(c)
  BY <1>7 DEF Running, RunsOnWhatItRead
<1>9. Start(p, c)
  BY <1>1, <1>4, <1>6
<1>10. ProcOK' /\ FilesOK' /\ Begins(p, c)
  BY <1>2, <1>8, <1>9, BeginStep
<1>11. QED BY <1>7, <1>10

LEMMA ExtractStep ==
  ASSUME TypeOK, NEW p \in Procs, Extract(p)
  PROVE  /\ ProcOK' /\ FilesOK'
         /\ \E c \in Extractor : Begins(p, c) /\ c.open = {} /\ c.alone = Quiet /\ c.data = Input.bytes
<1>0. ProcOK /\ FilesOK
  BY TypesSplit
<1>1. PICK m \in (IF Loadable THEN {file["manifest"]} ELSE {})
                   \cup {Manifest(Input.bytes, found, {}) : found \in Filters} :
        Start(p, [Command("extract", "tasks", Input.bytes, m) EXCEPT !.todo = m.streams])
  BY DEF Extract
<1>2. Input.bytes \in Bytes
  BY <1>0, InputIsBytes DEF Extract
<1>3. m \in FitManifests
  BY <1>0, <1>1, <1>2, NewManifests, ManifestsAreFit, CliAssumption
<1>4. PICK c : c = [Command("extract", "tasks", Input.bytes, m) EXCEPT !.todo = m.streams]
  OBVIOUS
<1>5. c \in Extractor /\ c.cmd = "extract" /\ c.open = {} /\ c.alone = Quiet /\ c.data = Input.bytes
  BY <1>2, <1>3, <1>4, ExtractorStarts
<1>6. c \in Running /\ RunsOnWhatItRead(c)
  BY <1>5 DEF Running, RunsOnWhatItRead
<1>7. ProcOK' /\ FilesOK' /\ Begins(p, c)
  BY <1>1, <1>4, <1>6, BeginStep DEF Extract
<1>8. QED BY <1>5, <1>7

(* What load_edits takes for an edit, and what is planned of it.            *)
Planned(m, v) == [s \in Parts |-> IF s \in DOMAIN LoadEdits(m) THEN LoadEdits(m)[s] ELSE v[s]]

LEMMA StreamFileKinds ==
  ASSUME NEW f \in StreamFiles
  PROVE  /\ f.is = "content" => f.data \in Data /\ f = Content(f.data)
         /\ f = Cut \/ f = NoFile \/ f.is = "content"
         /\ Cut.is # "content" /\ NoFile.is # "content"
         /\ \A c : Content(c).is = "content" /\ Content(c).data = c
  BY DEF StreamFiles, Content, Cut, NoFile

LEMMA Plans ==
  ASSUME DirOK, NEW m \in FitManifests, NEW v \in Bytes
  PROVE  /\ Planned(m, v) \in Bytes
         /\ \A s \in Parts :
              IF s \in m.streams /\ dir[s].is = "content"
              THEN \/ Planned(m, v)[s] = dir[s].data
                   \/ (Planned(m, v)[s] = v[s] /\ dir[s] = Content(m.source[s]))
              ELSE Planned(m, v)[s] = v[s] \/ (s \in m.streams /\ dir[s] = Cut)
<1> DEFINE changed == LoadEdits(m)
           plan == Planned(m, v)
<1>1. m.streams \subseteq Streams /\ Streams \subseteq Parts
  BY FitFields DEF Parts
<1>2. DOMAIN changed = {t \in m.streams : dir[t] # NoFile /\ dir[t] # Content(m.source[t])}
  BY DEF LoadEdits
<1>3. \A s \in DOMAIN changed : changed[s] = IF dir[s] = Cut THEN Damage ELSE dir[s].data
  BY DEF LoadEdits
<1>4. \A s \in Streams : dir[s] \in StreamFiles
  BY DEF DirOK
<1>5. \A s \in DOMAIN changed : changed[s] \in Data
  BY <1>1, <1>2, <1>3, <1>4, StreamFileKinds DEF Data
<1>6. \A s \in Parts : v[s] \in Data
  BY DEF Bytes
<1>7. plan = [s \in Parts |-> IF s \in DOMAIN changed THEN changed[s] ELSE v[s]]
  BY DEF Planned
<1> HIDE DEF changed, plan
<1>8. plan \in Bytes
  BY <1>5, <1>6, <1>7 DEF Bytes
<1>9. ASSUME NEW s \in Parts, s \in m.streams, dir[s].is = "content"
      PROVE  plan[s] = dir[s].data \/ (plan[s] = v[s] /\ dir[s] = Content(m.source[s]))
  <2>1. dir[s] # Cut /\ dir[s] # NoFile
    BY <1>1, <1>4, <1>9, StreamFileKinds
  <2>2. CASE dir[s] = Content(m.source[s])
    BY <1>2, <1>7, <2>2
  <2>3. CASE dir[s] # Content(m.source[s])
    BY <1>2, <1>3, <1>7, <1>9, <2>1, <2>3
  <2>4. QED BY <2>2, <2>3
<1>10. ASSUME NEW s \in Parts, ~ (s \in m.streams /\ dir[s].is = "content")
       PROVE  plan[s] = v[s] \/ (s \in m.streams /\ dir[s] = Cut)
  <2>1. CASE s \in DOMAIN changed
    BY <1>1, <1>2, <1>4, <1>10, <2>1, StreamFileKinds
  <2>2. CASE s \notin DOMAIN changed
    BY <1>7, <2>2
  <2>3. QED BY <2>1, <2>2
<1>11. QED BY <1>8, <1>9, <1>10 DEF plan

LEMMA PackStep ==
  ASSUME TypeOK, NEW p \in Procs, Pack(p)
  PROVE  /\ ProcOK' /\ FilesOK' /\ torn' \subseteq Streams
         /\ Input.is = "binary"
         /\ \E c \in Packer : /\ Begins(p, c) /\ c.pc = "create" /\ c.alone = Quiet
                             /\ c.data = Input.bytes /\ c.plan = Planned(c.man, c.data)
                             /\ torn' = torn \cup {s \in c.man.streams : dir[s] = Cut}
<1>0. ProcOK /\ FilesOK /\ DirOK
  BY TypesSplit
<1>1. Input.is = "binary" /\ Loadable /\ UNCHANGED <<file, temp, orphans, shared>>
  BY DEF Pack
<1>2. PICK m, v, f : m = file["manifest"] /\ v = Input.bytes /\ f = Planned(m, v)
  OBVIOUS
<1>3. PICK o \in Outputs \ {"input"}, mout \in ManifestNames \cup {"none"} :
        /\ Start(p, [Command("pack", "create", v, m) EXCEPT !.out = o, !.target = mout, !.plan = f])
        /\ torn' = torn \cup {s \in m.streams : dir[s] = Cut}
  BY <1>2 DEF Pack, Planned
<1>4. m \in FitManifests /\ v \in Bytes /\ f \in Bytes
  BY <1>0, <1>1, <1>2, InputIsBytes, ManifestsAreFit, Plans
<1>5. PICK c : c = [Command("pack", "create", v, m) EXCEPT !.out = o, !.target = mout, !.plan = f]
  OBVIOUS
<1>6. /\ c \in Packer /\ c.cmd = "pack" /\ c.pc = "create" /\ c.alone = Quiet
      /\ c.data = v /\ c.man = m /\ c.plan = f
  <2>1. /\ o \in Outputs \ {"input"} /\ mout \in ManifestNames \cup {"none"}
        /\ m \in FitManifests /\ v \in Bytes /\ f \in Bytes
    BY <1>4
  <2>2. QED BY <1>5, <2>1, QuietIsBoolean DEF Command, Packer
<1>7. c \in Running /\ RunsOnWhatItRead(c)
  BY <1>6 DEF Running, RunsOnWhatItRead
<1>8. ProcOK' /\ FilesOK' /\ Begins(p, c)
  BY <1>1, <1>3, <1>5, <1>7, BeginStep
<1>9. torn' \subseteq Streams
  BY <1>0, <1>3, <1>4, FitFields DEF DirOK
<1>10. QED BY <1>1, <1>2, <1>3, <1>6, <1>8, <1>9

(* An extract after one of its tasks.                                       *)
Extracts(p, T) ==
  LET r == proc[p]  t == proc'[p] IN
  /\ r \in Extractor /\ t \in Extractor /\ t.open = T
  /\ t.data = r.data /\ t.man = r.man /\ t.alone = r.alone

LEMMA ExtractGoesOn ==
  ASSUME ProcOK, NEW p \in Procs, proc[p] \in Extractor, NEW r \in Extractor,
         r.data = proc[p].data /\ r.man = proc[p].man /\ r.alone = proc[p].alone,
         \A s \in r.open : s \in proc[p].open \/ proc[p].man.source[s] = proc[p].data[s],
         proc' = [proc EXCEPT ![p] = r]
  PROVE  ProcOK' /\ OthersStay(p) /\ Extracts(p, r.open)
<1>1. RunsOnWhatItRead(proc[p]) /\ r.cmd = "extract" /\ proc[p].cmd = "extract"
  BY Kinds DEF ProcOK, Running, Extractor, Idle
<1>2. RunsOnWhatItRead(r)
  BY <1>1 DEF RunsOnWhatItRead
<1>3. ProcOK' /\ OthersStay(p) /\ proc'[p] = r
  BY <1>2, GoesOn DEF Running
<1>4. QED BY <1>3 DEF Extracts

LEMMA ExtractorSets ==
  ASSUME ProcOK, NEW p \in Procs, proc[p].cmd = "extract"
  PROVE  /\ proc[p] \in Extractor /\ proc[p].todo \in SUBSET Streams /\ proc[p].open \in SUBSET Streams
         /\ proc[p].data \in Bytes
         /\ \A s \in proc[p].open : proc[p].man.source[s] = proc[p].data[s] /\ proc[p].data[s] \in Data
<1>1. proc[p] \in Extractor /\ RunsOnWhatItRead(proc[p])
  BY Kinds DEF ProcOK, Idle
<1>2. proc[p].todo \in SUBSET Streams /\ proc[p].open \in SUBSET Streams /\ proc[p].data \in Bytes
  BY <1>1 DEF Extractor
<1>3. \A s \in proc[p].open : proc[p].man.source[s] = proc[p].data[s]
  BY <1>1 DEF RunsOnWhatItRead
<1>4. \A s \in Streams : proc[p].data[s] \in Data
  BY <1>2 DEF Bytes, Parts
<1>5. QED BY <1>1, <1>2, <1>3, <1>4

LEMMA ContentFits ==
  ASSUME NEW c \in Data
  PROVE  Content(c) \in StreamFiles /\ Cut \in StreamFiles /\ Content(c) # Cut
<1>1. Content(c).is = "content"
  BY DEF Content
<1>2. QED BY <1>1, FileKinds DEF StreamFiles

LEMMA ExtractOpenStep ==
  ASSUME TypeOK, NEW p \in Procs, NEW s \in Streams, ExtractOpen(p, s)
  PROVE  ProcOK' /\ DirOK' /\ OthersStay(p) /\ Extracts(p, proc[p].open \cup {s})
<1>0. ProcOK /\ DirOK
  BY TypesSplit
<1>1. /\ At(p, "tasks") /\ proc[p].cmd = "extract" /\ s \in proc[p].todo
      /\ Decodes(proc[p].man, proc[p].data, s) /\ dir' = [dir EXCEPT ![s] = Cut] /\ edits' = edits
  BY DEF ExtractOpen
<1>2. PICK S, T : S = proc[p].todo \ {s} /\ T = proc[p].open \cup {s}
  OBVIOUS
<1>3. S \in SUBSET Streams /\ T \in SUBSET Streams
  BY <1>0, <1>1, <1>2, ExtractorSets
<1>4. PICK r : r = [proc[p] EXCEPT !.todo = S, !.open = T]
  OBVIOUS
<1>5. proc' = [proc EXCEPT ![p] = r]
  BY <1>0, <1>2, <1>4 DEF ExtractOpen, ProcOK
<1>6. proc[p] \in Extractor /\ r \in Extractor /\ r.open = T /\ r.data = proc[p].data
      /\ r.man = proc[p].man /\ r.alone = proc[p].alone
  <2>1. proc[p] \in Extractor
    BY <1>0, <1>1, ExtractorSets
  <2>2. QED BY <1>3, <1>4, <2>1 DEF Extractor
<1>7. \A t \in r.open : t \in proc[p].open \/ proc[p].man.source[t] = proc[p].data[t]
  BY <1>1, <1>2, <1>6 DEF Decodes
<1>8. ProcOK' /\ OthersStay(p) /\ Extracts(p, T)
  BY <1>0, <1>5, <1>6, <1>7, ExtractGoesOn
<1>9. DirOK'
  BY <1>0, <1>1 DEF DirOK, StreamFiles, ExtractOpen
<1>10. QED BY <1>2, <1>8, <1>9

LEMMA ExtractWriteStep ==
  ASSUME TypeOK, NEW p \in Procs, NEW s \in Streams, ExtractWrite(p, s)
  PROVE  ProcOK' /\ DirOK' /\ OthersStay(p) /\ Extracts(p, proc[p].open \ {s})
<1>0. ProcOK /\ DirOK
  BY TypesSplit
<1>1. At(p, "tasks") /\ proc[p].cmd = "extract" /\ s \in proc[p].open /\ edits' = edits
  BY DEF ExtractWrite
<1>2. PICK T : T = proc[p].open \ {s}
  OBVIOUS
<1>3. T \in SUBSET Streams /\ proc[p].man.source[s] \in Data
  BY <1>0, <1>1, <1>2, ExtractorSets
<1>4. PICK r : r = [proc[p] EXCEPT !.open = T]
  OBVIOUS
<1>5. proc' = [proc EXCEPT ![p] = r]
  BY <1>0, <1>2, <1>4 DEF ExtractWrite, ProcOK
<1>6. ProcOK' /\ OthersStay(p) /\ Extracts(p, T)
  <2>1. proc[p] \in Extractor
    BY <1>0, <1>1, ExtractorSets
  <2>2. /\ r \in Extractor /\ r.open = T /\ r.data = proc[p].data
        /\ r.man = proc[p].man /\ r.alone = proc[p].alone
    BY <1>3, <1>4, <2>1 DEF Extractor
  <2>3. QED BY <1>0, <1>2, <1>5, <2>1, <2>2, ExtractGoesOn
<1>7. PICK c \in AfterWrite(dir[s], Content(proc[p].man.source[s])) : dir' = [dir EXCEPT ![s] = c]
  BY DEF ExtractWrite
<1>8. c \in StreamFiles
  BY <1>3, <1>7, WriteLeaves, ContentFits
<1>9. DirOK'
  BY <1>0, <1>1, <1>7, <1>8 DEF DirOK, ExtractWrite
<1>10. QED BY <1>2, <1>6, <1>9

LEMMA ExtractFailsStep ==
  ASSUME TypeOK, NEW p \in Procs, NEW s \in Streams, ExtractFails(p, s)
  PROVE  ProcOK' /\ OthersStay(p) /\ Extracts(p, proc[p].open \ {s})
<1>0. ProcOK
  BY TypesSplit
<1>1. At(p, "tasks") /\ proc[p].cmd = "extract"
  BY DEF ExtractFails
<1>2. PICK S, T : S = proc[p].todo \ {s} /\ T = proc[p].open \ {s}
  OBVIOUS
<1>3. S \in SUBSET Streams /\ T \in SUBSET Streams
  BY <1>0, <1>1, <1>2, ExtractorSets
<1>4. PICK r : r = [proc[p] EXCEPT !.todo = S, !.open = T, !.failed = TRUE]
  OBVIOUS
<1>5. proc' = [proc EXCEPT ![p] = r]
  BY <1>0, <1>2, <1>4 DEF ExtractFails, ProcOK
<1>6. ProcOK' /\ OthersStay(p) /\ Extracts(p, T)
  <2>1. proc[p] \in Extractor
    BY <1>0, <1>1, ExtractorSets
  <2>2. /\ r \in Extractor /\ r.open = T /\ r.data = proc[p].data
        /\ r.man = proc[p].man /\ r.alone = proc[p].alone
    BY <1>3, <1>4, <2>1 DEF Extractor
  <2>3. QED BY <1>0, <1>2, <1>5, <2>1, <2>2, ExtractGoesOn
<1>7. QED BY <1>2, <1>6

(* A pack that has checked what it wrote: the manifest it will save is that *)
(* of the written file, with the same streams.                              *)
Checked(p, b) ==
  LET r == proc[p]  t == proc'[p] IN
  /\ temp[r.out] = Binary(b) /\ Verified(p, b)
  /\ t # Idle /\ t.cmd = r.cmd /\ t.pc = "rename" /\ t.handle = r.handle /\ t.out = r.out
  /\ t.data = r.data /\ t.plan = r.plan /\ t.alone = r.alone
  /\ t.man.streams = r.man.streams

LEMMA PackVerifyStep ==
  ASSUME TypeOK, NEW p \in Procs, PackVerify(p)
  PROVE  /\ ProcOK' /\ OthersStay(p)
         /\ proc[p].out \in Outputs /\ proc[p].cmd = "pack" /\ proc[p].pc = "written"
         /\ Moved(p, "remove", proc[p].handle) \/ \E b \in Bytes : Checked(p, b)
<1>0. ProcOK /\ FilesOK
  BY TypesSplit
<1>1. proc[p].cmd = "pack" /\ At(p, "written")
  BY DEF PackVerify
<1>2. proc[p] \in Packer /\ proc[p] # Idle /\ RunsOnWhatItRead(proc[p]) /\ proc[p].pc = "written"
  BY <1>0, <1>1, Kinds DEF ProcOK, Idle, At
<1>3. proc[p].out \in Outputs
  BY <1>2 DEF Packer
<1> DEFINE written == temp[proc[p].out]
<1>4. CASE written.is = "binary" /\ Verified(p, written.bytes)
  <2>1. PICK b : b = written.bytes
    OBVIOUS
  <2>2. written \in {NoFile, Cut} \cup Binaries
    BY <1>0, <1>3 DEF FilesOK
  <2>3. b \in Bytes /\ written = Binary(b)
    BY <1>4, <2>1, <2>2, FileKinds
  <2>4. PICK m : m = Manifest(b, proc[p].man.streams, proc[p].man.fields)
    OBVIOUS
  <2>5. proc[p].man \in FitManifests
    BY <1>2 DEF Packer
  <2>6. m \in FitManifests /\ m.streams = proc[p].man.streams
    <3>1. m \in Manifests /\ m.streams = proc[p].man.streams /\ m.fields = proc[p].man.fields
      BY <2>3, <2>4, <2>5, FitFields, NewManifests
    <3>2. FieldsFit(m)
      BY <2>5, <3>1, FitFields DEF FieldsFit
    <3>3. QED BY <3>1, <3>2 DEF FitManifests
  <2>7. PICK r : r = [proc[p] EXCEPT !.pc = "rename", !.man = m]
    OBVIOUS
  <2>8. proc' = [proc EXCEPT ![p] = r]
    BY <1>0, <1>4, <2>1, <2>4, <2>7 DEF PackVerify, ProcOK
  <2>9. r \in Packer /\ r.pc = "rename" /\ r.man = m /\ r.cmd = "pack" /\ r.handle = proc[p].handle
    BY <1>2, <2>6, <2>7 DEF Packer
  <2>10. /\ r.out = proc[p].out /\ r.data = proc[p].data /\ r.plan = proc[p].plan
         /\ r.alone = proc[p].alone
    BY <1>2, <2>7 DEF Packer
  <2>11. r \in Running /\ r # Idle /\ RunsOnWhatItRead(r)
    BY <2>9, RunningIsNotIdle DEF Running, RunsOnWhatItRead
  <2>12. ProcOK' /\ OthersStay(p) /\ proc'[p] = r
    BY <1>0, <2>8, <2>11, GoesOn
  <2>13. Checked(p, b)
    BY <1>1, <1>4, <2>1, <2>3, <2>6, <2>9, <2>10, <2>11, <2>12 DEF Checked
  <2>14. QED BY <1>1, <1>2, <1>3, <2>3, <2>12, <2>13
<1>5. CASE ~ (written.is = "binary" /\ Verified(p, written.bytes))
  <2>1. Goto(p, "remove")
    BY <1>5 DEF PackVerify
  <2>2. [proc[p] EXCEPT !.pc = "remove"] \in Running
    BY <1>2, PackerGoes DEF Running
  <2>3. ProcOK' /\ OthersStay(p) /\ Moved(p, "remove", proc[p].handle)
    BY <1>0, <1>1, <1>2, <2>1, <2>2, Moves
  <2>4. QED BY <1>1, <1>2, <1>3, <2>3
<1>6. QED BY <1>4, <1>5

LEMMA PackEndStep ==
  ASSUME TypeOK, NEW p \in Procs, PackEnd(p)
  PROVE  /\ ProcOK' /\ OthersStay(p) /\ proc[p].pc = "renamed" /\ proc[p].cmd = "pack"
         /\ proc'[p] = Idle \/ Moved(p, "save", proc[p].handle)
<1>0. ProcOK
  BY TypesSplit
<1>1. proc[p].cmd = "pack" /\ At(p, "renamed")
  BY DEF PackEnd
<1>2. proc[p] \in Packer /\ proc[p] # Idle /\ proc[p].pc = "renamed"
  BY <1>0, <1>1, Kinds DEF ProcOK, Idle, At
<1>3. CASE proc[p].target = "none"
  <2>1. End(p)
    BY <1>3 DEF PackEnd
  <2>2. QED BY <1>0, <1>1, <1>2, <2>1, Ends
<1>4. CASE proc[p].target # "none"
  <2>1. Goto(p, "save")
    BY <1>4 DEF PackEnd
  <2>2. [proc[p] EXCEPT !.pc = "save"] \in Running
    BY <1>2, PackerGoes DEF Running
  <2>3. ProcOK' /\ OthersStay(p) /\ Moved(p, "save", proc[p].handle)
    BY <1>0, <1>1, <1>2, <1>4, <2>1, <2>2, Moves
  <2>4. QED BY <1>1, <1>2, <2>3
<1>5. QED BY <1>3, <1>4

-----------------------------------------------------------------------------
(* Types: unpack and rebuild.                                               *)

LEMMA UnpackStartStep ==
  ASSUME TypeOK, NEW p \in Procs, UnpackStart(p)
  PROVE  /\ ProcOK' /\ FilesOK'
         /\ \E c \in Unpacker :
              /\ Begins(p, c) /\ c.alone = Quiet /\ c.pc = "mkdir" /\ c.data = Input.bytes
              /\ c.todo = c.man.streams /\ c.open = {} /\ c.plan = NoData
<1>0. ProcOK /\ FilesOK
  BY TypesSplit
<1>1. PICK m \in (IF Loadable THEN {file["manifest"]} ELSE {})
                   \cup {Manifest(Input.bytes, found, {}) : found \in Filters} :
        /\ Matches(m.source, Input.bytes)
        /\ Start(p, [Command("unpack", "mkdir", Input.bytes, m) EXCEPT !.todo = m.streams])
  BY DEF UnpackStart
<1>2. Input.bytes \in Bytes
  BY <1>0, InputIsBytes DEF UnpackStart
<1>3. m \in FitManifests
  BY <1>0, <1>1, <1>2, NewManifests, ManifestsAreFit, CliAssumption
<1>4. PICK c : c = [Command("unpack", "mkdir", Input.bytes, m) EXCEPT !.todo = m.streams]
  OBVIOUS
<1>5. /\ c \in Unpacker /\ c.cmd = "unpack" /\ c.alone = Quiet
      /\ c.data = Input.bytes /\ c.man = m /\ c.pc = "mkdir"
      /\ c.todo = m.streams /\ c.open = {} /\ c.plan = NoData
  BY <1>2, <1>3, <1>4, UnpackerStarts
<1>6. c \in Running /\ RunsOnWhatItRead(c)
  BY <1>1, <1>5 DEF Running, RunsOnWhatItRead, Matches
<1>7. ProcOK' /\ FilesOK' /\ Begins(p, c)
  BY <1>1, <1>4, <1>6, BeginStep DEF UnpackStart
<1>8. QED BY <1>5, <1>7

LEMMA RebuildStartStep ==
  ASSUME TypeOK, NEW p \in Procs, RebuildStart(p)
  PROVE  /\ ProcOK' /\ FilesOK'
         /\ \E c \in Rebuilder : Begins(p, c) /\ c.pc = "create" /\ c.alone = Quiet
<1>1. PICK o \in Outputs : Start(p, [Command("rebuild", "create", NoData, NoFile) EXCEPT !.out = o])
  BY DEF RebuildStart
<1>2. PICK c : c = [Command("rebuild", "create", NoData, NoFile) EXCEPT !.out = o]
  OBVIOUS
<1>3. c \in Rebuilder /\ c.cmd = "rebuild" /\ c.pc = "create" /\ c.alone = Quiet
  BY <1>2, RebuilderStarts
<1>4. c \in Running /\ RunsOnWhatItRead(c)
  BY <1>3 DEF Running, RunsOnWhatItRead
<1>5. ProcOK' /\ FilesOK' /\ Begins(p, c)
  BY <1>1, <1>2, <1>4, BeginStep DEF RebuildStart
<1>6. QED BY <1>3, <1>5

(* What unpack knows.                                                       *)
LEMMA Unpackers ==
  ASSUME ProcOK, NEW p \in Procs, proc[p].cmd = "unpack"
  PROVE  /\ proc[p] \in Unpacker /\ proc[p] # Idle
         /\ proc[p].data \in Bytes /\ proc[p].man.source = proc[p].data
         /\ proc[p].man.streams \in SUBSET Streams
         /\ proc[p].todo \in SUBSET Streams /\ proc[p].open \in SUBSET Streams
         /\ proc[p].plan \in Unfinished
<1>1. proc[p] \in Unpacker /\ proc[p] # Idle /\ RunsOnWhatItRead(proc[p])
  BY Kinds DEF ProcOK, Idle
<1>2. proc[p].man.source = proc[p].data
  BY <1>1 DEF RunsOnWhatItRead
<1>3. QED BY <1>1, <1>2, FitFields DEF Unpacker

LEMMA UnpackMoves ==
  ASSUME ProcOK, NEW p \in Procs, proc[p].cmd = "unpack",
         NEW pc \in {"gaps", "gaps opened", "tasks", "index opened"}, Goto(p, pc)
  PROVE  ProcOK' /\ OthersStay(p) /\ Moved(p, pc, proc[p].handle)
<1>1. proc[p] \in Unpacker /\ proc[p] # Idle
  BY Unpackers
<1>2. [proc[p] EXCEPT !.pc = pc] \in Running
  BY <1>1, UnpackerGoes DEF Running
<1>3. QED BY <1>1, <1>2, Moves

LEMMA UnpackMkdirStep ==
  ASSUME TypeOK, NEW p \in Procs, UnpackMkdir(p)
  PROVE  ProcOK' /\ OthersStay(p) /\ Moved(p, "gaps", proc[p].handle) /\ {made, meddled}' \subseteq BOOLEAN
<1>1. proc[p].cmd = "unpack" /\ Goto(p, "gaps") /\ made' = TRUE /\ ProcOK /\ meddled \in BOOLEAN
  BY TypesSplit DEF UnpackMkdir, Unpacking, FlagsOK
<1>2. meddled' \in BOOLEAN
  BY <1>1 DEF UnpackMkdir
<1>3. QED BY <1>1, <1>2, UnpackMoves

LEMMA UnpackGapsOpenStep ==
  ASSUME TypeOK, NEW p \in Procs, UnpackGapsOpen(p)
  PROVE  ProcOK' /\ UnpackOK' /\ OthersStay(p) /\ Moved(p, "gaps opened", proc[p].handle)
<1>1. proc[p].cmd = "unpack" /\ Goto(p, "gaps opened") /\ ProcOK /\ UnpackOK
  BY TypesSplit DEF UnpackGapsOpen, Unpacking
<1>2. UnpackOK'
  BY <1>1 DEF UnpackGapsOpen, UnpackOK
<1>3. QED BY <1>1, <1>2, UnpackMoves

LEMMA GapsFit ==
  ASSUME NEW v \in Bytes, NEW S \in SUBSET Streams
  PROVE  /\ Gaps(v, S) \in GapFiles /\ Gaps(v, S).is = "gaps"
         /\ Gaps(v, S).bytes = [s \in Parts \ S |-> v[s]]
<1>1. Gaps(v, S) \in [is : {"gaps"}, bytes : [Parts \ S -> Data]]
  BY DEF Gaps, Bytes
<1>2. Gaps(v, S).is = "gaps" /\ Gaps(v, S).bytes = [s \in Parts \ S |-> v[s]]
  BY DEF Gaps
<1>3. QED BY <1>1, <1>2 DEF GapFiles

LEMMA UnpackGapsWriteStep ==
  ASSUME TypeOK, NEW p \in Procs, UnpackGapsWrite(p)
  PROVE  ProcOK' /\ UnpackOK' /\ OthersStay(p) /\ Moved(p, "tasks", proc[p].handle)
<1>1. proc[p].cmd = "unpack" /\ Goto(p, "tasks") /\ ProcOK /\ UnpackOK
  BY TypesSplit DEF UnpackGapsWrite, Unpacking
<1>2. gaps' \in {Gaps(proc[p].data, proc[p].man.streams), Cut}
  BY WriteLeaves, ZenonT(40) DEF UnpackGapsWrite
<1>3. gaps' \in {NoFile, Cut} \cup GapFiles
  <2>1. proc[p].data \in Bytes /\ proc[p].man.streams \in SUBSET Streams
    BY <1>1, Unpackers
  <2>2. Gaps(proc[p].data, proc[p].man.streams) \in GapFiles
    BY <2>1, GapsFit
  <2>3. QED BY <1>2, <2>2
<1>4. UnpackOK'
  BY <1>1, <1>3 DEF UnpackGapsWrite, UnpackOK
<1>5. QED BY <1>1, <1>4, UnpackMoves

(* An unpack after one of its tasks, the stream s now at the given stage.   *)
Unpacks(p, s, stage) ==
  LET r == proc[p]  t == proc'[p] IN
  /\ t \in Unpacker /\ t.pc = r.pc /\ t.data = r.data /\ t.man = r.man /\ t.alone = r.alone
  /\ t.todo = r.todo \ {s}
  /\ t.open = IF stage = "contents opened" THEN r.open \cup {s} ELSE r.open \ {s}
  /\ DOMAIN t.plan = IF stage \in {"recon", "recon opened"} THEN DOMAIN r.plan \cup {s} ELSE DOMAIN r.plan \ {s}
  /\ \A u \in DOMAIN t.plan : t.plan[u] = IF u = s THEN stage ELSE r.plan[u]

LEMMA Plannings ==
  ASSUME NEW f \in Unfinished, NEW s \in Streams, NEW stage,
         stage \in {"recon", "recon opened"} => s \in Corrected
  PROVE  LET others == [t \in DOMAIN f \ {s} |-> f[t]]
             g == IF stage \in {"recon", "recon opened"}
                  THEN [t \in DOMAIN others \cup {s} |-> IF t = s THEN stage ELSE others[t]]
                  ELSE others
         IN  /\ g \in Unfinished
             /\ DOMAIN g = IF stage \in {"recon", "recon opened"} THEN DOMAIN f \cup {s} ELSE DOMAIN f \ {s}
             /\ \A u \in DOMAIN g : g[u] = IF u = s THEN stage ELSE f[u]
<1>1. PICK S \in SUBSET Corrected : f \in [S -> {"recon", "recon opened"}]
  BY DEF Unfinished
<1> DEFINE others == [t \in S \ {s} |-> f[t]]
           later == [t \in (S \ {s}) \cup {s} |-> IF t = s THEN stage ELSE others[t]]
<1>2. DOMAIN f = S /\ DOMAIN others = S \ {s}
  BY <1>1
<1>3. others \in Unfinished /\ \A u \in DOMAIN others : u # s /\ others[u] = f[u]
  <2>1. others \in [S \ {s} -> {"recon", "recon opened"}] /\ S \ {s} \in SUBSET Corrected
    BY <1>1
  <2>2. QED BY <2>1 DEF Unfinished
<1>4. CASE stage \in {"recon", "recon opened"}
  <2>1. later \in [S \cup {s} -> {"recon", "recon opened"}] /\ S \cup {s} \in SUBSET Corrected
    BY <1>1, <1>4
  <2>2. later \in Unfinished /\ DOMAIN later = S \cup {s}
    BY <2>1 DEF Unfinished
  <2>3. \A u \in DOMAIN later : later[u] = IF u = s THEN stage ELSE f[u]
    BY <2>2
  <2>4. QED BY <1>2, <1>4, <2>2, <2>3
<1>5. CASE stage \notin {"recon", "recon opened"}
  BY <1>2, <1>3, <1>5
<1>6. QED BY <1>4, <1>5

LEMMA UnpackGoesOn ==
  ASSUME ProcOK, NEW p \in Procs, proc[p].cmd = "unpack", NEW s \in Streams, NEW stage,
         stage \in {"recon", "recon opened"} => s \in Corrected, SetStage(p, s, stage)
  PROVE  ProcOK' /\ OthersStay(p) /\ Unpacks(p, s, stage)
<1>1. /\ proc[p] \in Unpacker /\ proc[p] # Idle /\ proc[p].plan \in Unfinished
      /\ proc[p].todo \in SUBSET Streams /\ proc[p].open \in SUBSET Streams
      /\ proc[p].man.source = proc[p].data
  BY Unpackers
<1> DEFINE others == [t \in DOMAIN proc[p].plan \ {s} |-> proc[p].plan[t]]
<1>2. PICK S, T, g :
        /\ S = proc[p].todo \ {s}
        /\ T = IF stage = "contents opened" THEN proc[p].open \cup {s} ELSE proc[p].open \ {s}
        /\ g = IF stage \in {"recon", "recon opened"}
               THEN [t \in DOMAIN others \cup {s} |-> IF t = s THEN stage ELSE others[t]]
               ELSE others
  OBVIOUS
<1>3. /\ g \in Unfinished
      /\ DOMAIN g = IF stage \in {"recon", "recon opened"} THEN DOMAIN proc[p].plan \cup {s} ELSE DOMAIN proc[p].plan \ {s}
      /\ \A u \in DOMAIN g : g[u] = IF u = s THEN stage ELSE proc[p].plan[u]
  BY <1>1, <1>2, Plannings
<1>4. S \in SUBSET Streams /\ T \in SUBSET Streams
  BY <1>1, <1>2
<1>5. PICK r : r = [proc[p] EXCEPT !.todo = S, !.open = T, !.plan = g]
  OBVIOUS
<1>6. proc' = [proc EXCEPT ![p] = r]
  BY <1>2, <1>5 DEF SetStage, ProcOK
<1> HIDE DEF others
<1>7. r \in Unpacker /\ r.todo = S /\ r.open = T /\ r.plan = g
  BY <1>1, <1>3, <1>4, <1>5 DEF Unpacker
<1>8. r.pc = proc[p].pc /\ r.data = proc[p].data /\ r.man = proc[p].man /\ r.alone = proc[p].alone
  BY <1>1, <1>5 DEF Unpacker
<1>9. r \in Running /\ RunsOnWhatItRead(r)
  <2>1. r.cmd = "unpack"
    BY <1>7 DEF Unpacker
  <2>2. QED BY <1>1, <1>7, <1>8, <2>1 DEF Running, RunsOnWhatItRead
<1>10. ProcOK' /\ OthersStay(p) /\ proc'[p] = r
  BY <1>6, <1>9, GoesOn
<1>11. QED BY <1>2, <1>3, <1>7, <1>8, <1>10 DEF Unpacks

LEMMA ContentsOpenStep ==
  ASSUME TypeOK, NEW p \in Procs, NEW s \in Streams, ContentsOpen(p, s)
  PROVE  ProcOK' /\ UnpackOK' /\ OthersStay(p) /\ Unpacks(p, s, "contents opened")
<1>1. /\ proc[p].cmd = "unpack" /\ SetStage(p, s, "contents opened") /\ ProcOK /\ UnpackOK
      /\ contents' = [contents EXCEPT ![s] = Cut] /\ UNCHANGED <<index, gaps, recon>>
  BY TypesSplit DEF ContentsOpen, Unpacking
<1>2. UnpackOK'
  BY <1>1 DEF UnpackOK, StreamFiles
<1>3. QED BY <1>1, <1>2, UnpackGoesOn

LEMMA UnpackedContents ==
  ASSUME ProcOK, NEW p \in Procs, proc[p].cmd = "unpack", NEW s \in Streams
  PROVE  proc[p].data[s] \in Data
<1>1. proc[p].data \in Bytes
  BY Unpackers
<1>2. QED BY <1>1 DEF Bytes, Parts

LEMMA ContentsWriteStep ==
  ASSUME TypeOK, NEW p \in Procs, NEW s \in Streams, ContentsWrite(p, s)
  PROVE  /\ ProcOK' /\ UnpackOK' /\ OthersStay(p)
         /\ Unpacks(p, s, IF s \in Corrected THEN "recon" ELSE "done")
<1>1. /\ proc[p].cmd = "unpack" /\ ProcOK /\ UnpackOK
      /\ SetStage(p, s, IF s \in Corrected THEN "recon" ELSE "done")
      /\ UNCHANGED <<index, gaps, recon>>
  BY TypesSplit DEF ContentsWrite, Unpacking
<1>2. PICK c \in AfterWrite(contents[s], Content(proc[p].data[s])) : contents' = [contents EXCEPT ![s] = c]
  BY DEF ContentsWrite
<1>3. c \in StreamFiles
  BY <1>1, <1>2, WriteLeaves, UnpackedContents, ContentFits
<1>4. UnpackOK'
  BY <1>1, <1>2, <1>3 DEF UnpackOK
<1>5. PICK stage : stage = IF s \in Corrected THEN "recon" ELSE "done"
  OBVIOUS
<1>6. ProcOK' /\ OthersStay(p) /\ Unpacks(p, s, stage)
  BY <1>1, <1>5, UnpackGoesOn
<1>7. QED BY <1>4, <1>5, <1>6

LEMMA ReconOpenStep ==
  ASSUME TypeOK, NEW p \in Procs, NEW s \in Corrected, ReconOpen(p, s)
  PROVE  ProcOK' /\ UnpackOK' /\ OthersStay(p) /\ Unpacks(p, s, "recon opened")
<1>1. /\ proc[p].cmd = "unpack" /\ SetStage(p, s, "recon opened") /\ ProcOK /\ UnpackOK
      /\ recon' = [recon EXCEPT ![s] = Cut] /\ UNCHANGED <<index, gaps, contents>> /\ s \in Streams
  BY TypesSplit, UnpackAssumption DEF ReconOpen, Unpacking
<1>2. UnpackOK'
  BY <1>1 DEF UnpackOK, StreamFiles
<1>3. QED BY <1>1, <1>2, UnpackGoesOn

LEMMA ReconWriteStep ==
  ASSUME TypeOK, NEW p \in Procs, NEW s \in Corrected, ReconWrite(p, s)
  PROVE  ProcOK' /\ UnpackOK' /\ OthersStay(p) /\ Unpacks(p, s, "done")
<1>1. /\ proc[p].cmd = "unpack" /\ SetStage(p, s, "done") /\ ProcOK /\ UnpackOK
      /\ UNCHANGED <<index, gaps, contents>> /\ s \in Streams
  BY TypesSplit, UnpackAssumption DEF ReconWrite, Unpacking
<1>2. PICK c \in AfterWrite(recon[s], Content(proc[p].data[s])) : recon' = [recon EXCEPT ![s] = c]
  BY DEF ReconWrite
<1>3. c \in StreamFiles
  BY <1>1, <1>2, WriteLeaves, UnpackedContents, ContentFits
<1>4. UnpackOK'
  BY <1>1, <1>2, <1>3 DEF UnpackOK
<1>5. QED BY <1>1, <1>4, UnpackGoesOn

LEMMA IndexOpenStep ==
  ASSUME TypeOK, NEW p \in Procs, IndexOpen(p)
  PROVE  ProcOK' /\ UnpackOK' /\ OthersStay(p) /\ Moved(p, "index opened", proc[p].handle)
<1>1. proc[p].cmd = "unpack" /\ Goto(p, "index opened") /\ ProcOK /\ UnpackOK
  BY TypesSplit DEF IndexOpen, Unpacking
<1>2. UnpackOK'
  BY <1>1 DEF IndexOpen, UnpackOK
<1>3. QED BY <1>1, <1>2, UnpackMoves

LEMMA IndexesFit ==
  ASSUME NEW v \in Bytes, NEW S \in SUBSET Streams
  PROVE  /\ Index(v, S) \in Indexes /\ Index(v, S).is = "index"
         /\ Index(v, S).source = v /\ Index(v, S).streams = S
  BY DEF Index, Indexes, Bytes

LEMMA IndexWriteStep ==
  ASSUME TypeOK, NEW p \in Procs, IndexWrite(p)
  PROVE  ProcOK' /\ UnpackOK' /\ OthersStay(p) /\ proc'[p] = Idle
<1>1. /\ proc[p].cmd = "unpack" /\ End(p) /\ ProcOK /\ UnpackOK
      /\ index' \in {Index(proc[p].man.source, proc[p].man.streams), Cut}
      /\ UNCHANGED <<gaps, contents, recon>>
  BY TypesSplit, WriteLeaves, ZenonT(40) DEF IndexWrite, Unpacking
<1>2. proc[p].man.source \in Bytes /\ proc[p].man.streams \in SUBSET Streams
  BY <1>1, Unpackers
<1>3. index' \in {NoFile, Cut} \cup Indexes
  BY <1>1, <1>2, IndexesFit
<1>4. UnpackOK'
  BY <1>1, <1>3 DEF UnpackOK
<1>5. QED BY <1>1, <1>4, Ends

(* What rebuild makes of a directory that is complete.                      *)
LEMMA BuiltFits ==
  ASSUME UnpackOK, Complete
  PROVE  Built \in Bytes
<1>1. index \in Indexes /\ gaps \in GapFiles
  BY FileKinds DEF UnpackOK, Complete
<1>2. PICK S \in SUBSET Streams : gaps \in [is : {"gaps"}, bytes : [Parts \ S -> Data]]
  BY <1>1 DEF GapFiles
<1>3. gaps.bytes \in [Parts \ S -> Data] /\ DOMAIN gaps.bytes = Parts \ S /\ DOMAIN gaps.bytes = Parts \ index.streams
  BY <1>2 DEF Complete
<1>4. ASSUME NEW s \in index.streams PROVE Recreated(s) \in Data
  <2>1. s \in Streams /\ contents[s] = Content(index.source[s])
    BY <1>1, <1>4 DEF Complete, StreamFits, Indexes
  <2>2. contents[s].data \in Data
    BY <2>1, StreamFileKinds DEF UnpackOK
  <2>3. QED BY <2>2 DEF Recreated, Data
<1>5. ASSUME NEW s \in Parts PROVE Built[s] \in Data
  BY <1>3, <1>4, <1>5 DEF Built
<1>6. Built = [s \in Parts |-> Built[s]]
  BY DEF Built
<1>7. QED BY <1>5, <1>6 DEF Bytes

(* A rebuild that has read its directory.                                   *)
Filled(p) ==
  LET r == proc[p]  t == proc'[p] IN
  /\ Complete /\ index \in Indexes
  /\ t # Idle /\ t.cmd = r.cmd /\ t.pc = "write" /\ t.handle = r.handle /\ t.out = r.out
  /\ t.alone = r.alone /\ t.man = index /\ t.plan = Built

LEMMA RebuildFillStep ==
  ASSUME TypeOK, NEW p \in Procs, RebuildFill(p)
  PROVE  /\ ProcOK' /\ OthersStay(p) /\ proc[p].cmd = "rebuild" /\ proc[p].pc = "fill"
         /\ Moved(p, "remove", proc[p].handle) \/ Filled(p)
<1>0. ProcOK /\ UnpackOK
  BY TypesSplit
<1>1. proc[p].cmd = "rebuild" /\ At(p, "fill")
  BY DEF RebuildFill
<1>2. proc[p] \in Rebuilder /\ proc[p] # Idle /\ proc[p].pc = "fill"
  BY <1>0, <1>1, Kinds DEF ProcOK, Idle, At
<1>3. CASE Complete
  <2>1. index \in Indexes
    BY <1>0, <1>3, FileKinds DEF UnpackOK, Complete
  <2>2. PICK b : b = Built
    OBVIOUS
  <2>3. b \in Bytes
    BY <1>0, <1>3, <2>1, <2>2, BuiltFits
  <2>4. PICK r : r = [proc[p] EXCEPT !.pc = "write", !.man = index, !.plan = b]
    OBVIOUS
  <2>5. proc' = [proc EXCEPT ![p] = r]
    BY <1>0, <1>3, <2>2, <2>4 DEF RebuildFill, ProcOK
  <2>6. r \in Rebuilder /\ r.plan = b /\ r.pc = "write" /\ r.cmd = proc[p].cmd /\ r.man = index
    BY <1>2, <2>1, <2>3, <2>4 DEF Rebuilder
  <2>7. r.handle = proc[p].handle /\ r.out = proc[p].out /\ r.alone = proc[p].alone
    BY <1>2, <2>4 DEF Rebuilder
  <2>8. r \in Running /\ r # Idle /\ RunsOnWhatItRead(r)
    BY <1>1, <2>1, <2>3, <2>6, RunningIsNotIdle DEF Running, RunsOnWhatItRead
  <2>9. ProcOK' /\ OthersStay(p) /\ proc'[p] = r
    BY <1>0, <2>5, <2>8, GoesOn
  <2>10. QED BY <1>1, <1>2, <1>3, <2>1, <2>2, <2>6, <2>7, <2>8, <2>9 DEF Filled
<1>4. CASE ~Complete
  <2>1. Goto(p, "remove")
    BY <1>4 DEF RebuildFill
  <2>2. [proc[p] EXCEPT !.pc = "remove"] \in Running
    BY <1>2, RebuilderGoes DEF Running
  <2>3. ProcOK' /\ OthersStay(p) /\ Moved(p, "remove", proc[p].handle)
    BY <1>0, <1>1, <1>2, <2>1, <2>2, Moves
  <2>4. QED BY <1>1, <1>2, <2>3
<1>5. QED BY <1>3, <1>4

(* A rebuild that has written all of it goes on to rename it only if that   *)
(* is the file the index was made from.                                     *)
LEMMA RebuildCheckStep ==
  ASSUME TypeOK, NEW p \in Procs, RebuildCheck(p)
  PROVE  /\ ProcOK' /\ OthersStay(p) /\ proc[p].cmd = "rebuild" /\ proc[p].pc = "written"
         /\ \/ Moved(p, "remove", proc[p].handle)
            \/ Moved(p, "rename", proc[p].handle) /\ proc[p].plan = proc[p].man.source
<1>0. ProcOK
  BY TypesSplit
<1>1. proc[p].cmd = "rebuild" /\ At(p, "written")
  BY DEF RebuildCheck
<1>2. proc[p] \in Rebuilder /\ proc[p] # Idle /\ proc[p].pc = "written" /\ proc[p].plan \in Bytes /\ proc[p].man \in Indexes
  BY <1>0, <1>1, Kinds, Writers DEF ProcOK, Idle, At
<1>3. ASSUME NEW pc \in {"remove", "rename"}, Goto(p, pc), pc = "rename" => proc[p].plan = proc[p].man.source
      PROVE  ProcOK' /\ OthersStay(p) /\ Moved(p, pc, proc[p].handle)
  <2>1. [proc[p] EXCEPT !.pc = pc] \in Running
    BY <1>2, RebuilderGoes DEF Running
  <2>2. QED BY <1>0, <1>1, <1>2, <1>3, <2>1, Moves
<1>4. CASE proc[p].plan = proc[p].man.source
  BY <1>1, <1>2, <1>3, <1>4 DEF RebuildCheck
<1>5. CASE proc[p].plan # proc[p].man.source
  BY <1>1, <1>2, <1>3, <1>5 DEF RebuildCheck
<1>6. QED BY <1>4, <1>5

-----------------------------------------------------------------------------
(* Types: every step.                                                       *)

LEMMA WriteStepTypes ==
  ASSUME TypeOK, NEW p \in Procs, WriteStep(p), UNCHANGED <<dirVars, unpackVars>>
  PROVE  TypeOK'
<1>0. ProcOK /\ FilesOK /\ DirOK /\ UnpackOK /\ FlagsOK
  BY TypesSplit
<1>1. ProcOK' /\ FilesOK'
  <2>1. CASE SaveCreate(p)
    BY <2>1, SaveCreateStep
  <2>2. CASE SaveWrite(p)
    BY <2>2, SaveWriteStep
  <2>3. CASE SaveFails(p)
    BY <1>0, <2>3, EndStep DEF SaveFails, FilesOK
  <2>4. CASE TempCreate(p)
    BY <2>4, TempCreateStep
  <2>5. CASE TempFails(p)
    BY <2>5, TempFailsStep
  <2>6. CASE TempWrite(p)
    BY <2>6, TempWriteStep
  <2>7. CASE TempRename(p)
    BY <2>7, TempRenameStep
  <2>8. CASE TempRemove(p)
    BY <2>8, TempRemoveStep
  <2>9. CASE TempPanics(p) \/ Kill(p)
    BY <2>9, AbandonStep DEF TempPanics, Kill
  <2>10. QED BY <2>1, <2>2, <2>3, <2>4, <2>5, <2>6, <2>7, <2>8, <2>9 DEF WriteStep
<1>2. DirOK' /\ UnpackOK' /\ FlagsOK'
  BY <1>0 DEF DirOK, UnpackOK, FlagsOK, dirVars, unpackVars
<1>3. QED BY <1>1, <1>2 DEF TypeOK, ProcOK, FilesOK, DirOK, UnpackOK, FlagsOK

LEMMA StartsTypes ==
  ASSUME TypeOK, NEW p \in Procs, UNCHANGED unpackVars,
         Scan(p) \/ Extract(p) \/ ApplyFields(p) \/ Try(p) \/ Pack(p) \/ UnpackStart(p) \/ RebuildStart(p)
  PROVE  TypeOK'
<1>1. ProcOK' /\ FilesOK'
  BY ScanStep, ExtractStep, ExtendStep, PackStep, UnpackStartStep, RebuildStartStep
<1>2. UNCHANGED <<dir, edits>>
  BY DEF Scan, Extract, ApplyFields, Try, Pack, UnpackStart, RebuildStart, dirVars
<1>3. torn' \subseteq Streams
  <2>1. CASE Pack(p)
    BY <2>1, PackStep
  <2>2. CASE ~Pack(p)
    BY <2>2, TypesSplit DEF Scan, Extract, ApplyFields, Try, UnpackStart, RebuildStart, dirVars, DirOK
  <2>3. QED BY <2>1, <2>2
<1>4. DirOK' /\ UnpackOK' /\ FlagsOK'
  BY <1>1, <1>2, <1>3, TypesSplit DEF DirOK, UnpackOK, FlagsOK, unpackVars
<1>5. QED BY <1>1, <1>4 DEF TypeOK, ProcOK, FilesOK, DirOK, UnpackOK, FlagsOK

LEMMA CliStepTypes ==
  ASSUME TypeOK, NEW p \in Procs, CliStep(p), UNCHANGED unpackVars
  PROVE  TypeOK'
<1>0. FilesOK /\ DirOK /\ FlagsOK /\ UnpackOK
  BY TypesSplit
<1>1. CASE Scan(p) \/ Extract(p) \/ ApplyFields(p) \/ Try(p) \/ Pack(p)
  BY <1>1, StartsTypes
<1>2. ASSUME \E s \in Streams : ExtractOpen(p, s) \/ ExtractWrite(p, s)
      PROVE  TypeOK'
  <2>1. PICK s \in Streams : ExtractOpen(p, s) \/ ExtractWrite(p, s)
    BY <1>2
  <2>2. ProcOK' /\ DirOK'
    BY <2>1, ExtractOpenStep, ExtractWriteStep
  <2>3. UNCHANGED <<file, temp, runs, orphans, shared>>
    BY <2>1 DEF ExtractOpen, ExtractWrite
  <2>4. FilesOK' /\ UnpackOK' /\ FlagsOK'
    BY <1>0, <2>3 DEF FilesOK, UnpackOK, FlagsOK, unpackVars
  <2>5. QED BY <2>2, <2>4 DEF TypeOK, ProcOK, FilesOK, DirOK, UnpackOK, FlagsOK
<1>3. ASSUME NEW s \in Streams, ExtractFails(p, s)
      PROVE  TypeOK'
  <2>1. ProcOK'
    BY <1>3, ExtractFailsStep
  <2>2. UNCHANGED <<file, temp, runs, orphans, shared, dirVars>>
    BY <1>3 DEF ExtractFails
  <2>3. FilesOK' /\ DirOK' /\ UnpackOK' /\ FlagsOK'
    BY <1>0, <2>2 DEF FilesOK, DirOK, UnpackOK, FlagsOK, unpackVars, dirVars
  <2>4. QED BY <2>1, <2>3 DEF TypeOK, ProcOK, FilesOK, DirOK, UnpackOK, FlagsOK
<1>4. CASE ExtractEnd(p) \/ PackVerify(p) \/ PackEnd(p)
  <2>1. UNCHANGED <<file, temp, runs, orphans, shared, dirVars>>
    BY <1>4 DEF ExtractEnd, PackVerify, PackEnd
  <2>2. ProcOK'
    BY <1>0, <1>4, <2>1, EndStep, PackVerifyStep, PackEndStep DEF ExtractEnd, FilesOK
  <2>3. FilesOK' /\ DirOK' /\ UnpackOK' /\ FlagsOK'
    BY <1>0, <2>1 DEF FilesOK, DirOK, UnpackOK, FlagsOK, unpackVars, dirVars
  <2>4. QED BY <2>2, <2>3 DEF TypeOK, ProcOK, FilesOK, DirOK, UnpackOK, FlagsOK
<1>5. QED BY <1>1, <1>2, <1>3, <1>4 DEF CliStep

(* The steps of unpack and rebuild touch no file but those in the directory.*)
LEMMA UnpackApart ==
  ASSUME NEW p \in Procs, UnpackStep(p), ~ UnpackStart(p), ~ RebuildStart(p)
  PROVE  Apart
<1>1. CASE UnpackMkdir(p) \/ UnpackGapsOpen(p) \/ UnpackGapsWrite(p) \/ IndexOpen(p) \/ IndexWrite(p)
  BY <1>1 DEF UnpackMkdir, UnpackGapsOpen, UnpackGapsWrite, IndexOpen, IndexWrite
<1>2. CASE UnpackFails(p) \/ RebuildFill(p) \/ RebuildCheck(p) \/ RebuildEnd(p)
  BY <1>2 DEF UnpackFails, RebuildFill, RebuildCheck, RebuildEnd
<1>3. ASSUME NEW s \in Streams, ContentsOpen(p, s) \/ ContentsWrite(p, s) PROVE Apart
  BY <1>3 DEF ContentsOpen, ContentsWrite
<1>4. ASSUME NEW s \in Corrected, ReconOpen(p, s) \/ ReconWrite(p, s) PROVE Apart
  BY <1>4 DEF ReconOpen, ReconWrite
<1>5. QED BY <1>1, <1>2, <1>3, <1>4 DEF UnpackStep

LEMMA ApartEnds ==
  ASSUME TypeOK, NEW p \in Procs, UnpackFails(p) \/ RebuildEnd(p)
  PROVE  ProcOK' /\ UnpackOK' /\ OthersStay(p) /\ proc'[p] = Idle
<1>1. End(p) /\ UNCHANGED unpackVars /\ ProcOK /\ UnpackOK
  BY TypesSplit DEF UnpackFails, RebuildEnd
<1>2. UnpackOK'
  BY <1>1 DEF UnpackOK, unpackVars
<1>3. QED BY <1>1, <1>2, Ends

LEMMA UnpackStepTypes ==
  ASSUME TypeOK, NEW p \in Procs, UnpackStep(p)
  PROVE  TypeOK'
<1>1. CASE UnpackStart(p) \/ RebuildStart(p)
  BY <1>1, StartsTypes DEF UnpackStart, RebuildStart
<1>2. CASE ~ UnpackStart(p) /\ ~ RebuildStart(p)
  <2>1. Apart
    BY <1>2, UnpackApart
  <2>0. UnpackOK /\ FlagsOK /\ FilesOK /\ DirOK
    BY TypesSplit
  <2>2. CASE UnpackMkdir(p)
    <3>1. ProcOK' /\ {made, meddled}' \subseteq BOOLEAN
      BY <2>2, UnpackMkdirStep
    <3>2. UnpackOK'
      BY <2>0, <2>2 DEF UnpackOK, UnpackMkdir
    <3>3. FilesOK' /\ DirOK' /\ FlagsOK'
      BY <2>0, <2>1, <3>1 DEF Apart, FilesOK, DirOK, FlagsOK, dirVars
    <3>4. QED BY <3>1, <3>2, <3>3 DEF TypeOK, ProcOK, FilesOK, DirOK, UnpackOK, FlagsOK
  <2>3. CASE ~ UnpackMkdir(p)
    <3>1. ProcOK' /\ UnpackOK' /\ UNCHANGED <<made, meddled>>
      <4>1. CASE UnpackGapsOpen(p)
        BY <4>1, UnpackGapsOpenStep DEF UnpackGapsOpen
      <4>2. CASE UnpackGapsWrite(p)
        BY <4>2, UnpackGapsWriteStep DEF UnpackGapsWrite
      <4>3. CASE \E s \in Streams : ContentsOpen(p, s) \/ ContentsWrite(p, s)
        BY <4>3, ContentsOpenStep, ContentsWriteStep DEF ContentsOpen, ContentsWrite
      <4>4. CASE \E s \in Corrected : ReconOpen(p, s) \/ ReconWrite(p, s)
        BY <4>4, ReconOpenStep, ReconWriteStep DEF ReconOpen, ReconWrite
      <4>5. CASE IndexOpen(p)
        BY <4>5, IndexOpenStep DEF IndexOpen
      <4>6. CASE IndexWrite(p)
        BY <4>6, IndexWriteStep DEF IndexWrite
      <4>7. CASE UnpackFails(p) \/ RebuildEnd(p)
        BY <4>7, ApartEnds DEF UnpackFails, RebuildEnd, unpackVars
      <4>8. CASE RebuildFill(p)
        BY <2>0, <4>8, RebuildFillStep DEF RebuildFill, unpackVars, UnpackOK
      <4>9. CASE RebuildCheck(p)
        BY <2>0, <4>9, RebuildCheckStep DEF RebuildCheck, unpackVars, UnpackOK
      <4>10. QED BY <1>2, <2>3, <4>1, <4>2, <4>3, <4>4, <4>5, <4>6, <4>7, <4>8, <4>9 DEF UnpackStep
    <3>2. FilesOK' /\ DirOK' /\ FlagsOK'
      BY <2>0, <2>1, <3>1 DEF Apart, FilesOK, DirOK, FlagsOK, dirVars
    <3>3. QED BY <3>1, <3>2 DEF TypeOK, ProcOK, FilesOK, DirOK, UnpackOK, FlagsOK
  <2>4. QED BY <2>2, <2>3
<1>3. QED BY <1>1, <1>2

(* The user.                                                                *)
LEMMA UpdateTypes ==
  ASSUME TypeOK, NEW v \in Versions, Update(v), UNCHANGED unpackVars
  PROVE  TypeOK'
<1>0. ProcOK /\ FilesOK /\ DirOK /\ FlagsOK /\ UnpackOK
  BY TypesSplit
<1>1. edits' \in 0 .. MaxEdits /\ proc' = proc
  BY <1>0, CliAssumption DEF Update, DirOK
<1>2. /\ file' = [file EXCEPT !["input"] = Binary(v)]
      /\ UNCHANGED <<temp, runs, orphans, shared, dir, torn, unpackVars>>
  BY DEF Update
<1>3. Binary(v) \in Binaries
  BY FilesAssumption, FileKinds DEF Bytes, Data
<1>4. file' \in [Names -> {NoFile, Cut} \cup Binaries \cup FitManifests]
  BY <1>0, <1>2, <1>3, FilesAssumption DEF FilesOK
<1>5. FilesOK'
  BY <1>0, <1>2, <1>3, <1>4 DEF FilesOK
<1>6. DirOK' /\ FlagsOK' /\ UnpackOK' /\ ProcOK'
  BY <1>0, <1>1, <1>2 DEF DirOK, FlagsOK, UnpackOK, ProcOK, unpackVars
<1>7. QED BY <1>5, <1>6 DEF TypeOK, ProcOK, FilesOK, DirOK, UnpackOK, FlagsOK

LEMMA UserStepTypes ==
  ASSUME TypeOK, NEW s \in Streams, NEW c \in Contents,
         (Edit(s, c) /\ UNCHANGED unpackVars) \/ Meddle(s, c)
  PROVE  TypeOK'
<1>0. ProcOK /\ FilesOK /\ DirOK /\ FlagsOK /\ UnpackOK
  BY TypesSplit
<1>1. edits' \in 0 .. MaxEdits /\ proc' = proc
  BY <1>0, CliAssumption DEF Edit, Meddle, DirOK, fileVars
<1>2. ProcOK'
  BY <1>0, <1>1 DEF ProcOK
<1>3. CASE Edit(s, c) /\ UNCHANGED unpackVars
  <2>1. dir' = [dir EXCEPT ![s] = Content(c)] /\ UNCHANGED <<fileVars, torn, unpackVars>>
    BY <1>3 DEF Edit
  <2>2. DirOK'
    BY <1>0, <1>1, <2>1, ContentFits DEF DirOK, Data
  <2>3. FilesOK' /\ FlagsOK' /\ UnpackOK'
    BY <1>0, <2>1 DEF FilesOK, FlagsOK, UnpackOK, fileVars, unpackVars
  <2>4. QED BY <1>2, <2>2, <2>3 DEF TypeOK, ProcOK, FilesOK, DirOK, UnpackOK, FlagsOK
<1>4. CASE Meddle(s, c)
  <2>1. /\ contents' = [contents EXCEPT ![s] = Content(c)] /\ meddled' = TRUE
        /\ UNCHANGED <<fileVars, dir, torn, made, index, gaps, recon>>
    BY <1>4 DEF Meddle
  <2>2. UnpackOK'
    BY <1>0, <2>1, ContentFits DEF UnpackOK, Data
  <2>3. FilesOK' /\ FlagsOK' /\ DirOK'
    BY <1>0, <1>1, <2>1 DEF FilesOK, FlagsOK, DirOK, fileVars
  <2>4. QED BY <1>2, <2>2, <2>3 DEF TypeOK, ProcOK, FilesOK, DirOK, UnpackOK, FlagsOK
<1>5. QED BY <1>3, <1>4

LEMMA TypesStep ==
  ASSUME TypeOK, [Next]_vars
  PROVE  TypeOK'
<1>1. CASE UNCHANGED vars
  BY <1>1 DEF vars, fileVars, dirVars, unpackVars, TypeOK, Input
<1>2. ASSUME NEW p \in Procs, WriteStep(p), UNCHANGED <<dirVars, unpackVars>>
      PROVE  TypeOK'
  BY <1>2, WriteStepTypes
<1>3. ASSUME NEW p \in Procs, CliStep(p), UNCHANGED unpackVars
      PROVE  TypeOK'
  BY <1>3, CliStepTypes
<1>4. ASSUME NEW p \in Procs, UnpackStep(p)
      PROVE  TypeOK'
  BY <1>4, UnpackStepTypes
<1>5. ASSUME NEW s \in Streams, NEW c \in Contents, (Edit(s, c) /\ UNCHANGED unpackVars) \/ Meddle(s, c)
      PROVE  TypeOK'
  BY <1>5, UserStepTypes
<1>6. ASSUME NEW v \in Versions, Update(v), UNCHANGED unpackVars
      PROVE  TypeOK'
  BY <1>6, UpdateTypes
<1>7. QED BY <1>1, <1>2, <1>3, <1>4, <1>5, <1>6 DEF Next

LEMMA TypesInit == Init => TypeOK
<1> SUFFICES ASSUME Init PROVE TypeOK
  OBVIOUS
<1>1. Binary(First) \in Binaries
  BY FilesAssumption, FileKinds DEF Bytes, Data
<1>2. FilesOK
  BY <1>1, FilesAssumption DEF Init, UnpackInit, CliInit, FilesInit, FilesOK
<1>3. ProcOK
  BY DEF Init, UnpackInit, CliInit, FilesInit, ProcOK
<1>4. DirOK
  BY CliAssumption DEF Init, UnpackInit, CliInit, DirOK, StreamFiles
<1>5. FlagsOK /\ UnpackOK
  BY DEF Init, UnpackInit, FlagsOK, UnpackOK, StreamFiles
<1>6. QED BY <1>2, <1>3, <1>4, <1>5, TypesSplit

(* Types hold at every state: files hold what some command writes, manifests*)
(* list fields that fit, and each process has what its step goes on with.   *)
LEMMA Types == Spec => []TypeOK
  BY TypesInit, TypesStep, PTL DEF Spec

-----------------------------------------------------------------------------
(* The shapes that the steps of a process have.                             *)

(* A command starts.                                                        *)
StartsAs(p, c) ==
  /\ Begins(p, c) /\ c.alone = Quiet
  /\ c.cmd \in {"pack", "rebuild"} => c.pc = "create"
  /\ c.cmd = "extract" => c.open = {}
  /\ c.cmd # "rebuild" => Input = Binary(c.data) /\ c.data \in Bytes
  /\ c.cmd = "pack" => c.man \in FitManifests /\ c.plan = Planned(c.man, c.data)
  /\ torn' = IF c.cmd = "pack" THEN torn \cup {s \in c.man.streams : dir[s] = Cut} ELSE torn
  /\ c.cmd = "unpack" =>
       ~made /\ c.pc = "mkdir" /\ c.todo = c.man.streams /\ c.open = {} /\ c.plan = NoData

LEMMA Beginnings ==
  ASSUME TypeOK, NEW p \in Procs,
         Scan(p) \/ Extract(p) \/ ApplyFields(p) \/ Try(p) \/ Pack(p) \/ UnpackStart(p) \/ RebuildStart(p)
  PROVE  /\ UNCHANGED <<file, temp, orphans, shared, dir>>
         /\ \E c \in Running : StartsAs(p, c)
<1>1. UNCHANGED <<file, temp, orphans, shared, dir>>
  BY DEF Scan, Extract, ApplyFields, Try, Pack, UnpackStart, RebuildStart, dirVars
<1>2. ASSUME NEW c \in Saver PROVE c \in Running /\ c.cmd \notin {"pack", "rebuild", "extract", "unpack"}
  BY <1>2 DEF Saver, Running
<1>3. ASSUME NEW c \in Extractor PROVE c \in Running /\ c.cmd \notin {"pack", "rebuild", "unpack"}
  BY <1>3 DEF Extractor, Running
<1>4. ASSUME NEW c \in Packer PROVE c \in Running /\ c.cmd = "pack" /\ c.man \in FitManifests
  BY <1>4 DEF Packer, Running
<1>5. ASSUME NEW c \in Unpacker PROVE c \in Running /\ c.cmd \notin {"pack", "rebuild", "extract"}
  BY <1>5 DEF Unpacker, Running
<1>6. ASSUME NEW c \in Rebuilder PROVE c \in Running /\ c.cmd = "rebuild"
  BY <1>6 DEF Rebuilder, Running
<1>7. ASSUME ~RebuildStart(p) PROVE Input = Binary(Input.bytes) /\ Input.bytes \in Bytes
  <2>1. Input.is = "binary"
    BY <1>7 DEF Scan, Extract, ApplyFields, Try, Pack, UnpackStart
  <2>2. Input \in {NoFile, Cut} \cup Binaries \cup FitManifests
    BY TypesSplit, SavedNames DEF FilesOK, Input
  <2>3. QED BY <2>1, <2>2, FileKinds
<1>8. ASSUME ~Pack(p) PROVE torn' = torn
  BY <1>8 DEF Scan, Extract, ApplyFields, Try, UnpackStart, RebuildStart, dirVars
<1>9. CASE (Scan(p) \/ ApplyFields(p) \/ Try(p)) /\ ~Pack(p) /\ ~RebuildStart(p)
  <2>1. PICK c \in Saver : Begins(p, c) /\ c.alone = Quiet /\ c.data = Input.bytes
    BY <1>9, ScanStep, ExtendStep
  <2>2. c \in Running /\ c.cmd \notin {"pack", "rebuild", "extract", "unpack"} /\ torn' = torn
    BY <1>2, <1>8, <1>9, <2>1
  <2>3. StartsAs(p, c)
    BY <1>7, <1>9, <2>1, <2>2 DEF StartsAs
  <2>4. QED BY <1>1, <2>2, <2>3
<1>10. CASE Extract(p) /\ ~Pack(p) /\ ~RebuildStart(p)
  <2>1. PICK c \in Extractor : Begins(p, c) /\ c.open = {} /\ c.alone = Quiet /\ c.data = Input.bytes
    BY <1>10, ExtractStep
  <2>2. c \in Running /\ c.cmd \notin {"pack", "rebuild", "unpack"} /\ torn' = torn
    BY <1>3, <1>8, <1>10, <2>1
  <2>3. StartsAs(p, c)
    BY <1>7, <1>10, <2>1, <2>2 DEF StartsAs
  <2>4. QED BY <1>1, <2>2, <2>3
<1>11. CASE Pack(p) /\ ~RebuildStart(p)
  <2>1. PICK c \in Packer : /\ Begins(p, c) /\ c.pc = "create" /\ c.alone = Quiet
                            /\ c.data = Input.bytes /\ c.plan = Planned(c.man, c.data)
                            /\ torn' = torn \cup {s \in c.man.streams : dir[s] = Cut}
    BY <1>11, PackStep
  <2>2. c \in Running /\ c.cmd = "pack" /\ c.man \in FitManifests
    BY <1>4, <2>1
  <2>3. StartsAs(p, c)
    BY <1>7, <1>11, <2>1, <2>2 DEF StartsAs
  <2>4. QED BY <1>1, <2>2, <2>3
<1>12. CASE UnpackStart(p) /\ ~Pack(p) /\ ~RebuildStart(p)
  <2>1. PICK c \in Unpacker :
          /\ Begins(p, c) /\ c.alone = Quiet /\ c.pc = "mkdir" /\ c.data = Input.bytes
          /\ c.todo = c.man.streams /\ c.open = {} /\ c.plan = NoData
    BY <1>12, UnpackStartStep
  <2>2. c \in Running /\ c.cmd \notin {"pack", "rebuild", "extract"} /\ torn' = torn /\ ~made
    BY <1>5, <1>8, <1>12, <2>1 DEF UnpackStart
  <2>3. StartsAs(p, c)
    BY <1>7, <1>12, <2>1, <2>2 DEF StartsAs
  <2>4. QED BY <1>1, <2>2, <2>3
<1>13. CASE RebuildStart(p)
  <2>1. PICK c \in Rebuilder : Begins(p, c) /\ c.pc = "create" /\ c.alone = Quiet
    BY <1>13, RebuildStartStep
  <2>2. c \in Running /\ c.cmd = "rebuild"
    BY <1>6, <2>1
  <2>3. torn' = torn
    BY <1>13 DEF RebuildStart, dirVars
  <2>4. StartsAs(p, c)
    BY <2>1, <2>2, <2>3 DEF StartsAs
  <2>5. QED BY <1>1, <2>2, <2>4
<1>14. QED BY <1>9, <1>10, <1>11, <1>12, <1>13

(* A command that runs goes on, or ends.                                    *)
GoesAlong(p) ==
  /\ proc[p] # Idle
  /\ \A q \in Procs \ {p} :
       Keeps(proc[q], proc'[q]) /\ (proc[q] # Idle => (proc'[q].alone => proc[q].alone))
  /\ proc'[p] = Idle \/ (proc'[p].cmd = proc[p].cmd /\ proc'[p].alone = proc[p].alone)

(* ... and does not touch what is written by way of temporary files.        *)
Elsewhere(p) ==
  /\ GoesAlong(p) /\ OthersStay(p) /\ UNCHANGED <<file, temp, orphans, shared>>
  /\ \A o : ~Writing(p, o) /\ ~Writing(p, o)'
  /\ Runs(p, "pack")' => proc'[p].pc = "save"

LEMMA StayersGoAlong ==
  ASSUME NEW p \in Procs, OthersStay(p), proc[p] # Idle,
         proc'[p] = Idle \/ (proc'[p].cmd = proc[p].cmd /\ proc'[p].alone = proc[p].alone)
  PROVE  GoesAlong(p)
  BY DEF OthersStay, Stays, GoesAlong

LEMMA WritersOnly ==
  ASSUME NEW p \in Procs, NEW o, Writing(p, o)
  PROVE  /\ proc[p].cmd \in {"pack", "rebuild"} /\ proc[p].out = o
         /\ proc[p].pc \in {"fill", "write", "written", "rename", "remove"}
         /\ proc[p] # Idle
  BY DEF Writing, Idle

(* Commands other than pack and rebuild write no outputs.                   *)
LEMMA OtherCommands ==
  ASSUME NEW p \in Procs, OthersStay(p), proc[p] # Idle, UNCHANGED <<file, temp, orphans, shared>>,
         NEW cmd, proc[p].cmd = cmd, cmd \notin {"pack", "rebuild"},
         proc'[p] = Idle \/ (proc'[p].cmd = cmd /\ proc'[p].alone = proc[p].alone)
  PROVE  Elsewhere(p)
<1>1. GoesAlong(p)
  BY StayersGoAlong
<1>2. proc'[p].cmd \notin {"pack", "rebuild"} /\ proc[p].cmd \notin {"pack", "rebuild"}
  BY DEF Idle
<1>3. \A o : ~Writing(p, o) /\ ~Writing(p, o)'
  BY <1>2 DEF Writing
<1>4. Runs(p, "pack")' => proc'[p].pc = "save"
  BY <1>2 DEF Runs
<1>5. QED BY <1>1, <1>3, <1>4 DEF Elsewhere

LEMMA ExtractElsewhere ==
  ASSUME TypeOK, NEW p \in Procs,
         (\E s \in Streams : ExtractOpen(p, s) \/ ExtractWrite(p, s) \/ ExtractFails(p, s)) \/ ExtractEnd(p)
  PROVE  Elsewhere(p)
<1>1. proc[p].cmd = "extract" /\ UNCHANGED <<file, temp, orphans, shared>>
  <2>1. ASSUME NEW s \in Streams, ExtractOpen(p, s) \/ ExtractWrite(p, s) \/ ExtractFails(p, s)
        PROVE  proc[p].cmd = "extract" /\ UNCHANGED <<file, temp, orphans, shared>>
    BY <2>1 DEF ExtractOpen, ExtractWrite, ExtractFails
  <2>2. QED BY <2>1 DEF ExtractEnd
<1>0. proc[p] # Idle
  BY <1>1 DEF Idle
<1>2. CASE \E s \in Streams : ExtractOpen(p, s) \/ ExtractWrite(p, s) \/ ExtractFails(p, s)
  <2>1. OthersStay(p) /\ \E T : Extracts(p, T)
    BY <1>2, ExtractOpenStep, ExtractWriteStep, ExtractFailsStep
  <2>2. proc'[p].cmd = "extract" /\ proc'[p].alone = proc[p].alone
    BY <2>1 DEF Extracts, Extractor
  <2>3. QED BY <1>0, <1>1, <2>1, <2>2, OtherCommands
<1>3. CASE ExtractEnd(p)
  <2>1. OthersStay(p) /\ proc'[p] = Idle
    BY <1>3, EndStep, TypesSplit DEF ExtractEnd, FilesOK
  <2>2. QED BY <1>0, <1>1, <2>1, OtherCommands
<1>4. QED BY <1>2, <1>3

(* The steps of unpack after the first.                                     *)
UnpackWorks(p) ==
  \/ UnpackMkdir(p) \/ UnpackGapsOpen(p) \/ UnpackGapsWrite(p)
  \/ \E s \in Streams : ContentsOpen(p, s) \/ ContentsWrite(p, s)
  \/ \E s \in Corrected : ReconOpen(p, s) \/ ReconWrite(p, s)
  \/ IndexOpen(p) \/ IndexWrite(p) \/ UnpackFails(p)

LEMMA UnpackElsewhere ==
  ASSUME TypeOK, NEW p \in Procs, UnpackWorks(p)
  PROVE  Elsewhere(p) /\ Runs(p, "unpack") /\ UNCHANGED <<file, temp, orphans, shared, dirVars>>
<1>1. proc[p].cmd = "unpack" /\ UNCHANGED <<file, temp, orphans, shared, dirVars>>
  <2>1. CASE \E s \in Streams : ContentsOpen(p, s) \/ ContentsWrite(p, s)
    BY <2>1 DEF ContentsOpen, ContentsWrite, Apart, Unpacking
  <2>2. CASE \E s \in Corrected : ReconOpen(p, s) \/ ReconWrite(p, s)
    BY <2>2 DEF ReconOpen, ReconWrite, Apart, Unpacking
  <2>3. QED
    BY <2>1, <2>2 DEF UnpackWorks, UnpackMkdir, UnpackGapsOpen, UnpackGapsWrite, IndexOpen, IndexWrite,
                      UnpackFails, Apart, Unpacking
<1>2. proc[p] # Idle
  BY <1>1 DEF Idle
<1>3. OthersStay(p) /\ (proc'[p] = Idle \/ (proc'[p].cmd = "unpack" /\ proc'[p].alone = proc[p].alone))
  <2>1. CASE UnpackMkdir(p) \/ UnpackGapsOpen(p) \/ UnpackGapsWrite(p) \/ IndexOpen(p)
    <3>1. OthersStay(p) /\ \E pc, h : Moved(p, pc, h)
      BY <2>1, UnpackMkdirStep, UnpackGapsOpenStep, UnpackGapsWriteStep, IndexOpenStep
    <3>2. QED BY <1>1, <3>1 DEF Moved, Follows
  <2>2. CASE (\E s \in Streams : ContentsOpen(p, s) \/ ContentsWrite(p, s))
             \/ (\E s \in Corrected : ReconOpen(p, s) \/ ReconWrite(p, s))
    <3>1. OthersStay(p) /\ \E s, stage : Unpacks(p, s, stage)
      BY <2>2, ContentsOpenStep, ContentsWriteStep, ReconOpenStep, ReconWriteStep
    <3>2. QED BY <3>1 DEF Unpacks, Unpacker
  <2>3. CASE IndexWrite(p) \/ UnpackFails(p)
    BY <2>3, IndexWriteStep, ApartEnds
  <2>4. QED BY <2>1, <2>2, <2>3 DEF UnpackWorks
<1>4. QED BY <1>1, <1>2, <1>3, OtherCommands DEF Runs

(* What a pack or a rebuild does before or after it writes.                 *)
LEMMA EndsElsewhere ==
  ASSUME TypeOK, NEW p \in Procs, PackEnd(p) \/ RebuildEnd(p) \/ SaveFails(p)
  PROVE  Elsewhere(p)
<1>1. proc[p] # Idle /\ UNCHANGED <<file, temp, orphans, shared>>
  BY DEF PackEnd, RebuildEnd, SaveFails, Apart, At, Idle
<1>2. proc[p].pc \in {"renamed", "save", "saving"}
  BY DEF PackEnd, RebuildEnd, SaveFails, At
<1>3. OthersStay(p) /\ (proc'[p] = Idle \/ Moved(p, "save", proc[p].handle))
  <2>1. CASE PackEnd(p)
    BY <2>1, PackEndStep
  <2>2. CASE RebuildEnd(p)
    BY <2>2, ApartEnds
  <2>3. CASE SaveFails(p)
    BY <2>3, EndStep, TypesSplit DEF SaveFails, FilesOK
  <2>4. QED BY <2>1, <2>2, <2>3
<1>4. Idle.cmd = "none"
  BY DEF Idle
<1>5. proc'[p] = Idle \/ (proc'[p].cmd = proc[p].cmd /\ proc'[p].alone = proc[p].alone /\ proc'[p].pc = "save")
  BY <1>3 DEF Moved, Follows
<1>6. GoesAlong(p)
  BY <1>1, <1>3, <1>5, StayersGoAlong
<1>7. \A o : ~Writing(p, o) /\ ~Writing(p, o)'
  BY <1>2, <1>4, <1>5 DEF Writing
<1>8. Runs(p, "pack")' => proc'[p].pc = "save"
  BY <1>4, <1>5 DEF Runs
<1>9. QED BY <1>1, <1>3, <1>6, <1>7, <1>8 DEF Elsewhere

(* A rebuild reads its directory, and a pack and a rebuild check what they   *)
(* wrote.                                                                   *)
LEMMA ChecksGoAlong ==
  ASSUME TypeOK, NEW p \in Procs, PackVerify(p) \/ RebuildFill(p) \/ RebuildCheck(p)
  PROVE  GoesAlong(p) /\ OthersStay(p) /\ UNCHANGED <<file, temp, orphans, shared, dirVars>>
<1>1. proc[p] # Idle /\ UNCHANGED <<file, temp, orphans, shared, dirVars>>
  BY DEF PackVerify, RebuildFill, RebuildCheck, Apart, At, Idle
<1>2. OthersStay(p) /\ proc'[p].cmd = proc[p].cmd /\ proc'[p].alone = proc[p].alone
  <2>1. CASE PackVerify(p)
    BY <2>1, PackVerifyStep DEF Moved, Follows, Checked
  <2>2. CASE RebuildFill(p)
    BY <2>2, RebuildFillStep DEF Moved, Follows, Filled
  <2>3. CASE RebuildCheck(p)
    BY <2>3, RebuildCheckStep DEF Moved, Follows
  <2>4. QED BY <2>1, <2>2, <2>3
<1>3. QED BY <1>1, <1>2, StayersGoAlong

LEMMA WritesGoAlong ==
  ASSUME TypeOK, NEW p \in Procs, WriteStep(p)
  PROVE  GoesAlong(p)
<1>1. ASSUME OthersStay(p), NEW pc, NEW h, Moved(p, pc, h) PROVE GoesAlong(p)
  BY <1>1, StayersGoAlong DEF Moved, Follows
<1>2. ASSUME proc[p] # Idle, OthersStay(p), proc'[p] = Idle PROVE GoesAlong(p)
  BY <1>2, StayersGoAlong
<1>3. ASSUME NEW o, OthersOn(p, o), proc[p] # Idle,
             proc'[p] = Idle \/ Moved(p, "renamed", "none")
      PROVE  GoesAlong(p)
  BY <1>3 DEF OthersOn, OthersKeep, GoesAlong, Moved, Follows
<1>4. \A pc : At(p, pc) => proc[p] # Idle
  BY DEF At, Idle
<1>5. CASE SaveCreate(p)
  BY <1>1, <1>5, SaveCreateStep
<1>6. CASE SaveWrite(p)
  BY <1>2, <1>4, <1>6, SaveWriteStep DEF SaveWrite
<1>7. CASE SaveFails(p)
  BY <1>7, EndsElsewhere DEF Elsewhere
<1>8. CASE TempCreate(p)
  BY <1>1, <1>8, TempCreateStep
<1>9. CASE TempFails(p)
  BY <1>1, <1>9, TempFailsStep
<1>10. CASE TempWrite(p)
  BY <1>1, <1>10, TempWriteStep
<1>11. CASE TempRename(p)
  <2>1. proc[p] # Idle
    BY <1>4, <1>11 DEF TempRename
  <2>2. \/ OthersStay(p) /\ Moved(p, "remove", proc[p].handle)
        \/ OthersOn(p, proc[p].out) /\ Moved(p, "renamed", "none")
    BY <1>11, TempRenameStep
  <2>3. QED BY <1>1, <1>3, <2>1, <2>2
<1>12. CASE TempRemove(p)
  <2>1. proc[p] # Idle
    BY <1>4, <1>12 DEF TempRemove
  <2>2. proc'[p] = Idle /\ (OthersStay(p) \/ OthersOn(p, proc[p].out))
    BY <1>12, TempRemoveStep
  <2>3. QED BY <1>2, <1>3, <2>1, <2>2
<1>13. CASE TempPanics(p) \/ Kill(p)
  <2>1. proc[p] # Idle /\ Abandon(p)
    BY <1>4, <1>13 DEF TempPanics, Kill
  <2>2. QED BY <1>2, <2>1, AbandonStep
<1>14. QED
  BY <1>5, <1>6, <1>7, <1>8, <1>9, <1>10, <1>11, <1>12, <1>13 DEF WriteStep

(* The steps of a process but those of WriteStep.                           *)
LEMMA StepKinds ==
  ASSUME TypeOK, NEW p \in Procs, CliStep(p) \/ UnpackStep(p)
  PROVE  \/ /\ UNCHANGED <<file, temp, orphans, shared, dir>>
            /\ \E c \in Running : StartsAs(p, c)
         \/ Elsewhere(p) \/ PackVerify(p) \/ RebuildFill(p) \/ RebuildCheck(p)
<1>1. CASE Scan(p) \/ Extract(p) \/ ApplyFields(p) \/ Try(p) \/ Pack(p) \/ UnpackStart(p) \/ RebuildStart(p)
  BY <1>1, Beginnings
<1>2. CASE (\E s \in Streams : ExtractOpen(p, s) \/ ExtractWrite(p, s) \/ ExtractFails(p, s)) \/ ExtractEnd(p)
  BY <1>2, ExtractElsewhere
<1>3. CASE UnpackWorks(p)
  BY <1>3, UnpackElsewhere
<1>4. CASE PackEnd(p) \/ RebuildEnd(p)
  BY <1>4, EndsElsewhere
<1>5. QED BY <1>1, <1>2, <1>3, <1>4 DEF CliStep, UnpackStep, UnpackWorks

-----------------------------------------------------------------------------
(* StillAlone.                                                              *)

LEMMA AloneGoesAlong ==
  ASSUME StillAlone, NEW p \in Procs, GoesAlong(p)
  PROVE  StillAlone'
<1> SUFFICES ASSUME NEW q \in Procs, NEW r \in Procs, q # r, proc'[q] # Idle, proc'[q].alone
             PROVE  proc'[r] = Idle
  BY DEF StillAlone
<1>1. proc[q] # Idle /\ proc[q].alone
  BY DEF GoesAlong, Keeps
<1>2. proc[r] = Idle
  BY <1>1 DEF StillAlone
<1>3. r # p
  BY <1>2 DEF GoesAlong
<1>4. QED BY <1>2, <1>3 DEF GoesAlong, Keeps

LEMMA AloneStarts ==
  ASSUME StillAlone, NEW p \in Procs, NEW c, StartsAs(p, c)
  PROVE  StillAlone'
<1> SUFFICES ASSUME NEW q \in Procs, NEW r \in Procs, q # r, proc'[q] # Idle, proc'[q].alone
             PROVE  proc'[r] = Idle
  BY DEF StillAlone
<1>1. q = p
  BY DEF StartsAs, Begins, OthersStay, Stays, Keeps
<1>2. Quiet
  BY <1>1 DEF StartsAs, Begins
<1>3. QED BY <1>1, <1>2 DEF Quiet, StartsAs, Begins, OthersStay, Stays, Keeps

LEMMA AloneStep ==
  ASSUME TypeOK, StillAlone, [Next]_vars
  PROVE  StillAlone'
<1>1. CASE UNCHANGED vars
  BY <1>1 DEF vars, fileVars, StillAlone
<1>2. ASSUME NEW p \in Procs, WriteStep(p) PROVE StillAlone'
  BY <1>2, WritesGoAlong, AloneGoesAlong
<1>3. ASSUME NEW p \in Procs, CliStep(p) \/ UnpackStep(p) PROVE StillAlone'
  BY <1>3, StepKinds, AloneGoesAlong, AloneStarts, ChecksGoAlong DEF Elsewhere
<1>4. ASSUME NEW s \in Streams, NEW c \in Contents, Edit(s, c) \/ Meddle(s, c) PROVE StillAlone'
  BY <1>4 DEF Edit, Meddle, fileVars, StillAlone
<1>5. ASSUME NEW v \in Versions, Update(v) PROVE StillAlone'
  BY <1>5 DEF Update, StillAlone
<1>6. QED BY <1>1, <1>2, <1>3, <1>4, <1>5 DEF Next

-----------------------------------------------------------------------------
(* WritesFit and OutputIsWhole.                                             *)

LEMMA OthersWrite ==
  ASSUME NEW p \in Procs, OthersKeep(p), NEW q \in Procs \ {p}, NEW o
  PROVE  /\ Writing(q, o)' <=> Writing(q, o)
         /\ proc'[q].pc = proc[q].pc /\ proc'[q].plan = proc[q].plan
  BY DEF OthersKeep, Keeps, Writing

LEMMA OwnTempStays ==
  ASSUME NEW p \in Procs, NEW q \in Procs \ {p}, NEW o, OthersKeep(p), OwnTemp(q, o),
         proc'[q].handle = proc[q].handle, temp'[o] = temp[o]
  PROVE  OwnTemp(q, o)'
  BY OthersWrite DEF OwnTemp

LEMMA StayersKeep ==
  ASSUME NEW p \in Procs, OthersStay(p)
  PROVE  OthersKeep(p)
  BY DEF OthersStay, Stays, OthersKeep

(* A step that leaves the temporary files as they are.                      *)
LEMMA WritesKept ==
  ASSUME WritesFit, NEW p \in Procs, OthersStay(p), UNCHANGED temp, orphans \subseteq orphans',
         shared \subseteq shared',
         \A o \in Outputs : Writing(p, o) /\ temp[o] # NoFile => Writing(p, o)' \/ o \in orphans',
         \A o \in Outputs : Writing(p, o)' =>
           Writing(p, o) \/ \A q \in Procs \ {p} : Writing(q, o) => o \in shared',
         \A o \in Outputs : Writing(p, o)' /\ (o \notin shared' \/ proc'[p].alone) => OwnTemp(p, o)'
  PROVE  WritesFit'
<1>0. OthersKeep(p)
  BY StayersKeep
<1>1. ASSUME NEW q \in Procs, NEW r \in Procs, NEW o \in Outputs,
             q # r, Writing(q, o)', Writing(r, o)', r # p
      PROVE  o \in shared'
  <2>1. Writing(r, o)
    BY <1>0, <1>1, OthersWrite
  <2>2. CASE Writing(q, o)
    BY <1>1, <2>1, <2>2 DEF WritesFit, OneWriter
  <2>3. CASE ~Writing(q, o)
    <3>1. q = p
      BY <1>0, <1>1, <2>3, OthersWrite
    <3>2. QED BY <1>1, <2>1, <2>3, <3>1
  <2>4. QED BY <2>2, <2>3
<1>2. OneWriter'
  BY <1>1 DEF OneWriter
<1>3. TempIsOwn'
  <2>1. ASSUME NEW q \in Procs \ {p}, NEW o \in Outputs, Writing(q, o)', o \notin shared' \/ proc'[q].alone
        PROVE  OwnTemp(q, o)'
    <3>1. Writing(q, o)
      BY <1>0, <2>1, OthersWrite
    <3>2. proc[q] # Idle
      BY <3>1, WritersOnly
    <3>3. proc'[q].handle = proc[q].handle /\ (proc'[q].alone => proc[q].alone)
      BY <3>2 DEF OthersStay, Stays
    <3>4. OwnTemp(q, o)
      BY <2>1, <3>1, <3>3 DEF WritesFit, TempIsOwn
    <3>5. QED BY <1>0, <3>3, <3>4, OwnTempStays
  <2>2. QED BY <2>1 DEF TempIsOwn
<1>4. TempIsOwned'
  <2>1. ASSUME NEW o \in Outputs, temp'[o] # NoFile, o \notin orphans'
        PROVE  \E q \in Procs : Writing(q, o)'
    <3>1. PICK q \in Procs : Writing(q, o)
      BY <2>1 DEF WritesFit, TempIsOwned
    <3>2. Writing(q, o)'
      BY <1>0, <2>1, <3>1, OthersWrite
    <3>3. QED BY <3>2
  <2>2. QED BY <2>1 DEF TempIsOwned
<1>5. QED BY <1>2, <1>3, <1>4 DEF WritesFit

(* A step of the command p on the temporary file of its output o.           *)
LEMMA WritesOn ==
  ASSUME StillAlone, WritesFit, NEW p \in Procs, NEW o \in Outputs, GoesAlong(p),
         \A q \in Procs \ {p} : \A x \in Outputs \ {o} :
           Writing(q, x) => proc'[q].handle = proc[q].handle,
         \A x \in Outputs \ {o} : temp'[x] = temp[x],
         \A x \in Outputs \ {o} : x \in orphans => x \in orphans', shared \subseteq shared',
         \A x \in Outputs : Writing(p, x) \/ Writing(p, x)' => x = o,
         \A q \in Procs \ {p} : Writing(q, o) => o \in shared',
         Writing(p, o)' /\ (o \notin shared' \/ proc'[p].alone) => OwnTemp(p, o)',
         temp'[o] # NoFile => Writing(p, o)' \/ o \in orphans'
  PROVE  WritesFit'
<1>0. OthersKeep(p)
  BY DEF GoesAlong, OthersKeep
<1>1. ASSUME NEW q \in Procs, NEW r \in Procs, NEW x \in Outputs,
             q # r, Writing(q, x)', Writing(r, x)', r # p
      PROVE  x \in shared'
  <2>1. Writing(r, x)
    BY <1>0, <1>1, OthersWrite
  <2>2. CASE q = p
    BY <1>1, <2>1, <2>2
  <2>3. CASE q # p
    <3>1. Writing(q, x)
      BY <1>0, <1>1, <2>3, OthersWrite
    <3>2. QED BY <1>1, <2>1, <3>1 DEF WritesFit, OneWriter
  <2>4. QED BY <2>2, <2>3
<1>2. OneWriter'
  BY <1>1 DEF OneWriter
<1>3. TempIsOwn'
  <2>1. ASSUME NEW q \in Procs \ {p}, NEW x \in Outputs, Writing(q, x)', x \notin shared' \/ proc'[q].alone
        PROVE  OwnTemp(q, x)'
    <3>1. Writing(q, x)
      BY <1>0, <2>1, OthersWrite
    <3>2. proc[q] # Idle
      BY <3>1, WritersOnly
    <3>3. ~proc[q].alone /\ ~proc'[q].alone
      BY <3>2 DEF StillAlone, GoesAlong
    <3>4. x # o
      BY <2>1, <3>1, <3>3
    <3>5. OwnTemp(q, x)
      BY <2>1, <3>1, <3>3 DEF WritesFit, TempIsOwn
    <3>6. QED BY <1>0, <3>1, <3>4, <3>5, OwnTempStays
  <2>2. ASSUME NEW x \in Outputs, Writing(p, x)', x \notin shared' \/ proc'[p].alone
        PROVE  OwnTemp(p, x)'
    BY <2>2
  <2>3. QED BY <2>1, <2>2 DEF TempIsOwn
<1>4. TempIsOwned'
  <2>1. ASSUME NEW x \in Outputs, temp'[x] # NoFile, x \notin orphans'
        PROVE  \E q \in Procs : Writing(q, x)'
    <3>1. CASE x = o
      BY <2>1, <3>1
    <3>2. CASE x # o
      <4>1. PICK q \in Procs : Writing(q, x)
        BY <2>1, <3>2 DEF WritesFit, TempIsOwned
      <4>2. q # p
        BY <3>2, <4>1
      <4>3. QED BY <1>0, <4>1, <4>2, OthersWrite
    <3>3. QED BY <3>1, <3>2
  <2>2. QED BY <2>1 DEF TempIsOwned
<1>5. QED BY <1>2, <1>3, <1>4 DEF WritesFit

LEMMA WholeKept ==
  ASSUME OutputIsWhole, UNCHANGED shared,
         \A o \in Outputs \ Saved : file'[o] = Cut => file[o] = Cut \/ o \in shared
  PROVE  OutputIsWhole'
  BY DEF OutputIsWhole

LEMMA ElsewhereWrites ==
  ASSUME WritesFit, NEW p \in Procs, OthersStay(p), UNCHANGED <<temp, orphans, shared>>,
         \A o : ~Writing(p, o) /\ ~Writing(p, o)'
  PROVE  WritesFit'
  BY WritesKept

LEMMA StartsWriting ==
  ASSUME WritesFit, NEW p \in Procs, NEW c \in Running, StartsAs(p, c), UNCHANGED <<temp, orphans, shared>>
  PROVE  WritesFit'
<1>1. \A o : ~Writing(p, o) /\ ~Writing(p, o)'
  BY DEF StartsAs, Begins, Writing, Idle
<1>2. OthersStay(p)
  BY DEF StartsAs, Begins
<1>3. QED BY <1>1, <1>2, ElsewhereWrites

LEMMA ChecksWrite ==
  ASSUME TypeOK, WritesFit, NEW p \in Procs, PackVerify(p) \/ RebuildFill(p) \/ RebuildCheck(p)
  PROVE  WritesFit'
<1>1. OthersStay(p) /\ UNCHANGED <<temp, orphans, shared>>
  BY ChecksGoAlong
<1>2. /\ proc[p].cmd \in {"pack", "rebuild"} /\ proc[p].pc \in {"fill", "written"}
      /\ proc'[p].cmd = proc[p].cmd /\ proc'[p].out = proc[p].out /\ proc'[p].alone = proc[p].alone
      /\ proc'[p].handle = proc[p].handle
      /\ \/ proc'[p].pc = "remove"
         \/ proc[p].pc = "fill" /\ proc'[p].pc = "write"
         \/ proc[p].pc = "written" /\ proc'[p].pc = "rename" /\ proc'[p].plan = proc[p].plan
  <2>1. CASE PackVerify(p)
    BY <2>1, PackVerifyStep DEF Moved, Follows, Checked
  <2>2. CASE RebuildFill(p)
    BY <2>2, RebuildFillStep DEF Moved, Follows, Filled
  <2>3. CASE RebuildCheck(p)
    BY <2>3, RebuildCheckStep DEF Moved, Follows
  <2>4. QED BY <2>1, <2>2, <2>3
<1>3. \A o \in Outputs : Writing(p, o)' <=> Writing(p, o)
  BY <1>2 DEF Writing
<1>4. ASSUME NEW o \in Outputs, Writing(p, o)', o \notin shared' \/ proc'[p].alone PROVE OwnTemp(p, o)'
  <2>1. OwnTemp(p, o)
    BY <1>1, <1>2, <1>3, <1>4 DEF WritesFit, TempIsOwn
  <2>2. QED BY <1>1, <1>2, <2>1 DEF OwnTemp
<1>5. QED BY <1>1, <1>3, <1>4, WritesKept

(* A manifest is saved in place, which is not where pack and rebuild write. *)
LEMMA SavesWrite ==
  ASSUME TypeOK, WritesFit, OutputIsWhole, NEW p \in Procs, SaveCreate(p) \/ SaveWrite(p)
  PROVE  WritesFit' /\ OutputIsWhole'
<1>1. UNCHANGED <<temp, orphans, shared>>
  BY DEF SaveCreate, SaveWrite
<1>2. OthersStay(p) /\ (proc'[p] = Idle \/ proc'[p].pc = "saving")
  BY SaveCreateStep, SaveWriteStep DEF Moved, Follows
<1>3. PICK pc \in {"save", "saving"} : At(p, pc)
  BY DEF SaveCreate, SaveWrite
<1>4. \A o : ~Writing(p, o) /\ ~Writing(p, o)'
  BY <1>2, <1>3 DEF At, Writing, Idle
<1>5. proc[p].target \in Saved
  BY <1>3, AtSave, TypesSplit
<1>6. \E c : file' = [file EXCEPT ![proc[p].target] = c]
  BY DEF SaveCreate, SaveWrite
<1>7. file \in [Names -> {NoFile, Cut} \cup Binaries \cup FitManifests]
  BY TypesSplit DEF FilesOK
<1>8. \A o \in Outputs \ Saved : file'[o] = file[o]
  BY <1>5, <1>6, <1>7, SavedNames
<1>9. OutputIsWhole'
  BY <1>1, <1>8, WholeKept
<1>10. QED BY <1>1, <1>2, <1>4, <1>9, ElsewhereWrites

LEMMA TempCreateWrites ==
  ASSUME TypeOK, StillAlone, WritesFit, NEW p \in Procs, TempCreate(p)
  PROVE  WritesFit'
<1>1. PICK pc \in {"fill", "write"} : Moved(p, pc, "temp")
  BY TempCreateStep
<1>2. PICK o \in Outputs : o = proc[p].out
  BY Writers, TypesSplit DEF TempCreate
<1>3. proc[p].pc = "create" /\ proc[p].cmd \in {"pack", "rebuild"}
  BY Writers, TypesSplit DEF TempCreate
<1>4. Writing(p, o)' /\ \A x : ~Writing(p, x) /\ (Writing(p, x)' => x = o)
  BY <1>1, <1>2, <1>3 DEF Writing, Moved, Follows
<1>5. OthersStay(p) /\ GoesAlong(p)
  BY TempCreateStep, WritesGoAlong DEF WriteStep
<1>6. temp' = [temp EXCEPT ![o] = Cut] /\ UNCHANGED orphans
  BY <1>2 DEF TempCreate
<1>7. temp'[o] = Cut /\ \A x \in Outputs \ {o} : temp'[x] = temp[x]
  BY <1>6, TypesSplit DEF FilesOK
<1>8. shared \subseteq shared' /\ \A q \in Procs \ {p} : Writing(q, o) => o \in shared'
  BY <1>2 DEF TempCreate, SharedBy
<1>9. OwnTemp(p, o)'
  BY <1>1, <1>7 DEF OwnTemp, Moved, Follows
<1>10. \A q \in Procs \ {p} : \A x : Writing(q, x) => proc'[q].handle = proc[q].handle
  BY <1>5, WritersOnly DEF OthersStay, Stays
<1>11. QED BY <1>4, <1>5, <1>6, <1>7, <1>8, <1>9, <1>10, WritesOn

LEMMA TempFailsWrites ==
  ASSUME TypeOK, WritesFit, NEW p \in Procs, TempFails(p)
  PROVE  WritesFit'
<1>1. OthersStay(p) /\ Moved(p, "remove", proc[p].handle)
  BY TempFailsStep
<1>2. PICK pc \in {"create", "fill", "write", "written", "rename"} : At(p, pc)
  BY DEF TempFails
<1>3. proc[p].pc = pc /\ proc[p].cmd \in {"pack", "rebuild"} /\ proc[p].out \in Outputs
  BY <1>2, Writers, TypesSplit
<1>4. \A x : (Writing(p, x)' => x = proc[p].out) /\ (Writing(p, x) => Writing(p, x)')
  BY <1>1, <1>3 DEF Writing, Moved, Follows
<1>5. UNCHANGED <<temp, orphans>> /\ shared' = SharedBy(p)
  BY DEF TempFails
<1>6. shared \subseteq shared' /\ \A q \in Procs \ {p} : Writing(q, proc[p].out) => proc[p].out \in shared'
  BY <1>5 DEF SharedBy
<1>7. \A x : OwnTemp(p, x)'
  BY <1>1 DEF OwnTemp, Moved, Follows
<1>8. QED BY <1>1, <1>4, <1>5, <1>6, <1>7, WritesKept

LEMMA TempWriteWrites ==
  ASSUME TypeOK, StillAlone, WritesFit, OutputIsWhole, NEW p \in Procs, TempWrite(p)
  PROVE  /\ WritesFit' /\ OutputIsWhole'
         /\ proc[p].alone => UNCHANGED file
<1>1. Moved(p, "written", proc[p].handle)
  BY TempWriteStep
<1>2. PICK o \in Outputs : o = proc[p].out
  BY Writers, TypesSplit DEF TempWrite
<1>3. proc[p].pc = "write" /\ proc[p].cmd \in {"pack", "rebuild"}
  BY Writers, TypesSplit DEF TempWrite
<1>4. Writing(p, o)' /\ Writing(p, o) /\ \A x : Writing(p, x) \/ Writing(p, x)' => x = o
  BY <1>1, <1>2, <1>3 DEF Writing, Moved, Follows
<1>5. OthersStay(p) /\ GoesAlong(p)
  BY TempWriteStep, WritesGoAlong DEF WriteStep
<1>6. UNCHANGED <<orphans, shared>>
  BY DEF TempWrite
<1>7. PICK new : new = Binary(proc[p].plan)
  OBVIOUS
<1>8. /\ file \in [Names -> {NoFile, Cut} \cup Binaries \cup FitManifests]
      /\ temp \in [Outputs -> {NoFile, Cut} \cup Binaries]
  BY TypesSplit DEF FilesOK
<1>9. \/ /\ proc[p].handle = "temp" /\ UNCHANGED file
         /\ \E c \in AfterWrite(temp[o], new) : temp' = [temp EXCEPT ![o] = c]
      \/ /\ proc[p].handle = "file" /\ UNCHANGED temp
         /\ \E c \in AfterWrite(file[o], new) : file' = [file EXCEPT ![o] = c]
      \/ proc[p].handle \notin {"temp", "file"} /\ UNCHANGED <<file, temp>>
  <2>1. CASE proc[p].handle = "temp"
    BY <1>2, <1>7, <2>1 DEF TempWrite
  <2>2. CASE proc[p].handle = "file"
    BY <1>2, <1>7, <2>2 DEF TempWrite
  <2>3. CASE proc[p].handle \notin {"temp", "file"}
    BY <2>3 DEF TempWrite
  <2>4. QED BY <2>1, <2>2, <2>3
<1>10. o \notin shared \/ proc[p].alone => proc[p].handle = "temp" /\ temp[o] = Cut
  <2>1. ASSUME o \notin shared \/ proc[p].alone PROVE OwnTemp(p, o)
    BY <1>4, <2>1 DEF WritesFit, TempIsOwn
  <2>2. QED BY <1>3, <2>1 DEF OwnTemp
<1>11. \A x \in Outputs \ {o} : temp'[x] = temp[x]
  BY <1>8, <1>9
<1>12. \A q \in Procs \ {p} : Writing(q, o) => o \in shared
  BY <1>4 DEF WritesFit, OneWriter
<1>13. ASSUME o \notin shared \/ proc[p].alone
       PROVE  UNCHANGED file /\ temp'[o] = new
  <2>1. proc[p].handle = "temp" /\ temp[o] = Cut
    BY <1>10, <1>13
  <2>2. UNCHANGED file /\ \E c \in AfterWrite(Cut, new) : temp' = [temp EXCEPT ![o] = c]
    BY <1>9, <2>1
  <2>3. QED BY <1>8, <2>2, WriteLeaves
<1>14. o \notin shared' \/ proc'[p].alone => OwnTemp(p, o)'
  <2>1. ASSUME o \notin shared' \/ proc'[p].alone PROVE OwnTemp(p, o)'
    <3>1. o \notin shared \/ proc[p].alone
      BY <1>1, <1>6, <2>1 DEF Moved, Follows
    <3>2. proc'[p].handle = "temp" /\ proc'[p].plan = proc[p].plan /\ proc'[p].pc = "written"
      BY <1>1, <1>10, <3>1 DEF Moved, Follows
    <3>3. temp'[o] = Binary(proc'[p].plan)
      BY <1>7, <1>13, <3>1, <3>2
    <3>4. QED BY <3>2, <3>3 DEF OwnTemp
  <2>2. QED BY <2>1
<1>15. \A q \in Procs \ {p} : \A x : Writing(q, x) => proc'[q].handle = proc[q].handle
  BY <1>5, WritersOnly DEF OthersStay, Stays
<1>16. WritesFit'
  BY <1>4, <1>5, <1>6, <1>11, <1>12, <1>14, <1>15, WritesOn
<1>17. \A x \in Outputs \ Saved : file'[x] = Cut => file[x] = Cut \/ x \in shared
  <2>1. \A x \in Outputs : file'[x] = file[x] \/ x = o
    BY <1>8, <1>9, SavedNames
  <2>2. QED BY <1>13, <2>1
<1>18. OutputIsWhole'
  BY <1>6, <1>17, WholeKept
<1>19. QED BY <1>13, <1>16, <1>18

LEMMA TempRenameWrites ==
  ASSUME TypeOK, StillAlone, WritesFit, OutputIsWhole, NEW p \in Procs, TempRename(p)
  PROVE  /\ WritesFit' /\ OutputIsWhole'
         /\ proc[p].alone => /\ temp[proc[p].out] = Binary(proc[p].plan)
                             /\ file' = [file EXCEPT ![proc[p].out] = Binary(proc[p].plan)]
<1>1. PICK o \in Outputs : o = proc[p].out
  BY Writers, TypesSplit DEF TempRename
<1>2. proc[p].pc = "rename" /\ proc[p].cmd \in {"pack", "rebuild"} /\ proc[p].plan \in Bytes
  BY Writers, TypesSplit DEF TempRename
<1>3. Writing(p, o) /\ \A x : Writing(p, x) => x = o
  BY <1>1, <1>2 DEF Writing
<1>4. UNCHANGED shared /\ GoesAlong(p)
  BY WritesGoAlong DEF TempRename, WriteStep
<1>5. /\ file \in [Names -> {NoFile, Cut} \cup Binaries \cup FitManifests]
      /\ temp \in [Outputs -> {NoFile, Cut} \cup Binaries]
  BY TypesSplit DEF FilesOK
<1>6. ASSUME o \notin shared \/ proc[p].alone PROVE temp[o] = Binary(proc[p].plan)
  <2>1. OwnTemp(p, o)
    BY <1>3, <1>6 DEF WritesFit, TempIsOwn
  <2>2. QED BY <1>2, <2>1 DEF OwnTemp
<1>7. CASE temp[o] = NoFile
  <2>1. OthersStay(p) /\ Moved(p, "remove", proc[p].handle) /\ UNCHANGED <<file, temp, orphans>>
    BY <1>1, <1>7, TempRenameStep DEF TempRename
  <2>2. \A x : Writing(p, x)' <=> x = o
    BY <1>1, <1>2, <2>1 DEF Writing, Moved, Follows
  <2>3. \A x : OwnTemp(p, x)'
    BY <2>1 DEF OwnTemp, Moved, Follows
  <2>4. WritesFit'
    BY <1>3, <1>4, <2>1, <2>2, <2>3, WritesKept
  <2>5. OutputIsWhole'
    BY <1>4, <2>1, WholeKept
  <2>6. ~proc[p].alone
    BY <1>6, <1>7, FileKinds
  <2>7. QED BY <2>4, <2>5, <2>6
<1>8. CASE temp[o] # NoFile
  <2>1. OthersOn(p, o) /\ Moved(p, "renamed", "none")
    BY <1>1, <1>8, TempRenameStep
  <2>2. /\ file' = [file EXCEPT ![o] = temp[o]] /\ temp' = [temp EXCEPT ![o] = NoFile]
        /\ orphans' = orphans \ {o}
    BY <1>1, <1>8 DEF TempRename
  <2>3. \A x : ~Writing(p, x)'
    BY <2>1 DEF Writing, Moved, Follows
  <2>4. temp'[o] = NoFile /\ \A x \in Outputs \ {o} : temp'[x] = temp[x]
    BY <1>5, <2>2
  <2>5. \A q \in Procs \ {p} : \A x \in Outputs \ {o} : Writing(q, x) => proc'[q].handle = proc[q].handle
    BY <2>1 DEF OthersOn, Writing
  <2>6. \A q \in Procs \ {p} : Writing(q, o) => o \in shared
    BY <1>3 DEF WritesFit, OneWriter
  <2>7. WritesFit'
    BY <1>3, <1>4, <2>2, <2>3, <2>4, <2>5, <2>6, WritesOn
  <2>8. \A x \in Outputs \ Saved : file'[x] = Cut => file[x] = Cut \/ x \in shared
    <3>1. \A x \in Outputs : file'[x] = IF x = o THEN temp[o] ELSE file[x]
      BY <1>5, <2>2, SavedNames
    <3>2. QED BY <1>6, <3>1, FileKinds
  <2>9. OutputIsWhole'
    BY <1>4, <2>8, WholeKept
  <2>10. QED BY <1>1, <1>6, <2>2, <2>7, <2>9
<1>9. QED BY <1>7, <1>8

LEMMA TempRemoveWrites ==
  ASSUME TypeOK, StillAlone, WritesFit, NEW p \in Procs, TempRemove(p)
  PROVE  WritesFit'
<1>1. PICK o \in Outputs : o = proc[p].out
  BY Writers, TypesSplit DEF TempRemove
<1>2. proc[p].pc = "remove" /\ proc[p].cmd \in {"pack", "rebuild"}
  BY Writers, TypesSplit DEF TempRemove
<1>3. Writing(p, o) /\ \A x : Writing(p, x) => x = o
  BY <1>1, <1>2 DEF Writing
<1>4. UNCHANGED shared /\ GoesAlong(p)
  BY WritesGoAlong DEF TempRemove, WriteStep
<1>5. proc'[p] = Idle
  BY TempRemoveStep
<1>6. \A x : ~Writing(p, x)'
  BY <1>5 DEF Writing, Idle
<1>7. CASE Removed(p) /\ OthersOn(p, o)
  <2>1. temp'[o] = NoFile /\ (\A x \in Outputs \ {o} : temp'[x] = temp[x]) /\ orphans' = orphans \ {o}
    BY <1>1, <1>7, TypesSplit DEF Removed, FilesOK
  <2>2. \A q \in Procs \ {p} : \A x \in Outputs \ {o} : Writing(q, x) => proc'[q].handle = proc[q].handle
    BY <1>7 DEF OthersOn, Writing
  <2>3. \A q \in Procs \ {p} : Writing(q, o) => o \in shared
    BY <1>3 DEF WritesFit, OneWriter
  <2>4. QED BY <1>3, <1>4, <1>6, <2>1, <2>2, <2>3, WritesOn
<1>8. CASE NotRemoved(p) /\ OthersStay(p)
  <2>1. UNCHANGED temp /\ orphans' = orphans \cup {o}
    BY <1>1, <1>8 DEF NotRemoved
  <2>2. QED BY <1>3, <1>4, <1>6, <1>8, <2>1, WritesKept
<1>9. QED BY <1>1, <1>7, <1>8, TempRemoveStep

(* A command that panics or is killed leaves its temporary file behind, as   *)
(* an orphan.                                                               *)
LEMMA AbandonWrites ==
  ASSUME TypeOK, WritesFit, NEW p \in Procs, Abandon(p)
  PROVE  WritesFit'
<1>1. proc'[p] = Idle /\ OthersStay(p)
  BY AbandonStep
<1>2. UNCHANGED <<temp, shared>> /\ orphans \subseteq orphans'
  BY DEF Abandon
<1>3. \A x : ~Writing(p, x)'
  BY <1>1 DEF Writing, Idle
<1>4. ASSUME NEW o \in Outputs, Writing(p, o), temp[o] # NoFile PROVE o \in orphans'
  <2>1. proc[p].out = o
    BY <1>4 DEF Writing
  <2>2. QED BY <1>4, <2>1 DEF Abandon
<1>5. QED BY <1>1, <1>2, <1>3, <1>4, WritesKept

LEMMA WritesStep ==
  ASSUME TypeOK, StillAlone, WritesFit, OutputIsWhole, [Next]_vars
  PROVE  WritesFit' /\ OutputIsWhole'
<1>1. CASE UNCHANGED <<temp, proc, orphans, shared>> /\ \A o \in Outputs : file'[o] = Cut => file[o] = Cut
  <2>1. WritesFit'
    BY <1>1 DEF WritesFit, OneWriter, TempIsOwn, TempIsOwned, OwnTemp, Writing
  <2>2. OutputIsWhole'
    BY <1>1, WholeKept
  <2>3. QED BY <2>1, <2>2
<1>2. CASE UNCHANGED vars
  BY <1>1, <1>2 DEF vars, fileVars
<1>3. ASSUME NEW p \in Procs, WriteStep(p) PROVE WritesFit' /\ OutputIsWhole'
  <2>1. CASE SaveCreate(p) \/ SaveWrite(p)
    BY <2>1, SavesWrite
  <2>2. CASE SaveFails(p)
    BY <2>2, EndsElsewhere, ElsewhereWrites, WholeKept DEF Elsewhere
  <2>3. CASE TempCreate(p)
    <3>1. OutputIsWhole'
      BY <2>3 DEF TempCreate, SharedBy, OutputIsWhole
    <3>2. QED BY <2>3, <3>1, TempCreateWrites
  <2>4. CASE TempFails(p)
    <3>1. OutputIsWhole'
      BY <2>4 DEF TempFails, SharedBy, OutputIsWhole
    <3>2. QED BY <2>4, <3>1, TempFailsWrites
  <2>5. CASE TempWrite(p)
    BY <2>5, TempWriteWrites
  <2>6. CASE TempRename(p)
    BY <2>6, TempRenameWrites
  <2>7. CASE TempRemove(p)
    BY <2>7, TempRemoveWrites, WholeKept DEF TempRemove
  <2>8. CASE TempPanics(p) \/ Kill(p)
    <3>1. Abandon(p)
      BY <2>8 DEF TempPanics, Kill
    <3>2. QED BY <3>1, AbandonWrites, WholeKept DEF Abandon
  <2>9. QED BY <1>3, <2>1, <2>2, <2>3, <2>4, <2>5, <2>6, <2>7, <2>8 DEF WriteStep
<1>4. ASSUME NEW p \in Procs, CliStep(p) \/ UnpackStep(p) PROVE WritesFit' /\ OutputIsWhole'
  <2>1. CASE UNCHANGED <<file, temp, orphans, shared, dir>> /\ \E c \in Running : StartsAs(p, c)
    BY <2>1, StartsWriting, WholeKept
  <2>2. CASE Elsewhere(p)
    BY <2>2, ElsewhereWrites, WholeKept DEF Elsewhere
  <2>3. CASE PackVerify(p) \/ RebuildFill(p) \/ RebuildCheck(p)
    BY <2>3, ChecksWrite, ChecksGoAlong, WholeKept
  <2>4. QED BY <1>4, <2>1, <2>2, <2>3, StepKinds
<1>5. ASSUME NEW s \in Streams, NEW c \in Contents, Edit(s, c) \/ Meddle(s, c)
      PROVE  WritesFit' /\ OutputIsWhole'
  BY <1>1, <1>5 DEF Edit, Meddle, fileVars
<1>6. ASSUME NEW v \in Versions, Update(v) PROVE WritesFit' /\ OutputIsWhole'
  <2>1. file' = [file EXCEPT !["input"] = Binary(v)] /\ UNCHANGED <<temp, proc, orphans, shared>>
    BY <1>6 DEF Update
  <2>2. \A o \in Outputs : file'[o] = Cut => file[o] = Cut
    BY <2>1, FileKinds, SavedNames, TypesSplit DEF FilesOK
  <2>3. QED BY <1>1, <2>1, <2>2
<1>7. QED BY <1>2, <1>3, <1>4, <1>5, <1>6 DEF Next

-----------------------------------------------------------------------------
(* PacksWhatIsThere.                                                        *)

PackIsThere(p) ==
  Runs(p, "pack") /\ proc[p].alone /\ proc[p].pc \in {"create", "write", "written", "rename"} =>
    /\ Input = Binary(proc[p].data)
    /\ \A s \in Parts :
         IF s \in proc[p].man.streams /\ dir[s].is = "content"
         THEN TakesEdit(p, s)
         ELSE proc[p].plan[s] = proc[p].data[s] \/ (s \in Streams /\ dir[s] = Cut)

(* When p takes a step, the others are not alone.                           *)
LEMMA OthersPackNothing ==
  ASSUME StillAlone, NEW p \in Procs, GoesAlong(p), PackIsThere(p)'
  PROVE  PacksWhatIsThere'
<1>1. ASSUME NEW q \in Procs \ {p}, Runs(q, "pack")' PROVE ~proc'[q].alone
  <2>1. proc[q] # Idle
    BY <1>1 DEF GoesAlong, Keeps, Runs, Idle
  <2>2. ~proc[q].alone
    BY <2>1 DEF StillAlone, GoesAlong
  <2>3. QED BY <2>1, <2>2 DEF GoesAlong
<1>2. \A q \in Procs : PackIsThere(q)'
  BY <1>1 DEF PackIsThere
<1>3. QED BY <1>2 DEF PacksWhatIsThere, PackIsThere

(* The pack goes on with the plan it made.                                  *)
LEMMA PackGoesOn ==
  ASSUME PacksWhatIsThere, NEW p \in Procs, NEW pc, NEW h, Moved(p, pc, h), UNCHANGED <<file, dir>>,
         pc # "rename", pc \in {"write", "written"} => proc[p].pc \in {"create", "write", "written"}, pc # "create"
  PROVE  PackIsThere(p)'
<1> SUFFICES ASSUME Runs(p, "pack")', proc'[p].alone, proc'[p].pc \in {"write", "written"}
             PROVE  /\ Input' = Binary(proc'[p].data)
                    /\ \A s \in Parts :
                         IF s \in proc'[p].man.streams /\ dir'[s].is = "content"
                         THEN TakesEdit(p, s)'
                         ELSE proc'[p].plan[s] = proc'[p].data[s] \/ (s \in Streams /\ dir'[s] = Cut)
  BY DEF PackIsThere, Moved, Follows
<1>1. /\ Input = Binary(proc[p].data)
      /\ \A s \in Parts :
           IF s \in proc[p].man.streams /\ dir[s].is = "content"
           THEN TakesEdit(p, s)
           ELSE proc[p].plan[s] = proc[p].data[s] \/ (s \in Streams /\ dir[s] = Cut)
  BY DEF PacksWhatIsThere, Runs, Moved, Follows
<1>2. proc[p].pc # "rename" /\ proc'[p].pc # "rename"
  BY DEF Moved, Follows
<1>3. \A s \in Parts : TakesEdit(p, s) => TakesEdit(p, s)'
  BY <1>2 DEF TakesEdit, Moved, Follows
<1>4. QED BY <1>1, <1>3 DEF Moved, Follows, Input

LEMMA PackVerifies ==
  ASSUME TypeOK, WritesFit, PacksWhatIsThere, NEW p \in Procs, PackVerify(p)
  PROVE  PackIsThere(p)'
<1>1. UNCHANGED <<file, dir>>
  BY ChecksGoAlong DEF dirVars
<1>2. /\ proc[p].out \in Outputs /\ proc[p].cmd = "pack" /\ proc[p].pc = "written"
      /\ Moved(p, "remove", proc[p].handle) \/ \E b \in Bytes : Checked(p, b)
  BY PackVerifyStep
<1>3. CASE Moved(p, "remove", proc[p].handle)
  BY <1>3 DEF Moved, Follows, PackIsThere
<1>4. ASSUME NEW b \in Bytes, Checked(p, b), proc[p].alone PROVE PackIsThere(p)'
  <2>1. Writing(p, proc[p].out)
    BY <1>2 DEF Writing
  <2>2. b = proc[p].plan
    <3>1. OwnTemp(p, proc[p].out)
      BY <1>2, <1>4, <2>1 DEF WritesFit, TempIsOwn
    <3>2. temp[proc[p].out] = Binary(proc[p].plan) /\ temp[proc[p].out] = Binary(b)
      BY <1>2, <1>4, <3>1 DEF OwnTemp, Checked
    <3>3. QED BY <3>2 DEF Binary
  <2>3. /\ Input = Binary(proc[p].data)
        /\ \A s \in Parts :
             IF s \in proc[p].man.streams /\ dir[s].is = "content"
             THEN TakesEdit(p, s)
             ELSE proc[p].plan[s] = proc[p].data[s] \/ (s \in Streams /\ dir[s] = Cut)
    BY <1>2, <1>4 DEF PacksWhatIsThere, Runs
  <2>4. ASSUME NEW s \in Parts, s \in proc[p].man.streams, dir[s].is = "content"
        PROVE  proc[p].plan[s] = dir[s].data
    <3>1. CASE proc[p].plan[s] = proc[p].data[s] /\ dir[s] = Content(proc[p].man.source[s])
      <4>1. proc[p].plan[s] = proc[p].man.source[s]
        BY <1>4, <2>2, <2>4, <3>1 DEF Checked, Verified
      <4>2. QED BY <3>1, <4>1 DEF Content
    <3>2. QED BY <2>3, <2>4, <3>1 DEF TakesEdit
  <2>5. /\ proc'[p].data = proc[p].data /\ proc'[p].plan = proc[p].plan
        /\ proc'[p].man.streams = proc[p].man.streams
    BY <1>4 DEF Checked
  <2>6. \A s \in Parts :
          IF s \in proc'[p].man.streams /\ dir'[s].is = "content"
          THEN TakesEdit(p, s)'
          ELSE proc'[p].plan[s] = proc'[p].data[s] \/ (s \in Streams /\ dir'[s] = Cut)
    BY <1>1, <2>3, <2>4, <2>5 DEF TakesEdit
  <2>7. QED BY <1>1, <2>3, <2>5, <2>6 DEF PackIsThere, Input
<1>5. CASE ~proc[p].alone
  BY <1>2, <1>3, <1>5 DEF Checked, PackIsThere
<1>6. QED BY <1>2, <1>3, <1>4, <1>5

LEMMA PackStarts ==
  ASSUME TypeOK, NEW p \in Procs, NEW c \in Running, StartsAs(p, c), UNCHANGED <<file, dir>>
  PROVE  PacksWhatIsThere'
<1>1. PackIsThere(p)'
  <2>1. CASE c.cmd # "pack"
    BY <2>1 DEF PackIsThere, Runs, StartsAs, Begins
  <2>2. CASE c.cmd = "pack"
    <3>1. /\ Input = Binary(c.data) /\ c.data \in Bytes /\ c.man \in FitManifests
          /\ c.plan = Planned(c.man, c.data) /\ c.pc = "create" /\ proc'[p] = c
      BY <2>2 DEF StartsAs, Begins
    <3>2. \A s \in Parts :
            IF s \in c.man.streams /\ dir[s].is = "content"
            THEN \/ c.plan[s] = dir[s].data
                 \/ (c.plan[s] = c.data[s] /\ dir[s] = Content(c.man.source[s]))
            ELSE c.plan[s] = c.data[s] \/ (s \in Streams /\ dir[s] = Cut)
      BY <3>1, Plans, FitFields, TypesSplit
    <3>3. QED BY <3>1, <3>2 DEF PackIsThere, TakesEdit, Input
  <2>3. QED BY <2>1, <2>2
<1>2. ASSUME NEW q \in Procs \ {p} PROVE PackIsThere(q)'
  BY DEF StartsAs, Begins, OthersStay, Stays, Keeps, PackIsThere, Runs, Idle
<1>3. \A q \in Procs : PackIsThere(q)'
  BY <1>1, <1>2
<1>4. QED BY <1>3 DEF PacksWhatIsThere, PackIsThere

LEMMA PackWriteStep ==
  ASSUME TypeOK, StillAlone, WritesFit, OutputIsWhole, PacksWhatIsThere, NEW p \in Procs, WriteStep(p),
         UNCHANGED dir
  PROVE  PacksWhatIsThere'
<1>0. GoesAlong(p)
  BY WritesGoAlong
<1>1. ASSUME proc'[p].pc \in {"saving", "renamed", "remove"} \/ proc'[p] = Idle PROVE PacksWhatIsThere'
  <2>1. PackIsThere(p)'
    BY <1>1 DEF PackIsThere, Runs, Idle
  <2>2. QED BY <1>0, <2>1, OthersPackNothing
<1>2. CASE SaveCreate(p) \/ SaveWrite(p)
  BY <1>1, <1>2, SaveCreateStep, SaveWriteStep DEF Moved, Follows
<1>3. CASE SaveFails(p) \/ TempPanics(p) \/ Kill(p)
  <2>1. proc'[p] = Idle
    <3>1. CASE SaveFails(p)
      BY <3>1, EndStep, TypesSplit DEF SaveFails, FilesOK
    <3>2. CASE TempPanics(p) \/ Kill(p)
      BY <3>2, AbandonStep DEF TempPanics, Kill
    <3>3. QED BY <1>3, <3>1, <3>2
  <2>2. QED BY <1>1, <2>1
<1>4. CASE TempFails(p)
  BY <1>1, <1>4, TempFailsStep DEF Moved, Follows
<1>5. CASE TempRename(p) \/ TempRemove(p)
  BY <1>1, <1>5, TempRenameStep, TempRemoveStep DEF Moved, Follows
<1>6. CASE TempCreate(p)
  <2>1. PICK pc \in {"fill", "write"} : Moved(p, pc, "temp")
    BY <1>6, TempCreateStep
  <2>2. proc[p].pc = "create" /\ UNCHANGED file
    BY <1>6 DEF TempCreate, At
  <2>3. PackIsThere(p)'
    BY <2>1, <2>2, PackGoesOn
  <2>4. QED BY <1>0, <2>3, OthersPackNothing
<1>7. CASE TempWrite(p)
  <2>1. Moved(p, "written", proc[p].handle)
    BY <1>7, TempWriteStep
  <2>2. proc[p].pc = "write"
    BY <1>7 DEF TempWrite, At
  <2>3. CASE proc[p].alone
    <3>1. PackIsThere(p)'
      BY <1>7, <2>1, <2>2, <2>3, TempWriteWrites, PackGoesOn
    <3>2. QED BY <1>0, <3>1, OthersPackNothing
  <2>4. CASE ~proc[p].alone
    <3>1. PackIsThere(p)'
      BY <2>1, <2>4 DEF PackIsThere, Moved, Follows
    <3>2. QED BY <1>0, <3>1, OthersPackNothing
  <2>5. QED BY <2>3, <2>4
<1>8. QED BY <1>2, <1>3, <1>4, <1>5, <1>6, <1>7 DEF WriteStep

LEMMA PacksStep ==
  ASSUME TypeOK, StillAlone, WritesFit, OutputIsWhole, PacksWhatIsThere, [Next]_vars
  PROVE  PacksWhatIsThere'
<1>1. CASE UNCHANGED vars
  BY <1>1 DEF vars, fileVars, dirVars, PacksWhatIsThere, Runs, TakesEdit, Input
<1>2. ASSUME NEW p \in Procs, WriteStep(p), UNCHANGED <<dirVars, unpackVars>> PROVE PacksWhatIsThere'
  BY <1>2, PackWriteStep DEF dirVars
<1>3. ASSUME NEW p \in Procs, CliStep(p) \/ UnpackStep(p) PROVE PacksWhatIsThere'
  <2>1. CASE UNCHANGED <<file, temp, orphans, shared, dir>> /\ \E c \in Running : StartsAs(p, c)
    BY <2>1, PackStarts
  <2>2. CASE Elsewhere(p)
    <3>1. PackIsThere(p)' /\ GoesAlong(p)
      BY <2>2 DEF Elsewhere, PackIsThere
    <3>2. QED BY <3>1, OthersPackNothing
  <2>3. CASE PackVerify(p)
    BY <2>3, PackVerifies, ChecksGoAlong, OthersPackNothing
  <2>4. CASE RebuildFill(p) \/ RebuildCheck(p)
    <3>1. PackIsThere(p)' /\ GoesAlong(p)
      <4>1. proc'[p].cmd = "rebuild"
        BY <2>4, RebuildFillStep, RebuildCheckStep DEF Moved, Follows, Filled, RebuildFill, RebuildCheck
      <4>2. QED BY <2>4, <4>1, ChecksGoAlong DEF PackIsThere, Runs
    <3>2. QED BY <3>1, OthersPackNothing
  <2>5. QED BY <1>3, <2>1, <2>2, <2>3, <2>4, StepKinds
<1>4. ASSUME Quiet, UNCHANGED proc PROVE PacksWhatIsThere'
  BY <1>4 DEF Quiet, PacksWhatIsThere, Runs, Idle
<1>5. ASSUME NEW s \in Streams, NEW c \in Contents, Edit(s, c) \/ Meddle(s, c) PROVE PacksWhatIsThere'
  BY <1>4, <1>5 DEF Edit, Meddle, fileVars
<1>6. ASSUME NEW v \in Versions, Update(v) PROVE PacksWhatIsThere'
  BY <1>4, <1>6 DEF Update
<1>7. QED BY <1>1, <1>2, <1>3, <1>5, <1>6 DEF Next

(* A pack renames its output in TempRename only.                            *)
LEMMA OnlyRenames ==
  ASSUME TypeOK, [Next]_vars, NEW p \in Procs, Renames(p, "pack")
  PROVE  TempRename(p) /\ UNCHANGED dir
<1>1. /\ proc[p].cmd = "pack" /\ proc[p].pc = "rename" /\ proc[p] # Idle
      /\ proc'[p].cmd = "pack" /\ proc'[p].pc = "renamed" /\ proc'[p] # Idle
  BY DEF Renames, Idle
<1>2. \E o : Writing(p, o)
  BY <1>1 DEF Writing
<1>3. ASSUME NEW q \in Procs, q # p
      PROVE  ~GoesAlong(q) /\ \A c : ~StartsAs(q, c)
  BY <1>1, <1>3 DEF GoesAlong, Keeps, StartsAs, Begins, OthersStay, Stays
<1>4. ASSUME NEW q \in Procs, WriteStep(q), UNCHANGED <<dirVars, unpackVars>>
      PROVE  TempRename(p) /\ UNCHANGED dir
  <2>1. q = p /\ UNCHANGED dir
    BY <1>3, <1>4, WritesGoAlong DEF dirVars
  <2>2. ~SaveCreate(p) /\ ~SaveWrite(p) /\ ~SaveFails(p)
    BY <1>1 DEF SaveCreate, SaveWrite, SaveFails, At
  <2>3. ~TempCreate(p) /\ ~TempWrite(p) /\ ~TempRemove(p)
    BY <1>1 DEF TempCreate, TempWrite, TempRemove, At
  <2>4. ~TempFails(p)
    BY <1>1, TempFailsStep DEF Moved, Follows
  <2>5. ~TempPanics(p) /\ ~Kill(p)
    BY <1>1, AbandonStep DEF TempPanics, Kill
  <2>6. QED BY <1>4, <2>1, <2>2, <2>3, <2>4, <2>5 DEF WriteStep
<1>5. ASSUME NEW q \in Procs, CliStep(q) \/ UnpackStep(q) PROVE FALSE
  <2>1. CASE \E c \in Running : StartsAs(q, c)
    BY <1>1, <1>3, <2>1 DEF StartsAs, Begins
  <2>2. CASE Elsewhere(q)
    BY <1>2, <1>3, <2>2 DEF Elsewhere
  <2>3. CASE PackVerify(q) \/ RebuildFill(q) \/ RebuildCheck(q)
    <3>1. q = p
      BY <1>3, <2>3, ChecksGoAlong
    <3>2. QED BY <1>1, <2>3, <3>1 DEF PackVerify, RebuildFill, RebuildCheck, At
  <2>4. QED BY <1>5, <2>1, <2>2, <2>3, StepKinds
<1>6. ASSUME UNCHANGED proc PROVE FALSE
  BY <1>1, <1>6
<1>7. ASSUME NEW s \in Streams, NEW c \in Contents, Edit(s, c) \/ Meddle(s, c) PROVE FALSE
  BY <1>6, <1>7 DEF Edit, Meddle, fileVars
<1>8. ASSUME NEW v \in Versions, Update(v) PROVE FALSE
  BY <1>6, <1>8 DEF Update
<1>9. CASE UNCHANGED vars
  BY <1>6, <1>9 DEF vars, fileVars
<1>10. QED BY <1>4, <1>5, <1>7, <1>8, <1>9 DEF Next

KeepsEveryEdit(p) ==
  LET packed == file'[proc[p].out].bytes IN
  \A s \in Parts :
    IF s \in proc[p].man.streams /\ dir[s].is = "content"
    THEN packed[s] = dir[s].data
    ELSE packed[s] = Input.bytes[s] \/ (s \in Streams /\ dir[s] = Cut)

LEMMA KeepsStep ==
  ASSUME TypeOK, StillAlone, WritesFit, OutputIsWhole, PacksWhatIsThere, [Next]_vars,
         NEW p \in Procs, Renames(p, "pack"), proc[p].alone
  PROVE  KeepsEveryEdit(p)
<1>1. TempRename(p) /\ Runs(p, "pack") /\ proc[p].pc = "rename"
  BY OnlyRenames DEF Renames, Runs
<1>2. file' = [file EXCEPT ![proc[p].out] = Binary(proc[p].plan)]
  BY <1>1, TempRenameWrites
<1>3. proc[p].out \in Names /\ DOMAIN file = Names
  BY <1>1, Writers, TypesSplit, SavedNames DEF TempRename, FilesOK
<1>4. file'[proc[p].out].bytes = proc[p].plan
  BY <1>2, <1>3 DEF Binary
<1>5. Input.bytes = proc[p].data
  BY <1>1 DEF PacksWhatIsThere, Binary
<1>6. \A s \in Parts :
        IF s \in proc[p].man.streams /\ dir[s].is = "content"
        THEN proc[p].plan[s] = dir[s].data
        ELSE proc[p].plan[s] = proc[p].data[s] \/ (s \in Streams /\ dir[s] = Cut)
  BY <1>1 DEF PacksWhatIsThere, TakesEdit
<1>7. QED BY <1>4, <1>5, <1>6 DEF KeepsEveryEdit

-----------------------------------------------------------------------------
(* DamageFits: its parts, and the histories it speaks of, which only grow.  *)

Unspoilt == ~(meddled /\ "input" \in shared)
Grow == (meddled => meddled') /\ shared \subseteq shared' /\ torn \subseteq torn'

ProcIsClean(p) ==
  /\ Runs(p, "pack") => OnlyTorn(proc[p].plan)
  /\ Runs(p, "rebuild") /\ proc[p].pc \in {"write", "written", "rename"} =>
       proc[p].man.source \in Clean /\ (~meddled => proc[p].plan = proc[p].man.source)
  /\ proc[p] # Idle /\ ~Runs(p, "rebuild") => proc[p].data \in Clean

ProcsAreClean == \A p \in Procs : ProcIsClean(p)
DirIsClean == \A s \in Streams : dir[s] # Content(Damage)
IndexIsClean == index.is = "index" => index.source \in Clean
InputIsClean == Input.is = "binary" => Input.bytes \in Clean
FileIsClean(o) == file[o].is = "binary" /\ ~(meddled /\ o \in shared) => OnlyTorn(file[o].bytes)
TempIsClean(o) ==
  temp[o].is = "binary" /\ ~meddled =>
    IF o = "input" THEN temp[o].bytes \in Clean ELSE OnlyTorn(temp[o].bytes)
OutputsAreClean == InputIsClean /\ \A o \in Outputs : FileIsClean(o) /\ TempIsClean(o)

AllClean == DirIsClean /\ IndexIsClean /\ ProcsAreClean /\ OutputsAreClean

LEMMA DamageSplit == DamageFits <=> (Unspoilt => AllClean)
  BY DEF DamageFits, Unspoilt, AllClean, SourcesAreClean, PlansAreClean, WrittenIsClean, ProcsAreClean,
         ProcIsClean, DirIsClean, IndexIsClean, InputIsClean, FileIsClean, TempIsClean, OutputsAreClean

LEMMA CleanBytes ==
  ASSUME NEW b \in Clean
  PROVE  OnlyTorn(b) /\ OnlyTorn(b)' /\ \A s \in Parts : b[s] # Damage /\ b[s] \in Contents
<1>1. \A s \in Parts : b[s] \in Contents
  BY DEF Clean
<1>2. QED BY <1>1, FilesAssumption DEF OnlyTorn

LEMMA HistoriesGrow ==
  ASSUME TypeOK, [Next]_vars
  PROVE  Grow
<1>1. CASE UNCHANGED vars
  BY <1>1 DEF vars, fileVars, dirVars, unpackVars, Grow
<1>2. ASSUME NEW p \in Procs, WriteStep(p), UNCHANGED <<dirVars, unpackVars>> PROVE Grow
  <2>1. shared \subseteq shared'
    BY <1>2 DEF WriteStep, SaveCreate, SaveWrite, SaveFails, TempCreate, TempFails, TempWrite, TempRename,
                TempRemove, TempPanics, Kill, Abandon, SharedBy
  <2>2. QED BY <1>2, <2>1 DEF dirVars, unpackVars, Grow
<1>3. ASSUME NEW p \in Procs, CliStep(p), UNCHANGED unpackVars PROVE Grow
  <2>1. shared \subseteq shared' /\ torn \subseteq torn'
    <3>1. CASE Scan(p) \/ Extract(p) \/ ApplyFields(p) \/ Try(p)
      BY <3>1 DEF Scan, Extract, ApplyFields, Try, dirVars
    <3>2. CASE Pack(p)
      BY <3>2 DEF Pack
    <3>3. CASE \E s \in Streams : ExtractOpen(p, s) \/ ExtractWrite(p, s) \/ ExtractFails(p, s)
      BY <3>3 DEF ExtractOpen, ExtractWrite, ExtractFails, dirVars
    <3>4. CASE ExtractEnd(p) \/ PackVerify(p) \/ PackEnd(p)
      BY <3>4 DEF ExtractEnd, PackVerify, PackEnd, dirVars
    <3>5. QED BY <1>3, <3>1, <3>2, <3>3, <3>4 DEF CliStep
  <2>2. QED BY <1>3, <2>1 DEF unpackVars, Grow
<1>4. ASSUME NEW p \in Procs, UnpackStep(p) PROVE Grow
  <2>1. CASE UnpackWorks(p)
    <3>1. UNCHANGED <<shared, torn>>
      BY <2>1, UnpackElsewhere DEF dirVars
    <3>2. meddled => meddled'
      <4>1. CASE UnpackMkdir(p)
        BY <4>1 DEF UnpackMkdir
      <4>2. CASE UnpackGapsOpen(p) \/ UnpackGapsWrite(p) \/ IndexOpen(p) \/ IndexWrite(p) \/ UnpackFails(p)
        BY <4>2 DEF UnpackGapsOpen, UnpackGapsWrite, IndexOpen, IndexWrite, UnpackFails, unpackVars
      <4>3. CASE \/ \E s \in Streams : ContentsOpen(p, s) \/ ContentsWrite(p, s)
                 \/ \E s \in Corrected : ReconOpen(p, s) \/ ReconWrite(p, s)
        BY <4>3 DEF ContentsOpen, ContentsWrite, ReconOpen, ReconWrite
      <4>4. QED BY <2>1, <4>1, <4>2, <4>3 DEF UnpackWorks
    <3>3. QED BY <3>1, <3>2 DEF Grow
  <2>2. CASE UnpackStart(p) \/ RebuildStart(p) \/ RebuildFill(p) \/ RebuildCheck(p) \/ RebuildEnd(p)
    BY <2>2 DEF UnpackStart, RebuildStart, RebuildFill, RebuildCheck, RebuildEnd, Apart, dirVars, unpackVars, Grow
  <2>3. QED BY <1>4, <2>1, <2>2 DEF UnpackStep, UnpackWorks
<1>5. ASSUME NEW s \in Streams, NEW c \in Contents, Edit(s, c), UNCHANGED unpackVars PROVE Grow
  BY <1>5 DEF Edit, fileVars, unpackVars, Grow
<1>6. ASSUME NEW s \in Streams, NEW c \in Contents, Meddle(s, c) PROVE Grow
  BY <1>6 DEF Meddle, fileVars, Grow
<1>7. ASSUME NEW v \in Versions, Update(v), UNCHANGED unpackVars PROVE Grow
  BY <1>7 DEF Update, unpackVars, Grow
<1>8. QED BY <1>1, <1>2, <1>3, <1>4, <1>5, <1>6, <1>7 DEF Next

(* A step that writes no bytes.                                             *)
LEMMA OutputsStayClean ==
  ASSUME OutputsAreClean, Grow, NEW N, N = Names, Outputs \subseteq N, "input" \in N,
         \A n \in N : file'[n].is = "binary" => file'[n] = file[n],
         \A o \in Outputs : temp'[o].is = "binary" => temp'[o] = temp[o]
  PROVE  OutputsAreClean'
<1>1. InputIsClean'
  BY DEF OutputsAreClean, InputIsClean, Input
<1>2. ASSUME NEW o \in Outputs PROVE FileIsClean(o)'
  <2> SUFFICES ASSUME file'[o].is = "binary", ~(meddled' /\ o \in shared')
               PROVE  OnlyTorn(file[o].bytes)'
    BY DEF FileIsClean
  <2>1. file'[o] = file[o] /\ ~(meddled /\ o \in shared)
    BY DEF Grow
  <2>2. OnlyTorn(file[o].bytes)
    BY <2>1 DEF OutputsAreClean, FileIsClean
  <2>3. QED BY <2>1, <2>2 DEF Grow, OnlyTorn
<1>3. ASSUME NEW o \in Outputs PROVE TempIsClean(o)'
  <2> SUFFICES ASSUME temp'[o].is = "binary", ~meddled'
               PROVE  IF o = "input" THEN temp'[o].bytes \in Clean ELSE OnlyTorn(temp[o].bytes)'
    BY DEF TempIsClean
  <2>1. temp'[o] = temp[o] /\ ~meddled
    BY DEF Grow
  <2>2. IF o = "input" THEN temp[o].bytes \in Clean ELSE OnlyTorn(temp[o].bytes)
    BY <2>1 DEF OutputsAreClean, TempIsClean
  <2>3. QED BY <2>1, <2>2 DEF Grow, OnlyTorn
<1>4. QED BY <1>1, <1>2, <1>3 DEF OutputsAreClean

(* A process keeps the plan it has.                                         *)
KeepsPlan(p) ==
  /\ proc'[p].cmd = proc[p].cmd /\ proc'[p].data = proc[p].data /\ (proc[p] = Idle => proc'[p] = Idle)
  /\ Runs(p, "pack") => proc'[p].plan = proc[p].plan
  /\ Runs(p, "rebuild") /\ proc'[p].pc \in {"write", "written", "rename"} =>
       /\ proc[p].pc \in {"write", "written", "rename"}
       /\ proc'[p].plan = proc[p].plan /\ proc'[p].man = proc[p].man

LEMMA PlanStaysClean ==
  ASSUME NEW p \in Procs, ProcIsClean(p), Grow, proc'[p] = Idle \/ KeepsPlan(p)
  PROVE  ProcIsClean(p)'
<1>1. CASE proc'[p] = Idle
  BY <1>1 DEF ProcIsClean, Runs, Idle
<1>2. CASE KeepsPlan(p)
  <2>1. (Runs(p, "pack") => OnlyTorn(proc[p].plan))'
    BY <1>2 DEF ProcIsClean, KeepsPlan, Runs, Grow, OnlyTorn
  <2>2. (Runs(p, "rebuild") /\ proc[p].pc \in {"write", "written", "rename"} =>
           proc[p].man.source \in Clean /\ (~meddled => proc[p].plan = proc[p].man.source))'
    BY <1>2 DEF ProcIsClean, KeepsPlan, Runs, Grow
  <2>3. (proc[p] # Idle /\ ~Runs(p, "rebuild") => proc[p].data \in Clean)'
    BY <1>2 DEF ProcIsClean, KeepsPlan, Runs
  <2>4. QED BY <2>1, <2>2, <2>3 DEF ProcIsClean
<1>3. QED BY <1>1, <1>2

LEMMA MovedKeepsPlan ==
  ASSUME NEW p \in Procs, NEW pc, NEW h, Moved(p, pc, h),
         pc \in {"write", "written", "rename"} /\ Runs(p, "rebuild") =>
           proc[p].pc \in {"write", "written", "rename"}
  PROVE  KeepsPlan(p)
  BY DEF Moved, Follows, KeepsPlan

LEMMA ProcsStayClean ==
  ASSUME ProcsAreClean, Grow, NEW p \in Procs, OthersKeep(p), ProcIsClean(p)'
  PROVE  ProcsAreClean'
<1>1. ASSUME NEW q \in Procs \ {p} PROVE ProcIsClean(q)'
  <2>1. KeepsPlan(q) /\ ProcIsClean(q)
    BY DEF OthersKeep, Keeps, KeepsPlan, ProcsAreClean
  <2>2. QED BY <2>1, PlanStaysClean
<1>2. QED BY <1>1 DEF ProcsAreClean

(* What a command that starts has read, and a pack plans, of clean files.   *)
LEMMA StartsClean ==
  ASSUME TypeOK, AllClean, Grow, NEW p \in Procs, NEW c \in Running, StartsAs(p, c), UNCHANGED <<file, temp, dir>>
  PROVE  ProcsAreClean'
<1>1. proc'[p] = c /\ proc[p] = Idle /\ OthersKeep(p)
  BY StayersKeep DEF StartsAs, Begins
<1>2. ASSUME c.cmd # "rebuild" PROVE c.data \in Clean
  <2>1. Input = Binary(c.data)
    BY <1>2 DEF StartsAs
  <2>2. Input.is = "binary" /\ Input.bytes = c.data
    BY <2>1, FileKinds
  <2>3. QED BY <2>2 DEF AllClean, OutputsAreClean, InputIsClean
<1>3. ASSUME c.cmd = "pack", NEW s \in Parts, c.plan[s] = Damage PROVE s \in torn'
  <2>1. /\ c.man \in FitManifests /\ c.data \in Clean /\ c.data \in Bytes /\ c.plan = Planned(c.man, c.data)
        /\ torn' = torn \cup {t \in c.man.streams : dir[t] = Cut}
    BY <1>2, <1>3 DEF StartsAs
  <2>2. c.data[s] # Damage
    BY <2>1, CleanBytes
  <2>3. CASE s \in c.man.streams /\ dir[s].is = "content"
    <3>1. c.plan[s] = dir[s].data
      BY <1>3, <2>1, <2>2, <2>3, Plans, TypesSplit
    <3>2. s \in Streams /\ dir[s] \in StreamFiles
      BY <2>1, <2>3, FitFields, TypesSplit DEF DirOK
    <3>3. dir[s] = Content(Damage)
      BY <1>3, <2>3, <3>1, <3>2, StreamFileKinds
    <3>4. QED BY <3>2, <3>3 DEF AllClean, DirIsClean
  <2>4. CASE ~(s \in c.man.streams /\ dir[s].is = "content")
    <3>1. s \in c.man.streams /\ dir[s] = Cut
      BY <1>3, <2>1, <2>2, <2>4, Plans, TypesSplit
    <3>2. QED BY <2>1, <3>1
  <2>5. QED BY <2>3, <2>4
<1>4. c.cmd = "rebuild" => c.pc = "create"
  BY DEF StartsAs
<1>5. ProcIsClean(p)'
  BY <1>1, <1>2, <1>3, <1>4 DEF ProcIsClean, Runs, OnlyTorn
<1>6. QED BY <1>1, <1>5, ProcsStayClean DEF AllClean

(* An extract writes what the streams hold.                                 *)
LEMMA ExtractClean ==
  ASSUME TypeOK, AllClean, Grow, NEW p \in Procs,
         (\E s \in Streams : ExtractOpen(p, s) \/ ExtractWrite(p, s) \/ ExtractFails(p, s)) \/ ExtractEnd(p)
  PROVE  ProcsAreClean' /\ DirIsClean'
<1>1. OthersKeep(p) /\ proc[p].cmd = "extract" /\ (proc'[p] = Idle \/ \E T : Extracts(p, T))
  <2>1. CASE \E s \in Streams : ExtractOpen(p, s) \/ ExtractWrite(p, s) \/ ExtractFails(p, s)
    BY <2>1, ExtractOpenStep, ExtractWriteStep, ExtractFailsStep, StayersKeep
       DEF ExtractOpen, ExtractWrite, ExtractFails
  <2>2. CASE ExtractEnd(p)
    BY <2>2, EndStep, TypesSplit, StayersKeep DEF ExtractEnd, FilesOK
  <2>3. QED BY <2>1, <2>2
<1>2. proc[p] # Idle /\ proc[p].data \in Clean
  <2>1. proc[p] # Idle
    BY <1>1 DEF Idle
  <2>2. QED BY <1>1, <2>1 DEF AllClean, ProcsAreClean, ProcIsClean, Runs
<1>3. proc'[p] = Idle \/ KeepsPlan(p)
  <2>1. ASSUME NEW T, Extracts(p, T) PROVE KeepsPlan(p)
    BY <1>1, <1>2, <2>1 DEF Extracts, Extractor, KeepsPlan, Runs
  <2>2. QED BY <1>1, <2>1
<1>4. ProcsAreClean'
  BY <1>1, <1>3, PlanStaysClean, ProcsStayClean DEF AllClean, ProcsAreClean
<1>5. ASSUME NEW s \in Streams, NEW f, f # Content(Damage), dir' = [dir EXCEPT ![s] = f] PROVE DirIsClean'
  BY <1>5, TypesSplit DEF AllClean, DirIsClean, DirOK
<1>6. Cut # Content(Damage)
  BY FileKinds, StreamFileKinds DEF Content
<1>7. ASSUME NEW s \in Streams, ExtractOpen(p, s) PROVE DirIsClean'
  <2>1. dir' = [dir EXCEPT ![s] = Cut]
    BY <1>7 DEF ExtractOpen
  <2>2. QED BY <1>5, <1>6, <2>1
<1>8. ASSUME NEW s \in Streams, ExtractWrite(p, s) PROVE DirIsClean'
  <2>1. s \in proc[p].open
    BY <1>8 DEF ExtractWrite
  <2>2. proc[p].man.source[s] = proc[p].data[s]
    BY <1>1, <2>1, ExtractorSets, TypesSplit
  <2>3. PICK f \in AfterWrite(dir[s], Content(proc[p].man.source[s])) : dir' = [dir EXCEPT ![s] = f]
    BY <1>8 DEF ExtractWrite
  <2>4. proc[p].data[s] # Damage
    BY <1>2, CleanBytes DEF Parts
  <2>5. Content(proc[p].man.source[s]) # Content(Damage)
    BY <2>2, <2>4 DEF Content
  <2>6. f # Content(Damage)
    BY <1>6, <2>3, <2>5, WriteLeaves
  <2>7. QED BY <1>5, <2>3, <2>6
<1>9. ASSUME (\E s \in Streams : ExtractFails(p, s)) \/ ExtractEnd(p) PROVE DirIsClean'
  <2>1. UNCHANGED dir
    BY <1>9 DEF ExtractFails, ExtractEnd, dirVars
  <2>2. QED BY <2>1 DEF AllClean, DirIsClean
<1>10. QED BY <1>4, <1>7, <1>8, <1>9

(* An unpack names in its index the input it read.                          *)
LEMMA UnpackClean ==
  ASSUME TypeOK, AllClean, Grow, NEW p \in Procs, UnpackWorks(p)
  PROVE  ProcsAreClean' /\ IndexIsClean'
<1>1. GoesAlong(p) /\ proc[p].cmd = "unpack" /\ OthersKeep(p)
  BY UnpackElsewhere, StayersKeep DEF Elsewhere, Runs
<1>2. proc[p] # Idle /\ proc[p].data \in Clean /\ proc[p].man.source = proc[p].data
  BY <1>1, Unpackers, TypesSplit DEF AllClean, ProcsAreClean, ProcIsClean, Runs
<1>3. proc'[p] = Idle \/ KeepsPlan(p)
  <2>1. CASE UnpackMkdir(p) \/ UnpackGapsOpen(p) \/ UnpackGapsWrite(p) \/ IndexOpen(p)
    <3>1. \E pc, h : Moved(p, pc, h)
      BY <2>1, UnpackMkdirStep, UnpackGapsOpenStep, UnpackGapsWriteStep, IndexOpenStep
    <3>2. QED BY <1>1, <3>1, MovedKeepsPlan DEF Runs
  <2>2. CASE (\E s \in Streams : ContentsOpen(p, s) \/ ContentsWrite(p, s))
             \/ (\E s \in Corrected : ReconOpen(p, s) \/ ReconWrite(p, s))
    <3>1. \E s, stage : Unpacks(p, s, stage)
      BY <2>2, ContentsOpenStep, ContentsWriteStep, ReconOpenStep, ReconWriteStep
    <3>2. proc'[p].cmd = "unpack" /\ proc'[p].data = proc[p].data
      BY <3>1 DEF Unpacks, Unpacker
    <3>3. QED BY <1>1, <1>2, <3>2 DEF KeepsPlan, Runs
  <2>3. CASE IndexWrite(p) \/ UnpackFails(p)
    BY <2>3, IndexWriteStep, ApartEnds
  <2>4. QED BY <2>1, <2>2, <2>3 DEF UnpackWorks
<1>4. ProcsAreClean'
  BY <1>1, <1>3, PlanStaysClean, ProcsStayClean DEF AllClean, ProcsAreClean
<1>5. IndexIsClean'
  <2>1. CASE IndexWrite(p)
    <3>1. index' \in {Index(proc[p].man.source, proc[p].man.streams), Cut}
      BY <2>1, WriteLeaves, ZenonT(40) DEF IndexWrite
    <3>2. Index(proc[p].man.source, proc[p].man.streams).source \in Clean
      BY <1>2 DEF Index
    <3>3. QED BY <3>1, <3>2, FileKinds DEF IndexIsClean
  <2>2. CASE IndexOpen(p)
    BY <2>2, FileKinds DEF IndexOpen, IndexIsClean
  <2>3. CASE UNCHANGED index
    BY <2>3 DEF AllClean, IndexIsClean
  <2>4. IndexWrite(p) \/ IndexOpen(p) \/ UNCHANGED index
    BY DEF UnpackWorks, UnpackMkdir, UnpackGapsOpen, UnpackGapsWrite, ContentsOpen, ContentsWrite, ReconOpen,
           ReconWrite, UnpackFails, unpackVars
  <2>5. QED BY <2>1, <2>2, <2>3, <2>4
<1>6. QED BY <1>4, <1>5

(* A rebuild builds what its index names, unless the directory was changed. *)
LEMMA ChecksClean ==
  ASSUME TypeOK, AllClean, UnpackFits, Grow, NEW p \in Procs, PackVerify(p) \/ RebuildFill(p) \/ RebuildCheck(p)
  PROVE  ProcsAreClean'
<1>1. OthersKeep(p)
  BY ChecksGoAlong, StayersKeep
<1>2. ProcIsClean(p)
  BY DEF AllClean, ProcsAreClean
<1>3. CASE PackVerify(p)
  <2>1. KeepsPlan(p)
    <3>1. proc[p].cmd = "pack" /\ proc[p] # Idle
      BY <1>3 DEF PackVerify, At, Idle
    <3>2. CASE Moved(p, "remove", proc[p].handle)
      BY <3>2, MovedKeepsPlan
    <3>3. CASE \E b \in Bytes : Checked(p, b)
      BY <3>1, <3>3 DEF Checked, KeepsPlan, Runs
    <3>4. QED BY <1>3, <3>2, <3>3, PackVerifyStep
  <2>2. QED BY <1>1, <1>2, <2>1, PlanStaysClean, ProcsStayClean DEF AllClean
<1>4. CASE RebuildCheck(p)
  <2>1. KeepsPlan(p)
    BY <1>4, RebuildCheckStep, MovedKeepsPlan
  <2>2. QED BY <1>1, <1>2, <2>1, PlanStaysClean, ProcsStayClean DEF AllClean
<1>5. CASE RebuildFill(p) /\ Moved(p, "remove", proc[p].handle)
  <2>1. KeepsPlan(p)
    BY <1>5, MovedKeepsPlan
  <2>2. QED BY <1>1, <1>2, <2>1, PlanStaysClean, ProcsStayClean DEF AllClean
<1>6. CASE RebuildFill(p) /\ Filled(p)
  <2>1. /\ proc'[p].cmd = "rebuild" /\ proc'[p].man = index /\ proc'[p].plan = Built
        /\ index.is = "index"
    BY <1>6, RebuildFillStep DEF Filled, Complete
  <2>2. index.source \in Clean
    BY <2>1 DEF AllClean, IndexIsClean
  <2>3. ~meddled' => Built = index.source
    <3>1. made
      BY <2>1, FileKinds DEF UnpackFits
    <3>2. QED BY <2>1, <3>1 DEF UnpackFits, Grow
  <2>4. ProcIsClean(p)'
    BY <2>1, <2>2, <2>3 DEF ProcIsClean, Runs
  <2>5. QED BY <1>1, <2>4, ProcsStayClean DEF AllClean
<1>7. QED BY <1>3, <1>4, <1>5, <1>6, RebuildFillStep

(* What a command is about to write, or to rename, is clean.                *)
LEMMA WrittenPlan ==
  ASSUME TypeOK, AllClean, WritesFit, NEW p \in Procs, NEW pc \in {"write", "rename"}, At(p, pc)
  PROVE  /\ proc[p].out \in Outputs /\ proc[p].plan \in Bytes
         /\ proc[p].cmd = "pack" => proc[p].out # "input" /\ OnlyTorn(proc[p].plan)
         /\ proc[p].cmd # "pack" => proc[p].man.source \in Clean
         /\ proc[p].cmd # "pack" /\ (~meddled \/ pc = "rename") => proc[p].plan = proc[p].man.source
         /\ proc[p].out \notin shared => OwnTemp(p, proc[p].out)
<1>1. /\ proc[p].out \in Outputs /\ proc[p].plan \in Bytes /\ proc[p].pc = pc /\ proc[p].cmd \in {"pack", "rebuild"}
      /\ proc[p].cmd = "pack" => proc[p].out # "input"
      /\ pc = "rename" /\ proc[p].cmd = "rebuild" => proc[p].plan = proc[p].man.source
  BY Writers, TypesSplit
<1>2. ProcIsClean(p)
  BY DEF AllClean, ProcsAreClean
<1>3. Writing(p, proc[p].out)
  BY <1>1 DEF Writing
<1>4. proc[p].out \notin shared => OwnTemp(p, proc[p].out)
  BY <1>1, <1>3 DEF WritesFit, TempIsOwn
<1>5. QED BY <1>1, <1>2, <1>4 DEF ProcIsClean, Runs

(* Bytes that come to o, in place or in its temporary file.                 *)
CleanFor(o, bytes) == IF o = "input" THEN bytes \in Clean ELSE OnlyTorn(bytes)

LEMMA OutputTurnsClean ==
  ASSUME OutputsAreClean, UNCHANGED <<shared, torn, meddled>>, NEW N, N = Names, Outputs \subseteq N, "input" \in N,
         Unspoilt, NEW o \in Outputs,
         \A n \in N \ {o} : file'[n] = file[n], \A x \in Outputs \ {o} : temp'[x] = temp[x],
         file'[o].is = "binary" /\ ~(meddled /\ o \in shared) => file'[o] = file[o] \/ CleanFor(o, file'[o].bytes),
         temp'[o].is = "binary" /\ ~meddled => temp'[o] = temp[o] \/ CleanFor(o, temp'[o].bytes)
  PROVE  OutputsAreClean'
<1>1. \A b : OnlyTorn(b) => \A s \in Parts : b[s] = Damage => s \in torn'
  BY DEF OnlyTorn
<1>2. InputIsClean'
  BY DEF OutputsAreClean, InputIsClean, Input, CleanFor, Unspoilt
<1>3. ASSUME NEW x \in Outputs PROVE FileIsClean(x)'
  <2> SUFFICES ASSUME file'[x].is = "binary", ~(meddled' /\ x \in shared')
               PROVE  \A s \in Parts : file'[x].bytes[s] = Damage => s \in torn'
    BY DEF FileIsClean, OnlyTorn
  <2>1. CASE file'[x] = file[x]
    <3>1. OnlyTorn(file[x].bytes)
      BY <2>1 DEF OutputsAreClean, FileIsClean
    <3>2. QED BY <1>1, <2>1, <3>1
  <2>2. CASE x = o /\ CleanFor(o, file'[o].bytes)
    <3>1. OnlyTorn(file'[o].bytes)
      <4>1. CASE o = "input"
        BY <2>2, <4>1, CleanBytes DEF CleanFor
      <4>2. CASE o # "input"
        BY <2>2, <4>2 DEF CleanFor
      <4>3. QED BY <4>1, <4>2
    <3>2. QED BY <1>1, <2>2, <3>1
  <2>3. QED BY <2>1, <2>2
<1>4. ASSUME NEW x \in Outputs PROVE TempIsClean(x)'
  <2> SUFFICES ASSUME temp'[x].is = "binary", ~meddled'
               PROVE  IF x = "input" THEN temp'[x].bytes \in Clean
                      ELSE \A s \in Parts : temp'[x].bytes[s] = Damage => s \in torn'
    BY DEF TempIsClean, OnlyTorn
  <2>1. CASE temp'[x] = temp[x]
    <3>1. IF x = "input" THEN temp[x].bytes \in Clean ELSE OnlyTorn(temp[x].bytes)
      BY <2>1 DEF OutputsAreClean, TempIsClean
    <3>2. QED BY <1>1, <2>1, <3>1
  <2>2. CASE x = o /\ CleanFor(o, temp'[o].bytes)
    BY <1>1, <2>2 DEF CleanFor
  <2>3. QED BY <2>1, <2>2
<1>5. QED BY <1>2, <1>3, <1>4 DEF OutputsAreClean

LEMMA TempWriteClean ==
  ASSUME TypeOK, AllClean, Unspoilt, WritesFit, NEW p \in Procs, TempWrite(p), UNCHANGED <<torn, meddled>>
  PROVE  OutputsAreClean'
<1>1. PICK o, new : o = proc[p].out /\ new = Binary(proc[p].plan)
  OBVIOUS
<1>2. At(p, "write") /\ UNCHANGED shared /\ proc[p].pc = "write"
  BY DEF TempWrite, At
<1>3. /\ o \in Outputs /\ proc[p].plan \in Bytes
      /\ ~meddled => CleanFor(o, proc[p].plan)
      /\ o \notin shared => proc[p].handle = "temp"
      /\ proc[p].cmd = "pack" => CleanFor(o, proc[p].plan)
  <2>1. /\ o \in Outputs /\ proc[p].plan \in Bytes
        /\ proc[p].cmd = "pack" => o # "input" /\ OnlyTorn(proc[p].plan)
        /\ proc[p].cmd # "pack" => proc[p].man.source \in Clean
        /\ proc[p].cmd # "pack" /\ ~meddled => proc[p].plan = proc[p].man.source
        /\ o \notin shared => OwnTemp(p, o)
    BY <1>1, <1>2, WrittenPlan
  <2>2. OnlyTorn(proc[p].man.source) \/ proc[p].man.source \notin Clean
    BY CleanBytes
  <2>3. QED BY <1>2, <2>1, <2>2 DEF CleanFor, OwnTemp
<1>4. new.is = "binary" /\ new.bytes = proc[p].plan /\ Cut.is # "binary"
  BY <1>1, FileKinds
<1>5. /\ file \in [Names -> {NoFile, Cut} \cup Binaries \cup FitManifests]
      /\ temp \in [Outputs -> {NoFile, Cut} \cup Binaries]
  BY TypesSplit DEF FilesOK
<1>6. \/ /\ UNCHANGED file
         /\ \E c \in {new, Cut} : temp' = [temp EXCEPT ![o] = c]
      \/ /\ proc[p].handle = "file" /\ UNCHANGED temp
         /\ \E c \in {new, Cut} : file' = [file EXCEPT ![o] = c]
      \/ UNCHANGED <<file, temp>>
  <2>1. CASE proc[p].handle = "temp"
    BY <1>1, <2>1, WriteLeaves DEF TempWrite
  <2>2. CASE proc[p].handle = "file"
    BY <1>1, <2>2, WriteLeaves DEF TempWrite
  <2>3. CASE proc[p].handle \notin {"temp", "file"}
    BY <2>3 DEF TempWrite
  <2>4. QED BY <2>1, <2>2, <2>3
<1>7. PICK N : N = Names /\ Outputs \subseteq N /\ "input" \in N
  BY SavedNames
<1>8. /\ \A n \in N \ {o} : file'[n] = file[n]
      /\ \A x \in Outputs \ {o} : temp'[x] = temp[x]
      /\ file'[o] = file[o] \/ (proc[p].handle = "file" /\ file'[o] \in {new, Cut})
      /\ temp'[o] = temp[o] \/ temp'[o] \in {new, Cut}
  BY <1>3, <1>5, <1>6, <1>7
<1>9. file'[o].is = "binary" /\ ~(meddled /\ o \in shared) => file'[o] = file[o] \/ CleanFor(o, file'[o].bytes)
  BY <1>3, <1>4, <1>8
<1>10. temp'[o].is = "binary" /\ ~meddled => temp'[o] = temp[o] \/ CleanFor(o, temp'[o].bytes)
  BY <1>3, <1>4, <1>8
<1>11. QED BY <1>2, <1>3, <1>7, <1>8, <1>9, <1>10, OutputTurnsClean DEF AllClean

LEMMA TempRenameClean ==
  ASSUME TypeOK, AllClean, Unspoilt, WritesFit, NEW p \in Procs, TempRename(p), UNCHANGED <<torn, meddled>>
  PROVE  OutputsAreClean'
<1>1. PICK o : o = proc[p].out
  OBVIOUS
<1>2. At(p, "rename") /\ UNCHANGED shared /\ proc[p].pc = "rename"
  BY DEF TempRename, At
<1>3. /\ o \in Outputs /\ proc[p].plan \in Bytes
      /\ CleanFor(o, proc[p].plan)
      /\ o \notin shared => temp[o] = Binary(proc[p].plan)
  <2>1. /\ o \in Outputs /\ proc[p].plan \in Bytes
        /\ proc[p].cmd = "pack" => o # "input" /\ OnlyTorn(proc[p].plan)
        /\ proc[p].cmd # "pack" => proc[p].plan \in Clean
        /\ o \notin shared => OwnTemp(p, o)
    BY <1>1, <1>2, WrittenPlan
  <2>2. OnlyTorn(proc[p].plan) \/ proc[p].plan \notin Clean
    BY CleanBytes
  <2>3. QED BY <1>2, <2>1, <2>2 DEF CleanFor, OwnTemp
<1>4. /\ file \in [Names -> {NoFile, Cut} \cup Binaries \cup FitManifests]
      /\ temp \in [Outputs -> {NoFile, Cut} \cup Binaries]
  BY TypesSplit DEF FilesOK
<1>5. PICK N : N = Names /\ Outputs \subseteq N /\ "input" \in N
  BY SavedNames
<1>6. CASE temp[o] = NoFile
  <2>1. UNCHANGED <<file, temp>>
    BY <1>1, <1>6 DEF TempRename
  <2>2. QED BY <1>2, <1>3, <1>5, <2>1, OutputTurnsClean DEF AllClean
<1>7. CASE temp[o] # NoFile
  <2>1. file' = [file EXCEPT ![o] = temp[o]] /\ temp' = [temp EXCEPT ![o] = NoFile]
    BY <1>1, <1>7 DEF TempRename
  <2>2. /\ \A n \in N \ {o} : file'[n] = file[n]
        /\ \A x \in Outputs \ {o} : temp'[x] = temp[x]
        /\ file'[o] = temp[o] /\ temp'[o] = NoFile
    BY <1>3, <1>4, <1>5, <2>1
  <2>3. ASSUME temp[o].is = "binary", ~(meddled /\ o \in shared) PROVE CleanFor(o, temp[o].bytes)
    <3>1. CASE ~meddled
      BY <1>3, <2>3, <3>1 DEF AllClean, OutputsAreClean, TempIsClean, CleanFor
    <3>2. CASE o \notin shared
      BY <1>3, <3>2, FileKinds
    <3>3. QED BY <2>3, <3>1, <3>2
  <2>4. temp'[o].is # "binary"
    BY <2>2, FileKinds
  <2>5. QED BY <1>2, <1>3, <1>5, <2>2, <2>3, <2>4, OutputTurnsClean DEF AllClean
<1>8. QED BY <1>6, <1>7

LEMMA WritesClean ==
  ASSUME TypeOK, AllClean, Unspoilt, WritesFit, Grow, NEW p \in Procs, WriteStep(p), UNCHANGED <<torn, meddled>>
  PROVE  ProcsAreClean' /\ OutputsAreClean'
<1>1. OthersKeep(p) /\ ProcIsClean(p)
  BY WritesGoAlong DEF GoesAlong, OthersKeep, AllClean, ProcsAreClean
<1>2. proc'[p] = Idle \/ KeepsPlan(p)
  <2>1. CASE SaveCreate(p)
    BY <2>1, SaveCreateStep, MovedKeepsPlan
  <2>2. CASE SaveWrite(p)
    BY <2>2, SaveWriteStep
  <2>3. CASE SaveFails(p)
    BY <2>3, EndStep, TypesSplit DEF SaveFails, FilesOK
  <2>4. CASE TempCreate(p)
    <3>1. At(p, "create") /\ proc'[p].cmd = proc[p].cmd
      BY <2>4, TempCreateStep DEF TempCreate, Moved, Follows
    <3>2. proc[p] \in Packer \cup Rebuilder
      BY <3>1, Writers, TypesSplit
    <3>3. CASE proc[p].cmd # "rebuild"
      BY <2>4, <3>3, TempCreateStep, MovedKeepsPlan DEF Runs
    <3>4. CASE proc[p].cmd = "rebuild"
      <4>1. proc'[p].pc = "fill"
        BY <2>4, <3>2, <3>4, TypesSplit DEF TempCreate, ProcOK, Packer, Rebuilder
      <4>2. Moved(p, "fill", "temp")
        BY <2>4, <4>1, TempCreateStep DEF Moved, Follows
      <4>3. QED BY <4>2, MovedKeepsPlan
    <3>5. QED BY <3>3, <3>4
  <2>5. CASE TempFails(p)
    BY <2>5, TempFailsStep, MovedKeepsPlan
  <2>6. CASE TempWrite(p)
    BY <2>6, TempWriteStep, MovedKeepsPlan DEF TempWrite, At
  <2>7. CASE TempRename(p)
    BY <2>7, TempRenameStep, MovedKeepsPlan
  <2>8. CASE TempRemove(p)
    BY <2>8, TempRemoveStep
  <2>9. CASE TempPanics(p) \/ Kill(p)
    BY <2>9, AbandonStep DEF TempPanics, Kill
  <2>10. QED
    BY <2>1, <2>2, <2>3, <2>4, <2>5, <2>6, <2>7, <2>8, <2>9 DEF WriteStep
<1>3. ProcsAreClean'
  BY <1>1, <1>2, PlanStaysClean, ProcsStayClean DEF AllClean
<1> SUFFICES OutputsAreClean'
  BY <1>3
<1>4. /\ file \in [Names -> {NoFile, Cut} \cup Binaries \cup FitManifests]
      /\ temp \in [Outputs -> {NoFile, Cut} \cup Binaries]
  BY TypesSplit DEF FilesOK
<1>5. PICK N : N = Names /\ Outputs \subseteq N /\ "input" \in N /\ Saved \subseteq N
  BY SavedNames
<1>6. ASSUME \A n \in N : file'[n].is = "binary" => file'[n] = file[n],
             \A o \in Outputs : temp'[o].is = "binary" => temp'[o] = temp[o]
      PROVE  OutputsAreClean'
  BY <1>5, <1>6, OutputsStayClean DEF AllClean
<1>7. CASE SaveCreate(p) \/ SaveWrite(p)
  <2>1. PICK pc \in {"save", "saving"} : At(p, pc)
    BY <1>7 DEF SaveCreate, SaveWrite
  <2>2. proc[p].target \in Saved /\ proc[p].man \in FitManifests
    BY <2>1, AtSave, TypesSplit
  <2>3. PICK c \in {proc[p].man, Cut} : file' = [file EXCEPT ![proc[p].target] = c]
    BY <1>7, WriteLeaves DEF SaveCreate, SaveWrite
  <2>4. c.is # "binary"
    BY <2>2, <2>3, FileKinds
  <2>5. UNCHANGED temp
    BY <1>7 DEF SaveCreate, SaveWrite
  <2>6. QED BY <1>4, <1>5, <1>6, <2>2, <2>3, <2>4, <2>5
<1>8. CASE SaveFails(p) \/ TempFails(p) \/ TempPanics(p) \/ Kill(p)
  BY <1>6, <1>8 DEF SaveFails, TempFails, TempPanics, Kill, Abandon
<1>9. CASE TempCreate(p) \/ TempRemove(p)
  <2>1. UNCHANGED file /\ \E c \in {Cut, NoFile} : temp' = [temp EXCEPT ![proc[p].out] = c] \/ UNCHANGED temp
    BY <1>9 DEF TempCreate, TempRemove
  <2>2. \A o \in Outputs : temp'[o] = temp[o] \/ temp'[o] \in {Cut, NoFile}
    BY <1>4, <2>1
  <2>3. \A o \in Outputs : temp'[o].is = "binary" => temp'[o] = temp[o]
    BY <2>2, FileKinds
  <2>4. QED BY <1>6, <2>1, <2>3
<1>10. CASE TempWrite(p)
  BY <1>10, TempWriteClean
<1>11. CASE TempRename(p)
  BY <1>11, TempRenameClean
<1>12. QED BY <1>7, <1>8, <1>9, <1>10, <1>11 DEF WriteStep

LEMMA DamageStep ==
  ASSUME TypeOK, WritesFit, UnpackFits, DamageFits, [Next]_vars
  PROVE  DamageFits'
<1> SUFFICES ASSUME Unspoilt' PROVE AllClean'
  BY DEF DamageFits, Unspoilt, AllClean, SourcesAreClean, PlansAreClean, WrittenIsClean, ProcsAreClean,
         ProcIsClean, DirIsClean, IndexIsClean, InputIsClean, FileIsClean, TempIsClean, OutputsAreClean
<1>1. Grow
  BY HistoriesGrow
<1>2. Unspoilt
  BY <1>1 DEF Grow, Unspoilt
<1>3. AllClean
  BY <1>2, DamageSplit
<1>4. ASSUME UNCHANGED <<file, temp>> PROVE OutputsAreClean'
  BY <1>1, <1>3, <1>4, SavedNames, OutputsStayClean DEF AllClean
<1>5. UNCHANGED dir => DirIsClean'
  BY <1>3 DEF AllClean, DirIsClean
<1>6. UNCHANGED index => IndexIsClean'
  BY <1>3 DEF AllClean, IndexIsClean
<1>7. ASSUME UNCHANGED proc PROVE ProcsAreClean'
  <2>1. \A p \in Procs : KeepsPlan(p)
    BY <1>7 DEF KeepsPlan
  <2>2. QED BY <1>1, <1>3, <2>1, PlanStaysClean DEF AllClean, ProcsAreClean
<1>8. CASE UNCHANGED vars
  BY <1>4, <1>5, <1>6, <1>7, <1>8 DEF vars, fileVars, dirVars, unpackVars, AllClean
<1>9. ASSUME NEW p \in Procs, WriteStep(p), UNCHANGED <<dirVars, unpackVars>> PROVE AllClean'
  BY <1>1, <1>2, <1>3, <1>5, <1>6, <1>9, WritesClean DEF dirVars, unpackVars, AllClean
<1>10. ASSUME NEW p \in Procs, UNCHANGED unpackVars,
              Scan(p) \/ Extract(p) \/ ApplyFields(p) \/ Try(p) \/ Pack(p) \/ UnpackStart(p) \/ RebuildStart(p)
       PROVE  AllClean'
  <2>1. UNCHANGED <<file, temp, orphans, shared, dir>> /\ \E c \in Running : StartsAs(p, c)
    BY <1>10, Beginnings
  <2>2. ProcsAreClean'
    BY <1>1, <1>3, <2>1, StartsClean
  <2>3. QED BY <1>4, <1>5, <1>6, <1>10, <2>1, <2>2 DEF unpackVars, AllClean
<1>11. ASSUME NEW p \in Procs, UNCHANGED unpackVars,
              (\E s \in Streams : ExtractOpen(p, s) \/ ExtractWrite(p, s) \/ ExtractFails(p, s)) \/ ExtractEnd(p)
       PROVE  AllClean'
  <2>1. UNCHANGED <<file, temp>>
    BY <1>11, ExtractElsewhere DEF Elsewhere
  <2>2. QED BY <1>1, <1>3, <1>4, <1>6, <1>11, <2>1, ExtractClean DEF unpackVars, AllClean
<1>12. ASSUME NEW p \in Procs, UnpackWorks(p) PROVE AllClean'
  <2>1. UNCHANGED <<file, temp, dir>>
    BY <1>12, UnpackElsewhere DEF dirVars
  <2>2. QED BY <1>1, <1>3, <1>4, <1>5, <1>12, <2>1, UnpackClean DEF AllClean
<1>13. ASSUME NEW p \in Procs, UNCHANGED unpackVars, PackVerify(p) \/ RebuildFill(p) \/ RebuildCheck(p) PROVE AllClean'
  <2>1. UNCHANGED <<file, temp, dir>>
    BY <1>13, ChecksGoAlong DEF dirVars
  <2>2. QED BY <1>1, <1>3, <1>4, <1>5, <1>6, <1>13, <2>1, ChecksClean DEF unpackVars, AllClean
<1>14. ASSUME NEW p \in Procs, UNCHANGED unpackVars, PackEnd(p) \/ RebuildEnd(p) PROVE AllClean'
  <2>1. UNCHANGED <<file, temp, dir>> /\ OthersKeep(p)
    BY <1>14, EndsElsewhere, StayersKeep DEF Elsewhere, PackEnd, RebuildEnd, Apart, dirVars
  <2>2. proc'[p] = Idle \/ KeepsPlan(p)
    BY <1>14, PackEndStep, ApartEnds, MovedKeepsPlan
  <2>3. ProcsAreClean'
    BY <1>1, <1>3, <2>1, <2>2, PlanStaysClean, ProcsStayClean DEF AllClean, ProcsAreClean
  <2>4. QED BY <1>4, <1>5, <1>6, <1>14, <2>1, <2>3 DEF unpackVars, AllClean
<1>15. ASSUME NEW p \in Procs, CliStep(p), UNCHANGED unpackVars PROVE AllClean'
  BY <1>10, <1>11, <1>13, <1>14, <1>15 DEF CliStep
<1>16. ASSUME NEW p \in Procs, UnpackStep(p) PROVE AllClean'
  <2>1. UnpackStart(p) \/ RebuildStart(p) \/ RebuildEnd(p) \/ RebuildFill(p) \/ RebuildCheck(p) =>
          UNCHANGED unpackVars
    BY DEF UnpackStart, RebuildStart, RebuildEnd, RebuildFill, RebuildCheck
  <2>2. QED BY <1>10, <1>12, <1>13, <1>14, <1>16, <2>1 DEF UnpackStep, UnpackWorks
<1>17. ASSUME NEW s \in Streams, NEW c \in Contents, Edit(s, c), UNCHANGED unpackVars PROVE AllClean'
  <2>1. UNCHANGED <<file, temp, proc>> /\ dir' = [dir EXCEPT ![s] = Content(c)]
    BY <1>17 DEF Edit, fileVars
  <2>2. Content(c) # Content(Damage)
    BY FilesAssumption DEF Content
  <2>3. DirIsClean'
    BY <1>3, <2>1, <2>2, TypesSplit DEF AllClean, DirIsClean, DirOK
  <2>4. QED BY <1>4, <1>6, <1>7, <1>17, <2>1, <2>3 DEF unpackVars, AllClean
<1>18. ASSUME NEW s \in Streams, NEW c \in Contents, Meddle(s, c) PROVE AllClean'
  BY <1>4, <1>5, <1>6, <1>7, <1>18 DEF Meddle, fileVars, AllClean
<1>19. ASSUME NEW v \in Versions, Update(v), UNCHANGED unpackVars PROVE AllClean'
  <2>1. /\ file' = [file EXCEPT !["input"] = Binary(v)] /\ UNCHANGED <<temp, proc, shared, dir, torn>>
        /\ UNCHANGED <<meddled, index>>
    BY <1>19 DEF Update, unpackVars
  <2>2. v \in Clean
    BY FilesAssumption DEF Clean
  <2>3. /\ file \in [Names -> {NoFile, Cut} \cup Binaries \cup FitManifests] /\ "input" \in Names
        /\ Outputs \subseteq Names
    BY TypesSplit, SavedNames DEF FilesOK
  <2>4. InputIsClean'
    BY <2>1, <2>2, <2>3, FileKinds DEF InputIsClean, Input
  <2>5. ASSUME NEW o \in Outputs PROVE FileIsClean(o)'
    <3>1. CASE o = "input"
      <4>1. file'[o].bytes = v
        BY <2>1, <2>3, <3>1, FileKinds
      <4>2. QED BY <2>2, <4>1, CleanBytes DEF FileIsClean, OnlyTorn
    <3>2. CASE o # "input"
      BY <1>3, <2>1, <2>3, <3>2 DEF AllClean, OutputsAreClean, FileIsClean, OnlyTorn
    <3>3. QED BY <3>1, <3>2
  <2>6. ASSUME NEW o \in Outputs PROVE TempIsClean(o)'
    BY <1>3, <2>1 DEF AllClean, OutputsAreClean, TempIsClean, OnlyTorn
  <2>7. QED BY <1>5, <1>6, <1>7, <2>1, <2>4, <2>5, <2>6 DEF OutputsAreClean, AllClean
<1>20. QED BY <1>8, <1>9, <1>15, <1>16, <1>17, <1>18, <1>19 DEF Next

-----------------------------------------------------------------------------
(* UnpackFits.                                                              *)

SameUnpack(q) ==
  /\ proc'[q].pc = proc[q].pc /\ proc'[q].data = proc[q].data /\ proc'[q].man = proc[q].man
  /\ proc'[q].plan = proc[q].plan /\ proc'[q].todo = proc[q].todo /\ proc'[q].open = proc[q].open

LEMMA UnpackedStays ==
  ASSUME NEW q \in Procs, SameUnpack(q), UNCHANGED <<index, gaps, contents, recon>>, UnpackedSoFar(q)
  PROVE  UnpackedSoFar(q)'
<1>1. \A s : StreamUnpacked(q, s) => StreamUnpacked(q, s)'
  BY DEF SameUnpack, StreamUnpacked
<1>2. TasksDone(q) => TasksDone(q)'
  BY DEF SameUnpack, TasksDone
<1>3. QED BY <1>1, <1>2 DEF SameUnpack, UnpackedSoFar

(* A step that is not an unpack's.                                          *)
LEMMA UnpackKept ==
  ASSUME UnpackFits, UNCHANGED unpackVars,
         \A q \in Procs : Runs(q, "unpack")' => Runs(q, "unpack") /\ SameUnpack(q)
  PROVE  UnpackFits'
<1>1. UNCHANGED <<made, index, gaps, contents, recon, meddled>>
  BY DEF unpackVars
<1>2. \A q \in Procs : Runs(q, "unpack")' /\ UnpackedSoFar(q) => UnpackedSoFar(q)'
  BY <1>1, UnpackedStays
<1>3. (\A q \in Procs : Runs(q, "unpack") /\ proc[q].pc = "mkdir" =>
         proc[q].todo = proc[q].man.streams /\ proc[q].open = {} /\ proc[q].plan = NoData)'
  BY DEF UnpackFits, SameUnpack
<1>4. (~made => index = NoFile /\ \A q \in Procs : Runs(q, "unpack") => proc[q].pc = "mkdir")'
  BY <1>1 DEF UnpackFits, SameUnpack
<1>5. ASSUME made', ~meddled'
      PROVE  (/\ \A q, r \in Procs : Runs(q, "unpack") /\ Runs(r, "unpack") => q = r
              /\ \A q \in Procs : Runs(q, "unpack") => proc[q].pc # "mkdir" /\ UnpackedSoFar(q)
              /\ index.is = "index" =>
                   Complete /\ Built = index.source /\ \A q \in Procs : ~Runs(q, "unpack"))'
  <2>1. /\ \A q, r \in Procs : Runs(q, "unpack") /\ Runs(r, "unpack") => q = r
        /\ \A q \in Procs : Runs(q, "unpack") => proc[q].pc # "mkdir" /\ UnpackedSoFar(q)
        /\ index.is = "index" =>
             Complete /\ Built = index.source /\ \A q \in Procs : ~Runs(q, "unpack")
    BY <1>1, <1>5 DEF UnpackFits
  <2>2. Complete => Complete'
    BY <1>1 DEF Complete, StreamFits
  <2>3. Built' = Built
    BY <1>1 DEF Built, Recreated
  <2>4. \A q, r \in Procs : Runs(q, "unpack")' /\ Runs(r, "unpack")' => q = r
    BY <2>1
  <2>5. \A q \in Procs : Runs(q, "unpack")' => proc'[q].pc # "mkdir" /\ UnpackedSoFar(q)'
    BY <1>2, <2>1 DEF SameUnpack
  <2>6. index'.is = "index" => Complete' /\ Built' = index'.source /\ \A q \in Procs : ~Runs(q, "unpack")'
    BY <1>1, <2>1, <2>2, <2>3
  <2>7. QED BY <2>4, <2>5, <2>6
<1>6. QED BY <1>3, <1>4, <1>5 DEF UnpackFits

LEMMA OthersUnpack ==
  ASSUME NEW p \in Procs, GoesAlong(p), NEW q \in Procs \ {p}
  PROVE  (Runs(q, "unpack")' <=> Runs(q, "unpack")) /\ SameUnpack(q)
  BY DEF GoesAlong, Keeps, Runs, SameUnpack

LEMMA NoUnpackStep ==
  ASSUME UnpackFits, NEW p \in Procs, GoesAlong(p), ~Runs(p, "unpack") \/ proc'[p] = Idle, UNCHANGED unpackVars
  PROVE  UnpackFits'
<1>1. ~Runs(p, "unpack")'
  BY DEF GoesAlong, Runs, Idle
<1>2. QED BY <1>1, OthersUnpack, UnpackKept

LEMMA StartsUnpack ==
  ASSUME UnpackFits, NEW p \in Procs, NEW c \in Running, StartsAs(p, c), UNCHANGED unpackVars
  PROVE  UnpackFits'
<1>1. \A q \in Procs \ {p} : (Runs(q, "unpack")' <=> Runs(q, "unpack")) /\ SameUnpack(q)
  BY DEF StartsAs, Begins, OthersStay, Stays, Keeps, Runs, SameUnpack
<1>2. CASE c.cmd # "unpack"
  <2>1. ~Runs(p, "unpack")'
    BY <1>2 DEF StartsAs, Begins, Runs
  <2>2. QED BY <1>1, <2>1, UnpackKept
<1>3. CASE c.cmd = "unpack"
  <2>1. /\ ~made /\ c.pc = "mkdir" /\ c.todo = c.man.streams /\ c.open = {} /\ c.plan = NoData
        /\ proc'[p] = c
    BY <1>3 DEF StartsAs, Begins
  <2>2. ~made' /\ index' = index
    BY <2>1 DEF unpackVars
  <2>3. index = NoFile /\ \A q \in Procs : Runs(q, "unpack") => proc[q].pc = "mkdir"
    BY <2>1 DEF UnpackFits
  <2>4. (\A q \in Procs : Runs(q, "unpack") /\ proc[q].pc = "mkdir" =>
           proc[q].todo = proc[q].man.streams /\ proc[q].open = {} /\ proc[q].plan = NoData)'
    BY <1>1, <2>1 DEF UnpackFits, SameUnpack
  <2>5. \A q \in Procs : Runs(q, "unpack")' => proc'[q].pc = "mkdir"
    BY <1>1, <2>1, <2>3 DEF SameUnpack
  <2>6. QED BY <2>2, <2>3, <2>4, <2>5 DEF UnpackFits
<1>4. QED BY <1>2, <1>3

(* The first step in the directory.                                         *)
LEMMA MkdirFits ==
  ASSUME TypeOK, UnpackFits, NEW p \in Procs, UnpackMkdir(p)
  PROVE  UnpackFits'
<1>1. GoesAlong(p) /\ Runs(p, "unpack") /\ proc[p].pc = "mkdir"
  BY UnpackElsewhere DEF UnpackWorks, Elsewhere, UnpackMkdir, Unpacking, At
<1>2. Moved(p, "gaps", proc[p].handle)
  BY UnpackMkdirStep
<1>3. made' /\ UNCHANGED <<index, gaps, contents, recon>>
  BY DEF UnpackMkdir
<1>4. /\ proc'[p].pc = "gaps" /\ proc'[p].todo = proc'[p].man.streams /\ proc'[p].open = {}
      /\ proc'[p].plan = NoData
  BY <1>1, <1>2 DEF UnpackFits, Moved, Follows
<1>5. (\A q \in Procs : Runs(q, "unpack") /\ proc[q].pc = "mkdir" =>
         proc[q].todo = proc[q].man.streams /\ proc[q].open = {} /\ proc[q].plan = NoData)'
  BY <1>1, <1>4, OthersUnpack DEF UnpackFits, SameUnpack
<1>6. ASSUME ~meddled'
      PROVE  (/\ \A q, r \in Procs : Runs(q, "unpack") /\ Runs(r, "unpack") => q = r
              /\ \A q \in Procs : Runs(q, "unpack") => proc[q].pc # "mkdir" /\ UnpackedSoFar(q)
              /\ index.is = "index" =>
                   Complete /\ Built = index.source /\ \A q \in Procs : ~Runs(q, "unpack"))'
  <2>1. ~meddled /\ \A q \in Procs \ {p} : ~Runs(q, "unpack")
    BY <1>6 DEF UnpackMkdir, Runs
  <2>2. ~made
    BY <1>1, <2>1 DEF UnpackFits
  <2>3. index' = NoFile /\ NoFile.is # "index"
    BY <1>3, <2>2 DEF UnpackFits, NoFile
  <2>4. \A q \in Procs : Runs(q, "unpack")' => q = p
    BY <1>1, <2>1, OthersUnpack
  <2>5. UnpackedSoFar(p)'
    <3>1. (proc[p].todo \cup proc[p].open \cup DOMAIN proc[p].plan \subseteq proc[p].man.streams)'
      BY <1>4 DEF NoData
    <3>2. QED BY <1>4, <2>3, <3>1 DEF UnpackedSoFar
  <2>6. QED BY <1>4, <2>3, <2>4, <2>5
<1>7. QED BY <1>3, <1>5, <1>6 DEF UnpackFits

(* Every later one: the unpack has the directory for itself.                *)
LEMMA UnpackGoesAlong ==
  ASSUME UnpackFits, NEW p \in Procs, GoesAlong(p), Runs(p, "unpack"), proc[p].pc # "mkdir",
         UNCHANGED <<made, meddled>>,
         Runs(p, "unpack")' => proc'[p].pc # "mkdir",
         UnpackedSoFar(p) /\ Runs(p, "unpack")' => UnpackedSoFar(p)',
         UnpackedSoFar(p) /\ proc'[p] = Idle =>
           (index'.is = "index" => Complete' /\ Built' = index'.source)
  PROVE  UnpackFits'
<1>1. made /\ made'
  BY DEF UnpackFits
<1>2. (\A q \in Procs : Runs(q, "unpack") /\ proc[q].pc = "mkdir" =>
         proc[q].todo = proc[q].man.streams /\ proc[q].open = {} /\ proc[q].plan = NoData)'
  BY OthersUnpack DEF UnpackFits, SameUnpack
<1>3. ASSUME ~meddled'
      PROVE  (/\ \A q, r \in Procs : Runs(q, "unpack") /\ Runs(r, "unpack") => q = r
              /\ \A q \in Procs : Runs(q, "unpack") => proc[q].pc # "mkdir" /\ UnpackedSoFar(q)
              /\ index.is = "index" =>
                   Complete /\ Built = index.source /\ \A q \in Procs : ~Runs(q, "unpack"))'
  <2>1. UnpackedSoFar(p) /\ \A q \in Procs \ {p} : ~Runs(q, "unpack")
    BY <1>1, <1>3 DEF UnpackFits
  <2>2. \A q \in Procs : Runs(q, "unpack")' => q = p
    BY <2>1, OthersUnpack
  <2>3. CASE Runs(p, "unpack")'
    <3>1. UnpackedSoFar(p)'
      BY <2>1, <2>3
    <3>2. index' \in {Cut, NoFile}
      BY <3>1 DEF UnpackedSoFar
    <3>3. index'.is # "index"
      BY <3>2, FileKinds
    <3>4. QED BY <2>2, <3>1, <3>3
  <2>4. CASE ~Runs(p, "unpack")'
    <3>1. proc'[p] = Idle
      BY <2>4 DEF GoesAlong, Runs
    <3>2. QED BY <2>1, <2>2, <2>4, <3>1
  <2>5. QED BY <2>3, <2>4
<1>4. QED BY <1>1, <1>2, <1>3 DEF UnpackFits

(* What an unpack has still to do with a stream.                            *)
LEMMA Stages ==
  ASSUME TypeOK, NEW p \in Procs, Runs(p, "unpack"), UnpackedSoFar(p), proc[p].pc = "tasks", NEW s \in Streams,
         NEW stage \in {"contents", "contents opened", "recon", "recon opened"}, Stage(p, s) = stage
  PROVE  /\ s \in proc[p].man.streams /\ StreamUnpacked(p, s)
         /\ stage = "contents" => s \in proc[p].todo
         /\ stage = "contents opened" => s \in proc[p].open
         /\ stage \in {"recon", "recon opened"} => s \in DOMAIN proc[p].plan /\ proc[p].plan[s] = stage
<1>1. proc[p].plan \in Unfinished
  BY Unpackers, TypesSplit DEF Runs
<1>2. \A t \in DOMAIN proc[p].plan : proc[p].plan[t] \in {"recon", "recon opened"}
  BY <1>1 DEF Unfinished
<1>3. s \in proc[p].todo \cup proc[p].open \cup DOMAIN proc[p].plan
  <2>1. CASE ~(s \in proc[p].todo \cup proc[p].open \cup DOMAIN proc[p].plan)
    <3>1. Stage(p, s) = "done"
      BY <2>1 DEF Stage
    <3>2. QED BY <3>1
  <2>2. QED BY <2>1
<1>4. s \in proc[p].man.streams /\ StreamUnpacked(p, s)
  BY <1>3 DEF UnpackedSoFar
<1>5. CASE s \in proc[p].todo
  <2>1. s \notin proc[p].open /\ s \notin DOMAIN proc[p].plan
    BY <1>4, <1>5 DEF StreamUnpacked
  <2>2. Stage(p, s) = "contents"
    BY <1>5, <2>1 DEF Stage
  <2>3. QED BY <1>4, <1>5, <2>2
<1>6. CASE s \in proc[p].open
  <2>1. s \notin proc[p].todo /\ s \notin DOMAIN proc[p].plan
    BY <1>4, <1>6 DEF StreamUnpacked
  <2>2. Stage(p, s) = "contents opened"
    BY <1>6, <2>1 DEF Stage
  <2>3. QED BY <1>4, <1>6, <2>2
<1>7. CASE s \in DOMAIN proc[p].plan
  <2>1. s \notin proc[p].todo /\ s \notin proc[p].open
    BY <1>4, <1>7 DEF StreamUnpacked
  <2>2. Stage(p, s) = proc[p].plan[s]
    BY <1>7, <2>1 DEF Stage
  <2>3. QED BY <1>2, <1>4, <1>7, <2>2
<1>8. QED BY <1>3, <1>5, <1>6, <1>7

(* One stream is a stage further, the others are where they were.           *)
LEMMA StreamsUnpacked ==
  ASSUME NEW p \in Procs, UnpackedSoFar(p), proc[p].pc = "tasks", NEW s \in Streams, NEW stage,
         s \in proc[p].man.streams, proc[p].man.streams \subseteq Streams,
         Unpacks(p, s, stage), UNCHANGED <<index, gaps>>,
         \A t \in Streams \ {s} : contents'[t] = contents[t],
         \A t \in Corrected \ {s} : recon'[t] = recon[t],
         DOMAIN proc[p].plan \subseteq Corrected,
         StreamUnpacked(p, s)'
  PROVE  UnpackedSoFar(p)'
<1>1. /\ proc'[p].pc = "tasks" /\ proc'[p].data = proc[p].data /\ proc'[p].man = proc[p].man
      /\ proc'[p].todo = proc[p].todo \ {s}
      /\ proc'[p].open \subseteq proc[p].open \cup {s} /\ proc[p].open \subseteq proc'[p].open \cup {s}
      /\ DOMAIN proc'[p].plan \subseteq DOMAIN proc[p].plan \cup {s}
      /\ DOMAIN proc[p].plan \subseteq DOMAIN proc'[p].plan \cup {s}
      /\ \A t \in DOMAIN proc'[p].plan : t # s => proc'[p].plan[t] = proc[p].plan[t]
  BY DEF Unpacks
<1>2. ASSUME NEW t \in Streams, t # s, t \in proc[p].man.streams PROVE StreamUnpacked(p, t)'
  <2>1. StreamUnpacked(p, t)
    BY <1>2 DEF UnpackedSoFar
  <2>2. /\ t \in proc'[p].todo <=> t \in proc[p].todo
        /\ t \in proc'[p].open <=> t \in proc[p].open
        /\ t \in DOMAIN proc'[p].plan <=> t \in DOMAIN proc[p].plan
        /\ t \in DOMAIN proc'[p].plan => proc'[p].plan[t] = proc[p].plan[t]
    BY <1>1, <1>2
  <2>3. contents'[t] = contents[t] /\ (t \in Corrected => recon'[t] = recon[t])
    BY <1>2
  <2>4. t \in DOMAIN proc[p].plan => t \in Corrected
    OBVIOUS
  <2>5. QED BY <1>1, <2>1, <2>2, <2>3, <2>4 DEF StreamUnpacked
<1>3. \A t \in proc'[p].man.streams : StreamUnpacked(p, t)'
  BY <1>1, <1>2
<1>4. (proc[p].todo \cup proc[p].open \cup DOMAIN proc[p].plan \subseteq proc[p].man.streams)'
  BY <1>1 DEF UnpackedSoFar
<1>5. (gaps = Gaps(proc[p].data, proc[p].man.streams) /\ index = NoFile)'
  BY <1>1 DEF UnpackedSoFar
<1>6. QED BY <1>1, <1>3, <1>4, <1>5 DEF UnpackedSoFar

LEMMA InCorrected ==
  ASSUME TypeOK, NEW p \in Procs, Runs(p, "unpack")
  PROVE  /\ proc[p].man.streams \subseteq Streams /\ DOMAIN proc[p].plan \subseteq Corrected
         /\ contents \in [Streams -> StreamFiles] /\ recon \in [Corrected -> StreamFiles]
         /\ proc[p].data \in Bytes /\ proc[p].man.source = proc[p].data
<1>1. proc[p].plan \in Unfinished /\ proc[p].man.streams \in SUBSET Streams
      /\ proc[p].data \in Bytes /\ proc[p].man.source = proc[p].data
  BY Unpackers, TypesSplit DEF Runs
<1>2. DOMAIN proc[p].plan \subseteq Corrected
  BY <1>1 DEF Unfinished
<1>3. QED BY <1>1, <1>2, TypesSplit DEF UnpackOK

LEMMA ContentsOpenFits ==
  ASSUME TypeOK, NEW p \in Procs, NEW s \in Streams, ContentsOpen(p, s), UnpackedSoFar(p)
  PROVE  UnpackedSoFar(p)'
<1>1. Unpacks(p, s, "contents opened") /\ Runs(p, "unpack") /\ proc[p].pc = "tasks" /\ Stage(p, s) = "contents"
  BY ContentsOpenStep DEF ContentsOpen, Unpacking, At, Runs
<1>2. s \in proc[p].todo /\ s \in proc[p].man.streams /\ StreamUnpacked(p, s)
  BY <1>1, Stages
<1>3. contents' = [contents EXCEPT ![s] = Cut] /\ UNCHANGED <<index, gaps, recon>>
  BY DEF ContentsOpen
<1>4. contents'[s] = Cut /\ \A t \in Streams \ {s} : contents'[t] = contents[t]
  BY <1>1, <1>3, InCorrected
<1>5. s \in proc'[p].open /\ s \notin proc'[p].todo /\ s \notin DOMAIN proc'[p].plan
  <2>1. s \notin DOMAIN proc[p].plan
    BY <1>2 DEF StreamUnpacked
  <2>2. QED BY <1>1, <2>1 DEF Unpacks
<1>6. StreamUnpacked(p, s)'
  BY <1>4, <1>5 DEF StreamUnpacked
<1>7. QED BY <1>1, <1>2, <1>3, <1>4, <1>6, InCorrected, StreamsUnpacked

LEMMA ContentsWriteFits ==
  ASSUME TypeOK, NEW p \in Procs, NEW s \in Streams, ContentsWrite(p, s), UnpackedSoFar(p)
  PROVE  UnpackedSoFar(p)'
<1>0. PICK stage : stage = IF s \in Corrected THEN "recon" ELSE "done"
  OBVIOUS
<1>1. Unpacks(p, s, stage) /\ Runs(p, "unpack") /\ proc[p].pc = "tasks" /\ Stage(p, s) = "contents opened"
  BY <1>0, ContentsWriteStep DEF ContentsWrite, Unpacking, At, Runs
<1>2. s \in proc[p].open /\ s \in proc[p].man.streams /\ StreamUnpacked(p, s)
  BY <1>1, Stages
<1>3. contents[s] = Cut
  BY <1>2 DEF StreamUnpacked
<1>4. PICK c \in AfterWrite(contents[s], Content(proc[p].data[s])) : contents' = [contents EXCEPT ![s] = c]
  BY DEF ContentsWrite
<1>5. c = Content(proc[p].data[s]) /\ UNCHANGED <<index, gaps, recon>>
  BY <1>3, <1>4, WriteLeaves DEF ContentsWrite
<1>6. contents'[s] = Content(proc[p].data[s]) /\ \A t \in Streams \ {s} : contents'[t] = contents[t]
  BY <1>1, <1>4, <1>5, InCorrected
<1>7. /\ s \notin proc'[p].open /\ s \notin proc'[p].todo /\ proc'[p].data = proc[p].data
      /\ s \in DOMAIN proc'[p].plan <=> s \in Corrected
      /\ s \in DOMAIN proc'[p].plan => proc'[p].plan[s] = "recon"
  <2>1. /\ proc'[p].todo = proc[p].todo \ {s} /\ proc'[p].open = proc[p].open \ {s}
        /\ proc'[p].data = proc[p].data
    BY <1>0, <1>1 DEF Unpacks
  <2>2. CASE s \in Corrected
    BY <1>0, <1>1, <2>1, <2>2 DEF Unpacks
  <2>3. CASE s \notin Corrected
    BY <1>0, <1>1, <2>1, <2>3 DEF Unpacks
  <2>4. QED BY <2>2, <2>3
<1>8. StreamUnpacked(p, s)'
  BY <1>6, <1>7 DEF StreamUnpacked
<1>9. QED BY <1>1, <1>2, <1>5, <1>6, <1>8, InCorrected, StreamsUnpacked

LEMMA ReconOpenFits ==
  ASSUME TypeOK, NEW p \in Procs, NEW s \in Corrected, ReconOpen(p, s), UnpackedSoFar(p)
  PROVE  UnpackedSoFar(p)'
<1>0. s \in Streams
  BY UnpackAssumption
<1>1. Unpacks(p, s, "recon opened") /\ Runs(p, "unpack") /\ proc[p].pc = "tasks" /\ Stage(p, s) = "recon"
  BY ReconOpenStep DEF ReconOpen, Unpacking, At, Runs
<1>2. s \in DOMAIN proc[p].plan /\ s \in proc[p].man.streams /\ StreamUnpacked(p, s)
  BY <1>0, <1>1, Stages
<1>3. recon' = [recon EXCEPT ![s] = Cut] /\ UNCHANGED <<index, gaps, contents>>
  BY DEF ReconOpen
<1>4. recon'[s] = Cut /\ \A t \in Corrected \ {s} : recon'[t] = recon[t]
  BY <1>1, <1>3, InCorrected
<1>5. s \notin proc[p].todo \cup proc[p].open /\ contents[s] = Content(proc[p].data[s])
  BY <1>2 DEF StreamUnpacked
<1>6. /\ s \notin proc'[p].todo \cup proc'[p].open /\ proc'[p].data = proc[p].data
      /\ s \in DOMAIN proc'[p].plan
  BY <1>1, <1>5 DEF Unpacks
<1>7. StreamUnpacked(p, s)'
  BY <1>3, <1>4, <1>5, <1>6 DEF StreamUnpacked
<1>8. QED BY <1>0, <1>1, <1>2, <1>3, <1>4, <1>7, InCorrected, StreamsUnpacked

LEMMA ReconWriteFits ==
  ASSUME TypeOK, NEW p \in Procs, NEW s \in Corrected, ReconWrite(p, s), UnpackedSoFar(p)
  PROVE  UnpackedSoFar(p)'
<1>0. s \in Streams
  BY UnpackAssumption
<1>1. Unpacks(p, s, "done") /\ Runs(p, "unpack") /\ proc[p].pc = "tasks" /\ Stage(p, s) = "recon opened"
  BY ReconWriteStep DEF ReconWrite, Unpacking, At, Runs
<1>2. s \in DOMAIN proc[p].plan /\ s \in proc[p].man.streams /\ StreamUnpacked(p, s)
      /\ proc[p].plan[s] = "recon opened"
  BY <1>0, <1>1, Stages
<1>3. s \notin proc[p].todo \cup proc[p].open /\ contents[s] = Content(proc[p].data[s]) /\ recon[s] = Cut
  BY <1>2 DEF StreamUnpacked
<1>4. PICK c \in AfterWrite(recon[s], Content(proc[p].data[s])) : recon' = [recon EXCEPT ![s] = c]
  BY DEF ReconWrite
<1>5. c = Content(proc[p].data[s]) /\ UNCHANGED <<index, gaps, contents>>
  BY <1>3, <1>4, WriteLeaves DEF ReconWrite
<1>6. recon'[s] = Content(proc[p].data[s]) /\ \A t \in Corrected \ {s} : recon'[t] = recon[t]
  BY <1>1, <1>4, <1>5, InCorrected
<1>7. /\ s \notin proc'[p].todo \cup proc'[p].open /\ proc'[p].data = proc[p].data
      /\ s \notin DOMAIN proc'[p].plan
  BY <1>1, <1>3 DEF Unpacks
<1>8. StreamUnpacked(p, s)'
  BY <1>3, <1>5, <1>6, <1>7 DEF StreamUnpacked
<1>9. QED BY <1>0, <1>1, <1>2, <1>5, <1>6, <1>8, InCorrected, StreamsUnpacked

(* When the index is written, the rest is there.                            *)
LEMMA IndexWriteFits ==
  ASSUME TypeOK, NEW p \in Procs, IndexWrite(p), UnpackedSoFar(p)
  PROVE  Complete' /\ Built' = index'.source
<1>1. Runs(p, "unpack") /\ proc[p].pc = "index opened"
  BY DEF IndexWrite, Unpacking, At, Runs
<1>2. /\ proc[p].todo = {} /\ proc[p].open = {} /\ DOMAIN proc[p].plan = {} /\ index = Cut
      /\ gaps = Gaps(proc[p].data, proc[p].man.streams)
      /\ \A s \in proc[p].man.streams : StreamUnpacked(p, s)
  BY <1>1 DEF UnpackedSoFar, TasksDone, NoData
<1>3. PICK v \in Bytes : v = proc[p].data /\ v = proc[p].man.source
  BY <1>1, InCorrected
<1>4. PICK S \in SUBSET Streams : S = proc[p].man.streams
  BY <1>1, InCorrected
<1>5. index' = Index(v, S) /\ UNCHANGED <<gaps, contents, recon>>
  <2>1. index' \in AfterWrite(Cut, Index(v, S))
    BY <1>2, <1>3, <1>4 DEF IndexWrite
  <2>2. QED BY <2>1, WriteLeaves DEF IndexWrite
<1>6. index'.is = "index" /\ index'.source = v /\ index'.streams = S
  BY <1>5, IndexesFit
<1>7. gaps'.is = "gaps" /\ gaps'.bytes = [s \in Parts \ S |-> v[s]]
  BY <1>2, <1>3, <1>4, <1>5, GapsFit, ZenonT(40)
<1>8. ASSUME NEW s \in S
      PROVE  contents'[s] = Content(v[s]) /\ (s \in Corrected => recon'[s] = Content(v[s]))
  BY <1>2, <1>3, <1>4, <1>5, <1>8 DEF StreamUnpacked
<1>9. Complete'
  <2>1. \A s \in S : (contents'[s] = Content(v[s])) /\ (s \in Corrected => recon'[s] # NoFile)
    <3>1. \A c : Content(c) # NoFile
      BY DEF Content, NoFile
    <3>2. QED BY <1>8, <3>1
  <2>2. \A s \in S : StreamFits(index, s)'
    BY <1>6, <2>1 DEF StreamFits
  <2>3. DOMAIN gaps'.bytes = Parts \ S
    BY <1>7
  <2>4. QED BY <1>6, <1>7, <2>2, <2>3 DEF Complete
<1>10. Built' = v
  <2>1. ASSUME NEW s \in Parts PROVE (IF s \in S THEN Recreated(s)' ELSE gaps'.bytes[s]) = v[s]
    <3>1. CASE s \in S
      <4>0. contents'[s] = Content(v[s])
        BY <1>8, <3>1
      <4>1. contents'[s].data = v[s]
        BY <4>0 DEF Content
      <4>2. s \in Corrected => recon'[s] = contents'[s]
        BY <1>8, <3>1
      <4>3. QED BY <3>1, <4>1, <4>2 DEF Recreated
    <3>2. CASE s \notin S
      BY <1>7, <3>2
    <3>3. QED BY <3>1, <3>2
  <2>2. Built' = [s \in Parts |-> IF s \in S THEN Recreated(s)' ELSE gaps'.bytes[s]]
    BY <1>6 DEF Built
  <2>3. v = [s \in Parts |-> v[s]]
    BY DEF Bytes
  <2>4. QED BY <2>1, <2>2, <2>3
<1>11. QED BY <1>6, <1>9, <1>10

LEMMA UnpackWorksFits ==
  ASSUME TypeOK, UnpackFits, NEW p \in Procs, UnpackWorks(p)
  PROVE  UnpackFits'
<1>1. GoesAlong(p) /\ Runs(p, "unpack")
  BY UnpackElsewhere DEF Elsewhere
<1>2. ASSUME proc'[p] # Idle, proc[p].pc # "mkdir", UNCHANGED <<made, meddled>>, proc'[p].pc # "mkdir",
             UnpackedSoFar(p) => UnpackedSoFar(p)'
      PROVE  UnpackFits'
  BY <1>1, <1>2, UnpackGoesAlong
<1>3. CASE UnpackMkdir(p)
  BY <1>3, MkdirFits
<1>4. CASE UnpackGapsOpen(p)
  <2>1. Moved(p, "gaps opened", proc[p].handle) /\ proc[p].pc = "gaps" /\ UNCHANGED <<made, meddled, index>>
        /\ gaps' = Cut
    BY <1>4, UnpackGapsOpenStep DEF UnpackGapsOpen, Unpacking, At
  <2>2. UnpackedSoFar(p) => UnpackedSoFar(p)'
    BY <2>1 DEF UnpackedSoFar, Moved, Follows
  <2>3. QED BY <1>2, <2>1, <2>2 DEF Moved, Follows
<1>5. CASE UnpackGapsWrite(p)
  <2>1. Moved(p, "tasks", proc[p].handle) /\ proc[p].pc = "gaps opened" /\ UNCHANGED <<made, meddled, index>>
    BY <1>5, UnpackGapsWriteStep DEF UnpackGapsWrite, Unpacking, At
  <2>2. ASSUME UnpackedSoFar(p) PROVE UnpackedSoFar(p)'
    <3>1. /\ gaps = Cut /\ index = NoFile /\ proc[p].todo = proc[p].man.streams /\ proc[p].open = {}
          /\ proc[p].plan = NoData
      BY <2>1, <2>2 DEF UnpackedSoFar
    <3>2. gaps' \in AfterWrite(Cut, Gaps(proc[p].data, proc[p].man.streams))
      BY <1>5, <3>1 DEF UnpackGapsWrite
    <3>3. gaps' = Gaps(proc[p].data, proc[p].man.streams)
      BY <3>2, WriteLeaves
    <3>4. /\ proc'[p].todo = proc'[p].man.streams /\ proc'[p].open = {} /\ DOMAIN proc'[p].plan = {}
          /\ proc'[p].pc = "tasks" /\ gaps' = Gaps(proc'[p].data, proc'[p].man.streams) /\ index' = NoFile
      BY <2>1, <3>1, <3>3 DEF Moved, Follows, NoData
    <3>5. \A s \in proc'[p].man.streams : StreamUnpacked(p, s)'
      BY <3>4 DEF StreamUnpacked
    <3>6. QED BY <3>4, <3>5 DEF UnpackedSoFar
  <2>3. QED BY <1>2, <2>1, <2>2 DEF Moved, Follows
<1>6. ASSUME NEW s \in Streams, ContentsOpen(p, s) \/ ContentsWrite(p, s) PROVE UnpackFits'
  <2>1. proc[p].pc = "tasks" /\ UNCHANGED <<made, meddled>> /\ \E stage : Unpacks(p, s, stage)
    BY <1>6, ContentsOpenStep, ContentsWriteStep DEF ContentsOpen, ContentsWrite, Unpacking, At
  <2>2. proc'[p] # Idle /\ proc'[p].pc = "tasks"
    BY <2>1, RunningIsNotIdle DEF Unpacks, Running
  <2>3. QED BY <1>2, <1>6, <2>1, <2>2, ContentsOpenFits, ContentsWriteFits
<1>7. ASSUME NEW s \in Corrected, ReconOpen(p, s) \/ ReconWrite(p, s) PROVE UnpackFits'
  <2>1. proc[p].pc = "tasks" /\ UNCHANGED <<made, meddled>> /\ \E stage : Unpacks(p, s, stage)
    BY <1>7, ReconOpenStep, ReconWriteStep DEF ReconOpen, ReconWrite, Unpacking, At
  <2>2. proc'[p] # Idle /\ proc'[p].pc = "tasks"
    BY <2>1, RunningIsNotIdle DEF Unpacks, Running
  <2>3. QED BY <1>2, <1>7, <2>1, <2>2, ReconOpenFits, ReconWriteFits
<1>8. CASE IndexOpen(p)
  <2>1. /\ Moved(p, "index opened", proc[p].handle) /\ proc[p].pc = "tasks" /\ TasksDone(p)
        /\ UNCHANGED <<made, meddled, gaps, contents, recon>> /\ index' = Cut
    BY <1>8, IndexOpenStep DEF IndexOpen, Unpacking, At
  <2>2. \A s : StreamUnpacked(p, s) => StreamUnpacked(p, s)'
    BY <2>1 DEF StreamUnpacked, Moved, Follows
  <2>3. TasksDone(p)'
    BY <2>1 DEF TasksDone, Moved, Follows
  <2>4. UnpackedSoFar(p) => UnpackedSoFar(p)'
    BY <2>1, <2>2, <2>3 DEF UnpackedSoFar, Moved, Follows
  <2>5. QED BY <1>2, <2>1, <2>4 DEF Moved, Follows
<1>9. CASE IndexWrite(p)
  <2>1. proc'[p] = Idle /\ proc[p].pc = "index opened" /\ UNCHANGED <<made, meddled>>
    BY <1>9, IndexWriteStep DEF IndexWrite, Unpacking, At
  <2>2. Idle.cmd = "none"
    BY DEF Idle
  <2>3. proc'[p].cmd = "none"
    BY <2>1, <2>2
  <2>4. ~Runs(p, "unpack")'
    BY <2>3 DEF Runs
  <2>5. QED BY <1>1, <1>9, <2>1, <2>4, IndexWriteFits, UnpackGoesAlong
<1>10. CASE UnpackFails(p)
  BY <1>1, <1>10, ApartEnds, NoUnpackStep DEF UnpackFails
<1>11. QED BY <1>3, <1>4, <1>5, <1>6, <1>7, <1>8, <1>9, <1>10 DEF UnpackWorks

LEMMA UnpackFitsStep ==
  ASSUME TypeOK, UnpackFits, [Next]_vars
  PROVE  UnpackFits'
<1>1. ASSUME UNCHANGED proc, UNCHANGED unpackVars PROVE UnpackFits'
  BY <1>1, UnpackKept DEF SameUnpack, Runs
<1>2. CASE UNCHANGED vars
  BY <1>1, <1>2 DEF vars, fileVars
<1>3. ASSUME NEW p \in Procs, WriteStep(p), UNCHANGED <<dirVars, unpackVars>> PROVE UnpackFits'
  <2>1. GoesAlong(p)
    BY <1>3, WritesGoAlong
  <2>2. CASE ~Runs(p, "unpack")
    BY <1>3, <2>1, <2>2, NoUnpackStep
  <2>3. CASE Runs(p, "unpack")
    <3>1. proc[p].pc \in {"mkdir", "gaps", "gaps opened", "tasks", "index opened"}
      BY <2>3, Unpackers, TypesSplit DEF Runs, Unpacker
    <3>2. Kill(p)
      BY <1>3, <3>1 DEF WriteStep, SaveCreate, SaveWrite, SaveFails, TempCreate, TempFails, TempWrite,
                        TempRename, TempRemove, TempPanics, At
    <3>3. proc'[p] = Idle
      BY <3>2, AbandonStep DEF Kill
    <3>4. QED BY <1>3, <2>1, <3>3, NoUnpackStep
  <2>4. QED BY <2>2, <2>3
<1>4. ASSUME NEW p \in Procs, UNCHANGED unpackVars,
             Scan(p) \/ Extract(p) \/ ApplyFields(p) \/ Try(p) \/ Pack(p) \/ UnpackStart(p) \/ RebuildStart(p)
      PROVE  UnpackFits'
  BY <1>4, Beginnings, StartsUnpack
<1>5. ASSUME NEW p \in Procs, UNCHANGED unpackVars,
             \/ (\E s \in Streams : ExtractOpen(p, s) \/ ExtractWrite(p, s) \/ ExtractFails(p, s)) \/ ExtractEnd(p)
             \/ PackEnd(p) \/ RebuildEnd(p) \/ PackVerify(p) \/ RebuildFill(p) \/ RebuildCheck(p)
      PROVE  UnpackFits'
  <2>1. GoesAlong(p)
    BY <1>5, ExtractElsewhere, EndsElsewhere, ChecksGoAlong DEF Elsewhere
  <2>2. ~Runs(p, "unpack")
    BY <1>5 DEF ExtractOpen, ExtractWrite, ExtractFails, ExtractEnd, PackEnd, RebuildEnd, PackVerify, RebuildFill,
                RebuildCheck, Runs
  <2>3. QED BY <1>5, <2>1, <2>2, NoUnpackStep
<1>6. ASSUME NEW p \in Procs, CliStep(p), UNCHANGED unpackVars PROVE UnpackFits'
  BY <1>4, <1>5, <1>6 DEF CliStep
<1>7. ASSUME NEW p \in Procs, UnpackStep(p) PROVE UnpackFits'
  <2>1. UnpackStart(p) \/ RebuildStart(p) \/ RebuildEnd(p) \/ RebuildFill(p) \/ RebuildCheck(p) =>
          UNCHANGED unpackVars
    BY DEF UnpackStart, RebuildStart, RebuildEnd, RebuildFill, RebuildCheck
  <2>2. QED BY <1>4, <1>5, <1>7, <2>1, UnpackWorksFits DEF UnpackStep, UnpackWorks
<1>8. ASSUME NEW s \in Streams, NEW c \in Contents, Meddle(s, c) PROVE UnpackFits'
  <2>1. Quiet /\ UNCHANGED <<proc, made, index>> /\ meddled'
    BY <1>8 DEF Meddle, fileVars
  <2>2. \A p \in Procs : ~Runs(p, "unpack")'
    BY <2>1 DEF Quiet, Runs, Idle
  <2>3. QED BY <2>1, <2>2 DEF UnpackFits
<1>9. ASSUME NEW s \in Streams, NEW c \in Contents, Edit(s, c), UNCHANGED unpackVars PROVE UnpackFits'
  BY <1>1, <1>9 DEF Edit, fileVars
<1>10. ASSUME NEW v \in Versions, Update(v), UNCHANGED unpackVars PROVE UnpackFits'
  BY <1>1, <1>10 DEF Update
<1>11. QED BY <1>2, <1>3, <1>6, <1>7, <1>8, <1>9, <1>10 DEF Next

-----------------------------------------------------------------------------
(* The theorems.                                                            *)

LEMMA InvariantInit == Init => IInv
<1> SUFFICES ASSUME Init PROVE IInv
  OBVIOUS
<1>1. TypeOK
  BY TypesInit
<1>2. /\ \A p \in Procs : proc[p] = Idle
      /\ \A o \in Outputs : temp[o] = NoFile
      /\ \A s \in Streams : dir[s] = NoFile
      /\ ~made /\ index = NoFile
      /\ file = [n \in Names |-> IF n = "input" THEN Binary(First) ELSE NoFile]
  BY DEF Init, UnpackInit, CliInit, FilesInit
<1>3. \A p \in Procs : \A cmd : Runs(p, cmd) => cmd = "none"
  BY <1>2 DEF Runs, Idle
<1>4. \A p \in Procs, o \in Outputs : ~Writing(p, o)
  BY <1>2, WritersOnly
<1>5. OutputIsWhole
  BY <1>2, FileKinds, SavedNames DEF OutputIsWhole
<1>6. WritesFit
  BY <1>2, <1>4 DEF WritesFit, OneWriter, TempIsOwn, TempIsOwned
<1>7. AloneFits
  BY <1>2, <1>3 DEF AloneFits, StillAlone, PacksWhatIsThere
<1>8. DamageFits
  <2>1. First \in Clean
    BY FilesAssumption DEF Clean
  <2>2. IndexIsClean /\ DirIsClean
    BY <1>2, FileKinds DEF IndexIsClean, DirIsClean, Content, NoFile
  <2>3. ProcsAreClean
    BY <1>2, <1>3 DEF ProcsAreClean, ProcIsClean
  <2>4. \A n \in Names : file[n].is = "binary" => file[n].bytes = First
    BY <1>2, FileKinds
  <2>5. OutputsAreClean
    BY <1>2, <2>1, <2>4, CleanBytes, SavedNames, FileKinds
       DEF OutputsAreClean, InputIsClean, Input, FileIsClean, TempIsClean
  <2>6. QED BY <2>2, <2>3, <2>5, DamageSplit DEF AllClean
<1>9. UnpackFits
  BY <1>2, <1>3 DEF UnpackFits
<1>10. QED BY <1>1, <1>5, <1>6, <1>7, <1>8, <1>9 DEF IInv

LEMMA InvariantStep ==
  ASSUME IInv, [Next]_vars
  PROVE  IInv'
<1>1. TypeOK /\ OutputIsWhole /\ WritesFit /\ StillAlone /\ PacksWhatIsThere /\ DamageFits /\ UnpackFits
  BY DEF IInv, AloneFits
<1>2. TypeOK' /\ OutputIsWhole' /\ WritesFit' /\ StillAlone' /\ PacksWhatIsThere' /\ DamageFits' /\ UnpackFits'
  BY <1>1, TypesStep, AloneStep, WritesStep, PacksStep, DamageStep, UnpackFitsStep
<1>3. QED BY <1>2 DEF IInv, AloneFits

(* Whatever commands are run, fail, panic or are killed, alone or beside    *)
(* others: files hold what some command put there, a command that writes an *)
(* output alone finds its own bytes in the temporary file, one that was     *)
(* alone goes on from what is still there, a stream is damaged only where a *)
(* half-written file was taken for an edit or a rebuild of a changed        *)
(* directory is not yet found out, and an unpack's directory fills up in    *)
(* order.                                                                   *)
THEOREM WorkspaceInvariant == Spec => []IInv
  BY InvariantInit, InvariantStep, PTL DEF Spec

(* write_via_temp: an output is the old file or a finished new one, unless  *)
(* two commands were writing it, or a manifest was saved there.             *)
THEOREM OutputsAreWhole == Spec => []OutputIsWhole
<1>1. IInv => OutputIsWhole
  BY DEF IInv
<1>2. QED BY <1>1, WorkspaceInvariant, PTL

(* Once the commands have ended, a temporary file is there only where a     *)
(* command panicked, was killed or could not remove it.                     *)
THEOREM NoTempIsLeft == Spec => []NoTempLeft
<1>1. ASSUME IInv PROVE NoTempLeft
  <2> SUFFICES ASSUME Quiet, NEW o \in Outputs, temp[o] # NoFile, o \notin orphans PROVE FALSE
    BY DEF NoTempLeft
  <2>1. PICK p \in Procs : Writing(p, o)
    BY <1>1 DEF IInv, WritesFit, TempIsOwned
  <2>2. QED BY <2>1, WritersOnly DEF Quiet
<1>2. QED BY <1>1, WorkspaceInvariant, PTL

(* Whichever commands add to a manifest, check_fields accepts what is saved.*)
THEOREM ManifestsAlwaysFit == Spec => []ManifestsFit
<1>1. ASSUME IInv PROVE ManifestsFit
  <2> SUFFICES ASSUME NEW n \in Names, file[n].is = "manifest" PROVE FieldsFit(file[n])
    BY DEF ManifestsFit
  <2>1. file[n] \in {NoFile, Cut} \cup Binaries \cup FitManifests
    BY <1>1 DEF IInv, TypeOK
  <2>2. file[n] \in FitManifests
    BY <2>1, FileKinds
  <2>3. QED BY <2>2 DEF FitManifests
<1>2. QED BY <1>1, WorkspaceInvariant, PTL

(* What pack and rebuild put in place is damaged in no stream but those     *)
(* whose file was half-written when a pack read it, unless the directory of *)
(* a rebuild was changed and two commands wrote its output.                 *)
THEOREM NothingIsDamaged == Spec => []NoDamage
<1>1. ASSUME IInv PROVE NoDamage
  <2> SUFFICES ASSUME NEW o \in Outputs, file[o].is = "binary", ~Spoilt(o) PROVE OnlyTorn(file[o].bytes)
    BY DEF NoDamage
  <2>1. Unspoilt /\ ~(meddled /\ o \in shared)
    BY DEF Spoilt, Unspoilt
  <2>2. FileIsClean(o)
    BY <1>1, <2>1, DamageSplit DEF IInv, AllClean, OutputsAreClean
  <2>3. QED BY <2>1, <2>2 DEF FileIsClean
<1>2. QED BY <1>1, WorkspaceInvariant, PTL

(* unpack writes its index last: where one is, the input can be rebuilt.    *)
THEOREM IndexIsRebuildable == Spec => []IndexMeansRebuildable
<1>1. ASSUME IInv PROVE IndexMeansRebuildable
  <2> SUFFICES ASSUME index.is = "index", ~meddled PROVE Complete /\ Built = index.source
    BY DEF IndexMeansRebuildable
  <2>1. made
    BY <1>1, FileKinds DEF IInv, UnpackFits
  <2>2. QED BY <1>1, <2>1 DEF IInv, UnpackFits
<1>2. QED BY <1>1, WorkspaceInvariant, PTL

(* A pack with no other command beside it renames into place the present    *)
(* input with exactly the edits that are in the directory.                  *)
THEOREM PackKeeps == Spec => PackKeepsEveryEdit
<1>1. ASSUME IInv, [Next]_vars
      PROVE  [\A p \in Procs : Renames(p, "pack") /\ proc[p].alone =>
                LET packed == file'[proc[p].out].bytes IN
                \A s \in Parts :
                  IF s \in proc[p].man.streams /\ dir[s].is = "content"
                  THEN packed[s] = dir[s].data
                  ELSE packed[s] = Input.bytes[s] \/ (s \in Streams /\ dir[s] = Cut)]_vars
  <2>1. \A p \in Procs : Renames(p, "pack") /\ proc[p].alone => KeepsEveryEdit(p)
    BY <1>1, KeepsStep DEF IInv, AloneFits
  <2>2. QED BY <2>1 DEF KeepsEveryEdit
<1>2. QED BY <1>1, WorkspaceInvariant, PTL DEF Spec, PackKeepsEveryEdit
=============================================================================
