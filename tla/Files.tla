------------------------------- MODULE Files --------------------------------
(***************************************************************************)
(* The files that zscan's commands share, and the two ways in which a      *)
(* command writes one: in place (fs::write, used for manifests) and through *)
(* a temporary file that is renamed into place (write_via_temp of          *)
(* output.rs, used for packed and rebuilt files).                          *)
(*                                                                         *)
(* A command is a process: it can be killed between any two steps, a write *)
(* can fail or panic, and two of them can run at the same time. A file     *)
(* that is being written, or that was left half-written, is Cut: it does   *)
(* not parse, and its bytes are no prefix anyone relies on.                *)
(***************************************************************************)
EXTENDS Integers, FiniteSets

CONSTANTS
  Procs,      (* the commands that can run at the same time                 *)
  Streams,    (* where the input has streams; they do not overlap           *)
  Contents,   (* what a stream may hold                                     *)
  Versions,   (* the inputs the user works on, see Bytes                    *)
  First,      (* the one that is there at first                             *)
  Names,      (* the files that commands are given by name                  *)
  Outputs,    (* those that pack and rebuild are asked to write             *)
  Fields,     (* the length fields that can be added to a manifest          *)
  Overlapping,(* the pairs of them that share bytes                         *)
  MaxRuns     (* bound: commands started in a behaviour                     *)

VARIABLES
  file,       (* what each named file holds                                 *)
  temp,       (* what each output's <output>.zscan-tmp holds                *)
  proc,       (* what each process runs                                     *)
  runs,       (* how many commands were started                             *)
  orphans,    (* history: outputs whose temporary file a command left there *)
  shared      (* history: outputs that two commands were writing at once    *)

fileVars == <<file, temp, proc, runs, orphans, shared>>

(* The bytes of an input: part 0 is everything outside the streams. Damage  *)
(* stands for bytes that nobody asked for: a stream cut short in a file that *)
(* was taken for an edit, or rebuilt from parts that do not belong together. *)
Parts == Streams \cup {0}
Damage == "damage"
Data == Contents \cup {Damage}
Bytes == [Parts -> Data]

ASSUME FilesAssumption ==
  /\ 0 \notin Streams /\ Damage \notin Contents
  /\ Versions \subseteq [Parts -> Contents] /\ First \in Versions
  /\ {"input", "manifest"} \cup Outputs \subseteq Names /\ "none" \notin Names
  /\ Overlapping \subseteq (SUBSET Fields) \ {{}}
  /\ MaxRuns \in Nat

NoFile == [is |-> "nothing"]
Cut == [is |-> "cut"]
Binary(v) == [is |-> "binary", bytes |-> v]
Content(c) == [is |-> "content", data |-> c]
Manifest(v, S, F) == [is |-> "manifest", source |-> v, streams |-> S, fields |-> F]

Idle == [cmd |-> "none"]
NoData == [p \in {} |-> Damage]

Quiet == \A p \in Procs : proc[p] = Idle

(* A process that starts command cmd at its step pc, on the input's bytes v; *)
(* alone: no other command was beside it so far (history).                  *)
Command(cmd, pc, v, man) ==
  [cmd |-> cmd, pc |-> pc, data |-> v, man |-> man, out |-> "none", target |-> "none",
   handle |-> "none", plan |-> NoData, todo |-> {}, open |-> {}, failed |-> FALSE,
   alone |-> Quiet]

At(p, pc) == proc[p].cmd # "none" /\ proc[p].pc = pc
Goto(p, pc) == proc' = [proc EXCEPT ![p].pc = pc]
End(p) == proc' = [proc EXCEPT ![p] = Idle]

(* Some process p is free to run one more command.                          *)
Start(p, command) ==
  /\ proc[p] = Idle /\ runs < MaxRuns
  /\ runs' = runs + 1
  /\ proc' = [q \in Procs |-> IF q = p THEN command
                              ELSE IF proc[q] = Idle THEN Idle
                              ELSE [proc[q] EXCEPT !.alone = FALSE]]

FilesInit ==
  /\ file = [n \in Names |-> IF n = "input" THEN Binary(First) ELSE NoFile]
  /\ temp = [o \in Outputs |-> NoFile]
  /\ proc = [p \in Procs |-> Idle]
  /\ runs = 0 /\ orphans = {} /\ shared = {}

-----------------------------------------------------------------------------
(* Writing. A file opened with File::create is emptied; when it is written  *)
(* over bytes another command put there meanwhile, what remains is either   *)
(* the new bytes or a mixture.                                              *)

AfterWrite(old, new) == IF old \in {Cut, new} THEN {new} ELSE {new, Cut}

(* Manifest::save writes the manifest in place.                             *)
SaveCreate(p) ==
  /\ At(p, "save")
  /\ file' = [file EXCEPT ![proc[p].target] = Cut]
  /\ Goto(p, "saving")
  /\ UNCHANGED <<temp, runs, orphans, shared>>

SaveWrite(p) ==
  /\ At(p, "saving")
  /\ \E c \in AfterWrite(file[proc[p].target], proc[p].man) :
       file' = [file EXCEPT ![proc[p].target] = c]
  /\ End(p)
  /\ UNCHANGED <<temp, runs, orphans, shared>>

SaveFails(p) ==
  /\ At(p, "save") \/ At(p, "saving")
  /\ End(p)
  /\ UNCHANGED <<file, temp, runs, orphans, shared>>

-----------------------------------------------------------------------------
(* write_via_temp: create the temporary file, let the command write and     *)
(* check it, rename it; remove it when any of this failed, which may itself *)
(* fail, and is not done when the command panics. A handle follows          *)
(* the file it was opened on when another process renames or removes it:    *)
(* "temp", then "file", then "gone".                                        *)

(* q is in write_via_temp on output o. It need not have a handle: it removes *)
(* the temporary file even if it failed to create it.                       *)
Writing(q, o) ==
  /\ proc[q].cmd \in {"pack", "rebuild"} /\ proc[q].out = o
  /\ proc[q].pc \in {"fill", "write", "written", "rename", "remove"}

SharedBy(p) ==
  IF \E q \in Procs \ {p} : Writing(q, proc[p].out) THEN shared \cup {proc[p].out} ELSE shared

HandleAfter(h, what) ==
  CASE h = "temp" /\ what = "rename" -> "file"
    [] h = "file" /\ what = "rename" -> "gone"
    [] h = "temp" /\ what = "remove" -> "gone"
    [] OTHER -> h

(* The other processes' handles on output o after p renamed or removed it,  *)
(* p itself going on as r.                                                  *)
Handles(p, o, what, r) ==
  proc' = [q \in Procs |->
             IF q = p THEN r
             ELSE IF proc[q].cmd # "none" /\ proc[q].out = o
                  THEN [proc[q] EXCEPT !.handle = HandleAfter(@, what)]
                  ELSE proc[q]]

TempCreate(p) ==
  /\ At(p, "create")
  /\ temp' = [temp EXCEPT ![proc[p].out] = Cut]
  /\ shared' = SharedBy(p)
  /\ proc' = [proc EXCEPT ![p].pc = IF proc[p].cmd = "rebuild" THEN "fill" ELSE "write",
                          ![p].handle = "temp"]
  /\ UNCHANGED <<file, runs, orphans>>

(* An error: of the file system, or of what rebuild reads.                  *)
TempFails(p) ==
  /\ \E pc \in {"create", "fill", "write", "written", "rename"} : At(p, pc)
  /\ shared' = SharedBy(p)
  /\ Goto(p, "remove")
  /\ UNCHANGED <<file, temp, runs, orphans>>

(* What the command planned is written through its handle, wherever that    *)
(* file is by now.                                                          *)
TempWrite(p) ==
  LET o == proc[p].out  new == Binary(proc[p].plan) IN
  /\ At(p, "write")
  /\ CASE proc[p].handle = "temp" ->
            \E c \in AfterWrite(temp[o], new) : temp' = [temp EXCEPT ![o] = c] /\ UNCHANGED file
       [] proc[p].handle = "file" ->
            \E c \in AfterWrite(file[o], new) : file' = [file EXCEPT ![o] = c] /\ UNCHANGED temp
       [] OTHER -> UNCHANGED <<file, temp>>
  /\ Goto(p, "written")
  /\ UNCHANGED <<runs, orphans, shared>>

(* Mutant: the output is renamed before it is checked.                      *)
RenameUnchecked(p) ==
  LET o == proc[p].out  done == [proc[p] EXCEPT !.pc = "renamed", !.handle = "none"] IN
  /\ At(p, "rename") \/ At(p, "write")
  /\ file' = [file EXCEPT ![o] = temp[o]]
  /\ temp' = [temp EXCEPT ![o] = NoFile]
  /\ Handles(p, o, "rename", done)
  /\ orphans' = orphans \ {o}
  /\ UNCHANGED <<runs, shared>>

TempRename(p) ==
  LET o == proc[p].out  done == [proc[p] EXCEPT !.pc = "renamed", !.handle = "none"] IN
  /\ At(p, "rename")
  /\ IF temp[o] = NoFile
     THEN Goto(p, "remove") /\ UNCHANGED <<file, temp, orphans>>
     ELSE /\ file' = [file EXCEPT ![o] = temp[o]]
          /\ temp' = [temp EXCEPT ![o] = NoFile]
          /\ Handles(p, o, "rename", done)
          /\ orphans' = orphans \ {o}
  /\ UNCHANGED <<runs, shared>>

(* Mutant: a command that fails just ends.                                  *)
LeaveTemp(p) == At(p, "remove") /\ End(p) /\ UNCHANGED <<file, temp, runs, orphans, shared>>

(* That the file cannot be removed is ignored.                              *)
TempRemove(p) ==
  LET o == proc[p].out IN
  /\ At(p, "remove")
  /\ \/ /\ temp' = [temp EXCEPT ![o] = NoFile]
        /\ Handles(p, o, "remove", Idle)
        /\ orphans' = orphans \ {o}
     \/ /\ temp[o] # NoFile
        /\ End(p)
        /\ orphans' = orphans \cup {o}
        /\ UNCHANGED temp
  /\ UNCHANGED <<file, runs, shared>>

(* p ends where it is; the temporary file stays if there is one.            *)
Abandon(p) ==
  /\ orphans' = IF Writing(p, proc[p].out) /\ temp[proc[p].out] # NoFile
                THEN orphans \cup {proc[p].out} ELSE orphans
  /\ End(p)
  /\ UNCHANGED <<file, temp, runs, shared>>

(* write_to of a pack panics (see Pack, WriteEnds): nothing in              *)
(* write_via_temp runs as the panic unwinds.                                *)
TempPanics(p) == proc[p].cmd = "pack" /\ At(p, "write") /\ Abandon(p)

(* The process is killed.                                                   *)
Kill(p) == proc[p] # Idle /\ Abandon(p)

WriteStep(p) ==
  \/ SaveCreate(p) \/ SaveWrite(p) \/ SaveFails(p)
  \/ TempCreate(p) \/ TempFails(p) \/ TempWrite(p) \/ TempRename(p) \/ TempRemove(p)
  \/ TempPanics(p) \/ Kill(p)
=============================================================================
