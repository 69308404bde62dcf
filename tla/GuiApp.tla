------------------------------- MODULE GuiApp -------------------------------
(***************************************************************************)
(* The front end of crates/zscan-gui: the user's actions of app.rs, the    *)
(* one job at a time of jobs.rs, and the confirmation that guards unsaved  *)
(* work.                                                                   *)
(*                                                                         *)
(* The UI thread handles one event at a time; a job runs beside it on a    *)
(* thread of its own and its result is applied when the UI thread polls.   *)
(* Most menu entries are disabled while a job runs, but not all: replacing *)
(* and reverting a stream, saving, and closing the window stay possible.   *)
(* While the confirmation is shown only its buttons, the keyboard          *)
(* shortcuts, dropped files and the window's close button work.            *)
(***************************************************************************)
EXTENDS GuiSession

CONSTANTS
  Unreadable,     (* what a project file that holds no project holds        *)
  MaxGeneration   (* bound on the changes of a session after which the user *)
                  (* stops                                                  *)

ASSUME UnreadableAssumption == Unreadable \notin Project

VARIABLES
  session,
  job,        (* the current job, or None                                  *)
  confirm,    (* the action waiting for confirmation, or None              *)
  closing,    (* allow_close: the window may close                         *)
  window,     (* "Open" or "Closed"                                        *)
  disk,       (* what each project file holds                              *)
  givenUp,    (* history: the user agreed to lose the present work         *)
  patient     (* whether the user waits for a job before editing or saving *)

vars == <<session, job, confirm, closing, window, disk, givenUp>>

Actions ==
  [kind : {"OpenFile"}, arg : Files] \cup [kind : {"OpenProject"}, arg : Projects]
    \cup [kind : {"LoadManifest", "Scan", "Close", "Exit"}, arg : {None}]

(* The jobs that only read the session and write to the log (export,        *)
(* extract, unpack, rebuild) go by "Other".                                 *)
JobKinds ==
  {"OpenFile", "OpenProject", "LoadManifest", "Scan", "AddStream", "Fields", "Pack", "Import", "Other"}

Busy == job # None

Work(s) == <<s.file, s.manifest, s.edits>>

(* The user has not agreed to lose work that has changed since.             *)
KeepsGivenUp == givenUp' = (givenUp /\ Work(session') = Work(session))

Init ==
  /\ session = NewSession
  /\ job = None
  /\ confirm = None
  /\ closing = FALSE
  /\ window = "Open"
  /\ disk = [p \in Projects |-> Unreadable]
  /\ givenUp = FALSE
  /\ patient \in BOOLEAN

-----------------------------------------------------------------------------
(* Jobs.                                                                    *)

NewJob(kind, arg, s) ==
  [kind |-> kind, arg |-> arg, file |-> s.file, manifest |-> s.manifest, edits |-> s.edits,
   status |-> "Running", result |-> None]

(* Jobs::start: refused, silently, while another job runs.                  *)
Start(kind, arg, s) == job' = IF Busy THEN job ELSE NewJob(kind, arg, s)

(* What the closure of a job that succeeded does to the session.            *)
Apply(j, s) ==
  CASE j.kind = "OpenFile"     -> SetFile(s, j.arg)
    [] j.kind = "OpenProject"  ->
         SavedProject(SetManifest(SetFile(s, j.result.file), j.result.manifest,
                                  j.result.mismatch, j.result.edits), j.arg)
    [] j.kind = "LoadManifest" -> SetManifest(s, Fresh(s, j.result.streams), j.result.mismatch, NoEdits)
    [] j.kind = "Scan"         -> SetScanned(s, j.result)
    [] j.kind = "AddStream"    -> AddStream(s, j.result)
    [] j.kind = "Fields"       -> SetFields(s, [j.manifest EXCEPT !.touched = TRUE])
    [] j.kind = "Pack"         -> SetPackReport(s, [numbering |-> j.manifest.numbering, edits |-> j.edits])
    [] j.kind = "Import"       -> SetEditsFromDir(s, j.result.ids, j.result.path, j.manifest.numbering)
    [] OTHER                   -> s

(* What the worker of a job may come back with.                             *)
Results(j) ==
  CASE j.kind = "OpenProject"  -> {[file |-> p.file, manifest |-> p.manifest, edits |-> p.edits,
                                    mismatch |-> m] :
                                     p \in {disk[j.arg]} \ {Unreadable}, m \in BOOLEAN}
    [] j.kind = "LoadManifest" -> [streams : SUBSET Ids, mismatch : BOOLEAN]
    [] j.kind = "Scan"         -> {0 .. n - 1 : n \in 0 .. MaxId + 1}
    [] j.kind = "AddStream"    -> BOOLEAN
    [] j.kind = "Import"       -> [ids : SUBSET j.manifest.streams, path : Contents]
    [] OTHER                   -> {None}

(* The worker reads its project file, and everything else it needs, some    *)
(* time before the UI thread gets to know.                                  *)
WorkerSucceeds ==
  /\ Busy /\ job.status = "Running"
  /\ \E r \in Results(job) : job' = [job EXCEPT !.status = "Ok", !.result = r]
  /\ UNCHANGED <<session, confirm, closing, window, disk, givenUp>>

(* An error, a cancelled scan, a panic: Jobs::poll and finish() only log.   *)
WorkerFails ==
  /\ Busy /\ job.status = "Running"
  /\ job' = [job EXCEPT !.status = "Failed"]
  /\ UNCHANGED <<session, confirm, closing, window, disk, givenUp>>

(* Mutant: only the end of a job that worked is noticed.                    *)
PollForSuccess ==
  /\ window = "Open"
  /\ Busy /\ job.status = "Ok"
  /\ job' = None
  /\ session' = Apply(job, session)
  /\ KeepsGivenUp
  /\ UNCHANGED <<confirm, closing, window, disk>>

Poll ==
  /\ window = "Open"
  /\ Busy /\ job.status # "Running"
  /\ job' = None
  /\ session' = IF job.status = "Ok" THEN Apply(job, session) ELSE session
  /\ KeepsGivenUp
  /\ UNCHANGED <<confirm, closing, window, disk>>

-----------------------------------------------------------------------------
(* Requests and confirmation.                                               *)

(* App::request asks before unsaved work goes, but not for a scan that      *)
(* drops no edits.                                                          *)
Discards(s) == s.dirty /\ (s.manifest # None \/ s.edits # NoEdits)

(* Mutant: no scan needs to be confirmed.                                   *)
EveryScanHarmless(action, s) == action.kind = "Scan"

HarmlessScan(action, s) == action.kind = "Scan" /\ s.edits = NoEdits

(* App::perform, with the session as s.                                     *)
Perform(action, s) ==
  /\ session' = IF action.kind = "Close" THEN CloseFile(s) ELSE s
  /\ closing' = (closing \/ action.kind = "Exit")
  /\ IF action.kind \in {"OpenFile", "OpenProject"}
          \/ (action.kind \in {"LoadManifest", "Scan"} /\ s.file # None)
     THEN Start(action.kind, action.arg, s)
     ELSE job' = job

Request(action) ==
  /\ IF Discards(session) /\ ~ HarmlessScan(action, session)
     THEN confirm' = action /\ UNCHANGED <<session, job, closing>>
     ELSE Perform(action, session) /\ UNCHANGED confirm
  /\ KeepsGivenUp
  /\ UNCHANGED <<window, disk>>

(* Mutant: menus stay enabled while a job runs.                             *)
IdleOrBusy == window = "Open" /\ confirm = None

(* A menu entry, a button or a window of the application; the confirmation  *)
(* is in front of them when it is shown.                                    *)
Idle == window = "Open" /\ ~ Busy /\ confirm = None

(* Ctrl+O and a dropped file get past the confirmation.                     *)
RequestOpen ==
  /\ window = "Open" /\ ~ Busy
  /\ \E action \in Actions : action.kind \in {"OpenFile", "OpenProject"} /\ Request(action)

RequestReplace ==
  /\ Idle
  /\ session.file # None
  /\ \E action \in Actions : action.kind \in {"LoadManifest", "Scan", "Close"} /\ Request(action)

RequestExit ==
  /\ window = "Open" /\ confirm = None
  /\ Request([kind |-> "Exit", arg |-> None])

(* The window's close button: asked at any time, and taken back while there *)
(* is something to confirm.                                                 *)
CloseWindow ==
  /\ window = "Open"
  /\ IF ~ closing /\ session.dirty
     THEN confirm' = [kind |-> "Exit", arg |-> None] /\ UNCHANGED window
     ELSE window' = "Closed" /\ UNCHANGED confirm
  /\ UNCHANGED <<session, job, closing, disk, givenUp>>

(* Project::save writes the file in place: when it fails the old contents   *)
(* may be gone.                                                             *)
SaveTo(path, s, s2) ==
  \/ disk' = [disk EXCEPT ![path] = ToProject(s)] /\ s2 = SavedProject(s, path)
  \/ disk' \in {disk, [disk EXCEPT ![path] = Unreadable]} /\ s2 = s

SavePath(s) == IF s.project = None THEN Projects ELSE {s.project}

(* App::save_project leaves the session as s.  Without a path it asks for   *)
(* one, and the user may think better of it.                                *)
Save(paths, s) ==
  \/ (ToProject(session) = None \/ session.project = None) /\ s = session /\ UNCHANGED disk
  \/ ToProject(session) # None /\ \E path \in paths : SaveTo(path, session, s)

SaveResults == {session} \cup {SavedProject(session, path) : path \in Projects}

(* Ctrl+S works at any time; Save as is a menu entry.                       *)
SaveProject ==
  /\ window = "Open"
  /\ patient => ~ Busy
  /\ \E s \in SaveResults :
       Save(IF confirm = None THEN Projects ELSE SavePath(session), s) /\ session' = s
  /\ KeepsGivenUp
  /\ UNCHANGED <<job, confirm, closing, window>>

(* "Save project first", then the action if nothing is unsaved.             *)
ConfirmSave ==
  /\ window = "Open" /\ confirm # None
  /\ \E s \in SaveResults :
       /\ Save(SavePath(session), s)
       /\ IF s.dirty
          THEN session' = s /\ UNCHANGED <<job, closing, confirm>>
          ELSE Perform(confirm, s) /\ confirm' = None
  /\ KeepsGivenUp
  /\ UNCHANGED window

ConfirmDiscard ==
  /\ window = "Open" /\ confirm # None
  /\ confirm' = None
  /\ Perform(confirm, [session EXCEPT !.dirty = FALSE])
  /\ givenUp' = (Work(session') = Work(session))
  /\ UNCHANGED <<window, disk>>

ConfirmCancel ==
  /\ window = "Open" /\ confirm # None
  /\ confirm' = None
  /\ UNCHANGED <<session, job, closing, window, disk, givenUp>>

-----------------------------------------------------------------------------
(* Work on the open file.                                                   *)

(* Jobs on the manifest: adding a stream at an offset, detecting length     *)
(* fields, packing, importing edits, and those that only read.              *)
CanPack == session.manifest # None /\ ~ session.mismatch

(* Mutant: jobs start without looking for a manifest.                       *)
StartAnyJob ==
  /\ Idle
  /\ \E kind \in {"AddStream", "Fields", "Pack", "Import", "Other"} : Start(kind, None, session)
  /\ UNCHANGED <<session, confirm, closing, window, disk, givenUp>>

StartJob ==
  /\ Idle
  /\ \/ session.manifest # None /\ NextId(session) \in Ids /\ Start("AddStream", None, session)
     \/ CanPack /\ Start("Fields", None, session)
     \/ CanPack /\ session.edits # NoEdits /\ Start("Pack", None, session)
     \/ session.manifest # None /\ Start("Import", None, session)
     \/ Start("Other", None, session)
  /\ UNCHANGED <<session, confirm, closing, window, disk, givenUp>>

MayEdit == window = "Open" /\ confirm = None /\ (patient => ~ Busy)

ReplaceStream ==
  /\ MayEdit
  /\ \E id \in Streams(session), path \in Contents : session' = SetEdit(session, id, path)
  /\ KeepsGivenUp
  /\ UNCHANGED <<job, confirm, closing, window, disk>>

RevertStream ==
  /\ MayEdit
  /\ \E id \in Streams(session) : session.edits[id] # None /\ session' = Revert(session, id)
  /\ KeepsGivenUp
  /\ UNCHANGED <<job, confirm, closing, window, disk>>

-----------------------------------------------------------------------------
User ==
  \/ RequestOpen \/ RequestReplace \/ RequestExit \/ CloseWindow
  \/ SaveProject \/ ConfirmSave \/ ConfirmDiscard \/ ConfirmCancel
  \/ StartJob \/ ReplaceStream \/ RevertStream

(* The bound: the user leaves it at so many changes of the session.         *)
Next ==
  /\ \/ WorkerSucceeds \/ WorkerFails \/ Poll
     \/ session.generation < MaxGeneration /\ User
  /\ UNCHANGED patient

(* A worker comes to an end, and the UI thread, which redraws ten times a   *)
(* second while a job runs, polls.  Nothing makes the user act.             *)
Fairness == WF_vars(WorkerSucceeds \/ WorkerFails) /\ WF_vars(Poll)

Spec == Init /\ [][Next]_<<vars, patient>> /\ Fairness

-----------------------------------------------------------------------------
(* Properties.                                                              *)

(* A job on the manifest is started with one (the let-else returns of       *)
(* start_try, start_fields, start_pack and import_edits).                   *)
JobOK ==
  job # None =>
    /\ job \in [kind : JobKinds, arg : Files \cup Projects \cup {None}, file : Files \cup {None},
                manifest : Manifest \cup {None}, edits : Edits,
                status : {"Running", "Ok", "Failed"}, result : {job.result}]
    /\ job.kind \in {"AddStream", "Fields", "Pack", "Import"} => job.manifest # None
    /\ job.kind = "OpenFile" => job.arg \in Files
    /\ job.kind = "OpenProject" => job.arg \in Projects

(* The state has the shape of the source's types.                           *)
TypeOK ==
  /\ session \in Session /\ JobOK
  /\ confirm \in Actions \cup {None}
  /\ closing \in BOOLEAN /\ window \in {"Open", "Closed"} /\ givenUp \in BOOLEAN
  /\ disk \in [Projects -> Project \cup {Unreadable}]

(* An edit is for a stream of the present manifest, chosen when its ids     *)
(* meant what they mean now ("Edits referred to the old stream ids, so they *)
(* go", session.rs), whatever came back from jobs in between.               *)
EditsOfThisNumbering ==
  \A i \in Ids : session.edits[i] # None =>
    i \in Streams(session) /\ session.edits[i].numbering = session.manifest.numbering

(* The pack report on show, with its stream ids, is of the present manifest *)
(* and that manifest is of the open file.                                   *)
ReportOfThisNumbering ==
  session.lastPack # None =>
    session.manifest # None /\ ~ session.mismatch
      /\ session.lastPack.numbering = session.manifest.numbering

(* A job that will change the manifest or the edits of the open file finds  *)
(* the file and the manifest it was started from, however the confirmation, *)
(* the shortcuts and the window's close button are used meanwhile.          *)
JobsSeeTheirFile ==
  job # None /\ job.kind \in {"LoadManifest", "Scan", "AddStream", "Fields", "Pack", "Import"} =>
    job.file = session.file /\ job.manifest = session.manifest

IsSaved(s) == s.project # None /\ disk[s.project] = ToProject(s)

(* A later save of the same session failed and left neither the old project *)
(* nor the new one.                                                         *)
Spoilt(s) == s.project # None /\ disk[s.project] = Unreadable

(* Work that the session does not call dirty is in its project file, or the *)
(* user agreed to lose it, or a save that failed has spoilt the file since: *)
(* for a user who waits for jobs there is no other way to lose it unasked.  *)
CleanIsSavedOrGivenUp ==
  patient /\ session.manifest # None /\ ~ session.dirty =>
    IsSaved(session) \/ givenUp \/ Spoilt(session)

(* Work is replaced when its streams go, with whatever was chosen for them. *)
Replaced == session.manifest # None /\
  (session'.manifest = None \/ session'.manifest.numbering # session.manifest.numbering)

Answered == confirm # None /\ confirm' = None

(* Unsaved edits go only with the user's answer to the confirmation; edits  *)
(* made while a job runs may go with its result.                            *)
EditsGoOnlyWhenAgreed ==
  [][patient /\ session.dirty /\ session.edits # NoEdits /\ Replaced => Answered]_vars

(* Every job ends: its result is applied, or its failure reported, or the   *)
(* window is closed.  A job left over would leave the menus disabled.       *)
JobsEnd == (job # None) ~> (job = None \/ window = "Closed")

(* Whatever the user does meanwhile, confirms, drops a file or closes the   *)
(* window, the job that runs stays the one it is: only its worker ends it,  *)
(* once, and only then does the UI thread let go of it.                     *)
JobsOnlyEnd ==
  [][job # None =>
       \/ job' = job
       \/ /\ job.status = "Running"
          /\ \E status \in {"Ok", "Failed"} :
               job' = [job EXCEPT !.status = status, !.result = job'.result]
       \/ job.status # "Running" /\ job' = None]_vars

-----------------------------------------------------------------------------
(* What a comment promises and the code does not keep.                      *)

(* "Run action, first asking for confirmation if it would discard unsaved   *)
(* work" (App::request).                                                    *)
UnsavedIsAsked ==
  [][session.dirty /\ (session.edits # NoEdits \/ session.manifest.touched) /\ Replaced =>
       Answered]_vars

-----------------------------------------------------------------------------
(* The inductive invariant behind the safety properties.                    *)

OnManifest == {"LoadManifest", "Scan", "AddStream", "Fields", "Pack", "Import"}

(* What a worker came back with fits the session it will be applied to.     *)
ResultFits ==
  job # None /\ job.status = "Ok" =>
    /\ job.kind = "OpenProject" =>
         /\ job.result \in [file : Files, manifest : Manifest, edits : Edits, mismatch : BOOLEAN]
         /\ EditsFit(job.result.edits, job.result.manifest)
    /\ job.kind = "LoadManifest" => job.result \in [streams : SUBSET Ids, mismatch : BOOLEAN]
    /\ job.kind = "Scan" => job.result \in SUBSET Ids
    /\ job.kind = "Import" => job.result.path \in Contents

(* The same of what a worker will come back with from a project file.       *)
DiskFits ==
  \A p \in Projects : disk[p] # Unreadable => EditsFit(disk[p].edits, disk[p].manifest)

(* While a job on the manifest runs, only leaving can be on question, and   *)
(* nothing it was allowed to start for goes away.                           *)
ManifestStays ==
  job # None /\ job.kind \in OnManifest =>
    /\ session.file # None
    /\ job.file = session.file /\ job.manifest = session.manifest
    /\ confirm # None => confirm.kind = "Exit"
    /\ job.kind = "AddStream" => NextId(session) \in Ids
    /\ job.kind = "Pack" => ~ session.mismatch

(* A job that will replace the work was started with nothing to lose, and a *)
(* patient user adds nothing.                                               *)
NothingToLose ==
  patient /\ job # None =>
    /\ job.kind \in {"OpenFile", "OpenProject", "LoadManifest"} => ~ session.dirty
    /\ job.kind = "Scan" => ~ session.dirty \/ session.edits = NoEdits

(* A question is only asked about unsaved work, and is outlived by it only  *)
(* when the work is saved.                                                  *)
AskedIsSaved ==
  patient /\ confirm # None /\ session.manifest # None /\ ~ session.dirty =>
    IsSaved(session) \/ Spoilt(session)

(* What was read of a project file is still there, or a save that answered  *)
(* the question left over has spoilt it.                                    *)
ReadIsThere ==
  patient /\ job # None /\ job.kind = "OpenProject" /\ job.status = "Ok" =>
    \/ disk[job.arg] = [file |-> job.result.file, manifest |-> job.result.manifest,
                        edits |-> job.result.edits]
    \/ disk[job.arg] = Unreadable /\ confirm = None

IInv ==
  /\ TypeOK /\ SessionFits(session) /\ ResultFits /\ DiskFits
  /\ ManifestStays /\ NothingToLose /\ AskedIsSaved /\ ReadIsThere /\ CleanIsSavedOrGivenUp
=============================================================================
