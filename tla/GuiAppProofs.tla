---------------------------- MODULE GuiAppProofs ----------------------------
(***************************************************************************)
(* Proofs about GuiSession and GuiApp, for any files, stream ids, projects  *)
(* and bounds.  First what each method of the session keeps, then what each *)
(* event keeps of the inductive invariant.                                  *)
(***************************************************************************)
EXTENDS GuiApp, TLAPS

-----------------------------------------------------------------------------
(* The methods of the session.                                              *)

LEMMA NewSessionFits == NewSession \in Session /\ SessionFits(NewSession)
<1>1. NewSession \in Session
  BY DEF NewSession, Session, NoEdits, Edits
<1>2. SessionFits(NewSession)
  BY DEF NewSession, SessionFits, NoEdits, EditsFit
<1>3. QED BY <1>1, <1>2

LEMMA ChangedFits ==
  ASSUME NEW s \in Session
  PROVE  /\ Changed(s) \in Session
         /\ Changed(s).file = s.file /\ Changed(s).manifest = s.manifest
         /\ Changed(s).mismatch = s.mismatch /\ Changed(s).edits = s.edits
         /\ Changed(s).project = s.project /\ Changed(s).lastPack = s.lastPack
         /\ Changed(s).dirty
<1>1. s.generation + 1 \in Nat
  BY DEF Session
<1> DEFINE g == s.generation + 1
<1>2. Changed(s) = [s EXCEPT !.dirty = TRUE, !.generation = g]
  BY DEF Changed
<1> HIDE DEF g
<1>3. Changed(s) \in Session
  BY <1>1, <1>2 DEF Session, g
<1>4. QED BY <1>2, <1>3 DEF Session

LEMMA SetFileFits ==
  ASSUME NEW s \in Session, NEW f \in Files
  PROVE  /\ SetFile(s, f) \in Session /\ SessionFits(SetFile(s, f))
         /\ SetFile(s, f).manifest = None /\ ~ SetFile(s, f).dirty /\ SetFile(s, f).file = f
<1> DEFINE g == s.generation + 1
           t == SetFile(s, f)
<1>1. g \in Nat
  BY DEF Session
<1>2. t = [NewSession EXCEPT !.file = f, !.generation = g]
  BY DEF SetFile
<1> HIDE DEF g, t
<1>3. t \in Session
  BY <1>1, <1>2, NewSessionFits DEF Session
<1>4. /\ t.file = f /\ t.manifest = NewSession.manifest /\ t.dirty = NewSession.dirty
      /\ t.edits = NewSession.edits /\ t.lastPack = NewSession.lastPack
  BY <1>2, NewSessionFits DEF Session
<1>5. t.manifest = None /\ t.dirty = FALSE /\ t.edits = NoEdits /\ t.lastPack = None
  BY <1>4 DEF NewSession
<1>6. SessionFits(t)
  BY <1>5 DEF SessionFits, EditsFit, NoEdits
<1>7. QED BY <1>3, <1>4, <1>5, <1>6 DEF t

LEMMA CloseFileFits ==
  ASSUME NEW s \in Session
  PROVE  /\ CloseFile(s) \in Session /\ SessionFits(CloseFile(s))
         /\ CloseFile(s).manifest = None
<1> DEFINE g == s.generation + 1
           t == CloseFile(s)
<1>1. g \in Nat
  BY DEF Session
<1>2. t = [NewSession EXCEPT !.generation = g]
  BY DEF CloseFile
<1> HIDE DEF g, t
<1>3. t \in Session
  BY <1>1, <1>2, NewSessionFits DEF Session
<1>4. /\ t.manifest = NewSession.manifest /\ t.dirty = NewSession.dirty
      /\ t.edits = NewSession.edits /\ t.lastPack = NewSession.lastPack
  BY <1>2, NewSessionFits DEF Session
<1>5. t.manifest = None /\ t.dirty = FALSE /\ t.edits = NoEdits /\ t.lastPack = None
  BY <1>4 DEF NewSession
<1>6. SessionFits(t)
  BY <1>5 DEF SessionFits, EditsFit, NoEdits
<1>7. QED BY <1>3, <1>5, <1>6 DEF t

(* The edits have to fit the manifest they come with.                       *)
LEMMA SetManifestFits ==
  ASSUME NEW s \in Session, s.file # None, NEW m \in Manifest, NEW mismatch \in BOOLEAN,
         NEW e \in Edits, EditsFit(e, m)
  PROVE  /\ SetManifest(s, m, mismatch, e) \in Session
         /\ SessionFits(SetManifest(s, m, mismatch, e))
         /\ SetManifest(s, m, mismatch, e).file = s.file
         /\ SetManifest(s, m, mismatch, e).manifest = m
         /\ SetManifest(s, m, mismatch, e).edits = e
         /\ SetManifest(s, m, mismatch, e).mismatch = mismatch
         /\ SetManifest(s, m, mismatch, e).lastPack = None
         /\ SetManifest(s, m, mismatch, e).dirty
<1> DEFINE u == [s EXCEPT !.manifest = m, !.mismatch = mismatch, !.edits = e, !.lastPack = None]
           t == SetManifest(s, m, mismatch, e)
<1>1. u \in Session
  BY DEF Session
<1>2. /\ u.file = s.file /\ u.manifest = m /\ u.mismatch = mismatch /\ u.edits = e
      /\ u.lastPack = None
  BY DEF Session
<1>3. t = Changed(u)
  BY DEF SetManifest
<1> HIDE DEF u, t
<1>4. /\ t \in Session /\ t.file = s.file /\ t.manifest = m /\ t.mismatch = mismatch
      /\ t.edits = e /\ t.lastPack = None /\ t.dirty
  BY <1>1, <1>2, <1>3, ChangedFits
<1>5. SessionFits(t)
  BY <1>4, GuiAssumption DEF SessionFits
<1>6. QED BY <1>4, <1>5 DEF t

(* Edits that refer to other ids go.                                        *)
LEMMA NoEditsFit == NoEdits \in Edits /\ \A m : EditsFit(NoEdits, m)
BY DEF NoEdits, Edits, EditsFit

LEMMA SetEditFits ==
  ASSUME NEW s \in Session, SessionFits(s), NEW id \in Streams(s), NEW path \in Contents
  PROVE  /\ SetEdit(s, id, path) \in Session /\ SessionFits(SetEdit(s, id, path))
         /\ SetEdit(s, id, path).file = s.file /\ SetEdit(s, id, path).manifest = s.manifest
         /\ SetEdit(s, id, path).mismatch = s.mismatch /\ SetEdit(s, id, path).dirty
<1> DEFINE t == SetEdit(s, id, path)
           x == [path |-> path, numbering |-> s.manifest.numbering]
<1>1. s.manifest # None /\ s.manifest \in Manifest /\ id \in s.manifest.streams /\ id \in Ids
  BY DEF Streams, Session, Manifest
<1>2. x \in Edit /\ x # None /\ x.numbering = s.manifest.numbering
  BY <1>1, GuiAssumption DEF Edit, Manifest
<1> HIDE DEF x
<1> DEFINE u == [s EXCEPT !.edits[id] = x, !.lastPack = None]
<1>3. t = Changed(u)
  BY DEF SetEdit, x
<1>4. u \in Session
  BY <1>1, <1>2 DEF Session, Edits
<1>5. /\ u.file = s.file /\ u.manifest = s.manifest /\ u.mismatch = s.mismatch
      /\ u.lastPack = None /\ u.edits = [s.edits EXCEPT ![id] = x]
  BY DEF Session
<1> HIDE DEF u, t
<1>6. /\ t \in Session /\ t.file = s.file /\ t.manifest = s.manifest /\ t.mismatch = s.mismatch
      /\ t.lastPack = None /\ t.edits = [s.edits EXCEPT ![id] = x] /\ t.dirty
  BY <1>3, <1>4, <1>5, ChangedFits
<1>7. EditsFit(t.edits, t.manifest)
  BY <1>1, <1>2, <1>6 DEF SessionFits, EditsFit, Session, Edits
<1>8. QED BY <1>1, <1>6, <1>7 DEF SessionFits, t

LEMMA RevertFits ==
  ASSUME NEW s \in Session, SessionFits(s), NEW id \in Ids
  PROVE  /\ Revert(s, id) \in Session /\ SessionFits(Revert(s, id))
         /\ Revert(s, id).file = s.file /\ Revert(s, id).manifest = s.manifest
         /\ Revert(s, id).mismatch = s.mismatch
         /\ s.edits[id] # None => Revert(s, id).dirty
<1>1. CASE s.edits[id] = None
  BY <1>1 DEF Revert
<1>2. CASE s.edits[id] # None
  <2> DEFINE t == Revert(s, id)
  <2>1. s.manifest # None
    BY <1>2 DEF SessionFits, EditsFit
  <2> DEFINE u == [s EXCEPT !.edits[id] = None, !.lastPack = None]
  <2>2. t = Changed(u)
    BY <1>2 DEF Revert
  <2>3. u \in Session
    BY DEF Session, Edits
  <2>4. /\ u.file = s.file /\ u.manifest = s.manifest /\ u.mismatch = s.mismatch
        /\ u.lastPack = None /\ u.edits = [s.edits EXCEPT ![id] = None]
    BY DEF Session
  <2> HIDE DEF u, t
  <2>5. /\ t \in Session /\ t.file = s.file /\ t.manifest = s.manifest /\ t.mismatch = s.mismatch
        /\ t.lastPack = None /\ t.edits = [s.edits EXCEPT ![id] = None] /\ t.dirty
    BY <2>2, <2>3, <2>4, ChangedFits
  <2>6. EditsFit(t.edits, t.manifest)
    BY <2>5 DEF SessionFits, EditsFit, Session, Edits
  <2>7. QED BY <2>1, <2>5, <2>6 DEF SessionFits, t
<1>3. QED BY <1>1, <1>2

(* The ids were found under the numbering of the manifest.                  *)
LEMMA SetEditsFromDirFits ==
  ASSUME NEW s \in Session, SessionFits(s), s.manifest # None, NEW ids, NEW path \in Contents
  PROVE  LET t == SetEditsFromDir(s, ids, path, s.manifest.numbering) IN
         /\ t \in Session /\ SessionFits(t) /\ t.file = s.file /\ t.manifest = s.manifest /\ t.dirty
<1> DEFINE n == s.manifest.numbering
           x == [path |-> path, numbering |-> n]
           e == [i \in Ids |-> IF i \in ids \cap Streams(s) THEN x ELSE s.edits[i]]
           u == [s EXCEPT !.edits = e, !.lastPack = None]
           t == SetEditsFromDir(s, ids, path, n)
<1>1. s.manifest \in Manifest /\ Streams(s) = s.manifest.streams
  BY DEF Streams, Session
<1>2. x \in Edit /\ x.numbering = s.manifest.numbering
  BY <1>1 DEF Edit, Manifest
<1>3. t = Changed(u)
  BY DEF SetEditsFromDir
<1> HIDE DEF x
<1>4. e \in Edits
  BY <1>2 DEF Session, Edits
<1>5. EditsFit(e, s.manifest)
  BY <1>1, <1>2 DEF SessionFits, EditsFit
<1> HIDE DEF e
<1>6. /\ u \in Session /\ u.file = s.file /\ u.manifest = s.manifest
      /\ u.lastPack = None /\ u.edits = e
  BY <1>4 DEF Session
<1> HIDE DEF u, t
<1>7. /\ t \in Session /\ t.file = s.file /\ t.manifest = s.manifest
      /\ t.lastPack = None /\ t.edits = e /\ t.dirty
  BY <1>3, <1>6, ChangedFits
<1>8. SessionFits(t)
  BY <1>5, <1>7 DEF SessionFits
<1>9. QED BY <1>7, <1>8 DEF t

LEMMA AddStreamFits ==
  ASSUME NEW s \in Session, SessionFits(s), s.manifest # None, NextId(s) \in Ids, NEW overlaps
  PROVE  LET t == AddStream(s, overlaps) IN
         /\ t \in Session /\ SessionFits(t) /\ (t = s \/ t.dirty)
         /\ t.file = s.file /\ t.manifest # None /\ t.manifest.numbering = s.manifest.numbering
<1>1. CASE overlaps
  BY <1>1 DEF AddStream
<1>2. CASE ~ overlaps
  <2> DEFINE i == NextId(s)
             u == [s EXCEPT !.manifest.streams = @ \cup {i}, !.manifest.touched = TRUE]
             m == u.manifest
             t == AddStream(s, overlaps)
  <2>1. s.manifest \in Manifest
    BY DEF Session
  <2>2. t = Changed(u)
    BY <1>2 DEF AddStream
  <2> HIDE DEF i
  <2>3. m \in Manifest /\ m.numbering = s.manifest.numbering /\ s.manifest.streams \subseteq m.streams
    BY <2>1 DEF Session, Manifest, i
  <2>4. /\ u.file = s.file /\ u.mismatch = s.mismatch /\ u.edits = s.edits /\ u.lastPack = s.lastPack
    BY DEF Session
  <2>5. u \in Session
    BY <2>3 DEF Session
  <2> HIDE DEF u, t
  <2>6. /\ t \in Session /\ t.file = s.file /\ t.manifest = m /\ t.mismatch = s.mismatch
        /\ t.edits = s.edits /\ t.lastPack = s.lastPack /\ t.dirty
    BY <2>2, <2>4, <2>5, ChangedFits
  <2>7. m # None
    BY <2>3, GuiAssumption
  <2>8. SessionFits(t)
    BY <2>3, <2>6, <2>7 DEF SessionFits, EditsFit
  <2>9. QED BY <2>3, <2>6, <2>7, <2>8 DEF t
<1>3. QED BY <1>1, <1>2

LEMMA SetFieldsFits ==
  ASSUME NEW s \in Session, SessionFits(s), s.manifest # None
  PROVE  LET t == SetFields(s, [s.manifest EXCEPT !.touched = TRUE]) IN
         /\ t \in Session /\ SessionFits(t) /\ t.dirty
         /\ t.file = s.file /\ t.manifest # None /\ t.manifest.numbering = s.manifest.numbering
<1> DEFINE m == [s.manifest EXCEPT !.touched = TRUE]
           u == [s EXCEPT !.manifest = m]
           t == SetFields(s, m)
<1>1. m \in Manifest /\ m.numbering = s.manifest.numbering /\ m.streams = s.manifest.streams
  BY DEF Session, Manifest
<1>2. t = Changed(u)
  BY DEF SetFields
<1> HIDE DEF m
<1>3. /\ u \in Session /\ u.file = s.file /\ u.manifest = m /\ u.mismatch = s.mismatch
      /\ u.edits = s.edits /\ u.lastPack = s.lastPack
  BY <1>1 DEF Session
<1> HIDE DEF u, t
<1>4. /\ t \in Session /\ t.file = s.file /\ t.manifest = m /\ t.mismatch = s.mismatch
      /\ t.edits = s.edits /\ t.lastPack = s.lastPack /\ t.dirty
  BY <1>2, <1>3, ChangedFits
<1>5. m # None
  BY <1>1, GuiAssumption
<1>6. SessionFits(t)
  BY <1>1, <1>4, <1>5 DEF SessionFits, EditsFit
<1>7. QED BY <1>1, <1>4, <1>5, <1>6 DEF t, m

LEMMA SetPackReportFits ==
  ASSUME NEW s \in Session, SessionFits(s), s.manifest # None, ~ s.mismatch, NEW e \in Edits
  PROVE  LET t == SetPackReport(s, [numbering |-> s.manifest.numbering, edits |-> e]) IN
         /\ t \in Session /\ SessionFits(t) /\ t.dirty = s.dirty /\ t.project = s.project
         /\ t.file = s.file /\ t.manifest = s.manifest /\ t.edits = s.edits
<1> DEFINE r == [numbering |-> s.manifest.numbering, edits |-> e]
           t == SetPackReport(s, r)
<1>1. r \in [numbering : Numbering, edits : Edits] /\ r.numbering = s.manifest.numbering
  BY DEF Session, Manifest
<1>2. t = [s EXCEPT !.lastPack = r]
  BY DEF SetPackReport
<1> HIDE DEF r, t
<1>3. t \in Session
  BY <1>1, <1>2 DEF Session
<1>4. /\ t.file = s.file /\ t.manifest = s.manifest /\ t.mismatch = s.mismatch /\ t.edits = s.edits
      /\ t.dirty = s.dirty /\ t.project = s.project /\ t.lastPack = r
  BY <1>2 DEF Session
<1>5. SessionFits(t)
  BY <1>1, <1>4 DEF SessionFits
<1>6. QED BY <1>3, <1>4, <1>5 DEF t, r

LEMMA SavedProjectFits ==
  ASSUME NEW s \in Session, SessionFits(s), NEW path \in Projects
  PROVE  LET t == SavedProject(s, path) IN
         /\ t \in Session /\ SessionFits(t) /\ ~ t.dirty /\ t.project = path
         /\ t.file = s.file /\ t.manifest = s.manifest /\ t.edits = s.edits /\ t.mismatch = s.mismatch
<1> DEFINE t == SavedProject(s, path)
<1>1. t \in Session
  BY DEF SavedProject, Session
<1>2. /\ t.file = s.file /\ t.manifest = s.manifest /\ t.mismatch = s.mismatch /\ t.edits = s.edits
      /\ t.dirty = FALSE /\ t.project = path /\ t.lastPack = s.lastPack
  BY DEF SavedProject, Session
<1> HIDE DEF t
<1>3. SessionFits(t)
  BY <1>2 DEF SessionFits
<1>4. QED BY <1>1, <1>2, <1>3 DEF t

-----------------------------------------------------------------------------
(* Jobs.                                                                    *)

LEMMA WorkerSucceedsKeeps ==
  ASSUME IInv, WorkerSucceeds, UNCHANGED patient
  PROVE  IInv'
<1>1. PICK r \in Results(job) : job' = [job EXCEPT !.status = "Ok", !.result = r]
  BY DEF WorkerSucceeds
<1>2. job # None /\ UNCHANGED <<session, confirm, closing, window, disk, givenUp>>
  BY DEF WorkerSucceeds, Busy
<1>3. /\ job' \in [kind : JobKinds, arg : Files \cup Projects \cup {None}, file : Files \cup {None},
                    manifest : Manifest \cup {None}, edits : Edits,
                    status : {"Running", "Ok", "Failed"}, result : {job'.result}]
      /\ job'.kind = job.kind /\ job'.arg = job.arg /\ job'.file = job.file
      /\ job'.manifest = job.manifest /\ job'.edits = job.edits /\ job'.result = r
  BY <1>1, <1>2 DEF IInv, TypeOK, JobOK
<1>4. TypeOK'
  BY <1>2, <1>3 DEF IInv, TypeOK, JobOK
<1>5. ASSUME job.kind = "OpenProject"
      PROVE  /\ disk[job.arg] = [file |-> r.file, manifest |-> r.manifest, edits |-> r.edits]
             /\ r \in [file : Files, manifest : Manifest, edits : Edits, mismatch : BOOLEAN]
             /\ EditsFit(r.edits, r.manifest)
  <2>1. disk[job.arg] \in Project \cup {Unreadable} /\ job.arg \in Projects
    BY <1>2, <1>5 DEF IInv, TypeOK, JobOK
  <2>2. Results(job) = {[file |-> p.file, manifest |-> p.manifest, edits |-> p.edits, mismatch |-> m] :
                          p \in {disk[job.arg]} \ {Unreadable}, m \in BOOLEAN}
    BY <1>5 DEF Results
  <2>3. PICK m \in BOOLEAN : /\ disk[job.arg] # Unreadable
                             /\ r = [file |-> disk[job.arg].file, manifest |-> disk[job.arg].manifest,
                                     edits |-> disk[job.arg].edits, mismatch |-> m]
    BY <2>2
  <2>4. disk[job.arg] \in Project
    BY <2>1, <2>3
  <2>5. EditsFit(disk[job.arg].edits, disk[job.arg].manifest)
    BY <2>1, <2>3 DEF IInv, DiskFits
  <2>6. QED BY <2>3, <2>4, <2>5 DEF Project
<1>6. ResultFits'
  <2>1. job.kind = "LoadManifest" => r \in [streams : SUBSET Ids, mismatch : BOOLEAN]
    BY DEF Results
  <2>2. job.kind = "Scan" => r \in SUBSET Ids
    BY GuiAssumption DEF Results, Ids
  <2>3. job.kind = "Import" => r.path \in Contents
    BY DEF Results
  <2>4. QED BY <1>3, <1>5, <2>1, <2>2, <2>3 DEF ResultFits, EditsFit
<1>7. ReadIsThere'
  BY <1>2, <1>3, <1>5 DEF ReadIsThere
<1>8. ManifestStays' /\ NothingToLose'
  BY <1>2, <1>3 DEF IInv, ManifestStays, NothingToLose, NextId, Streams
<1>9. SessionFits(session)' /\ DiskFits' /\ AskedIsSaved' /\ CleanIsSavedOrGivenUp'
  BY <1>2 DEF IInv, SessionFits, EditsFit, DiskFits, AskedIsSaved, CleanIsSavedOrGivenUp, IsSaved,
              Spoilt, ToProject
<1>10. QED BY <1>4, <1>6, <1>7, <1>8, <1>9 DEF IInv

LEMMA WorkerFailsKeeps ==
  ASSUME IInv, WorkerFails, UNCHANGED patient
  PROVE  IInv'
<1>1. /\ job # None /\ job' = [job EXCEPT !.status = "Failed"]
      /\ UNCHANGED <<session, confirm, closing, window, disk, givenUp>>
  BY DEF WorkerFails, Busy
<1>2. /\ job' \in [kind : JobKinds, arg : Files \cup Projects \cup {None}, file : Files \cup {None},
                    manifest : Manifest \cup {None}, edits : Edits,
                    status : {"Running", "Ok", "Failed"}, result : {job'.result}]
      /\ job'.kind = job.kind /\ job'.arg = job.arg /\ job'.file = job.file
      /\ job'.manifest = job.manifest /\ job'.status = "Failed"
  BY <1>1 DEF IInv, TypeOK, JobOK
<1>3. TypeOK'
  BY <1>1, <1>2 DEF IInv, TypeOK, JobOK
<1>4. ResultFits' /\ ReadIsThere'
  BY <1>2 DEF ResultFits, ReadIsThere
<1>5. ManifestStays' /\ NothingToLose'
  BY <1>1, <1>2 DEF IInv, ManifestStays, NothingToLose, NextId, Streams
<1>6. SessionFits(session)' /\ DiskFits' /\ AskedIsSaved' /\ CleanIsSavedOrGivenUp'
  BY <1>1 DEF IInv, SessionFits, EditsFit, DiskFits, AskedIsSaved, CleanIsSavedOrGivenUp, IsSaved,
              Spoilt, ToProject
<1>7. QED BY <1>3, <1>4, <1>5, <1>6 DEF IInv

(* What the result of a job makes of the session: the same work, changed    *)
(* work, an open file, or a project as it was saved.                        *)
LEMMA ApplyKeeps ==
  ASSUME IInv, job # None, job.status = "Ok"
  PROVE  LET t == Apply(job, session) IN
         /\ t \in Session /\ SessionFits(t)
         /\ \/ t.manifest = None \/ t.dirty
            \/ /\ t.file = session.file /\ t.manifest = session.manifest /\ t.edits = session.edits
               /\ t.project = session.project /\ t.dirty = session.dirty
            \/ /\ job.kind = "OpenProject"
               /\ patient => IsSaved(t) \/ Spoilt(t)
         /\ job.kind \notin {"OpenFile", "OpenProject", "LoadManifest", "Scan"} /\ session.manifest # None =>
              t.manifest # None /\ t.manifest.numbering = session.manifest.numbering
<1> DEFINE t == Apply(job, session)
<1>1. session \in Session /\ SessionFits(session) /\ job.kind \in JobKinds
  BY DEF IInv, TypeOK, JobOK
<1>2. ASSUME job.kind \in {"AddStream", "Fields", "Pack", "Import"}
      PROVE  session.manifest # None /\ job.manifest = session.manifest
  BY <1>2 DEF IInv, TypeOK, JobOK, ManifestStays, OnManifest
<1>3. CASE job.kind = "OpenFile"
  <2>1. t = SetFile(session, job.arg) /\ job.arg \in Files
    BY <1>3 DEF Apply, IInv, TypeOK, JobOK
  <2>2. QED BY <1>1, <1>3, <2>1, SetFileFits
<1>4. CASE job.kind = "OpenProject"
  <2> DEFINE r == job.result
             u == SetFile(session, r.file)
             v == SetManifest(u, r.manifest, r.mismatch, r.edits)
  <2>1. t = SavedProject(v, job.arg) /\ job.arg \in Projects
    BY <1>4 DEF Apply, IInv, TypeOK, JobOK
  <2>2. /\ r.file \in Files /\ r.manifest \in Manifest /\ r.edits \in Edits /\ r.mismatch \in BOOLEAN
        /\ EditsFit(r.edits, r.manifest)
    BY <1>4 DEF IInv, ResultFits
  <2> HIDE DEF r
  <2>3. u \in Session /\ u.file = r.file /\ u.file # None
    BY <1>1, <2>2, SetFileFits, GuiAssumption
  <2> HIDE DEF u
  <2>4. v \in Session /\ SessionFits(v) /\ v.file = r.file /\ v.manifest = r.manifest /\ v.edits = r.edits
    BY <2>2, <2>3, SetManifestFits
  <2> HIDE DEF v, t
  <2>5. /\ t \in Session /\ SessionFits(t) /\ t.project = job.arg
        /\ t.file = r.file /\ t.manifest = r.manifest /\ t.edits = r.edits
    BY <2>1, <2>4, SavedProjectFits
  <2>6. ToProject(t) = [file |-> r.file, manifest |-> r.manifest, edits |-> r.edits]
    BY <2>2, <2>5, GuiAssumption DEF ToProject
  <2>7. t.project # None
    BY <2>1, <2>5, GuiAssumption
  <2>8. patient => IsSaved(t) \/ Spoilt(t)
    BY <1>4, <2>5, <2>6, <2>7 DEF IInv, ReadIsThere, IsSaved, Spoilt, r
  <2>9. QED BY <1>4, <2>5, <2>8 DEF t
<1>5. CASE job.kind \in {"LoadManifest", "Scan"}
  <2>1. session.file # None
    BY <1>5 DEF IInv, ManifestStays, OnManifest
  <2>2. PICK streams \in SUBSET Ids, mismatch \in BOOLEAN :
          t = SetManifest(session, Fresh(session, streams), mismatch, NoEdits)
    BY <1>5 DEF Apply, SetScanned, IInv, ResultFits
  <2>3. Fresh(session, streams) \in Manifest
    BY <1>1 DEF Fresh, Manifest, Session, Numbering
  <2>4. QED BY <1>1, <1>5, <2>1, <2>2, <2>3, SetManifestFits, NoEditsFit
<1>6. CASE job.kind = "AddStream"
  <2>1. t = AddStream(session, job.result) /\ NextId(session) \in Ids
    BY <1>6 DEF Apply, IInv, ManifestStays, OnManifest
  <2>2. QED BY <1>1, <1>2, <1>6, <2>1, AddStreamFits
<1>7. CASE job.kind = "Fields"
  <2>1. t = SetFields(session, [session.manifest EXCEPT !.touched = TRUE])
    BY <1>2, <1>7 DEF Apply
  <2>2. QED BY <1>1, <1>2, <1>7, <2>1, SetFieldsFits
<1>8. CASE job.kind = "Pack"
  <2>1. t = SetPackReport(session, [numbering |-> session.manifest.numbering, edits |-> job.edits])
    BY <1>2, <1>8 DEF Apply
  <2>2. ~ session.mismatch /\ job.edits \in Edits
    BY <1>8 DEF IInv, ManifestStays, OnManifest, TypeOK, JobOK
  <2>3. QED BY <1>1, <1>2, <1>8, <2>1, <2>2, SetPackReportFits
<1>9. CASE job.kind = "Import"
  <2>1. t = SetEditsFromDir(session, job.result.ids, job.result.path, session.manifest.numbering)
    BY <1>2, <1>9 DEF Apply
  <2>2. job.result.path \in Contents
    BY <1>9 DEF IInv, ResultFits
  <2>3. QED BY <1>1, <1>2, <1>9, <2>1, <2>2, SetEditsFromDirFits
<1>10. CASE job.kind = "Other"
  BY <1>1, <1>10 DEF Apply
<1>11. QED BY <1>1, <1>3, <1>4, <1>5, <1>6, <1>7, <1>8, <1>9, <1>10 DEF JobKinds

(* Whether work is saved depends on what is saved only.                     *)
LEMMA SavedKept ==
  ASSUME UNCHANGED disk, session'.file = session.file, session'.manifest = session.manifest,
         session'.edits = session.edits, session'.project = session.project
  PROVE  IsSaved(session)' = IsSaved(session) /\ Spoilt(session)' = Spoilt(session)
BY DEF IsSaved, Spoilt, ToProject

LEMMA PollKeeps ==
  ASSUME IInv, Poll, UNCHANGED patient
  PROVE  IInv'
<1>1. /\ job # None /\ job' = None /\ UNCHANGED <<confirm, closing, window, disk>>
      /\ givenUp' = (givenUp /\ Work(session') = Work(session))
  BY DEF Poll, Busy, KeepsGivenUp
<1>2. /\ session' \in Session /\ SessionFits(session')
      /\ \/ session'.manifest = None \/ session'.dirty
         \/ /\ session'.file = session.file /\ session'.manifest = session.manifest
            /\ session'.edits = session.edits /\ session'.project = session.project
            /\ session'.dirty = session.dirty
         \/ patient => IsSaved(session') \/ Spoilt(session')
  BY <1>1, ApplyKeeps DEF Poll, IInv, TypeOK
<1>3. TypeOK'
  BY <1>1, <1>2 DEF IInv, TypeOK, JobOK
<1>4. ResultFits' /\ ReadIsThere' /\ ManifestStays' /\ NothingToLose'
  BY <1>1 DEF ResultFits, ReadIsThere, ManifestStays, NothingToLose
<1>5. DiskFits'
  BY <1>1 DEF IInv, DiskFits, EditsFit
<1>6. AskedIsSaved' /\ CleanIsSavedOrGivenUp'
  <2>1. CASE session'.manifest = None \/ session'.dirty
    BY <2>1 DEF AskedIsSaved, CleanIsSavedOrGivenUp
  <2>2. CASE /\ session'.file = session.file /\ session'.manifest = session.manifest
             /\ session'.edits = session.edits /\ session'.project = session.project
             /\ session'.dirty = session.dirty
    BY <1>1, <2>2, SavedKept DEF IInv, AskedIsSaved, CleanIsSavedOrGivenUp, Work
  <2>3. CASE patient => IsSaved(session') \/ Spoilt(session')
    BY <1>1, <2>3 DEF AskedIsSaved, CleanIsSavedOrGivenUp, IsSaved, Spoilt
  <2>4. QED BY <1>2, <2>1, <2>2, <2>3
<1>7. SessionFits(session)'
  BY <1>2 DEF SessionFits, EditsFit
<1>8. QED BY <1>3, <1>4, <1>5, <1>6, <1>7 DEF IInv

-----------------------------------------------------------------------------
(* Actions performed at once or once confirmed.                             *)

(* Performing an action closes the file, or starts a job if none runs, or   *)
(* does neither; with nothing to lose.                                      *)
LEMMA PerformKeeps ==
  ASSUME IInv, UNCHANGED patient, NEW action \in Actions, NEW s \in Session, SessionFits(s),
         s.file = session.file, s.manifest = session.manifest, s.mismatch = session.mismatch,
         s.edits = session.edits, s.dirty => session.dirty,
         Perform(action, s),
         ~ s.dirty \/ HarmlessScan(action, s),
         job # None /\ job.kind \in OnManifest => action.kind = "Exit",
         confirm' \in {None, confirm},
         action.kind \in {"LoadManifest", "Scan"} => confirm' = None
  PROVE  /\ session' \in Session /\ SessionFits(session') /\ closing' \in BOOLEAN
         /\ JobOK' /\ ResultFits' /\ ManifestStays' /\ NothingToLose'
         /\ (session' = s \/ session'.manifest = None)
         /\ (job' = job \/ job'.status = "Running")
<1>1. CASE action.kind = "Close"
  <2>1. session' = CloseFile(s) /\ job' = job
    BY <1>1 DEF Perform
  <2>2. session' \in Session /\ SessionFits(session') /\ session'.manifest = None
    BY <2>1, CloseFileFits
  <2>3. JobOK' /\ ResultFits'
    BY <2>1 DEF IInv, TypeOK, JobOK, ResultFits, EditsFit
  <2>4. ManifestStays'
    BY <1>1, <2>1 DEF ManifestStays
  <2>5. NothingToLose'
    BY <2>1, <2>2 DEF NothingToLose, SessionFits
  <2>6. QED BY <2>1, <2>2, <2>3, <2>4, <2>5 DEF Perform, IInv, TypeOK
<1>2. CASE action.kind # "Close" /\ job' = job
  <2>1. session' = s
    BY <1>2 DEF Perform
  <2>2. JobOK' /\ ResultFits'
    BY <1>2 DEF IInv, TypeOK, JobOK, ResultFits, EditsFit
  <2>3. ManifestStays'
    BY <1>2, <2>1 DEF IInv, ManifestStays, NextId, Streams
  <2>4. NothingToLose'
    BY <1>2, <2>1 DEF IInv, NothingToLose
  <2>5. QED BY <1>2, <2>1, <2>2, <2>3, <2>4 DEF Perform, IInv, TypeOK
<1>3. CASE action.kind # "Close" /\ job' # job
  <2>1. /\ session' = s /\ job' = NewJob(action.kind, action.arg, s)
        /\ \/ action.kind \in {"OpenFile", "OpenProject"}
           \/ action.kind \in {"LoadManifest", "Scan"} /\ s.file # None
    BY <1>3 DEF Perform, Start
  <2>2. /\ job'.kind = action.kind /\ job'.arg = action.arg /\ job'.file = s.file
        /\ job'.manifest = s.manifest /\ job'.edits = s.edits /\ job'.status = "Running"
        /\ job' = [kind |-> action.kind, arg |-> action.arg, file |-> s.file, manifest |-> s.manifest,
                   edits |-> s.edits, status |-> "Running", result |-> None]
    BY <2>1 DEF NewJob
  <2>3. /\ action.kind = "OpenFile" => action.arg \in Files
        /\ action.kind = "OpenProject" => action.arg \in Projects
        /\ action.arg \in Files \cup Projects \cup {None}
    BY DEF Actions
  <2>4. JobOK'
    <3>1. job' \in [kind : JobKinds, arg : Files \cup Projects \cup {None}, file : Files \cup {None},
                    manifest : Manifest \cup {None}, edits : Edits,
                    status : {"Running", "Ok", "Failed"}, result : {job'.result}]
      BY <2>1, <2>2, <2>3 DEF JobKinds, Session
    <3>2. QED BY <2>1, <2>2, <2>3, <3>1 DEF JobOK
  <2>5. ResultFits'
    BY <2>2 DEF ResultFits
  <2>6. ManifestStays'
    BY <2>1, <2>2 DEF ManifestStays, OnManifest
  <2>7. NothingToLose'
    BY <2>1, <2>2 DEF NothingToLose, HarmlessScan
  <2>8. QED BY <2>1, <2>2, <2>4, <2>5, <2>6, <2>7 DEF Perform, IInv, TypeOK
<1>4. QED BY <1>1, <1>2, <1>3

(* Asking, or performing what needs no asking.                              *)
LEMMA RequestKeeps ==
  ASSUME IInv, UNCHANGED patient, NEW action \in Actions, Request(action),
         job # None => action.kind = "Exit",
         action.kind \in {"LoadManifest", "Scan"} => confirm = None
  PROVE  IInv'
<1>1. /\ UNCHANGED <<window, disk>>
      /\ givenUp' = (givenUp /\ Work(session') = Work(session))
  BY DEF Request, KeepsGivenUp
<1>2. session \in Session /\ SessionFits(session)
  BY DEF IInv, TypeOK
<1>3. DiskFits' /\ givenUp' \in BOOLEAN
  BY <1>1 DEF IInv, TypeOK, DiskFits, EditsFit
<1>4. CASE Discards(session) /\ ~ HarmlessScan(action, session)
  <2>1. confirm' = action /\ UNCHANGED <<session, job, closing>>
    BY <1>4 DEF Request
  <2>2. session.dirty
    BY <1>4 DEF Discards
  <2>3. TypeOK'
    BY <1>1, <1>3, <2>1 DEF IInv, TypeOK, JobOK
  <2>4. SessionFits(session)' /\ ResultFits' /\ NothingToLose'
    BY <2>1 DEF IInv, SessionFits, EditsFit, ResultFits, NothingToLose
  <2>5. ManifestStays'
    BY <2>1 DEF IInv, ManifestStays, NextId, Streams
  <2>6. AskedIsSaved' /\ CleanIsSavedOrGivenUp'
    BY <2>1, <2>2 DEF AskedIsSaved, CleanIsSavedOrGivenUp
  <2>7. ReadIsThere'
    BY <2>1, <2>2 DEF IInv, NothingToLose, ReadIsThere
  <2>8. QED BY <1>3, <2>3, <2>4, <2>5, <2>6, <2>7 DEF IInv
<1>5. CASE ~ (Discards(session) /\ ~ HarmlessScan(action, session))
  <2>1. Perform(action, session) /\ UNCHANGED confirm
    BY <1>5 DEF Request
  <2>2. ~ session.dirty \/ HarmlessScan(action, session)
    BY <1>2, <1>5 DEF Discards, SessionFits
  <2>3. /\ session' \in Session /\ SessionFits(session') /\ closing' \in BOOLEAN
        /\ JobOK' /\ ResultFits' /\ ManifestStays' /\ NothingToLose'
        /\ session' = session \/ session'.manifest = None
        /\ job' = job \/ job'.status = "Running"
    BY <1>2, <2>1, <2>2, PerformKeeps
  <2>4. TypeOK'
    BY <1>1, <1>3, <2>1, <2>3 DEF IInv, TypeOK
  <2>5. AskedIsSaved' /\ CleanIsSavedOrGivenUp'
    <3>1. CASE session'.manifest = None
      BY <3>1 DEF AskedIsSaved, CleanIsSavedOrGivenUp
    <3>2. CASE session' = session
      BY <1>1, <2>1, <3>2, SavedKept DEF IInv, AskedIsSaved, CleanIsSavedOrGivenUp, Work
    <3>3. QED BY <2>3, <3>1, <3>2
  <2>6. ReadIsThere'
    BY <1>1, <2>1, <2>3 DEF IInv, ReadIsThere
  <2>7. SessionFits(session)'
    BY <2>3 DEF SessionFits, EditsFit
  <2>8. QED BY <1>3, <2>3, <2>4, <2>5, <2>6, <2>7 DEF IInv
<1>6. QED BY <1>4, <1>5

LEMMA RequestsKeep ==
  ASSUME IInv, RequestOpen \/ RequestReplace \/ RequestExit, UNCHANGED patient
  PROVE  IInv'
<1>1. CASE RequestOpen
  BY <1>1, RequestKeeps DEF RequestOpen, Busy
<1>2. CASE RequestReplace
  BY <1>2, RequestKeeps DEF RequestReplace, Idle, Busy
<1>3. CASE RequestExit
  <2>1. [kind |-> "Exit", arg |-> None] \in Actions
    BY DEF Actions
  <2>2. QED BY <1>3, <2>1, RequestKeeps DEF RequestExit
<1>4. QED BY <1>1, <1>2, <1>3

LEMMA CloseWindowKeeps ==
  ASSUME IInv, CloseWindow, UNCHANGED patient
  PROVE  IInv'
<1>1. /\ UNCHANGED <<session, job, closing, disk, givenUp>> /\ window' \in {"Open", "Closed"}
      /\ \/ UNCHANGED confirm
         \/ session.dirty /\ confirm' = [kind |-> "Exit", arg |-> None]
  BY DEF CloseWindow
<1>2. TypeOK'
  <2>1. [kind |-> "Exit", arg |-> None] \in Actions
    BY DEF Actions
  <2>2. QED BY <1>1, <2>1 DEF IInv, TypeOK, JobOK
<1>3. SessionFits(session)' /\ DiskFits' /\ ResultFits' /\ NothingToLose'
  BY <1>1 DEF IInv, SessionFits, EditsFit, DiskFits, ResultFits, NothingToLose
<1>4. ManifestStays'
  BY <1>1 DEF IInv, ManifestStays, NextId, Streams
<1>5. AskedIsSaved' /\ CleanIsSavedOrGivenUp'
  BY <1>1, SavedKept DEF IInv, AskedIsSaved, CleanIsSavedOrGivenUp
<1>6. ReadIsThere'
  BY <1>1 DEF IInv, NothingToLose, ReadIsThere
<1>7. QED BY <1>2, <1>3, <1>4, <1>5, <1>6 DEF IInv

-----------------------------------------------------------------------------
(* Saving.                                                                  *)

(* A save does nothing, or succeeds, or spoils the file it was to write.    *)
LEMMA SaveEnds ==
  ASSUME IInv, NEW paths \in SUBSET Projects, NEW s, Save(paths, s)
  PROVE  \/ s = session /\ disk' = disk
         \/ \E path \in paths :
              /\ session.manifest # None /\ ToProject(session) \in Project
              /\ s = SavedProject(session, path)
              /\ disk' = [disk EXCEPT ![path] = ToProject(session)]
         \/ \E path \in paths :
              /\ session.manifest # None
              /\ s = session /\ disk' = [disk EXCEPT ![path] = Unreadable]
<1>1. CASE ToProject(session) # None
  <2>1. session.file # None /\ session.manifest # None
    BY <1>1 DEF ToProject
  <2>2. ToProject(session) \in Project
    BY <2>1 DEF ToProject, Project, IInv, TypeOK, Session
  <2>3. QED BY <2>1, <2>2 DEF Save, SaveTo
<1>2. CASE ToProject(session) = None
  BY <1>2 DEF Save
<1>3. QED BY <1>1, <1>2

(* However a save ends, the session has the same work, what is on disk fits,*)
(* and work that was saved or spoilt is still one of the two.               *)
LEMMA SaveKeeps ==
  ASSUME IInv, NEW paths \in SUBSET Projects, NEW s, Save(paths, s)
  PROVE  /\ s \in Session /\ SessionFits(s)
         /\ s.file = session.file /\ s.manifest = session.manifest /\ s.mismatch = session.mismatch
         /\ s.edits = session.edits /\ (s.dirty => session.dirty)
         /\ s.dirty => s = session
         /\ disk' \in [Projects -> Project \cup {Unreadable}] /\ DiskFits'
         /\ session' = s =>
              /\ ~ s.dirty /\ session.dirty => IsSaved(session)'
              /\ IsSaved(session) \/ Spoilt(session) => IsSaved(session)' \/ Spoilt(session)'
<1>1. session \in Session /\ SessionFits(session) /\ disk \in [Projects -> Project \cup {Unreadable}]
  BY DEF IInv, TypeOK
<1>2. CASE s = session /\ disk' = disk
  BY <1>1, <1>2 DEF IInv, DiskFits, EditsFit, IsSaved, Spoilt, ToProject
<1>3. ASSUME NEW path \in paths, session.manifest # None, ToProject(session) \in Project,
             s = SavedProject(session, path), disk' = [disk EXCEPT ![path] = ToProject(session)]
      PROVE  /\ s \in Session /\ SessionFits(s)
             /\ s.file = session.file /\ s.manifest = session.manifest /\ s.mismatch = session.mismatch
             /\ s.edits = session.edits /\ ~ s.dirty
             /\ disk' \in [Projects -> Project \cup {Unreadable}] /\ DiskFits'
             /\ session' = s => IsSaved(session)'
  <2>1. /\ s \in Session /\ SessionFits(s) /\ ~ s.dirty /\ s.project = path
        /\ s.file = session.file /\ s.manifest = session.manifest /\ s.edits = session.edits
        /\ s.mismatch = session.mismatch
    BY <1>1, <1>3, SavedProjectFits
  <2>2. disk' \in [Projects -> Project \cup {Unreadable}] /\ disk'[path] = ToProject(session)
    BY <1>1, <1>3
  <2>3. /\ ToProject(session).edits = session.edits
        /\ ToProject(session).manifest = session.manifest
    BY <1>1, <1>3 DEF ToProject, SessionFits
  <2>4. DiskFits'
    <3> SUFFICES ASSUME NEW p \in Projects, disk'[p] # Unreadable
                 PROVE  EditsFit(disk'[p].edits, disk'[p].manifest)
      BY DEF DiskFits, EditsFit
    <3>1. CASE p = path
      BY <1>1, <2>2, <2>3, <3>1 DEF SessionFits
    <3>2. CASE p # path
      BY <1>1, <1>3, <3>2 DEF IInv, DiskFits
    <3>3. QED BY <3>1, <3>2
  <2>5. session' = s => IsSaved(session)'
    <3>1. path # None
      BY GuiAssumption
    <3>2. QED BY <2>1, <2>2, <3>1 DEF IsSaved, ToProject
  <2>6. QED BY <2>1, <2>2, <2>4, <2>5
<1>4. ASSUME NEW path \in paths, session.manifest # None,
             s = session, disk' = [disk EXCEPT ![path] = Unreadable]
      PROVE  /\ disk' \in [Projects -> Project \cup {Unreadable}] /\ DiskFits'
             /\ session' = s /\ (IsSaved(session) \/ Spoilt(session)) =>
                  IsSaved(session)' \/ Spoilt(session)'
  <2>1. /\ disk' \in [Projects -> Project \cup {Unreadable}]
        /\ \A p \in Projects : disk'[p] = disk[p] \/ disk'[p] = Unreadable
    BY <1>1, <1>4
  <2>2. DiskFits'
    BY <2>1 DEF IInv, DiskFits, EditsFit
  <2>3. session' = s /\ (IsSaved(session) \/ Spoilt(session)) =>
          IsSaved(session)' \/ Spoilt(session)'
    BY <1>1, <1>4, <2>1 DEF IsSaved, Spoilt, ToProject, Session
  <2>4. QED BY <2>1, <2>2, <2>3
<1>5. QED BY <1>1, <1>2, <1>3, <1>4, SaveEnds

LEMMA SaveProjectKeeps ==
  ASSUME IInv, SaveProject, UNCHANGED patient
  PROVE  IInv'
<1>1. /\ UNCHANGED <<job, confirm, closing, window>>
      /\ givenUp' = (givenUp /\ Work(session') = Work(session))
      /\ patient => job = None
  BY DEF SaveProject, KeepsGivenUp, Busy
<1>2. PICK paths \in SUBSET Projects : Save(paths, session')
  <2>1. SavePath(session) \in SUBSET Projects
    BY DEF SavePath, IInv, TypeOK, Session
  <2>2. QED BY <2>1 DEF SaveProject
<1>3. /\ session' \in Session /\ SessionFits(session')
      /\ session'.file = session.file /\ session'.manifest = session.manifest
      /\ session'.mismatch = session.mismatch /\ session'.edits = session.edits
      /\ (session'.dirty => session.dirty)
      /\ disk' \in [Projects -> Project \cup {Unreadable}] /\ DiskFits'
      /\ ~ session'.dirty /\ session.dirty => IsSaved(session)'
      /\ IsSaved(session) \/ Spoilt(session) => IsSaved(session)' \/ Spoilt(session)'
  BY <1>2, SaveKeeps
<1>4. TypeOK'
  BY <1>1, <1>3 DEF IInv, TypeOK, JobOK
<1>5. SessionFits(session)' /\ ResultFits' /\ NothingToLose'
  BY <1>1, <1>3 DEF IInv, SessionFits, EditsFit, ResultFits, NothingToLose
<1>6. ManifestStays'
  BY <1>1, <1>3 DEF IInv, ManifestStays, NextId, Streams
<1>7. AskedIsSaved' /\ CleanIsSavedOrGivenUp'
  BY <1>1, <1>3 DEF IInv, AskedIsSaved, CleanIsSavedOrGivenUp, Work
<1>8. ReadIsThere'
  BY <1>1 DEF ReadIsThere
<1>9. QED BY <1>3, <1>4, <1>5, <1>6, <1>7, <1>8 DEF IInv

-----------------------------------------------------------------------------
(* The answers to the confirmation.                                         *)

(* A project that is being opened is not overwritten with anything but what *)
(* it holds.                                                                *)
LEMMA ReadStaysThere ==
  ASSUME IInv, confirm # None, confirm' = None, NEW s, Save(SavePath(session), s),
         job' = job \/ job'.status = "Running", UNCHANGED patient
  PROVE  ReadIsThere'
<1> SUFFICES ASSUME patient, job # None, job.kind = "OpenProject", job.status = "Ok", job' = job
             PROVE  \/ disk'[job.arg] = [file |-> job.result.file, manifest |-> job.result.manifest,
                                         edits |-> job.result.edits]
                    \/ disk'[job.arg] = Unreadable
  BY DEF ReadIsThere
<1> DEFINE r == [file |-> job.result.file, manifest |-> job.result.manifest,
                 edits |-> job.result.edits]
<1>1. disk[job.arg] = r /\ ~ session.dirty
  BY DEF IInv, ReadIsThere, NothingToLose
<1>2. r \in Project /\ r # Unreadable
  <2>1. r \in Project
    BY DEF IInv, ResultFits, Project
  <2>2. QED BY <2>1, UnreadableAssumption
<1>3. job.arg \in Projects /\ disk \in [Projects -> Project \cup {Unreadable}]
  BY DEF IInv, TypeOK, JobOK
<1> HIDE DEF r
<1>4. ASSUME NEW path \in SavePath(session), session.manifest # None
      PROVE  path \in Projects /\ (path = job.arg => ToProject(session) = r)
  <2>1. IsSaved(session) \/ Spoilt(session)
    BY <1>1, <1>4 DEF IInv, AskedIsSaved
  <2>2. path = session.project /\ path \in Projects
    BY <1>4, <2>1 DEF SavePath, IsSaved, Spoilt, IInv, TypeOK, Session
  <2>3. QED BY <1>1, <1>2, <2>1, <2>2 DEF IsSaved, Spoilt
<1>5. SavePath(session) \in SUBSET Projects
  BY DEF SavePath, IInv, TypeOK, Session
<1>6. disk'[job.arg] = r \/ disk'[job.arg] = Unreadable
  BY <1>1, <1>3, <1>4, <1>5, SaveEnds
<1>7. QED BY <1>6 DEF r

LEMMA ConfirmSaveKeeps ==
  ASSUME IInv, ConfirmSave, UNCHANGED patient
  PROVE  IInv'
<1>1. /\ confirm # None /\ confirm \in Actions /\ UNCHANGED window
      /\ givenUp' = (givenUp /\ Work(session') = Work(session))
  BY DEF ConfirmSave, KeepsGivenUp, IInv, TypeOK
<1>2. PICK s \in SaveResults :
        /\ Save(SavePath(session), s)
        /\ IF s.dirty
           THEN session' = s /\ UNCHANGED <<job, closing, confirm>>
           ELSE Perform(confirm, s) /\ confirm' = None
  BY DEF ConfirmSave
<1>3. SavePath(session) \in SUBSET Projects
  BY DEF SavePath, IInv, TypeOK, Session
<1>4. /\ s \in Session /\ SessionFits(s)
      /\ s.file = session.file /\ s.manifest = session.manifest /\ s.mismatch = session.mismatch
      /\ s.edits = session.edits /\ (s.dirty => session.dirty) /\ (s.dirty => s = session)
      /\ disk' \in [Projects -> Project \cup {Unreadable}] /\ DiskFits'
      /\ session' = s =>
           /\ ~ s.dirty /\ session.dirty => IsSaved(session)'
           /\ IsSaved(session) \/ Spoilt(session) => IsSaved(session)' \/ Spoilt(session)'
  BY <1>2, <1>3, SaveKeeps
<1>5. CASE s.dirty
  <2>1. UNCHANGED <<session, job, closing, confirm>> /\ session.dirty
    BY <1>2, <1>4, <1>5
  <2>2. TypeOK'
    BY <1>1, <1>4, <2>1 DEF IInv, TypeOK, JobOK
  <2>3. SessionFits(session)' /\ ResultFits' /\ NothingToLose'
    BY <2>1 DEF IInv, SessionFits, EditsFit, ResultFits, NothingToLose
  <2>4. ManifestStays'
    BY <2>1 DEF IInv, ManifestStays, NextId, Streams
  <2>5. AskedIsSaved' /\ CleanIsSavedOrGivenUp'
    BY <2>1 DEF AskedIsSaved, CleanIsSavedOrGivenUp
  <2>6. ReadIsThere'
    BY <2>1 DEF IInv, NothingToLose, ReadIsThere
  <2>7. QED BY <1>4, <2>2, <2>3, <2>4, <2>5, <2>6 DEF IInv
<1>6. CASE ~ s.dirty
  <2>1. Perform(confirm, s) /\ confirm' = None
    BY <1>2, <1>6
  <2>2. job # None /\ job.kind \in OnManifest => confirm.kind = "Exit"
    BY <1>1 DEF IInv, ManifestStays
  <2>3. /\ session' \in Session /\ SessionFits(session') /\ closing' \in BOOLEAN
        /\ JobOK' /\ ResultFits' /\ ManifestStays' /\ NothingToLose'
        /\ (session' = s \/ session'.manifest = None)
        /\ (job' = job \/ job'.status = "Running")
    BY <1>1, <1>4, <1>6, <2>1, <2>2, PerformKeeps
  <2>4. TypeOK'
    BY <1>1, <1>4, <2>1, <2>3 DEF IInv, TypeOK
  <2>5. AskedIsSaved'
    BY <2>1 DEF AskedIsSaved
  <2>6. CleanIsSavedOrGivenUp'
    BY <1>1, <1>4, <1>6, <2>3 DEF IInv, CleanIsSavedOrGivenUp, Work
  <2>7. ReadIsThere'
    BY <1>1, <1>2, <2>1, <2>3, ReadStaysThere
  <2>8. SessionFits(session)'
    BY <2>3 DEF SessionFits, EditsFit
  <2>9. QED BY <1>4, <2>3, <2>4, <2>5, <2>6, <2>7, <2>8 DEF IInv
<1>7. QED BY <1>5, <1>6

LEMMA ConfirmDiscardKeeps ==
  ASSUME IInv, ConfirmDiscard, UNCHANGED patient
  PROVE  IInv'
<1> DEFINE s == [session EXCEPT !.dirty = FALSE]
<1>1. /\ confirm # None /\ confirm \in Actions /\ confirm' = None /\ UNCHANGED <<window, disk>>
      /\ givenUp' = (Work(session') = Work(session))
      /\ Perform(confirm, s)
  BY DEF ConfirmDiscard, IInv, TypeOK
<1>2. /\ s \in Session
      /\ s.file = session.file /\ s.manifest = session.manifest /\ s.mismatch = session.mismatch
      /\ s.edits = session.edits /\ s.lastPack = session.lastPack /\ s.dirty = FALSE
  BY DEF IInv, TypeOK, Session
<1> HIDE DEF s
<1>3. SessionFits(s)
  BY <1>2 DEF IInv, SessionFits
<1>4. job # None /\ job.kind \in OnManifest => confirm.kind = "Exit"
  BY <1>1 DEF IInv, ManifestStays
<1>5. /\ session' \in Session /\ SessionFits(session') /\ closing' \in BOOLEAN
      /\ JobOK' /\ ResultFits' /\ ManifestStays' /\ NothingToLose'
      /\ (session' = s \/ session'.manifest = None)
      /\ (job' = job \/ job'.status = "Running")
  BY <1>1, <1>2, <1>3, <1>4, PerformKeeps
<1>6. TypeOK' /\ DiskFits'
  BY <1>1, <1>5 DEF IInv, TypeOK, DiskFits, EditsFit
<1>7. AskedIsSaved' /\ CleanIsSavedOrGivenUp'
  BY <1>1, <1>2, <1>5 DEF AskedIsSaved, CleanIsSavedOrGivenUp, Work
<1>8. ReadIsThere'
  BY <1>1, <1>5 DEF IInv, ReadIsThere
<1>9. SessionFits(session)'
  BY <1>5 DEF SessionFits, EditsFit
<1>10. QED BY <1>5, <1>6, <1>7, <1>8, <1>9 DEF IInv

LEMMA ConfirmCancelKeeps ==
  ASSUME IInv, ConfirmCancel, UNCHANGED patient
  PROVE  IInv'
<1>1. confirm' = None /\ UNCHANGED <<session, job, closing, window, disk, givenUp>>
  BY DEF ConfirmCancel
<1>2. TypeOK' /\ DiskFits' /\ ResultFits' /\ SessionFits(session)'
  BY <1>1 DEF IInv, TypeOK, JobOK, DiskFits, EditsFit, ResultFits, SessionFits
<1>3. ManifestStays' /\ NothingToLose'
  BY <1>1 DEF IInv, ManifestStays, NothingToLose, NextId, Streams
<1>4. AskedIsSaved' /\ CleanIsSavedOrGivenUp' /\ ReadIsThere'
  BY <1>1, SavedKept DEF IInv, AskedIsSaved, CleanIsSavedOrGivenUp, ReadIsThere
<1>5. QED BY <1>2, <1>3, <1>4 DEF IInv

-----------------------------------------------------------------------------
(* Work on the open file.                                                   *)

LEMMA StartJobKeeps ==
  ASSUME IInv, StartJob, UNCHANGED patient
  PROVE  IInv'
<1>1. /\ job = None /\ confirm = None /\ UNCHANGED <<session, confirm, closing, window, disk, givenUp>>
  BY DEF StartJob, Idle, Busy
<1>2. PICK kind \in {"AddStream", "Fields", "Pack", "Import", "Other"} :
        /\ job' = NewJob(kind, None, session)
        /\ kind # "Other" => session.manifest # None
        /\ kind = "AddStream" => NextId(session) \in Ids
        /\ kind = "Pack" => ~ session.mismatch
  BY <1>1 DEF StartJob, Start, CanPack, Busy
<1>3. /\ job'.kind = kind /\ job'.file = session.file /\ job'.manifest = session.manifest
      /\ job'.status = "Running"
      /\ job' = [kind |-> kind, arg |-> None, file |-> session.file, manifest |-> session.manifest,
                 edits |-> session.edits, status |-> "Running", result |-> None]
  BY <1>2 DEF NewJob
<1>4. JobOK'
  <2>1. job' \in [kind : JobKinds, arg : Files \cup Projects \cup {None}, file : Files \cup {None},
                  manifest : Manifest \cup {None}, edits : Edits,
                  status : {"Running", "Ok", "Failed"}, result : {job'.result}]
    BY <1>2, <1>3 DEF IInv, TypeOK, JobKinds, Session
  <2>2. QED BY <1>2, <1>3, <2>1 DEF JobOK
<1>5. TypeOK' /\ SessionFits(session)' /\ DiskFits'
  BY <1>1, <1>4 DEF IInv, TypeOK, SessionFits, DiskFits, EditsFit
<1>6. ResultFits' /\ ReadIsThere'
  BY <1>3 DEF ResultFits, ReadIsThere
<1>7. ManifestStays'
  BY <1>1, <1>2, <1>3 DEF IInv, SessionFits, ManifestStays, OnManifest, NextId, Streams
<1>8. NothingToLose'
  BY <1>2, <1>3 DEF NothingToLose
<1>9. AskedIsSaved' /\ CleanIsSavedOrGivenUp'
  BY <1>1, SavedKept DEF IInv, AskedIsSaved, CleanIsSavedOrGivenUp
<1>10. QED BY <1>5, <1>6, <1>7, <1>8, <1>9 DEF IInv

LEMMA EditsKeep ==
  ASSUME IInv, ReplaceStream \/ RevertStream, UNCHANGED patient
  PROVE  IInv'
<1>1. /\ UNCHANGED <<job, confirm, closing, window, disk>>
      /\ confirm = None /\ (patient => job = None)
      /\ givenUp' = (givenUp /\ Work(session') = Work(session))
  BY DEF ReplaceStream, RevertStream, MayEdit, KeepsGivenUp, Busy
<1>2. session \in Session /\ SessionFits(session)
  BY DEF IInv, TypeOK
<1>3. /\ session' \in Session /\ SessionFits(session') /\ session'.dirty
      /\ session'.file = session.file /\ session'.manifest = session.manifest
      /\ session'.mismatch = session.mismatch
  <2>1. CASE ReplaceStream
    BY <1>2, <2>1, SetEditFits DEF ReplaceStream
  <2>2. CASE RevertStream
    <3>1. Streams(session) \in SUBSET Ids
      BY <1>2 DEF Streams, Session, Manifest
    <3>2. QED BY <1>2, <2>2, <3>1, RevertFits DEF RevertStream
  <2>3. QED BY <2>1, <2>2
<1>4. TypeOK'
  BY <1>1, <1>3 DEF IInv, TypeOK, JobOK
<1>5. SessionFits(session)' /\ ResultFits' /\ DiskFits'
  BY <1>1, <1>3 DEF IInv, SessionFits, EditsFit, ResultFits, DiskFits
<1>6. ManifestStays'
  BY <1>1, <1>3 DEF IInv, ManifestStays, NextId, Streams
<1>7. NothingToLose' /\ ReadIsThere'
  BY <1>1 DEF NothingToLose, ReadIsThere
<1>8. AskedIsSaved' /\ CleanIsSavedOrGivenUp'
  BY <1>3 DEF AskedIsSaved, CleanIsSavedOrGivenUp
<1>9. QED BY <1>4, <1>5, <1>6, <1>7, <1>8 DEF IInv

-----------------------------------------------------------------------------
LEMMA InitFits == Init => IInv
<1> SUFFICES ASSUME Init PROVE IInv
  OBVIOUS
<1>1. session \in Session /\ SessionFits(session) /\ session.manifest = None
  BY NewSessionFits DEF Init, NewSession
<1>2. TypeOK
  BY <1>1 DEF Init, TypeOK, JobOK
<1>3. DiskFits
  BY DEF Init, DiskFits
<1>4. ResultFits /\ ManifestStays /\ NothingToLose /\ ReadIsThere
  BY DEF Init, ResultFits, ManifestStays, NothingToLose, ReadIsThere
<1>5. AskedIsSaved /\ CleanIsSavedOrGivenUp
  BY <1>1 DEF AskedIsSaved, CleanIsSavedOrGivenUp
<1>6. QED BY <1>1, <1>2, <1>3, <1>4, <1>5 DEF IInv

LEMMA NextKeeps == IInv /\ [Next]_<<vars, patient>> => IInv'
<1> SUFFICES ASSUME IInv, [Next]_<<vars, patient>> PROVE IInv'
  OBVIOUS
<1>1. UNCHANGED patient
  BY DEF Next
<1>2. CASE WorkerSucceeds
  BY <1>1, <1>2, WorkerSucceedsKeeps
<1>3. CASE WorkerFails
  BY <1>1, <1>3, WorkerFailsKeeps
<1>4. CASE Poll
  BY <1>1, <1>4, PollKeeps
<1>5. CASE RequestOpen \/ RequestReplace \/ RequestExit
  BY <1>1, <1>5, RequestsKeep
<1>6. CASE CloseWindow
  BY <1>1, <1>6, CloseWindowKeeps
<1>7. CASE SaveProject
  BY <1>1, <1>7, SaveProjectKeeps
<1>8. CASE ConfirmSave
  BY <1>1, <1>8, ConfirmSaveKeeps
<1>9. CASE ConfirmDiscard
  BY <1>1, <1>9, ConfirmDiscardKeeps
<1>10. CASE ConfirmCancel
  BY <1>1, <1>10, ConfirmCancelKeeps
<1>11. CASE StartJob
  BY <1>1, <1>11, StartJobKeeps
<1>12. CASE ReplaceStream \/ RevertStream
  BY <1>1, <1>12, EditsKeep
<1>13. CASE UNCHANGED vars
  <2>1. UNCHANGED <<session, job, confirm, closing, window, disk, givenUp>>
    BY <1>13 DEF vars
  <2>2. TypeOK' /\ DiskFits' /\ ResultFits' /\ SessionFits(session)'
    BY <2>1 DEF IInv, TypeOK, JobOK, DiskFits, EditsFit, ResultFits, SessionFits
  <2>3. ManifestStays' /\ NothingToLose'
    BY <1>1, <2>1 DEF IInv, ManifestStays, NothingToLose, NextId, Streams
  <2>4. AskedIsSaved' /\ CleanIsSavedOrGivenUp' /\ ReadIsThere'
    BY <1>1, <2>1, SavedKept DEF IInv, AskedIsSaved, CleanIsSavedOrGivenUp, ReadIsThere
  <2>5. QED BY <2>2, <2>3, <2>4 DEF IInv
<1>14. QED BY <1>2, <1>3, <1>4, <1>5, <1>6, <1>7, <1>8, <1>9, <1>10, <1>11, <1>12, <1>13
           DEF Next, User

(* Whatever the user does while a job runs, and however saves and jobs end, *)
(* a job's result fits the session it is applied to (App::show), and what   *)
(* may be lost was saved or given up.                                       *)
THEOREM GuiInvariant == Spec => []IInv
BY InitFits, NextKeeps, PTL DEF Spec

(* An edit is for a stream of the present manifest, under its numbering     *)
(* (Session::set_scanned, set_manifest, set_edits_from_dir).                *)
THEOREM GuiEditsOfThisNumbering == Spec => []EditsOfThisNumbering
<1>1. IInv => EditsOfThisNumbering
  BY DEF IInv, SessionFits, EditsFit, EditsOfThisNumbering, Streams
<1>2. QED BY <1>1, GuiInvariant, PTL

(* The pack report on show is of the present manifest, and that of the open *)
(* file (Session::set_pack_report and what clears it).                      *)
THEOREM GuiReportOfThisNumbering == Spec => []ReportOfThisNumbering
<1>1. IInv => ReportOfThisNumbering
  BY DEF IInv, SessionFits, ReportOfThisNumbering
<1>2. QED BY <1>1, GuiInvariant, PTL

(* A job on the manifest finds the file and manifest it was started from    *)
(* (Jobs::start, and what App disables while a job runs).                   *)
THEOREM GuiJobsSeeTheirFile == Spec => []JobsSeeTheirFile
<1>1. IInv => JobsSeeTheirFile
  BY DEF IInv, ManifestStays, OnManifest, JobsSeeTheirFile
<1>2. QED BY <1>1, GuiInvariant, PTL

(* Work that is not called dirty is in its project file, or was given up,   *)
(* or a failed save has spoilt that file (Project::save, App::request).     *)
THEOREM GuiCleanIsSavedOrGivenUp == Spec => []CleanIsSavedOrGivenUp
<1>1. IInv => CleanIsSavedOrGivenUp
  BY DEF IInv
<1>2. QED BY <1>1, GuiInvariant, PTL

-----------------------------------------------------------------------------
(* Only a job's result, closing the file and an answer can replace work.    *)

LEMMA PollReplacesNoEdits ==
  ASSUME IInv, Poll, patient, session.dirty, session.edits # NoEdits
  PROVE  ~ Replaced
<1>1. job # None
  BY DEF Poll, Busy
<1>2. job.kind \notin {"OpenFile", "OpenProject", "LoadManifest", "Scan"}
  BY <1>1 DEF IInv, NothingToLose
<1>3. CASE job.status = "Ok"
  BY <1>1, <1>2, <1>3, ApplyKeeps DEF Poll, Replaced
<1>4. CASE job.status # "Ok"
  BY <1>4 DEF Poll, Replaced
<1>5. QED BY <1>3, <1>4

LEMMA RequestReplacesNoEdits ==
  ASSUME IInv, NEW action, Request(action), session.dirty, session.edits # NoEdits
  PROVE  ~ Replaced
<1>1. Discards(session) /\ ~ HarmlessScan(action, session)
  BY DEF Discards, HarmlessScan
<1>2. UNCHANGED session
  BY <1>1 DEF Request
<1>3. QED BY <1>2 DEF Replaced

(* Unsaved edits go only with an answer to the confirmation (App::request,  *)
(* perform and the confirmation's buttons), whatever a job comes back with. *)
THEOREM GuiEditsGoOnlyWhenAgreed == Spec => EditsGoOnlyWhenAgreed
<1> DEFINE Agreed == patient /\ session.dirty /\ session.edits # NoEdits /\ Replaced => Answered
<1>1. ASSUME IInv, [Next]_<<vars, patient>>
      PROVE  [Agreed]_vars
  <2> SUFFICES ASSUME patient, session.dirty, session.edits # NoEdits, Replaced, Next
               PROVE  Answered
    BY <1>1
  <2>1. session' # session
    BY DEF Replaced
  <2>2. CASE Poll
    BY <1>1, <2>2, PollReplacesNoEdits
  <2>3. CASE RequestOpen \/ RequestReplace \/ RequestExit
    BY <1>1, <2>3, RequestReplacesNoEdits DEF RequestOpen, RequestReplace, RequestExit
  <2>4. CASE ConfirmSave
    <3>1. PICK s : /\ Save(SavePath(session), s)
                  /\ IF s.dirty THEN session' = s ELSE confirm' = None
      BY <2>4 DEF ConfirmSave
    <3>2. SavePath(session) \in SUBSET Projects
      BY <1>1 DEF SavePath, IInv, TypeOK, Session
    <3>3. s.dirty => s = session
      BY <1>1, <3>1, <3>2, SaveKeeps
    <3>4. QED BY <2>1, <2>4, <3>1, <3>3 DEF ConfirmSave, Answered
  <2>5. CASE ConfirmDiscard
    BY <2>5 DEF ConfirmDiscard, Answered
  <2>6. CASE SaveProject
    <3>1. PICK paths \in SUBSET Projects : Save(paths, session')
      <4>1. SavePath(session) \in SUBSET Projects
        BY <1>1 DEF SavePath, IInv, TypeOK, Session
      <4>2. QED BY <2>6, <4>1 DEF SaveProject
    <3>2. session'.manifest = session.manifest
      BY <1>1, <3>1, SaveKeeps
    <3>3. QED BY <3>2 DEF Replaced
  <2>7. CASE ReplaceStream \/ RevertStream
    <3>1. session \in Session /\ SessionFits(session) /\ Streams(session) \in SUBSET Ids
      BY <1>1 DEF IInv, TypeOK, Streams, Session, Manifest
    <3>2. session'.manifest = session.manifest
      BY <2>7, <3>1, SetEditFits, RevertFits DEF ReplaceStream, RevertStream
    <3>3. QED BY <3>2 DEF Replaced
  <2>8. CASE WorkerSucceeds \/ WorkerFails \/ CloseWindow \/ ConfirmCancel \/ StartJob
    BY <2>1, <2>8 DEF WorkerSucceeds, WorkerFails, CloseWindow, ConfirmCancel, StartJob
  <2>9. QED BY <2>2, <2>3, <2>4, <2>5, <2>6, <2>7, <2>8 DEF Next, User
<1>2. QED BY <1>1, GuiInvariant, PTL DEF Spec, EditsGoOnlyWhenAgreed

-----------------------------------------------------------------------------
(* Nothing but its end takes the place of a job.                            *)

LEMMA StartKeepsJob ==
  ASSUME Busy, NEW kind, NEW arg, NEW s, Start(kind, arg, s)
  PROVE  job' = job
BY DEF Start

LEMMA RequestKeepsJob ==
  ASSUME Busy, NEW action, Request(action)
  PROVE  job' = job
BY DEF Request, Perform, Start

LEMMA UserKeepsJob ==
  ASSUME Busy, User
  PROVE  job' = job
<1>1. CASE RequestOpen \/ RequestReplace \/ RequestExit
  BY <1>1, RequestKeepsJob DEF RequestOpen, RequestReplace, RequestExit
<1>2. CASE CloseWindow \/ SaveProject \/ ConfirmCancel \/ ReplaceStream \/ RevertStream
  BY <1>2 DEF CloseWindow, SaveProject, ConfirmCancel, ReplaceStream, RevertStream
<1>3. CASE ConfirmSave \/ ConfirmDiscard
  BY <1>3 DEF ConfirmSave, ConfirmDiscard, Perform, Start
<1>4. CASE StartJob
  BY <1>4 DEF StartJob, Idle
<1>5. QED BY <1>1, <1>2, <1>3, <1>4 DEF User

(* The worker of a job ends it, and with that, in the user's good time, it  *)
(* is let go of (Jobs::start and poll, App::perform and the confirmation):  *)
(* no event in between replaces it or drops it.                             *)
THEOREM GuiJobsOnlyEnd == Spec => JobsOnlyEnd
<1> DEFINE OnlyEnds ==
      job # None =>
        \/ job' = job
        \/ /\ job.status = "Running"
           /\ \E status \in {"Ok", "Failed"} :
                job' = [job EXCEPT !.status = status, !.result = job'.result]
        \/ job.status # "Running" /\ job' = None
<1>1. ASSUME IInv, [Next]_<<vars, patient>>
      PROVE  [OnlyEnds]_vars
  <2> SUFFICES ASSUME job # None, Next PROVE OnlyEnds
    BY <1>1
  <2> DEFINE J == [kind : JobKinds, arg : Files \cup Projects \cup {None}, file : Files \cup {None},
                   manifest : Manifest \cup {None}, edits : Edits,
                   status : {"Running", "Ok", "Failed"}, result : {job.result}]
  <2>1. job \in J
    BY <1>1 DEF IInv, TypeOK, JobOK
  <2>2. CASE WorkerSucceeds \/ WorkerFails
    <3>1. job.status = "Running"
      BY <2>2 DEF WorkerSucceeds, WorkerFails
    <3>2. CASE WorkerSucceeds
      <4>1. PICK r : job' = [job EXCEPT !.status = "Ok", !.result = r]
        BY <3>2 DEF WorkerSucceeds
      <4>2. job'.result = r
        BY <2>1, <4>1
      <4>3. QED BY <3>1, <4>1, <4>2
    <3>3. CASE WorkerFails
      <4>1. job' = [job EXCEPT !.status = "Failed"]
        BY <3>3 DEF WorkerFails
      <4>2. job'.result = job.result /\ [job EXCEPT !.status = "Failed"]
                                       = [job EXCEPT !.status = "Failed", !.result = job.result]
        BY <2>1, <4>1
      <4>3. QED BY <3>1, <4>1, <4>2
    <3>4. QED BY <2>2, <3>2, <3>3
  <2>3. CASE Poll
    BY <2>3 DEF Poll
  <2>4. CASE User
    BY <2>4, UserKeepsJob DEF Busy
  <2>5. QED BY <2>2, <2>3, <2>4 DEF Next
<1>2. QED BY <1>1, GuiInvariant, PTL DEF Spec, JobsOnlyEnd
=============================================================================
