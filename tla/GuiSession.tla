----------------------------- MODULE GuiSession -----------------------------
(***************************************************************************)
(* The Session of crates/zscan-gui/src/session.rs: what the front end      *)
(* knows of the open file, and the operations on it.  Each operator is one *)
(* method and maps a session to the session it leaves; a session is a      *)
(* record, as in the source.                                               *)
(*                                                                         *)
(* A manifest is abstracted to the ids of its streams, whether streams or  *)
(* length fields were added by hand (touched), and its numbering: which    *)
(* scan or file gave the streams their ids.  Ids of two numberings have    *)
(* nothing to do with each other.  An edit remembers the numbering it was  *)
(* chosen under, which the code does not, so that a stale one can be told. *)
(* The log and the guess of each stream's content are left out.            *)
(***************************************************************************)
EXTENDS Integers, FiniteSetsExt

CONSTANTS
  Files,      (* files that can be opened                                  *)
  MaxId,      (* bound on the stream ids                                   *)
  Contents,   (* files with new contents for a stream                      *)
  Projects,   (* project files                                             *)
  None

Ids == 0 .. MaxId

Numbering == Nat

Manifest == [numbering : Numbering, streams : SUBSET Ids, touched : BOOLEAN]

Edit == [path : Contents, numbering : Numbering]

ASSUME GuiAssumption ==
  /\ MaxId \in Nat
  /\ None \notin Files \cup Contents \cup Projects \cup Manifest \cup Edit

Edits == [Ids -> Edit \cup {None}]

NoEdits == [i \in Ids |-> None]

Project == [file : Files, manifest : Manifest, edits : Edits]

Session ==
  [file : Files \cup {None}, manifest : Manifest \cup {None}, mismatch : BOOLEAN,
   edits : Edits, dirty : BOOLEAN, project : Projects \cup {None},
   lastPack : {None} \cup [numbering : Numbering, edits : Edits], generation : Nat]

Streams(s) == IF s.manifest = None THEN {} ELSE s.manifest.streams

(* Session::default                                                         *)
NewSession ==
  [file |-> None, manifest |-> None, mismatch |-> FALSE, edits |-> NoEdits, dirty |-> FALSE,
   project |-> None, lastPack |-> None, generation |-> 0]

Changed(s) == [s EXCEPT !.dirty = TRUE, !.generation = @ + 1]

SetFile(s, file) == [NewSession EXCEPT !.file = file, !.generation = s.generation + 1]

CloseFile(s) == [NewSession EXCEPT !.generation = s.generation + 1]

(* Mutant: the pack report stays.                                           *)
SetManifestKeepsReport(s, manifest, mismatch, edits) ==
  Changed([s EXCEPT !.manifest = manifest, !.mismatch = mismatch, !.edits = edits])

SetManifest(s, manifest, mismatch, edits) ==
  Changed([s EXCEPT !.manifest = manifest, !.mismatch = mismatch, !.edits = edits, !.lastPack = None])

(* A manifest whose ids nobody has used: the next generation names it.      *)
Fresh(s, streams) == [numbering |-> s.generation + 1, streams |-> streams, touched |-> FALSE]

(* Mutant: the edits stay, with their old ids.                              *)
SetScannedKeepsEdits(s, streams) == SetManifest(s, Fresh(s, streams), FALSE, s.edits)

(* A scan renumbers the streams, so the edits go.                           *)
SetScanned(s, streams) == SetManifest(s, Fresh(s, streams), FALSE, NoEdits)

SetEdit(s, id, path) ==
  Changed([s EXCEPT !.edits[id] = [path |-> path, numbering |-> s.manifest.numbering], !.lastPack = None])

(* Mutant: reverting does not count as a change.                            *)
RevertUnnoticed(s, id) == [s EXCEPT !.edits[id] = None, !.lastPack = None]

Revert(s, id) ==
  IF s.edits[id] = None THEN s ELSE Changed([s EXCEPT !.edits[id] = None, !.lastPack = None])

(* Edits for those of the ids that are streams of the manifest; the ids     *)
(* were found under the numbering `of`.                                     *)
SetEditsFromDir(s, ids, path, of) ==
  IF s.manifest = None THEN s
  ELSE Changed([s EXCEPT
         !.edits = [i \in Ids |-> IF i \in ids \cap Streams(s) THEN [path |-> path, numbering |-> of]
                                  ELSE s.edits[i]],
         !.lastPack = None])

(* Manifest::add_stream: the next free id, unless the stream overlaps       *)
(* another one.                                                             *)
NextId(s) == IF Streams(s) = {} THEN 0 ELSE Max(Streams(s)) + 1

AddStream(s, overlaps) ==
  IF s.manifest = None \/ overlaps THEN s
  ELSE Changed([s EXCEPT !.manifest.streams = @ \cup {NextId(s)}, !.manifest.touched = TRUE])

SetFields(s, manifest) == Changed([s EXCEPT !.manifest = manifest])

SetPackReport(s, report) == [s EXCEPT !.lastPack = report]

ToProject(s) ==
  IF s.file = None \/ s.manifest = None THEN None
  ELSE [file |-> s.file, manifest |-> s.manifest, edits |-> s.edits]

SavedProject(s, path) == [s EXCEPT !.project = path, !.dirty = FALSE]

-----------------------------------------------------------------------------
(* What the methods keep of a session.                                      *)

(* The edits are for streams of the manifest, chosen under its numbering.   *)
EditsFit(edits, manifest) ==
  \A i \in Ids : edits[i] # None =>
    manifest # None /\ i \in manifest.streams /\ edits[i].numbering = manifest.numbering

(* A manifest needs a file, and edits, unsaved changes and a pack report    *)
(* need the manifest they are of.                                           *)
SessionFits(s) ==
  /\ s.manifest # None => s.file # None
  /\ s.dirty => s.manifest # None
  /\ EditsFit(s.edits, s.manifest)
  /\ s.lastPack # None =>
       s.manifest # None /\ ~ s.mismatch /\ s.lastPack.numbering = s.manifest.numbering
=============================================================================
