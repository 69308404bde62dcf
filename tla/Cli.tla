-------------------------------- MODULE Cli ---------------------------------
(***************************************************************************)
(* The commands of zscan-cli that work with a manifest: scan, extract,     *)
(* fields --apply, try --manifest and pack, step by step over the shared   *)
(* files, with the user who edits what was extracted and who replaces the  *)
(* input by another version of it.                                         *)
(*                                                                         *)
(* A command reads a whole file in one step and the extracted files in one *)
(* step, and acts on what it read afterwards. A command that only prints   *)
(* (info, scan without -o, a dry run) changes nothing and is left out.     *)
(***************************************************************************)
EXTENDS Files

CONSTANTS
  Filters,    (* what a scan may find, depending on its filters             *)
  SizeOf,     (* how long each content is                                   *)
  ManifestNames,  (* where the user has scan and pack write manifests       *)
  Forced,     (* whether --force is used                                    *)
  MaxEdits    (* bound: what the user changes in a behaviour                *)

ASSUME CliAssumption ==
  /\ Filters \subseteq SUBSET Streams /\ SizeOf \in [Contents -> Nat]
  /\ ManifestNames \subseteq Names /\ Forced \subseteq BOOLEAN /\ MaxEdits \in Nat

VARIABLES
  dir,        (* the extract directory: a file per stream                   *)
  edits,      (* how many changes the user made                             *)
  torn        (* history: streams whose file a pack read half-written       *)

dirVars == <<dir, edits, torn>>

Input == file["input"]
Loadable == file["manifest"].is = "manifest"

(* SourceInfo::check: the size and CRC-32 of v are those of source.         *)
Matches(source, v) == source = v

(* decode_stream: the stream at s decodes to what the manifest says.        *)
Decodes(man, v, s) == v[s] = man.source[s]

(* check_fields and sorted_streams: what must hold of a manifest's fields   *)
(* before the file is changed by them.                                      *)
FieldsFit(man) == \A pair \in Overlapping : ~(pair \subseteq man.fields)

CliInit ==
  /\ FilesInit
  /\ dir = [s \in Streams |-> NoFile]
  /\ edits = 0 /\ torn = {}

-----------------------------------------------------------------------------
(* scan FILE -o OUT. Filters decide which of the streams are listed.        *)

Scan(p) ==
  /\ Input.is = "binary"
  /\ \E found \in Filters, out \in ManifestNames \ {"input"} :
       Start(p, [Command("scan", "save", Input.bytes, Manifest(Input.bytes, found, {}))
                   EXCEPT !.target = out])
  /\ UNCHANGED <<file, temp, orphans, shared, dirVars>>

-----------------------------------------------------------------------------
(* extract FILE -d DIR, with the manifest or a scan of its own. The streams *)
(* are decoded and written in parallel; the first error ends the command,   *)
(* what was written stays.                                                  *)

Extract(p) ==
  /\ Input.is = "binary"
  /\ \E force \in Forced,
        man \in (IF Loadable THEN {file["manifest"]} ELSE {})
                 \cup {Manifest(Input.bytes, found, {}) : found \in Filters} :
       /\ force \/ Matches(man.source, Input.bytes)
       /\ Start(p, [Command("extract", "tasks", Input.bytes, man) EXCEPT !.todo = man.streams])
  /\ UNCHANGED <<file, temp, orphans, shared, dirVars>>

ExtractOpen(p, s) ==
  /\ At(p, "tasks") /\ proc[p].cmd = "extract" /\ s \in proc[p].todo
  /\ Decodes(proc[p].man, proc[p].data, s)
  /\ dir' = [dir EXCEPT ![s] = Cut]
  /\ proc' = [proc EXCEPT ![p].todo = @ \ {s}, ![p].open = @ \cup {s}]
  /\ UNCHANGED <<file, temp, runs, orphans, shared, edits, torn>>

ExtractWrite(p, s) ==
  /\ At(p, "tasks") /\ proc[p].cmd = "extract" /\ s \in proc[p].open
  /\ \E c \in AfterWrite(dir[s], Content(proc[p].man.source[s])) : dir' = [dir EXCEPT ![s] = c]
  /\ proc' = [proc EXCEPT ![p].open = @ \ {s}]
  /\ UNCHANGED <<file, temp, runs, orphans, shared, edits, torn>>

(* A stream does not decode to what the manifest says, or a write fails.    *)
ExtractFails(p, s) ==
  /\ At(p, "tasks") /\ proc[p].cmd = "extract" /\ s \in proc[p].todo \cup proc[p].open
  /\ proc' = [proc EXCEPT ![p].todo = @ \ {s}, ![p].open = @ \ {s}, ![p].failed = TRUE]
  /\ UNCHANGED <<file, temp, runs, orphans, shared, dirVars>>

ExtractEnd(p) ==
  /\ At(p, "tasks") /\ proc[p].cmd = "extract"
  /\ proc[p].open = {} /\ (proc[p].todo = {} \/ proc[p].failed)
  /\ End(p)
  /\ UNCHANGED <<file, temp, runs, orphans, shared, dirVars>>

-----------------------------------------------------------------------------
(* fields FILE -m MANIFEST --apply. The candidates detect_fields proposes   *)
(* and apply_unambiguous takes come from Fields; the manifest is checked    *)
(* against the file, then saved over itself.                                *)

(* Mutant: the manifest is saved before it is checked.                      *)
ApplyUnchecked(p) ==
  /\ Loadable /\ Input.is = "binary" /\ Matches(file["manifest"].source, Input.bytes)
  /\ \E added \in SUBSET (Fields \ file["manifest"].fields) :
       LET man == [file["manifest"] EXCEPT !.fields = @ \cup added] IN
       Start(p, [Command("fields", "save", Input.bytes, man) EXCEPT !.target = "manifest"])
  /\ UNCHANGED <<file, temp, orphans, shared, dirVars>>

ApplyFields(p) ==
  /\ Loadable /\ Input.is = "binary" /\ Matches(file["manifest"].source, Input.bytes)
  /\ \E added \in SUBSET (Fields \ file["manifest"].fields) :
       LET man == [file["manifest"] EXCEPT !.fields = @ \cup added] IN
       /\ FieldsFit(man)
       /\ Start(p, [Command("fields", "save", Input.bytes, man) EXCEPT !.target = "manifest"])
  /\ UNCHANGED <<file, temp, orphans, shared, dirVars>>

(* try FILE --at OFFSET -m MANIFEST, with at most one size read from a      *)
(* field; add_stream refuses a stream that overlaps a listed one.           *)
Try(p) ==
  /\ Loadable /\ Input.is = "binary" /\ Matches(file["manifest"].source, Input.bytes)
  /\ \E s \in Streams \ file["manifest"].streams, read \in {{}} \cup {{f} : f \in Fields} :
       LET man == [file["manifest"] EXCEPT !.streams = @ \cup {s}, !.fields = @ \cup read] IN
       /\ FieldsFit(man)
       /\ Start(p, [Command("try", "save", Input.bytes, man) EXCEPT !.target = "manifest"])
  /\ UNCHANGED <<file, temp, orphans, shared, dirVars>>

-----------------------------------------------------------------------------
(* pack FILE -m MANIFEST -d DIR -o OUT --manifest-out MOUT.                 *)

(* Mutant: an edit that keeps the size is not noticed.                      *)
EditsBySize(man) ==
  [s \in {t \in man.streams : CASE dir[t] = NoFile -> FALSE
                                [] dir[t] = Cut    -> TRUE
                                [] OTHER -> SizeOf[dir[t].data] # SizeOf[man.source[t]]}
     |-> IF dir[s] = Cut THEN Damage ELSE dir[s].data]

(* load_edits: the files that are there and differ, in size or checksum,    *)
(* from the stream the manifest lists.                                      *)
LoadEdits(man) ==
  [s \in {t \in man.streams : dir[t] # NoFile /\ dir[t] # Content(man.source[t])}
     |-> IF dir[s] = Cut THEN Damage ELSE dir[s].data]

(* pack: the source is checked unless forced, and an edited stream must     *)
(* still decode.                                                            *)
Plannable(man, v, changed, force) ==
  /\ force \/ Matches(man.source, v)
  /\ FieldsFit(man)
  /\ \A s \in DOMAIN changed : Decodes(man, v, s)

Pack(p) ==
  /\ Input.is = "binary" /\ Loadable
  /\ \E o \in Outputs \ {"input"}, mout \in ManifestNames \cup {"none"}, force \in Forced :
       LET man == file["manifest"]  v == Input.bytes  changed == LoadEdits(man) IN
       /\ Plannable(man, v, changed, force)
       /\ Start(p, [Command("pack", "create", v, man) EXCEPT
                      !.out = o, !.target = mout,
                      !.plan = [s \in Parts |-> IF s \in DOMAIN changed THEN changed[s] ELSE v[s]]])
       /\ torn' = torn \cup {s \in man.streams : dir[s] = Cut}
  /\ UNCHANGED <<file, temp, orphans, shared, dir, edits>>

(* verify_output reads the temporary file back: an edited stream must decode *)
(* to its edit, another to what the manifest says.                          *)
Verified(p, bytes) ==
  LET wanted(s) == IF proc[p].plan[s] # proc[p].data[s] THEN proc[p].plan[s] ELSE proc[p].man.source[s]
  IN  \A s \in proc[p].man.streams : bytes[s] = wanted(s)

PackVerify(p) ==
  LET written == temp[proc[p].out]
      new(b) == Manifest(b, proc[p].man.streams, proc[p].man.fields) IN
  /\ proc[p].cmd = "pack" /\ At(p, "written")
  /\ IF written.is = "binary" /\ Verified(p, written.bytes)
     THEN proc' = [proc EXCEPT ![p].pc = "rename", ![p].man = new(written.bytes)]
     ELSE Goto(p, "remove")
  /\ UNCHANGED <<file, temp, runs, orphans, shared, dirVars>>

PackEnd(p) ==
  /\ proc[p].cmd = "pack" /\ At(p, "renamed")
  /\ IF proc[p].target = "none" THEN End(p) ELSE Goto(p, "save")
  /\ UNCHANGED <<file, temp, runs, orphans, shared, dirVars>>

-----------------------------------------------------------------------------
(* The user, between commands.                                              *)

Edit(s, c) ==
  /\ Quiet /\ edits < MaxEdits /\ dir[s].is = "content" /\ dir[s] # Content(c)
  /\ dir' = [dir EXCEPT ![s] = Content(c)]
  /\ edits' = edits + 1
  /\ UNCHANGED <<fileVars, torn>>

Update(v) ==
  /\ Quiet /\ edits < MaxEdits /\ Input # Binary(v)
  /\ file' = [file EXCEPT !["input"] = Binary(v)]
  /\ edits' = edits + 1
  /\ UNCHANGED <<temp, proc, runs, orphans, shared, dir, torn>>

CliStep(p) ==
  \/ Scan(p) \/ Extract(p) \/ ApplyFields(p) \/ Try(p) \/ Pack(p)
  \/ \E s \in Streams : ExtractOpen(p, s) \/ ExtractWrite(p, s) \/ ExtractFails(p, s)
  \/ ExtractEnd(p) \/ PackVerify(p) \/ PackEnd(p)
=============================================================================
