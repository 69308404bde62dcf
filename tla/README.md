# A formal model of zscan

zscan finds compressed streams in a binary file, extracts them, packs edited
ones back, and has a desktop front end for all of it. This directory holds TLA+
modules translated from its Rust source, TLC configurations that check them on
small instances, and TLAPS proofs about the scan, packing, the front end, the commands on files,
length fields, decoders, encoder settings, the inflate loop and the Oodle loader. Paths below are relative to `crates/`.

## The system

| Part | State | Operations | What is hard | What makes it correct |
|---|---|---|---|---|
| Parallel scan (`zscan-core/src/scan.rs`) | hits, streams found, progress counters, cancel flag | a pass of the self-verifying codecs, a pass of the others over the gaps, a search for encoder settings; each over units run by a pool | order of the workers, chunk boundaries, cancellation at any moment, chains of overlapping raw matches | the result is that of a sequential scan; streams do not overlap; Ok means whole; it returns |
| Pack (`zscan-core/src/pack.rs`, `fields.rs`) | plans, patches, output length, new manifest | plan streams, lay out patches, rewrite fields, write, verify | slack, moves, alignment, fields that depend on new sizes and offsets | what is not edited stays; a plan can be written; the new manifest describes the file |
| Output files (`output.rs`), extract (`extract.rs`), unpack and rebuild (`unpack.rs`), manifests (`manifest.rs`) | files | write to a temporary file and rename; write a directory in steps; read edits back | failures, panics and kills between steps | no half-written file is taken for a whole one |
| Field detection (`fields.rs`) | candidate fields | detect, prefer widths, apply the unambiguous | ambiguity, overlap with streams, chunks of a gap | no field is missed, and what is applied passes `check_fields` |
| Session (`zscan-gui/src/session.rs`) | open file, manifest, edits, dirty flag, last report | one method per change | ids change their meaning with each scan | edits and reports are of the present ids; what is not saved is called dirty |
| Jobs (`jobs.rs`) | the one running job | start, poll | results applied later than they were computed; panics | every job ends; a result finds the state it needs |
| Application (`app.rs`) | selection, confirmation, closing | menus, shortcuts, dropped files, close button | events that get past the confirmation or past a running job | unsaved work goes only when the user agrees |
| Preview (`preview.rs`) | pending request, contents, texture | request, poll, clear | threads answer out of order or panic | what is shown is what was asked for, and it comes to be shown |
| Project files (`project.rs`), settings (`settings.rs`) | a file each | save, load | written in place | a failure is noticed |
| Codecs (`codecs/`, `codec.rs`, `try_at` and `decode_at` of `scan.rs`) | an output buffer per thread | probe, decode with or without sizes, evidence | optional parts at the end of a window, raw formats without an end, sizes that come from outside | an answer does not hang on what follows the stream, on what was decoded before, or on where the sizes came from |
| Encoder settings (`deflater.rs`, `params.rs`) | none | find settings, adapt, strengthen | what the search leaves out | a stream zlib made is recreated; a header's window is kept |
| Oodle loader (`plugins.rs`, `codecs/oodle.rs`) | the configured path, the libraries loaded | set the path, get the codec | the path changes while threads load | a library is loaded once, and the configured one is used |
| Command line (`zscan-cli/src/main.rs`) | none of its own: the files | one library operation per command | flows through files, by commands that run side by side, fail or are killed | what is on disk can be relied on, or is refused |

How they interact: the command line and the front end call the library. In the
front end the UI thread owns the session; a job runs on a thread of its own with
copies of what it needs and sends back a closure, which the UI thread applies when it
polls. The scan reports through `Progress`, atomics it shares with the thread
that may cancel it. The preview decodes on further threads, one per request, each
with a channel of its own. Scan, extract, fields and pack go through the manifest.

## Modules

| Module | Models | Notes |
|---|---|---|
| `ScanData` | what both scans share: the input, gaps, units of work, `later_match_wins` | bytes are abstracted to the answers of `try_at` |
| `ScanOracle` | `scan_sequential`, `scan_range` of the tests | recursive functions, no operators |
| `ScanContract` | what `scan_with_progress` promises | abstract specification |
| `ParallelScan` | `scan_with_progress`, `scan_chunked`, `collect_hits`, both merges, `Progress` | inductive invariants `IInv`, `ProgressInv` |
| `ScanRefinement` | the parallel scan beside the sequential one and its contract | inductive invariant `OracleInv` |
| `MCScan` | inputs for TLC | |
| `ParallelScanProofs` | theorems about `ParallelScan` and its progress | checked by TLAPS |
| `ScanOracleProofs` | theorems about `ScanOracle` and `ScanRefinement` | checked by TLAPS |
| `Pack`, `MCPack` | `pack`, `write_to`, `verify_output`, `check_fields` | inductive invariant `IInv` |
| `PackProofs` | theorems about `Pack` | checked by TLAPS |
| `GuiSession` | the methods of `Session`, as operators on a record | |
| `GuiApp` | events, jobs, confirmation, project files | extends `GuiSession` |
| `GuiAppProofs` | theorems about `GuiApp` and `GuiSession` | checked by TLAPS |
| `GuiPreview` | the preview pane and its threads | composed of `Previewer` and `App::details` |
| `GuiPreviewProofs` | theorems about `GuiPreview` | checked by TLAPS |
| `Files` | the files of the command line; `Manifest::save` in place, `write_via_temp`, kills | processes with a program counter each |
| `Cli` | `scan -o`, `extract`, `fields --apply`, `try -m`, `pack`, and the user who edits | extends `Files` |
| `Unpack` | `unpack` and `rebuild` | extends `Cli` |
| `Workspace`, `MCWorkspace` | all commands on one set of files | composes the three above; the properties |
| `WorkspaceProofs` | what each step does, and theorems about `Workspace` | checked by TLAPS |
| `Fields`, `MCFields` | `detect_fields`, `prefer_widths`, `apply_unambiguous`, `check_fields`, `fields --apply` | bytes, in a small base |
| `Decoding` | answers and reading of all decoders | |
| `Deflated`, `Lz4Frame`, `LzoDecoder`, `OodleBlocks` | `gzip.rs` and `zlib.rs`, `lz4.rs`, `lzo.rs`, the block walk of `oodle.rs` | pure operators and recursive functions |
| `Codecs` | the `Codec` trait, `decode_candidate`, `try_at`, `decode_at` | over the four above; windows that grow |
| `Inflater` | `DecodeCtx::inflate` | the buffer kept between attempts |
| `ZlibSettings` | `find_params`, `mem_level_hint`, `adapt_family_params` and relatives | |
| `OodleLibrary` | `set_oodle_dll`, `oodle_dll_path`, `codec`, `load` | threads and the lock |
| `MCFormats` | `Fields`, `Codecs`, `Inflater`, `ZlibSettings`, `OodleLibrary`, side by side | each behaviour is one of one machine |
| `FormatsProofs` | theorems about these machines, except `Codecs` | checked by TLAPS |
| `CodecsProofs` | theorems about `Codecs` and lemmas about the decoders | checked by TLAPS |

Definitions that start with "Mutant:" in their comment are not part of the model.
Each is a plausible mistake in the code; put in the place of the definition after
it, it breaks a property. They show that the properties say something.

### The scan

`try_at(pos, window_end)` depends on nothing but its arguments, the codecs of the
pass and the data (`scan.rs:219-222`), so `data.try` is the table of its answers, and
codecs, filters and bytes need not appear. The caller's program counter `pc` follows
`scan_chunked`: `StartVerified` splits the input into units, the workers take
them (`Take`) and record every hit (`FinishUnit`), the caller waits (`EndCollect`)
and merges hit by hit (`MergeVerified`; `TakeUnverified`, `LookAhead`, `KeepBest` for
the inner and outer loop of `resolve_unverified`). `Cancel` may come at any moment.
A worker reads the flag in `Take`, the caller once in `Return`. The three stores of
`Progress::start` are one step: nothing but the display reads them, and workers
are at rest.

### Pack

A byte is abstracted to what it is part of: zero, the i-th of a stream, a field
with its value, or something else. A field is one byte wide and holds up to
`FieldMax`. An edit says how long its stream becomes with the first settings and with the
strongest ones; codecs may also fail (`PlanFails`). Actions follow `pack` from `Check`
through `PlanStream` (any order: the plans are made in parallel and do not
depend on each other), `PlaceStream` (offset order), `UpdateFields`, `CheckOverlap`,
then `write_to` patch by patch and `verify_output`. `--dry-run` stops before writing.
Left out: duplicate ids and edits of unknown ids, both rejected up front or not
produced by the program, and the wording of errors.

### The front end

A manifest is abstracted to the ids of its streams, a flag that tells whether
something was added by hand, and its *numbering*: which scan or file gave the ids
their meaning. The code has no numbering. The model attaches it to edits and
reports so that a stale one can be told.

The UI thread handles one event at a time, so each event is one action; only the
threads interleave with it. `Busy` disables what the menus disable: opening,
scanning, packing. It does not disable replacing or reverting a stream, Ctrl+S or the
close button. `patient`, chosen at the start, tells whether the user waits for a job
before doing these. A worker's result is fixed when it ends
(`WorkerSucceeds`) and applied later (`Poll`).

In `GuiPreview` a stream's contents are the generation that gave the stream its
entry, with the edit on show. Channels carry numbers, reused when free, so that a
late answer on an old channel is distinct from one on the present channel.

### Commands and files

A command of `zscan-cli` is a process; `proc[p]` holds what it read and how far it is. Any
two run at the same time, a step that writes may fail, `TempPanics` is the panic of
`write_to` that `pack_write_ends` shows, after which nothing in `write_via_temp` cleans up, and
`Kill` ends a process between any two steps. The machine itself does not stop: nothing is
synced before the rename (`output.rs:17`), and what is left of a file then is up to the file
system. Bytes are abstracted to contents: of each stream, and of all that is
outside streams (part 0). A file that is created and not yet written is `Cut`, and so is one
that two processes may have written over each other (`AfterWrite`). Handles follow the
file they were opened on, as they do when another process renames or removes
`<output>.zscan-tmp`. `extract` and `unpack` write stream by stream in any order, as
rayon does, `unpack` its index last. `rebuild` writes first and compares size and CRC-32
afterwards (`RebuildFill`, `TempWrite`, `RebuildCheck`): what it compares is what it wrote, hashed on
the way, and not the file, where `pack` reads its temporary file back (`PackVerify`). It
may be asked to write any output, the input among them (`main.rs:597` does not compare
them, as `pack` and `scan` do). The user edits extracted files, replaces the input
by another version, and meddles with an unpacked directory, between commands.

History variables say when no promise holds: `shared` (outputs that two commands wrote at
once, as the temporary name is the same for both), `orphans` (outputs whose temporary file a
command left behind: it was killed, it panicked, or the file could not be removed, which
`output.rs:19` ignores), `torn` (streams whose file was half-written when a pack read it),
`meddled` (an unpacked directory that was changed by hand, or by two unpacks at once). A file
that is cut short by `extract` is taken for an edit by `load_edits`, which cannot tell;
`NoDamage` says that this damages that stream and no other.

`NoDamage` has one exception more, `Spoilt`. Two commands for one output share the temporary
name, so when a rebuild of a changed directory has written its bytes, and before it compares
them, another command may rename them into place; and if that output is the input, every
later command reads it. It takes four commands and a change to get there (one of them
the unpack), more than the run has; the proofs cannot do without it.

`scan -o INPUT` is refused (`main.rs:296`), and so is `pack -o INPUT` (`main.rs:454`), but
`pack --manifest-out INPUT` and `rebuild -o INPUT` write over the input, which
`README.md:63` of the repository says is never modified. The model has the second; of the first the run's
`ManifestNames` has only the manifest, as a file that is saved in place is `Cut` for a while and
`OutputIsWhole` says nothing of it.

### Length fields

A file is a sequence of digits of base 4 in place of bytes, so that widths 2, 4 and 8,
both byte orders, the window before a stream and the chunks of a gap are as in the code,
and a value still fits. `Near` and `Global` are the two searches of `detect_fields`; its
filter over the low 16 bits rejects nothing that the table of targets would take, and is
left out. `Prefer` takes the candidates in the order that `prefer_widths` sorts them in, by
offset first: of two overlapping candidates the one that starts first stays, whatever its width, where the comment
(`fields.rs:233-234`) speaks of the preferred width only.

### Decoders

Each decoder is a function of bytes that answers used bytes and output size, or an error. The
LZO1X decoder is translated instruction by instruction. In the others a multi-byte
field is one byte wherever the code reads it in one piece (magic numbers, sizes, checksums,
`Deflated` and `Lz4Frame` list them), so that every early return, every optional part and
their order stay, and TLC can enumerate all bytes that lead to them. What libraries do
(`miniz_oxide`, `lz4_flex`, `xxh32`, the user's `oo2core`) is external: a stored rule
for sizes, sums in place of checksums, an Oodle library that decodes any size it is asked for.

The loop of each decoder is `Loop` of `Decoding`: a function from the states of the decoder to the
one it stops in, where a step (`InflateStep`, `BlockStep`, `Instruction`, `ExtendStep`, `WalkStep`)
is one pass of the loop in the code.

`Codecs` adds what the scan makes of it. `Feed` shows one more byte of the file: a window
that ends with the gap and a longer one are compared by the same action. `AnswersAreFinal`
says that what was answered without running out of bytes stays, which is what the split into
gaps and the comparison with the sequential scan rely on. For Oodle, which is tried with
every size that a field before it gives, only that something is found stays. Evidence of
an Oodle stream is counted without its size, so a last block that is not compressed but
shorter than 256 KiB counts as coded; `EvidenceKnowsTheEnd` bounds this by one block.

`InflateLoop` is one pass of `inflate`'s loop, which doubles the buffer that the thread keeps;
`AnswerForgetsAttempts` compares every answer with that of a fresh buffer. In `ZlibSettings` zlib is external: `Output` gives the
equivalences of settings that the comments of `find_params` name
(windows larger than the data, levels ignored by RLE and Huffman-only, the filtered
strategy on fast levels). That zlib keeps to them is an assumption; that the search needs no others is
what is checked. `FirstBlocks` says how a stream of zlib may begin. A block that is not the last fills
the buffer, as the comment of `mem_level_hint` has it; of a last one the comment says that the buffer
was larger, and there zlib does otherwise: `deflate_slow` (levels 4 to 9, unless RLE or
Huffman-only) holds back a literal and adds it after its loop without looking whether the buffer is full, so
a last block may fill it (`FillsBuffer`).

In `OodleLibrary` a use of the codec has the steps of `codec()`: read the path (`Ask`), lock
(`Enter`), look up, load. The path may be set between any two, by the front end
(`App::apply_oodle_dll`, on loading settings) or `--oodle-dll`. Loading runs the library's own
code and may panic with the lock held, which is let go poisoned and taken again.

## Runs

| Run | Question | Bounds |
|---|---|---|
| `scan_all_inputs` | is the merged result that of the sequential scan, without overlaps? | 5 bytes, units of 3, every arrangement of one pass beside at most one match of the other; one worker, as order is the next run's |
| `scan_workers` | does it hold with 3 workers in any order and a cancellation at any moment? does it return? | 4 bytes, units of 1, one input with each kind of overlap, every option |
| `pack` | does a written file differ only where it has to, and can a plan be written? | 10 bytes, two streams, 8 layouts of fields, 5 edits each, slack, moves, alignment 1 and 4, one damaged byte |
| `gui` | do edits, reports and jobs always fit the manifest? is clean work saved or given up, are edits lost only with consent, do jobs end? | two files, an id each and one more, 4 changes of the session, saves may fail, users who wait for jobs and users who do not |
| `gui_preview` | is the right thing shown, and is it shown in the end? | two streams, one replacement file, 4 user actions |
| `workspace` | can outputs, manifests, extracted and unpacked directories be relied on? | two processes, 3 commands in a behaviour, two outputs of which one is the input, two streams of which one needs corrections, two versions of the input, one change by the user |
| `formats` | five questions on the formats: fields found, answers of the decoders, the inflate buffer, zlib settings, the Oodle library | below |

`formats` puts machines side by side that share nothing, `machine` says which one runs:

- fields: files of 14 digits with two streams and at most two digits other than zero, chunks
  of 3, two rounds of `fields --apply`;
- decoders: gzip's flags alone and together, a zlib window too small and the ends of those allowed,
  every set of LZ4 flags, then all strings over a few bytes that take every branch, up to 7 more, with output limits 2 and 6 and five sets of sizes in front;
- inflate: three attempts of any size and end, six limits around the first length;
- settings: levels, windows and memory levels at both ends and in the middle, every strategy, data lengths
  around the smallest capacities and the margins of the windows, and one that fills the largest buffer; last blocks that are
  empty, have one symbol, fill one of three buffers, or have one symbol less;
- Oodle: three threads, four uses, two paths, two changes of the path.

Why these bounds are enough to be interesting. Five bytes hold a chain of three
overlapping matches with a boundary of units inside it and a gap on either side.
Two streams are what slack, overlap and alignment between moved streams need.
Four changes of a session are open, scan, edit and one more (saves come on top); the model
does not grow with file contents. Four user actions let two decodings be under way when the selection
returns to the first. Three commands are what it takes to scan, extract and pack, or
to have a second one beside a pack whose manifest is there; two streams are what it takes to
have one extracted or edited and the other not. A use of the Oodle library is disturbed by
one change of the path, and a lock is disputed by two threads while a third goes back to
the first library. 14 digits hold a gap with an 8-byte field across two chunks, a prefix that is
shorter than the window, and a tail.

Deadlock checking is off only where the program may stop: at the bound on user
actions or commands, when the window is closed, or when a decoder has its answer.

Fairness. The scan's caller and each worker are weakly fair: decoding a unit ends,
and nothing waits for anything but the end of units. In the front end a job's worker
ends, and the UI thread polls, which it does because it redraws ten times a second
while a job runs. In the preview the threads end and wake the UI. The user is never
assumed to act.

### Where the code and its comments part

These runs end in a counterexample. Each property restates a comment.

| Run | Comment | What happens |
|---|---|---|
| `scan_lost_stream` | `scan.rs:124` every stream is found | of the raw matches [0,3), [1,2) and [2,4), [0,3) is the best at first and [1,2), which ends inside it, is dropped; then [2,4) replaces [0,3), and [1,2), which overlaps nothing that is found, is lost |
| `gui_unasked` | `app.rs:173` unsaved work is asked about | a rescan drops streams and fields added by hand when there are no edits |
| `pack_overlap` | `pack.rs:372` an internal error | a field holding zero behind a stream is taken for slack; stream and field overlap |
| `fields_apply` | `fields.rs:259` candidates that no other claims the place of are added | candidates with different first bytes share others (00 v 00, read in both byte orders); the manifest is refused and nothing is saved |
| `pack_write_ends` | `pack.rs:168` the relocated streams are written | padding between two moved streams makes the copy slice past the input's end |

`PlanIsWritable`, which holds and is proved, gives each failure its cause: the internal error
comes of `FieldInSlack` only, the panic of `PaddedBetween` only, and a failed verification of
`FieldInSlack` or an unedited stream damaged before (with the source check off). `FieldInSlack` shows in two ways: as the internal error of
`pack_overlap`, or, when the field itself does not change, as a written file that fails
its verification although `fits` said it could be written.

`RefusedForOverlap`, which holds, says that this is the only reason for which `fields --apply`
is refused.

`SearchFindsSettings`, which holds and is proved, names the streams for which `find_params` may find nothing: those
whose only block has exactly as many symbols as fill the buffer. `mem_level_hint` takes it that the
buffer was larger (`deflater.rs:172-180`), so the memory level the stream was made with is not tried; of the largest buffer
(32767 symbols at memory level 9) the hint says that zlib did not make the stream, and nothing is tried. (Of a smaller one, a
larger memory level often gives the same bytes; `Output` does not count on it.)

Five more cases have no run. `output.rs:3` says that "a failure never leaves a half-written or wrong file behind":
`NoTempLeft` and `NoDamage` have to except a panic, a removal that fails and `Spoilt`. `jobs.rs:3-4` says that a result always applies to the state it
was started from, but streams can be replaced and reverted while a job runs; the properties
about consent and saved work therefore speak of a user who waits (`patient`), those about ids
of any user. "Discard" clears the dirty flag before the action is performed
(`app.rs:1417`); when that is a job that fails, unsaved work is still there and is called
clean (`givenUp` stands for it in `CleanIsSavedOrGivenUp`, against `session.rs:102`). A save that fails
truncates the project file in place (`project.rs:44`), so a session that was clean before is
clean over a file that cannot be read (`Spoilt`). And `can_relocate` does not look at the width
of the offset field, so a stream may be called relocatable when no offset past the end fits.

## Proofs

Every theorem holds for all values of the constants: any input, number of workers,
processes, threads, streams or files, and any bound on the user's actions, so that the
bounds of the runs play no part in them. What is assumed of constants says that values
which the code keeps apart by their type are different (`None` is no stream, request or drawn record, `Damage` no
content, part 0 no stream), that the scan's pool has a thread, that bounds and sizes are natural numbers, that units and chunks are not
empty, that no stream or encoded edit is empty and ids of streams differ, that settings a stream was made with are such as zlib accepts, that bytes, sizes and limits
of the decoders are natural numbers, that the block of Oodle's and the longest gzip name are not empty, that streams begin with some byte (raw LZO apart), and that the table of
`try_at` answers within the window. Each property below is also checked by a run, except
`LoopAdvances` and the five that stand behind liveness (`RunsDown`, both `NeverStuck`, `ComesCloser`, `JobsOnlyEnd`). So are the inductive invariants, except those of `FormatsProofs` and `CodecsProofs`, of which the
runs check the parts that matter.

| Module | Theorems | Inductive invariant |
|---|---|---|
| `ParallelScanProofs` | `ScanInvariant`, `ScanTypeCorrect`, `ScanNeverOverlaps`, `ScanOkIsWhole`; `ProgressInvariant`, `ScanProgressExact`; `ScanRunsDown`, `ScanNeverStuck` | `ParallelScan!IInv`; `ProgressInv` beside it |
| `ScanOracleProofs` | `ScanOracleInvariant`, `ScanMatchesOracle`, `ScanRefinesContract` | `OracleInv`, which contains `ParallelScan!IInv` |
| `PackProofs` | `PackInvariant`, `PackTypeCorrect`, `PackIsFaithful`, `PackFailsForCause` | `Pack!IInv` |
| `FormatsProofs` | `FieldsInvariant`, `FieldsNoneMissed`, `FieldsRefusedForOverlap`, `InflaterInvariant`, `InflateForgets`, `InflateLoopEnds`, `ZlibInvariant`, `ZlibSearchFinds`, `ZlibFitsDeclaredWindow`, `OodleInvariant`, `OodleLoadedOnce`, `OodleUsesWhatIsConfigured` | `FieldsInv`, `InflaterInv`, `ZlibInv`, `OodleInv` |
| `CodecsProofs` | `CodecInvariant`, `AnswersAreFinalAlways`, `SameFromItsSizesAlways`, `ProbeNeverRejectsAlways`, `EvidenceKnowsTheEndAlways` | `CodecTyped`: the rest holds of every window |
| `GuiPreviewProofs` | `PreviewInvariant`, `PreviewDrawnAsAsked`, `PreviewComesCloser`, `PreviewNeverStuck` | `GuiPreview!IInv` |
| `GuiAppProofs` | `GuiInvariant`, `GuiEditsOfThisNumbering`, `GuiReportOfThisNumbering`, `GuiJobsSeeTheirFile`, `GuiCleanIsSavedOrGivenUp`, `GuiEditsGoOnlyWhenAgreed`, `GuiJobsOnlyEnd` | `GuiApp!IInv` |
| `WorkspaceProofs` | `WorkspaceInvariant`, `OutputsAreWhole`, `NoTempIsLeft`, `ManifestsAlwaysFit`, `NothingIsDamaged`, `IndexIsRebuildable`, `PackKeeps` | `Workspace!IInv` |

`GuiEditsGoOnlyWhenAgreed`, `GuiJobsOnlyEnd`, `PackKeeps`, `AnswersAreFinalAlways` and `InflateLoopEnds` are about steps,
`ScanRunsDown` and `PreviewComesCloser` about steps and the ranks they lower (`[][A]_vars`), `ScanRefinesContract` is a
refinement, the others are about states.
All rest on lemmas of one kind: for each action, that it keeps each part of the
invariant which it can disturb. What several actions share (a change of the session, a step of
a process) has a lemma of its own.

**The scan.** `NoOverlap` is not inductive: nothing in it says that a hit waiting to be merged
keeps away from what was found. `IInv` adds, by what it is for: `AtRest` (work is out only
while workers run, and hits exist only from a pass to its merge), `Kinds` (each pass
reports its own kind), `Contained` (units and the hits made from them keep to their
gap, so a raw hit is disjoint from every verified stream), `LeftToRight` (the merges
go in offset order: what is kept ends before what is pending begins) and `Accounted`
(without a cancellation, each offset a codec accepts is in a unit not yet done, in a
hit, or covered by a stream found). `OkIsWhole` follows from `Accounted`, since Ok
is returned only when the flag is not set. There are lemmas about `Gaps` and `Work` of their own.

**Progress.** `ProgressExact` speaks of counters only. `ProgressInv` ties them to what is
`Left`: bytes in units during a pass, streams during the search. Units are disjoint and no
two workers hold the same (`HandedOutOnce`), so finishing one takes off `Left` exactly what
it adds to `done`; equality holds as long as nothing was cancelled. That the total a phase
starts with is what `Left` then holds is a fact on cardinalities of intervals and of `Gaps`.

**The sequential scan.** `ScanMatchesOracle` is what the parallel scan is for, and what the tests
sample (`parallel_matches_sequential_for_any_chunking`, `scan.rs:663`). The two loops of `scan_range` are recursive functions,
whose values at an offset are made of values further to the right. That such functions exist,
and unfold, is `RightToLeft` and `LookRightToLeft`, each by a least counterexample (`LeastOf`), as the
library's induction theorems cannot be used. `ScanSkip` and `LookSkip` say that a stretch without a match changes
nothing. `OracleInv` then follows the parallel scan. `Collected`: the hits of a pass are
matches that the sequential scan sees in the same window, all of them once the units are done, whatever the
chunks. `VerifiedMerged`: what is found, and what the sequential scan finds from `lastEnd` on, is together what it finds
from the start. `GapMerged` says this of each gap with an offset of its own, since the parallel
merge goes through the hits of all gaps at once: `TakeUnverified` and `KeepBest` advance the outer
loop of the gap at hand, `LookAhead` the inner one, with the same best match. The rule for a later match looks
at the hits of all gaps in one scan and at the matches of one gap in the other;
it decides alike as a match ends in its own gap (`SameWinner`). After the merges `Resolved` keeps the result until it is
returned. `ScanRefinesContract` maps each step to a step of `ScanContract` or a stutter; the only one
that needs the equality is `Return`. It states the safety part of the contract (`ContractSafety`); that the scan does return
is liveness.

**Pack.** `PlansFit` says that what is planned is `Plan` of a manifest that was found to be in
order, so that a stream with what it may grow into ends before the next one (`RoomApart`).
`PackedFit` says of each new entry that it is where the old one was or behind the input, and
that what has moved is in order and ends the output. `LaidOut` gives the patches from the new entries, in
closed form: each is in the slot of an edited stream, behind the input, or a field. Two of
them overlap only for a field in the slack (`PatchesAreApart`). `WrittenSoFar` follows
`write_to`: its position is the end of a patch, no patch is across it, and what is written is the
input with the patches before it put in. The first read past the input is then between two patches that lie
behind it, both of streams that have moved (`PaddedBetween`); the tail never is, as the
output ends with a patch. What `verify_output` checks follows for the streams unless one was damaged, and
for the fields unless one was in the slack; what it does not check, the bytes in between,
follows from where the patches are (`ChangesWhereItMay`). That least and greatest
offsets exist is `MinOf` and `MaxOf`.

**Length fields.** Both properties hang on what `detect_fields` takes for a match
(`MatchingIsCorrect`, `LargeAndCorrectMatches`): a place in no stream whose bytes end before the
next stream begins is the same as a field of which `check_fields` says that it overlaps none,
chunks or not. The end of a gap is the least of a set of offsets, whose existence is `LeastOf`.
`FieldsInv` then follows the loop of `prefer_widths`: what it has come to is kept or clashes with
something kept, and stays so, as nothing is taken back. How a number is read from bytes plays no
part in it.

**Inflate.** `InflaterInv` says that the buffer is within the limit and what is out within the
buffer. A buffer left by other attempts is then just one that the loop might have reached by itself, and
`TooLarge` means that the body has more than the limit. The doubling in `LoopAdvances` needs a
buffer that is not empty, which is what `Floor` is for, and why a limit of 0 is made 1
(`codec.rs:269-281`).

**Decoders.** That a decoder's loop ends for every input is not given: each step that goes on moves
to a later byte, and no further than the data (`Forward`), so the number of bytes left falls. From
this follow, by least counterexamples, that `Loop` is a function with the equation it was given
(`LoopExists`), that what its steps keep holds where it ends (`LoopEnds`), and what two runs have to do with
each other, which is what the properties are about (`LoopsAlike`).
For each format there are two lemmas. The one ending in `Answers`: an answer has used at least one byte
and no more than there are, has no more output than the limit, and comes only after
what the probe asks for. The one ending in `Waits`: a longer window gets the same
answer, or the shorter one ran out (`Truncated`) and the stream ends behind it.
`DecodedAgain` follows, as the recorded bytes are a window that the first one continues; for
LZO the marker that `decode_with_hint` looks for is where the decoder met it (`EndsAt`).
Oodle needs more. `WalksPaired` follows the walks with and without the size: they are `Together` up to the last block,
which is where they part, so they find the same end and their evidence differs by one block at most.
A walk that meets no header at the end of the data answers `InvalidData`, though more bytes may help; then the walk without the size is at its
end there, which is how `Waiting` tells it from data that is wrong.
That a longer window still accepts (`OodleStays`): only a nearer field's size could have come to
fit, it is larger since a walk to a smaller size would not have waited (`SmallerDoesNotWait`),
its stream is longer, and a longer stream has no less evidence (`EvidenceGrows`), so neither `min_size` nor
the minimum of raw streams refuses it. For LZO, with lengths instead of sizes, all lengths lead to the same end, so the first stays the first (`LengthsAreFinal`).

**Settings.** For each setting that zlib accepts there is one among those tried that is
equivalent to it (`EquivalentIsTried`) unless the only block filled the buffer, through what the first block, the length and the header tell
(`MadeFits`); the first one in the loops' order exists as the turns are natural numbers (`LeastOf`
again). With the largest buffer filled no memory level is left (`FullestBlock`). The window of what is encoded is never above the header's, except that a header of 8 bits
is encoded with 9, which the margin makes up for.

**Oodle.** Only the holder of the lock looks at the table or loads (`OneInside`), so what a
thread found missing is missing until it loads it (`LookUpsHold`); the table only grows.

**The preview.** `DrawnAsAsked` needs that a channel is used by one thread only, and that
what this thread decodes is what the pending key names (`OneThreadEach`); that contents and
texture belong to the key they are kept under (`KeptAsKeyed`), where the key holds no entry
but a generation; and that generations only grow (`KeysAreOld`), so an old key never fits again.

**The session.** What a worker returns is checked against the session it was started from,
not the one it is applied to. `ManifestStays` closes the gap: while a job on the manifest runs,
no event changes file or manifest, and only leaving can be on question. `DiskFits` and
`ResultFits` say the same of edits that take the way over a project file. `NothingToLose`,
`AskedIsSaved` and `ReadIsThere` are about a user who waits for jobs; without the last,
`CleanIsSavedOrGivenUp` is not inductive, as a project may be overwritten between
being read and being applied.

**Commands and files.** The parts of `IInv` are: `WritesFit` (two commands write an output
together only once it is `shared`; one that has it for itself finds in the temporary file what it
put there, and a temporary file belongs to a command), `AloneFits` (a pack that is
alone plans what is in the directory), `DamageFits` (where damage is: in the plans of packs, the
temporary files and the outputs only in `torn` streams, in what a rebuild has written only if the
directory was changed, and in no input, index or extracted file, as long as the input was not `Spoilt`) and
`UnpackFits` (how far each stream of an unpack has come).
`TypeOK` lists, for each command, what it may be at: these are the classes of `Running`.

The proofs changed one thing in `Workspace`. A command that fails to create its temporary
file still removes the one of that name (`output.rs:18-21`), which may be another command's;
`OutputIsWhole` did not say that such an output counts as shared, and held in the run only because
three commands are too few to get there. It does now (`Writing`, `TempFails`).
`NoDamage` is proved through the histories, which only grow (`HistoriesGrow`): a step keeps what is
clean unless it spoils the input (`DamageSplit`), and what a rebuild renames is what it
wrote, which it found equal to the original; what another command renames for it may be anything the changed
directory gave.

**Behind liveness.** Fairness and ENABLED are out of the prover's reach, but two parts of the argument for
liveness are safety, and proved. One is a rank: `ScanRunsDown` says that every step of
the caller, a worker or a cancellation lowers `StagesLeft` or, at the same stage, `StepsLeft`;
`PreviewComesCloser` that every step but the user's lowers `Distance` (to a request for the
selected stream that was answered), or else `Outstanding` (threads and answers), or else `Undrawn`. The ranks are
natural numbers (that is part of both theorems, as `todo`, `pending` and `loads` are finite), so a scan has
finitely many steps, and so has the preview once the user rests. The other is that nobody waits for nothing:
`ScanNeverStuck`, whose `CallerCan` and `WorkerCan` are the guards of the actions written out (it needs a worker in the pool and a first hit among those pending, `FirstHit`), and
`PreviewNeverStuck`. With steps that are taken in the end, which is the fairness above, `Terminates` and
`ComesToShow` follow; that last step is what TLC checks. For `JobsEnd` the safety part is `GuiJobsOnlyEnd`.

Only model-checked is liveness (`Terminates`, `CancelReported`, `JobsEnd`, `ComesToShow`, and the fairness in
`ImplementsContract`), which is out of the prover's reach. How a number is read from bytes, and
what external libraries answer, is not proved but part of the model.

## Not modelled

- Raw deflate, brotli, bzip2, xz and zstd (`codecs/`): a library's decoder in a loop that
  feeds it. What can go wrong in them is the library's. Likewise the encoders, and the
  search for settings of formats other than the deflate family.
- Entropy, content guesses, checksums, errors (`entropy.rs`, `content.rs`, `checksum.rs`,
  `error.rs`): functions of bytes without state. The filters by entropy and ratio are left
  out of `Accepts`.
- JSON and the one-by-one checks of numbers in a loaded manifest: a manifest either parses or
  is cut.
- Options, help and printed output of the command line; directories of inputs.
- Drawing, dialogs, sorting and filtering of the table, the log, relative paths and the
  settings file of the front end. That a preview of an edit follows the file on disk is
  promised nowhere.
- A machine that stops with files not yet on disk, and a network drive or another program that
  changes them.
- Fixtures (`zscan-fixtures`), which generate test data.

## Plan

Every invariant and action property that a run checks is also proved; liveness is not, as said. What
is left is to read the longest proofs again (`CodecsProofs`, `PackProofs`, `WorkspaceProofs`) for lemmas
that could be shared, and to extend the models where `Not modelled` names code of the
project's own: the filters by entropy and ratio in `Accepts`, and the checks of a loaded manifest.
