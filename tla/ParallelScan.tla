---------------------------- MODULE ParallelScan ----------------------------
(***************************************************************************)
(* scan_with_progress and scan_chunked of crates/zscan-core/src/scan.rs:   *)
(* a pass of the self-verifying codecs over the whole input, a pass of the *)
(* others over the gaps between the streams it found, then the search for  *)
(* encoder settings.  The units of each pass run on a pool of workers in   *)
(* any order; the calling thread waits for all of them, then merges what   *)
(* they found.  Another thread may ask for cancellation at any moment; a   *)
(* worker looks at the flag only when it takes a unit, and the calling     *)
(* thread only when everything has run.                                    *)
(***************************************************************************)
EXTENDS ScanData, FiniteSets

CONSTANTS
  Workers,      (* The threads of the pool.                                *)
  Cancellable,  (* Whether somebody else holds the Progress.                *)
  None

ASSUME ParallelAssumption ==
  /\ Workers # {}
  /\ Cancellable \in BOOLEAN
  /\ None \notin Stream
  /\ None \notin [from : Pos, to : 1 .. DataLen, window : 1 .. DataLen]

VARIABLES
  data,       (* the input and the options                                  *)
  pc,         (* where the calling thread is                                *)
  cancelled,  (* Progress::cancelled                                        *)
  phase,      (* Progress::phase, done and total                            *)
  done,
  total,
  todo,       (* units (or streams to match) no worker has taken            *)
  busy,       (* the unit each worker is on, or None                        *)
  hits,       (* what the workers of the pass found                         *)
  pending,    (* hits the merge has not come to                             *)
  best,       (* unverified merge: the match kept so far, or None           *)
  lastEnd,    (* verified merge: where the last stream found ends           *)
  found,      (* the streams found                                          *)
  matched,    (* those whose encoder settings have been searched for        *)
  outcome     (* what scan_with_progress returned                           *)

progress == <<phase, done, total>>
merge == <<pending, best, lastEnd>>
vars == <<data, pc, cancelled, progress, todo, busy, hits, merge, found, matched, outcome>>

Unit == [from : Pos, to : 1 .. DataLen, window : 1 .. DataLen]

Idle == \A w \in Workers : busy[w] = None

Init ==
  /\ data \in Inputs
  /\ pc = "CheckFormats"
  /\ cancelled = FALSE
  /\ phase = "Verified" /\ done = 0 /\ total = 0
  /\ todo = {}
  /\ busy = [w \in Workers |-> None]
  /\ hits = {}
  /\ pending = {} /\ best = None /\ lastEnd = 0
  /\ found = {}
  /\ matched = {}
  /\ outcome = "None"

-----------------------------------------------------------------------------
(* Progress.                                                                *)

(* Mutant: the counter of the phase before is carried over.                 *)
StartPhaseKeepsDone(p, n) == phase' = p /\ total' = n /\ UNCHANGED done

StartPhase(p, n) == phase' = p /\ done' = 0 /\ total' = n

Advance(n) == done' = done + n /\ UNCHANGED <<phase, total>>

(* Progress::cancel, from another thread.                                   *)
Cancel ==
  /\ Cancellable
  /\ ~ cancelled
  /\ cancelled' = TRUE
  /\ UNCHANGED <<data, pc, progress, todo, busy, hits, merge, found, matched, outcome>>

-----------------------------------------------------------------------------
(* The calling thread.                                                      *)

CheckFormats ==
  /\ pc = "CheckFormats"
  /\ IF data.available
     THEN pc' = "StartVerified" /\ UNCHANGED outcome
     ELSE pc' = "Returned" /\ outcome' = "Unavailable"
  /\ UNCHANGED <<data, cancelled, progress, todo, busy, hits, merge, found, matched>>

(* The verified pass has one range, the whole input.                        *)
StartVerified ==
  /\ pc = "StartVerified"
  /\ IF "Verified" \in data.passes
     THEN /\ StartPhase("Verified", DataLen)
          /\ todo' = Work({[start |-> 0, end |-> DataLen]})
          /\ pc' = "CollectVerified"
     ELSE /\ UNCHANGED <<progress, todo>>
          /\ pc' = "StartUnverified"
  /\ UNCHANGED <<data, cancelled, busy, hits, merge, found, matched, outcome>>

GapBytes(gaps) == Cardinality({p \in Pos : \E g \in gaps : g.start <= p /\ p < g.end})

StartUnverified ==
  /\ pc = "StartUnverified"
  /\ IF "Unverified" \in data.passes
     THEN /\ StartPhase("Unverified", GapBytes(Gaps(found)))
          /\ todo' = Work(Gaps(found))
          /\ pc' = "CollectUnverified"
     ELSE /\ UNCHANGED <<progress, todo>>
          /\ pc' = "StartParams"
  /\ UNCHANGED <<data, cancelled, busy, hits, merge, found, matched, outcome>>

(* Mutant: the merge starts when all units have been handed out.            *)
EndCollectEarly ==
  /\ pc \in {"CollectVerified", "CollectUnverified"}
  /\ todo = {}
  /\ pending' = hits
  /\ lastEnd' = 0
  /\ pc' = IF pc = "CollectVerified" THEN "MergeVerified" ELSE "MergeUnverified"
  /\ UNCHANGED <<data, cancelled, progress, todo, busy, hits, best, found, matched, outcome>>

(* All units of the pass have run: the merge starts at the first hit.       *)
EndCollect ==
  /\ pc \in {"CollectVerified", "CollectUnverified"}
  /\ todo = {} /\ Idle
  /\ pending' = hits
  /\ lastEnd' = 0
  /\ pc' = IF pc = "CollectVerified" THEN "MergeVerified" ELSE "MergeUnverified"
  /\ UNCHANGED <<data, cancelled, progress, todo, busy, hits, best, found, matched, outcome>>

(* The next hit in offset order.                                            *)
IsFirst(h) == h \in pending /\ \A k \in pending : h.offset <= k.offset

(* resolve_verified: keep a hit that starts after the last one kept ends.   *)
MergeVerified ==
  /\ pc = "MergeVerified"
  /\ \E h \in pending :
       /\ IsFirst(h)
       /\ IF h.offset >= lastEnd
          THEN found' = found \cup {h} /\ lastEnd' = h.end
          ELSE UNCHANGED <<found, lastEnd>>
       /\ pending' = pending \ {h}
  /\ UNCHANGED <<data, pc, cancelled, progress, todo, busy, hits, best, matched, outcome>>

(* Mutant: the hits of the first pass are left for the second.              *)
EndMergeKeepsHits ==
  /\ pc = "MergeVerified"
  /\ pending = {}
  /\ pc' = "StartUnverified"
  /\ UNCHANGED <<data, cancelled, progress, todo, busy, hits, merge, found, matched, outcome>>

EndMergeVerified ==
  /\ pc = "MergeVerified"
  /\ pending = {}
  /\ hits' = {}
  /\ pc' = "StartUnverified"
  /\ UNCHANGED <<data, cancelled, progress, todo, busy, merge, found, matched, outcome>>

(* resolve_unverified: take the next hit, let the hits that start inside    *)
(* the best one compete with it, then keep it and go past its end.          *)
TakeUnverified ==
  /\ pc = "MergeUnverified"
  /\ best = None
  /\ \E h \in pending :
       /\ IsFirst(h)
       /\ best' = h
       /\ pending' = pending \ {h}
  /\ UNCHANGED <<data, pc, cancelled, progress, todo, busy, hits, lastEnd, found, matched, outcome>>

(* Mutant: the match that runs further wins, even when another one follows  *)
(* the best.                                                                *)
LookAheadForLonger ==
  /\ pc = "MergeUnverified"
  /\ best # None
  /\ \E h \in pending :
       /\ IsFirst(h)
       /\ h.offset < best.end
       /\ best' = IF h.end > best.end THEN h ELSE best
       /\ pending' = pending \ {h}
  /\ UNCHANGED <<data, pc, cancelled, progress, todo, busy, hits, lastEnd, found, matched, outcome>>

LookAhead ==
  /\ pc = "MergeUnverified"
  /\ best # None
  /\ \E h \in pending :
       /\ IsFirst(h)
       /\ h.offset < best.end
       /\ best' = IF LaterMatchWins(hits, best, h) THEN h ELSE best
       /\ pending' = pending \ {h}
  /\ UNCHANGED <<data, pc, cancelled, progress, todo, busy, hits, lastEnd, found, matched, outcome>>

KeepBest ==
  /\ pc = "MergeUnverified"
  /\ best # None
  /\ \A h \in pending : h.offset >= best.end
  /\ found' = found \cup {best}
  /\ best' = None
  /\ UNCHANGED <<data, pc, cancelled, progress, todo, busy, hits, pending, lastEnd, matched, outcome>>

EndMergeUnverified ==
  /\ pc = "MergeUnverified"
  /\ pending = {} /\ best = None
  /\ hits' = {}
  /\ pc' = "StartParams"
  /\ UNCHANGED <<data, cancelled, progress, todo, busy, merge, found, matched, outcome>>

StartParams ==
  /\ pc = "StartParams"
  /\ IF data.matchParams
     THEN /\ StartPhase("Params", Cardinality(found))
          /\ todo' = found
          /\ pc' = "Params"
     ELSE /\ UNCHANGED <<progress, todo>>
          /\ pc' = "Return"
  /\ UNCHANGED <<data, cancelled, busy, hits, merge, found, matched, outcome>>

EndParams ==
  /\ pc = "Params"
  /\ todo = {} /\ Idle
  /\ pc' = "Return"
  /\ UNCHANGED <<data, cancelled, progress, todo, busy, hits, merge, found, matched, outcome>>

(* Mutant: a cancelled scan whose last phase ran to its end passes as whole.*)
ReturnIfDone ==
  /\ pc = "Return"
  /\ outcome' = IF cancelled /\ done < total THEN "Cancelled" ELSE "Ok"
  /\ pc' = "Returned"
  /\ UNCHANGED <<data, cancelled, progress, todo, busy, hits, merge, found, matched>>

(* The flag is looked at once, after everything has run.                    *)
Return ==
  /\ pc = "Return"
  /\ outcome' = IF cancelled THEN "Cancelled" ELSE "Ok"
  /\ pc' = "Returned"
  /\ UNCHANGED <<data, cancelled, progress, todo, busy, hits, merge, found, matched>>

-----------------------------------------------------------------------------
(* The workers.                                                             *)

Collecting == pc \in {"CollectVerified", "CollectUnverified"}

(* Mutant: a unit taken after cancellation is put back.                     *)
TakeOrPutBack(w) ==
  /\ Collecting \/ pc = "Params"
  /\ busy[w] = None
  /\ \E item \in todo :
       /\ todo' = IF cancelled THEN todo ELSE todo \ {item}
       /\ busy' = IF cancelled THEN busy ELSE [busy EXCEPT ![w] = item]
  /\ UNCHANGED <<data, pc, cancelled, progress, hits, merge, found, matched, outcome>>

(* A unit taken after cancellation is given up at once, without a hit and   *)
(* without counting as progress.                                            *)
Take(w) ==
  /\ Collecting \/ pc = "Params"
  /\ busy[w] = None
  /\ \E item \in todo :
       /\ todo' = todo \ {item}
       /\ busy' = IF cancelled THEN busy ELSE [busy EXCEPT ![w] = item]
  /\ UNCHANGED <<data, pc, cancelled, progress, hits, merge, found, matched, outcome>>

(* Mutant: a stream may run past its gap, to the end of the data.           *)
UnitHitsToEnd(unit, pass) ==
  {[offset |-> p, end |-> TryAt(data, pass, p, DataLen), verified |-> pass = "Verified"]
     : p \in {q \in unit.from .. unit.to - 1 : TryAt(data, pass, q, DataLen) # 0}}

(* Mutant: a stream must end in the chunk it starts in.                     *)
UnitHitsInChunk(unit, pass) ==
  {[offset |-> p, end |-> TryAt(data, pass, p, unit.to), verified |-> pass = "Verified"]
     : p \in {q \in unit.from .. unit.to - 1 : TryAt(data, pass, q, unit.to) # 0}}

(* Every match that starts in the unit, none skipped.                       *)
UnitHits(unit, pass) ==
  {[offset |-> p, end |-> TryAt(data, pass, p, unit.window), verified |-> pass = "Verified"]
     : p \in {q \in unit.from .. unit.to - 1 : TryAt(data, pass, q, unit.window) # 0}}

CurrentPass == IF pc = "CollectVerified" THEN "Verified" ELSE "Unverified"

FinishUnit(w) ==
  /\ Collecting
  /\ busy[w] # None
  /\ hits' = hits \cup UnitHits(busy[w], CurrentPass)
  /\ Advance(busy[w].to - busy[w].from)
  /\ busy' = [busy EXCEPT ![w] = None]
  /\ UNCHANGED <<data, pc, cancelled, todo, merge, found, matched, outcome>>

(* match_params on one stream.                                              *)
FinishMatch(w) ==
  /\ pc = "Params"
  /\ busy[w] # None
  /\ matched' = matched \cup {busy[w]}
  /\ Advance(1)
  /\ busy' = [busy EXCEPT ![w] = None]
  /\ UNCHANGED <<data, pc, cancelled, todo, hits, merge, found, outcome>>

-----------------------------------------------------------------------------
Caller ==
  \/ CheckFormats \/ StartVerified \/ StartUnverified \/ EndCollect
  \/ MergeVerified \/ EndMergeVerified
  \/ TakeUnverified \/ LookAhead \/ KeepBest \/ EndMergeUnverified
  \/ StartParams \/ EndParams \/ Return

Worker(w) == Take(w) \/ FinishUnit(w) \/ FinishMatch(w)

(* The scan has returned and everything is at rest.                         *)
Finished == pc = "Returned" /\ UNCHANGED vars

Next == Cancel \/ Caller \/ (\E w \in Workers : Worker(w)) \/ Finished

(* The calling thread and the threads of the pool keep running: decoding a  *)
(* unit ends, and nothing waits on anything but the end of the units.       *)
Fairness == WF_vars(Caller) /\ \A w \in Workers : WF_vars(Worker(w))

Spec == Init /\ [][Next]_vars /\ Fairness

-----------------------------------------------------------------------------
PCs ==
  {"CheckFormats", "StartVerified", "CollectVerified", "MergeVerified",
   "StartUnverified", "CollectUnverified", "MergeUnverified",
   "StartParams", "Params", "Return", "Returned"}

(* Every variable keeps its type; in particular a worker holds a unit of    *)
(* work while a pass runs and a found stream while settings are searched.   *)
TypeOK ==
  /\ data \in Input
  /\ pc \in PCs
  /\ cancelled \in BOOLEAN
  /\ phase \in {"Verified", "Unverified", "Params"}
  /\ done \in Nat /\ total \in Nat
  /\ todo \subseteq IF Collecting THEN Unit ELSE Stream
  /\ busy \in [Workers -> {None} \cup IF Collecting THEN Unit ELSE Stream]
  /\ hits \subseteq Stream
  /\ pending \subseteq hits
  /\ best \in {None} \cup hits
  /\ lastEnd \in 0 .. DataLen
  /\ found \subseteq Stream
  /\ matched \subseteq found
  /\ outcome \in {"None", "Ok", "Cancelled", "Unavailable"}

(* At no moment do two found streams share a byte: the merge of either pass *)
(* skips past what it keeps, and a raw stream cannot swallow a verified one *)
(* because it must end in its gap, whatever the chunks, the order of the    *)
(* workers and the moment of a cancellation (scan.rs:3-9, 220-222).         *)
NoOverlap ==
  \A s, t \in found : s # t => s.end <= t.offset \/ t.end <= s.offset

(* A scan that returns Ok is whole: every offset where a self-verifying     *)
(* codec accepts a stream is in a stream found, whatever workers did, and   *)
(* settings were searched for every stream when asked.  A cancelled scan    *)
(* may have skipped units, and is never reported as Ok (scan.rs:150-157).   *)
OkIsWhole ==
  outcome = "Ok" =>
    /\ "Verified" \in data.passes =>
         \A p \in Pos : TryAt(data, "Verified", p, DataLen) # 0 =>
           \E s \in found : s.verified /\ s.offset <= p /\ p < s.end
    /\ data.matchParams => matched = found

(* The progress counters never run past their total, and a scan that ran    *)
(* to its end has counted every byte or stream of its last phase (the test  *)
(* progress_and_cancel, scan.rs:650-660).                                   *)
ProgressExact ==
  /\ done <= total
  /\ outcome = "Ok" => done = total

(* Every scan returns.                                                      *)
Terminates == <>(pc = "Returned")

(* A cancellation that comes before the scan has returned is reported, at   *)
(* whatever stage of whichever pass it falls.                               *)
CancelReported ==
  (cancelled /\ outcome = "None" /\ data.available) ~> (outcome = "Cancelled")

-----------------------------------------------------------------------------
(* The inductive invariant behind NoOverlap and OkIsWhole.                  *)

InHand == {busy[w] : w \in Workers} \ {None}

Disjoint(s, t) == s.end <= t.offset \/ t.end <= s.offset

(* A unit's window and every found stream are apart.                        *)
Apart(unit, s) == s.end <= unit.from \/ unit.window <= s.offset

Covered(p) == \E s \in found : s.verified /\ s.offset <= p /\ p < s.end

Accepted(p) == TryAt(data, "Verified", p, DataLen) # 0

InVerified == pc \in {"CheckFormats", "StartVerified", "CollectVerified", "MergeVerified"}

(* Work is out only while workers run, and merge state only while merging.  *)
AtRest ==
  /\ ~ (Collecting \/ pc = "Params") => todo = {} /\ Idle
  /\ ~ (Collecting \/ pc \in {"MergeVerified", "MergeUnverified"}) => hits = {}
  /\ pc # "MergeUnverified" => best = None
  /\ pc \in {"CheckFormats", "StartVerified", "CollectVerified"} => found = {}

(* Streams are not empty, and each pass reports its own kind.               *)
Kinds ==
  /\ \A s \in found \cup hits : s.offset < s.end
  /\ pc \in {"CollectVerified", "MergeVerified"} => \A h \in hits : h.verified
  /\ pc \in {"CollectUnverified", "MergeUnverified"} => \A h \in hits : ~ h.verified
  /\ InVerified \/ pc \in {"StartUnverified", "CollectUnverified"} => \A s \in found : s.verified

(* Units, and the hits made of them, keep to their gap.                     *)
Contained ==
  /\ Collecting => \A u \in todo \cup InHand : u.from < u.to /\ u.to <= u.window
  /\ pc = "CollectVerified" => \A u \in todo \cup InHand : u.window = DataLen
  /\ pc = "CollectUnverified" => \A u \in todo \cup InHand, s \in found : Apart(u, s)
  /\ pc \in {"CollectUnverified", "MergeUnverified"} =>
       \A h \in hits, s \in found : s.verified => Disjoint(s, h)
  /\ pc = "Params" => todo \cup InHand \subseteq found

(* The merges work from left to right.                                      *)
LeftToRight ==
  /\ pc = "MergeVerified" =>
       /\ \A s \in found : s.end <= lastEnd
       /\ lastEnd # 0 => \E s \in found : s.end = lastEnd
       /\ \A s \in found, h \in pending : s.offset <= h.offset
  /\ pc = "MergeUnverified" =>
       /\ \A s \in found, h \in pending : ~ s.verified => s.end <= h.offset
       /\ best # None =>
            /\ \A s \in found : ~ s.verified => s.end <= best.offset
            /\ \A h \in pending : best.offset <= h.offset

(* Unless the scan is cancelled, what it has yet to account for is in the   *)
(* hands of somebody.                                                       *)
Accounted ==
  /\ pc = "CollectVerified" /\ ~ cancelled =>
       \A p \in Pos :
         \/ \E u \in todo \cup InHand : u.from <= p /\ p < u.to
         \/ Accepted(p) => \E h \in hits : h.offset = p
  /\ pc = "MergeVerified" /\ ~ cancelled =>
       \A p \in Pos : Accepted(p) => Covered(p) \/ \E h \in pending : h.offset = p
  /\ ~ InVerified /\ "Verified" \in data.passes /\ (~ cancelled \/ outcome = "Ok") =>
       (data.available => \A p \in Pos : Accepted(p) => Covered(p))
  /\ pc = "Params" /\ ~ cancelled => found = matched \cup todo \cup InHand
  /\ pc = "Return" /\ ~ cancelled /\ data.matchParams => matched = found
  /\ outcome = "Ok" => pc = "Returned" /\ (data.matchParams => matched = found)
  /\ outcome # "None" => pc = "Returned"
  /\ pc # "CheckFormats" /\ outcome # "Unavailable" => data.available

(* Together with the types, these hold at every state and each step keeps   *)
(* them: what a pass leaves behind is all that the next one relies on.      *)
IInv ==
  /\ TypeOK /\ AtRest /\ Kinds /\ Contained /\ LeftToRight /\ NoOverlap /\ Accounted

-----------------------------------------------------------------------------
(* The inductive invariant behind ProgressExact.                            *)

(* What is left of a pass, in bytes, or of the search for settings, in      *)
(* streams.                                                                 *)
Left ==
  IF Collecting THEN {p \in Pos : \E u \in todo \cup InHand : u.from <= p /\ p < u.to}
                ELSE todo \cup InHand

(* Nothing is handed out twice, and no byte is in two units.                *)
HandedOutOnce ==
  /\ \A w, x \in Workers : w # x /\ busy[w] # None => busy[w] # busy[x]
  /\ todo \cap InHand = {}
  /\ Collecting => \A u, v \in todo \cup InHand : u # v => u.to <= v.from \/ v.to <= u.from

(* What was done and what is left make up the total, but for the units that *)
(* a cancellation lost.                                                     *)
ProgressInv ==
  /\ IsFiniteSet(found)
  /\ HandedOutOnce
  /\ done + Cardinality(Left) <= total
  /\ ~ cancelled \/ outcome = "Ok" => done + Cardinality(Left) = total

-----------------------------------------------------------------------------
(* The variant behind Terminates.                                           *)

StagesLeft ==
  [CheckFormats |-> 10, StartVerified |-> 9, CollectVerified |-> 8, MergeVerified |-> 7,
   StartUnverified |-> 6, CollectUnverified |-> 5, MergeUnverified |-> 4, StartParams |-> 3,
   Params |-> 2, Return |-> 1, Returned |-> 0]

(* A unit, or a stream to match, is taken and then finished; a hit is taken *)
(* and then kept; a cancellation comes once.                                *)
StepsLeft ==
  2 * Cardinality(todo) + Cardinality(InHand)
    + 2 * Cardinality(pending) + (IF best = None THEN 0 ELSE 1)
    + (IF cancelled THEN 0 ELSE 1)

(* Every step, of whichever thread, leaves less to do: the next stage is    *)
(* reached, or there are fewer steps to it.  No unit is handed out again,   *)
(* no hit is merged twice, and no stage is returned to.                     *)
RunsDown ==
  \/ StagesLeft[pc'] < StagesLeft[pc]
  \/ pc' = pc /\ StepsLeft' < StepsLeft

(* The guards of Caller: the disjuncts are those of its actions, in order.  *)
CallerCan ==
  \/ pc \in {"CheckFormats", "StartVerified", "StartUnverified"}
  \/ Collecting /\ todo = {} /\ Idle
  \/ pc = "MergeVerified" /\ (pending = {} \/ \E h \in pending : IsFirst(h))
  \/ pc = "MergeUnverified" /\ best = None /\ \E h \in pending : IsFirst(h)
  \/ pc = "MergeUnverified" /\ best # None /\ \E h \in pending : IsFirst(h) /\ h.offset < best.end
  \/ pc = "MergeUnverified" /\ best # None /\ \A h \in pending : h.offset >= best.end
  \/ pc = "MergeUnverified" /\ best = None /\ pending = {}
  \/ pc = "StartParams"
  \/ pc = "Params" /\ todo = {} /\ Idle
  \/ pc = "Return"

(* The guards of Worker(w): it takes an item, or finishes the one it has.   *)
WorkerCan(w) ==
  \/ (Collecting \/ pc = "Params") /\ busy[w] = None /\ todo # {}
  \/ Collecting /\ busy[w] # None
  \/ pc = "Params" /\ busy[w] # None

(* Until the scan has returned, the guard of some action of the calling     *)
(* thread or of a worker holds: no stage waits for a hit that is not first, *)
(* for an item that nobody holds, or for a worker that has nothing to do.   *)
NeverStuck == pc # "Returned" => CallerCan \/ \E w \in Workers : WorkerCan(w)
=============================================================================
