--------------------------- MODULE ScanRefinement ---------------------------
(***************************************************************************)
(* The parallel scan beside the sequential one: the same result, and the   *)
(* same promises to the caller.                                             *)
(***************************************************************************)
EXTENDS ParallelScan, ScanOracle

(* A scan that returns Ok found exactly the streams of the sequential scan, *)
(* for every arrangement of matches the input may hold (scan.rs:219-222).   *)
MatchesOracle == outcome = "Ok" => found = ScanSequential(data)

(* The streams and settings handed over, once the scan returns Ok.          *)
Returned == IF outcome = "Ok" THEN [found |-> found, matched |-> matched]
            ELSE [found |-> {}, matched |-> {}]

Contract == INSTANCE ScanContract WITH result <- Returned

(* The parallel scan does what the sequential one promises: the result does *)
(* not depend on the chunks, the workers or their order, and a cancellation *)
(* never lets a part of it through as the result (scan.rs:219-222).         *)
ImplementsContract == Contract!ContractSpec

-----------------------------------------------------------------------------
(* The inductive invariant behind MatchesOracle.                            *)

VerifiedFound == {s \in found : s.verified}

VerifiedMatches == MatchesIn(data, "Verified", 0, DataLen)

VerifiedScan == Scan(data, "Verified", 0, DataLen)

RawMatches(g) == MatchesIn(data, "Unverified", g.start, g.end)

RawScan(g) == Scan(data, "Unverified", g.start, g.end)

RawFound(g) == {s \in found : ~ s.verified /\ g.start <= s.offset /\ s.offset < g.end}

(* A pass collects matches the sequential scan sees too, and, unless it is  *)
(* cancelled, all of them.                                                  *)
Collected ==
  /\ pc \in {"CollectVerified", "MergeVerified"} => hits \subseteq VerifiedMatches
  /\ pc = "CollectUnverified" => todo \cup InHand \subseteq Work(Gaps(VerifiedFound))
  /\ pc \in {"CollectUnverified", "MergeUnverified"} =>
       hits \subseteq UNION {RawMatches(g) : g \in Gaps(VerifiedFound)}
  /\ pc \in {"CollectUnverified", "MergeUnverified"} /\ ~ cancelled =>
       \A g \in Gaps(VerifiedFound) : \A m \in RawMatches(g) :
         m \in hits \/ \E u \in todo \cup InHand : u.from <= m.offset /\ m.offset < u.to

(* The verified merge has done what the sequential scan does up to lastEnd. *)
VerifiedMerged ==
  /\ pc = "MergeVerified" /\ ~ cancelled =>
       /\ \A m \in VerifiedMatches : m.offset >= lastEnd => m \in pending
       /\ found \cup VerifiedScan[lastEnd] = VerifiedScan[0]
  /\ pc \in {"StartUnverified", "CollectUnverified", "MergeUnverified"} /\ ~ cancelled =>
       VerifiedFound = IF "Verified" \in data.passes THEN VerifiedScan[0] ELSE {}

(* In a gap, the unverified merge has done what the sequential scan does up *)
(* to p: up to there it has found the same, or it holds the same best match.*)
GapMerged(g) ==
  \E p \in g.start .. g.end :
    /\ \A m \in RawMatches(g) : m \in pending <=> m.offset >= p
    /\ best \notin RawMatches(g) => RawFound(g) \cup RawScan(g)[p] = RawScan(g)[g.start]
    /\ best \in RawMatches(g) =>
         LET kept == Look(data, g.start, g.end)[p][best.offset]
         IN  /\ best.offset < p /\ p <= best.end
             /\ RawFound(g) \cup {kept} \cup RawScan(g)[kept.end] = RawScan(g)[g.start]

UnverifiedMerged ==
  pc = "MergeUnverified" /\ ~ cancelled =>
    /\ found \ VerifiedFound \subseteq hits
    /\ \A g \in Gaps(VerifiedFound) : GapMerged(g)

(* From the merges on, the streams found are those of the sequential scan.  *)
Resolved ==
  /\ pc \in {"CollectVerified", "MergeVerified"} => "Verified" \in data.passes
  /\ pc \in {"CollectUnverified", "MergeUnverified"} => "Unverified" \in data.passes
  /\ pc \in {"StartParams", "Params", "Return"} /\ ~ cancelled => found = ScanSequential(data)
  /\ outcome = "Ok" => found = ScanSequential(data)
  /\ ~ data.matchParams => matched = {} /\ pc # "Params"

OracleInv == IInv /\ Collected /\ VerifiedMerged /\ UnverifiedMerged /\ Resolved
=============================================================================
