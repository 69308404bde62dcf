------------------------------ MODULE ScanData ------------------------------
(***************************************************************************)
(* What the two scans of crates/zscan-core/src/scan.rs, the parallel one   *)
(* and its sequential oracle, have in common: the input, the streams they  *)
(* report, and the rule that settles overlapping unverified matches.       *)
(*                                                                         *)
(* Bytes are abstracted to what decoding them gives.  try_at depends only  *)
(* on the codecs of the pass, the offset and the end of the window         *)
(* (scan.rs:219-222), so an input is the table of its answers: the end of  *)
(* the stream accepted at an offset, or 0 when nothing is.                 *)
(***************************************************************************)
EXTENDS Integers

CONSTANTS
  DataLen,  (* Length of the scanned data, in bytes.                        *)
  Chunk,    (* Offsets in one unit of parallel work.                        *)
  Inputs    (* The inputs considered: tables of try_at and options.         *)

Pos == 0 .. DataLen - 1

Pass == {"Verified", "Unverified"}

(* The answers of try_at: a stream at p in a window that ends at e is not   *)
(* empty and ends within the window.                                        *)
TryTable ==
  {f \in [Pos -> [0 .. DataLen -> 0 .. DataLen]] :
     \A p \in Pos, e \in 0 .. DataLen : f[p][e] = 0 \/ (p < f[p][e] /\ f[p][e] <= e)}

(* verified/unverified: some codec of that kind is asked for; matchParams:  *)
(* ScanOptions::match_params; available: every format asked for is.         *)
Input ==
  [try : [Pass -> TryTable],
   passes : SUBSET Pass,
   matchParams : BOOLEAN,
   available : BOOLEAN]

ASSUME ScanAssumption ==
  /\ DataLen \in Nat
  /\ Chunk \in Nat \ {0}
  /\ Inputs \subseteq Input

Stream == [offset : Pos, end : 1 .. DataLen, verified : BOOLEAN]

TryAt(data, pass, pos, windowEnd) == data.try[pass][pos][windowEnd]

(* Does some match that starts in from .. end-1 end exactly at end?         *)
Follows(hits, from, end) ==
  \E h \in hits : from <= h.offset /\ h.offset < end /\ h.end = end

(* Of two overlapping unverified matches, whether the one that starts later *)
(* replaces the current one.                                                *)
LaterMatchWins(hits, current, later) ==
  later.end > current.end /\ ~ Follows(hits, current.end, later.end)

(* b is what the loop over the found streams knows when it reaches b: the   *)
(* end of the stream just before.                                           *)
IsPrevious(found, s, b) ==
  /\ s.offset < b
  /\ \A t \in found : t.offset < b => t.offset <= s.offset

(* The ranges between found streams, and after the last one.                *)
Gaps(found) ==
  LET Bounds == {s.offset : s \in found} \cup {DataLen}
  IN  {[start |-> 0, end |-> b] : b \in {c \in Bounds : \A s \in found : s.offset >= c}}
        \cup UNION {{[start |-> s.end, end |-> b] : b \in {c \in Bounds : IsPrevious(found, s, c)}}
                       : s \in found}

(* Units of work of a range: [from, to) are the offsets to try, window is   *)
(* the end streams must not pass.                                           *)
UnitAt(p, r) ==
  [from |-> p, to |-> IF p + Chunk < r.end THEN p + Chunk ELSE r.end, window |-> r.end]

UnitStarts(r) == {q \in r.start .. r.end - 1 : \E k \in 0 .. DataLen : q = r.start + k * Chunk}

Work(ranges) == UNION {{UnitAt(p, r) : p \in UnitStarts(r)} : r \in ranges}
=============================================================================
