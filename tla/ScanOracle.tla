----------------------------- MODULE ScanOracle -----------------------------
(***************************************************************************)
(* The sequential scan the tests of scan.rs keep as the oracle of the      *)
(* parallel one (scan_sequential, scan_range).  It walks the offsets one   *)
(* by one, skips past a stream it accepts, and tries the offsets inside an *)
(* unverified one in case a later match is the real stream.                *)
(***************************************************************************)
EXTENDS ScanData

(* A match of the pass at offset p in the window that ends at e, if any.    *)
MatchAt(data, pass, p, e) ==
  [offset |-> p, end |-> TryAt(data, pass, p, e), verified |-> pass = "Verified"]

IsMatch(data, pass, p, e) == TryAt(data, pass, p, e) # 0

(* Every match in a range, as far as `follows` can see: it asks try_at anew *)
(* at each offset.                                                          *)
MatchesIn(data, pass, start, end) ==
  {MatchAt(data, pass, p, end) : p \in {q \in start .. end - 1 : IsMatch(data, pass, q, end)}}

(* The match kept among those that start inside an unverified one: the      *)
(* inner loop, at offset p with the best match so far at offset b.          *)
Look(data, start, end) ==
  LET matches == MatchesIn(data, "Unverified", start, end)
      look[p \in start .. end] ==
        [b \in start .. end - 1 |->
           LET best  == MatchAt(data, "Unverified", b, end)
               other == MatchAt(data, "Unverified", p, end)
           IN  IF p >= best.end THEN best
               ELSE IF /\ IsMatch(data, "Unverified", p, end)
                       /\ LaterMatchWins(matches, best, other)
                    THEN look[p + 1][p]
                    ELSE look[p + 1][b]]
  IN  look

BestMatch(data, start, end, first) == Look(data, start, end)[first + 1][first]

(* The outer loop: the streams found from an offset on.                     *)
Scan(data, pass, start, end) ==
  LET scan[pos \in start .. end] ==
        IF pos >= end THEN {}
        ELSE IF ~ IsMatch(data, pass, pos, end) THEN scan[pos + 1]
        ELSE LET best == IF pass = "Verified"
                         THEN MatchAt(data, pass, pos, end)
                         ELSE BestMatch(data, start, end, pos)
             IN  {best} \cup scan[best.end]
  IN  scan

(* scan_range: the streams found in start .. end-1.                         *)
ScanRange(data, pass, start, end) == Scan(data, pass, start, end)[start]

(* scan_sequential: the verified pass over everything, then the unverified  *)
(* one in each gap.                                                         *)
ScanSequential(data) ==
  LET verified == IF "Verified" \in data.passes THEN ScanRange(data, "Verified", 0, DataLen) ELSE {}
      raw == IF "Unverified" \in data.passes
             THEN UNION {ScanRange(data, "Unverified", g.start, g.end) : g \in Gaps(verified)}
             ELSE {}
  IN  verified \cup raw
=============================================================================
