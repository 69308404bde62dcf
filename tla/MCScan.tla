------------------------------- MODULE MCScan -------------------------------
(***************************************************************************)
(* Inputs for TLC, built from the stream that would be accepted at each    *)
(* offset if the window were long enough.                                  *)
(***************************************************************************)
EXTENDS ScanRefinement

(* Where the stream at each offset ends, or 0.                              *)
Ends == {f \in [Pos -> 0 .. DataLen] : \A p \in Pos : f[p] = 0 \/ f[p] > p}

Windowed(ends) ==
  [p \in Pos |-> [e \in 0 .. DataLen |-> IF p < e /\ ends[p] <= e THEN ends[p] ELSE 0]]

(* As try_at with two codecs: the first whose stream fits in the window.    *)
Windowed2(ends1, ends2) ==
  [p \in Pos |-> [e \in 0 .. DataLen |->
     IF p >= e THEN 0
     ELSE IF ends1[p] # 0 /\ ends1[p] <= e THEN ends1[p]
     ELSE IF ends2[p] <= e THEN ends2[p] ELSE 0]]

TryTables(verified, unverified) ==
  [k \in Pass |-> IF k = "Verified" THEN verified ELSE unverified]

NoMatch == [p \in Pos |-> 0]

Few(ends) == Cardinality({p \in Pos : ends[p] # 0}) <= 1

(* Every arrangement of matches of one pass beside at most one match of the *)
(* other.                                                                   *)
AllInputs ==
  {[try |-> TryTables(Windowed(v), Windowed(u)), passes |-> Pass,
    matchParams |-> FALSE, available |-> TRUE] :
     <<v, u>> \in (Ends \X {f \in Ends : Few(f)}) \cup ({f \in Ends : Few(f)} \X Ends)}

(* One input with overlaps of every kind, under every option.  Offset 1     *)
(* holds a verified stream, offset 2 one it hides; unverified matches cross *)
(* the boundaries, and offset 0 has a second choice when the first does not *)
(* fit in its gap.                                                          *)
SomeInputs ==
  {[try |-> TryTables(Windowed([NoMatch EXCEPT ![1] = 3, ![2] = 4]),
                      Windowed2([NoMatch EXCEPT ![0] = 2, ![1] = 4, ![3] = 4],
                                [NoMatch EXCEPT ![0] = 1])),
    passes |-> P, matchParams |-> m, available |-> a] :
     P \in SUBSET Pass, m \in BOOLEAN, a \in BOOLEAN}

(* "Find every stream in data that passes the filters" (scan.rs:124): a raw *)
(* match in a gap is found, or at least overlaps a stream that is.          *)
EveryStreamFound ==
  outcome = "Ok" /\ "Unverified" \in data.passes =>
    \A g \in Gaps({s \in found : s.verified}) : \A p \in g.start .. g.end - 1 :
      IsMatch(data, "Unverified", p, g.end) =>
        \E s \in found : ~ Disjoint(s, MatchAt(data, "Unverified", p, g.end))
=============================================================================
