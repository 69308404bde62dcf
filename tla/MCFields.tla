------------------------------ MODULE MCFields ------------------------------
(***************************************************************************)
(* Instances of Fields for TLC: files of 14 bytes, of 4 values each, with   *)
(* two streams, and at most two bytes other than zero outside them.         *)
(***************************************************************************)
EXTENDS Fields

Entry(o, c, d) == [offset |-> o, compressed |-> c, decompressed |-> d]

(* A gap with room for 8 bytes, then a prefix of 3 bytes, and a tail.       *)
TwoStreams == {<<Entry(8, 1, 3), Entry(12, 1, 5)>>, <<Entry(8, 2, 2), Entry(12, 1, 4)>>}

SparseFiles ==
  {[data |-> [k \in 1 .. 14 |-> IF k = i THEN a ELSE IF k = j THEN b ELSE 0], streams |-> s] :
     i \in 1 .. 14, j \in 1 .. 14, a \in 1 .. 3, b \in 0 .. 3, s \in TwoStreams}
=============================================================================
