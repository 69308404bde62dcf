---- MODULE MCWorkspace ----
EXTENDS Workspace, TLC
CONSTANTS c1, c2, f1, f2, p1, p2
Original == [s \in Parts |-> c1]
TwoVersions == {Original, [s \in Parts |-> IF s \in {0, 1} THEN c1 ELSE c2]}
AllOrOne == {{1}, {1, 2}}
Sizes == [c \in Contents |-> 1]
ClashingPair == {{f1, f2}}
Symmetry == Permutations(Procs)
====
