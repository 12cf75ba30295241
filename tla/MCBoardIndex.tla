--------------------------- MODULE MCBoardIndex ---------------------------
(* Constants of the runs of BoardIndex. *)
EXTENDS BoardIndex, TLC

CONSTANTS host, sidecar, t1, t2, t3

TwoInHost == [t \in Tasks |-> IF t = t3 THEN sidecar ELSE host]
Symmetry == Permutations(Posts)
============================================================================
