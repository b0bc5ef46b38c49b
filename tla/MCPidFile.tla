----------------------------- MODULE MCPidFile ------------------------------
(* PidFile on a small instance: three contenders are what its races need. *)
EXTENDS PidFile, TLC

CONSTANTS p1, p2, p3, i1, i2, i3, i4, w1, w2

MCProcs   == {p1, p2, p3}
MCInodes  == {i1, i2, i3, i4}
MCPollers == {w1, w2}

\* Processes are interchangeable, and so are inodes.
Symmetry == Permutations(MCProcs) \cup Permutations(MCInodes) \cup Permutations(MCPollers)
=============================================================================
