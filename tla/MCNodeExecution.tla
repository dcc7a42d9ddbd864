--------------------------- MODULE MCNodeExecution ---------------------------
(* Instances of NodeExecution for TLC.                                     *)
EXTENDS NodeExecution

\* No executor differs from another before it starts.
Symmetry == Permutations(Executors)
=============================================================================
