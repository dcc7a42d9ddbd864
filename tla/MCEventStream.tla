---------------------------- MODULE MCEventStream ----------------------------
(* An instance of EventStream for TLC.                                     *)
EXTENDS EventStream

\* Every second event is a large one.
Sizes == [s \in 1..MaxSeq |-> IF s % 2 = 0 THEN 2 ELSE 1]
=============================================================================
