---------------------------- MODULE MCJobControl ----------------------------
(* Instances of JobControl for TLC.                                        *)
EXTENDS JobControl

(***************************************************************************)
(* Two states that differ only in the following have the same successors   *)
(* up to the same difference, and satisfy the same properties, so one of   *)
(* them is enough.                                                         *)
(***************************************************************************)

\* An execution that has lost its job differs from another one only in whether it
\* can still spawn a process: it never writes again and never owns the job again,
\* so its flags, its status and the rest of its program counter are forgotten.
Fencing(j) == exec[j].pc \notin {"idle", "exit"} /\ ~Owns(j)
Forgotten(e) == [NotStarted EXCEPT !.pc = IF e.pc = "node" THEN "node" ELSE "settle", !.at = e.at]

\* How a generation ended is forgotten once it has a successor.
Superseded(j) == j < Latest /\ ~Active(j)

\* A confirmation is forgotten once nothing it speaks of can have a process.
Relevant(k) == \E i \in live \cup {j \in Jobs : exec[j].pc \notin {"idle", "exit"}} : i <= k

\* A mark of a pause and its flag are forgotten once the execution looks at them no more:
\* it is past its last boundary, or will stand down there for another reason.
PastPausing(j) == \/ exec[j].pc \in {"read", "return", "throw", "settle", "exit"}
                  \/ exec[j].signal # "none"
MayPause(j) == Active(j) /\ ~Cancelling(j) /\ ~PastPausing(j)
MayMark     == pausing /\ ((\E j \in Jobs : MayPause(j)) \/ (njobs < MaxJobs /\ run \in OpenRun))

Row(j) == IF Superseded(j) THEN [job[j] EXCEPT !.status = "done"]
          ELSE IF PastPausing(j) /\ job[j].status = "paused" THEN [job[j] EXCEPT !.status = "running"]
          ELSE job[j]
Place(j) == IF Fencing(j) THEN Forgotten(exec[j])
            ELSE IF PastPausing(j) THEN [exec[j] EXCEPT !.flag = FALSE]
            ELSE exec[j]

View == <<run, session, pending, remaining, admitted, njobs, mode, poll, live, MayMark,
          {k \in confirmed : Relevant(k)},
          [j \in Jobs |-> Row(j)], [j \in Jobs |-> Place(j)]>>
=============================================================================
