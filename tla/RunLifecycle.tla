---------------------------- MODULE RunLifecycle ----------------------------
(***************************************************************************)
(* What the job layer promises about one workflow run, with the owners,    *)
(* leases, processes and program counters of JobControl left out.          *)
(*                                                                         *)
(* A run is executed by a sequence of generations (its execution jobs).    *)
(* Only the newest generation is ever queued or held, a generation is      *)
(* opened only when the one before it is over, and a run that has reached  *)
(* a terminal status is never given another status nor another generation. *)
(* Besides the holder of the newest generation, only the user's controls   *)
(* (pause, cancel, a human decision, releasing a paused admission) change  *)
(* the run, and none of them can declare it passed or failed.              *)
(***************************************************************************)
EXTENDS Naturals

CONSTANT MaxJobs     \* bound on the generations of the run

\* Status of the run; the number of generations opened so far; whether the
\* newest of them is over ("free"), waiting ("queued") or claimed ("held").
VARIABLES run, generation, phase

vars == <<run, generation, phase>>

Terminal == {"passed", "failed", "cancelled"}
Open     == {"running", "paused", "blocked", "interrupted"}

TypeOK ==
    /\ run \in Terminal \cup Open
    /\ generation \in 0..MaxJobs
    /\ phase \in {"free", "queued", "held"}

\* A run admitted with its first job, or one that predates the job table.
Init ==
    \/ run = "running" /\ generation = 1 /\ phase = "queued"
    \/ run \in {"paused", "blocked", "interrupted"} /\ generation = 0 /\ phase = "free"

OpenGeneration ==
    /\ phase = "free" /\ run \in Open /\ generation < MaxJobs
    /\ generation' = generation + 1
    /\ phase' = "queued"
    /\ UNCHANGED run

\* A generation may still be claimed when its run has just been cancelled: the
\* cancellation then reaches the holder, which can no longer change the run.
Claim ==
    /\ phase = "queued"
    /\ phase' = "held"
    /\ UNCHANGED <<run, generation>>

\* The holder works: it may give an open run any status.
Work ==
    /\ phase = "held" /\ run \in Open
    /\ run' \in Terminal \cup Open
    /\ UNCHANGED <<generation, phase>>

\* The newest generation ends: it settles, or it is found abandoned and the
\* run, if still open, is marked interrupted.
End ==
    /\ phase \in {"queued", "held"}
    /\ phase' = "free"
    /\ \/ run' = run
       \/ phase = "held" /\ run \in Open /\ run' = "interrupted"
    /\ UNCHANGED generation

\* The user's controls: pause, cancel, approve or reject at a human gate, and
\* releasing the pause of an admission nobody has claimed yet.
Control ==
    /\ run \in Open
    /\ \/ run = "running" /\ run' = "paused"
       \/ run = "paused" /\ phase = "queued" /\ run' = "running"
       \/ run' \in {"cancelled", "running", "blocked"}
    /\ UNCHANGED <<generation, phase>>

Next == OpenGeneration \/ Claim \/ Work \/ End \/ Control

Spec == Init /\ [][Next]_vars
=============================================================================
