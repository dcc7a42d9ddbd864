----------------------------- MODULE RunStatuses -----------------------------
(* The statuses of a workflow run and how the terminal writer judges them   *)
(* (packages/core/src/workflow/state-machine.ts).                           *)

Terminal == {"passed", "failed", "cancelled"}
Open     == {"running", "paused", "blocked", "interrupted"}

\* LEGAL_WORKFLOW_TRANSITIONS, without pending, which no admitted run has.
Legal_PausedCannotCancel(from) ==
    CASE from = "running"                     -> (Open \cup Terminal) \ {"running"}
      [] from = "paused"                      -> {"running", "blocked"}
      [] from \in {"blocked", "interrupted"}  -> {"running", "failed", "cancelled"}
      [] OTHER                                -> {}
Legal(from) ==
    CASE from = "running"                     -> (Open \cup Terminal) \ {"running"}
      [] from = "paused"                      -> {"running", "blocked", "cancelled"}
      [] from \in {"blocked", "interrupted"}  -> {"running", "failed", "cancelled"}
      [] OTHER                                -> {}

\* The terminal statuses the engine, the executor and the session service write.
Targets == {"passed", "cancelled"}

\* What writeWorkflowTerminal makes of a status it has read: nothing to do, the run
\* was terminated otherwise, the transition is illegal, or the write may be tried.
Verdict(status, to) ==
    CASE status = to                         -> "unchanged"
      [] status # to /\ status \in Terminal  -> "terminal"
      [] status = "paused" /\ to = "passed"  -> "unchanged"
      [] OTHER -> IF to \in Legal(status) THEN "write" ELSE "illegal"
=============================================================================
