--------------------------- MODULE TerminalWriter ---------------------------
(***************************************************************************)
(* writeWorkflowTerminal (packages/core/src/workflow/state-machine.ts),    *)
(* the only way a run is declared passed or cancelled, called at the same  *)
(* time by the engine that has finished the plan, by a second engine that  *)
(* executes the run by mistake, and by whoever cancels.  Each call reads   *)
(* the run, judges what it has read, and writes by compare-and-set; when   *)
(* it loses the race it starts over, three times at most.  Everybody else  *)
(* goes on writing open statuses, and failed, meanwhile.                   *)
(*                                                                         *)
(* Grain: one SQLite statement, or one transaction that updates and reads  *)
(* back.  Nothing else is atomic: the callers are in different processes.  *)
(***************************************************************************)
EXTENDS RunStatuses, Naturals

CONSTANT Writers     \* the calls, by any process

VARIABLES
    run,         \* workflow_instances.status
    call,        \* call[w]: program counter, arguments and locals of call w
    completions  \* run.passed events in the audit log

vars == <<run, call, completions>>

MaxAttempts == 3

Calls == [pc     : {"idle", "read", "cas", "last", "report", "done"},
          to     : Targets \cup {"none"},
          from   : Open \cup {"none"},
          left   : 0..MaxAttempts,
          answer : {"none", "unchanged", "terminal", "illegal", "written"}]

NotCalled == [pc |-> "idle", to |-> "none", from |-> "none", left |-> MaxAttempts,
              answer |-> "none"]

Init ==
    /\ run \in Open
    /\ call = [w \in Writers |-> NotCalled]
    /\ completions = 0

-----------------------------------------------------------------------------
Call(w, to) ==
    /\ call[w].pc = "idle"
    /\ call' = [call EXCEPT ![w].pc = "read", ![w].to = to]
    /\ UNCHANGED <<run, completions>>

\* The locals of a call are gone when it is over.
Over(w, pc, a) == [pc |-> pc, to |-> call[w].to, from |-> "none", left |-> MaxAttempts,
                   answer |-> a]
Answer(w, pc, a) == call' = [call EXCEPT ![w] = Over(w, pc, a)]

\* One pass of the loop: read the run and judge it.
Read(w) ==
    /\ call[w].pc = "read"
    /\ LET verdict == Verdict(run, call[w].to)
       IN IF verdict = "write"
          THEN call' = [call EXCEPT ![w].pc = "cas", ![w].from = run]
          ELSE Answer(w, "done", verdict)
    /\ UNCHANGED <<run, completions>>

\* casWorkflowInstanceStatus; its caller may then record that the run passed.
Unchanged_Assumed(from) == TRUE
Unchanged_Open(from)    == run \in Open
Unchanged(from)         == run = from

AfterLoss_Again(left) == left
AfterLoss(left)       == left - 1

Spent_Never(left) == FALSE
Spent(left)       == left = 0

CompareAndSet(w) ==
    /\ call[w].pc = "cas"
    /\ IF Unchanged(call[w].from)
       THEN /\ run' = call[w].to
            /\ Answer(w, IF call[w].to = "passed" THEN "report" ELSE "done", "written")
       ELSE /\ call' = [call EXCEPT ![w].from = "none", ![w].left = AfterLoss(@),
                                    ![w].pc = IF Spent(AfterLoss(call[w].left)) THEN "last" ELSE "read"]
            /\ UNCHANGED run
    /\ UNCHANGED completions

\* After the last attempt: a status that could be written is refused all the same.
LastRead(w) ==
    /\ call[w].pc = "last"
    /\ Answer(w, "done", IF Verdict(run, call[w].to) = "unchanged" THEN "unchanged" ELSE "terminal")
    /\ UNCHANGED <<run, completions>>

\* engine.ts: the call that wrote appends run.passed.
Report(w) ==
    /\ call[w].pc = "report"
    /\ Answer(w, "done", "written")
    /\ completions' = completions + 1
    /\ UNCHANGED run

\* The caller's process dies, or its execution loses the job and is fenced.
Stop(w) ==
    /\ call[w].pc \notin {"idle", "done"}
    /\ Answer(w, "done", call[w].answer)
    /\ UNCHANGED <<run, completions>>

\* Everybody else: updateWorkflowInstanceStatusIfActive by nodes, gates, decisions
\* and recovery; the compare-and-sets of a pause and of a resume do no more.
IfActive_Unguarded(to) == to
IfActive(to) == IF run \in Terminal THEN run ELSE to

OtherWriter(to) ==
    /\ run' = IfActive(to)
    /\ UNCHANGED <<call, completions>>

-----------------------------------------------------------------------------
Step(w) == Read(w) \/ CompareAndSet(w) \/ LastRead(w) \/ Report(w)

Next ==
    \/ \E w \in Writers : \/ \E to \in Targets : Call(w, to)
                          \/ Step(w)
                          \/ Stop(w)
    \/ \E to \in Open \cup {"failed"} : OtherWriter(to)

Spec == Init /\ [][Next]_vars

\* A call that is under way goes on.  Nobody has to call, to stop or to stand back.
FairSpec == Spec /\ \A w \in Writers : WF_vars(Step(w))

-----------------------------------------------------------------------------
(* Properties.                                                             *)

\* The variables have the shapes of the column, the locals and the log.
TypeOK ==
    /\ run \in Terminal \cup Open
    /\ call \in [Writers -> Calls]
    /\ completions \in Nat

Wrote(w) == call[w].answer = "written"

\* Gap A in state-machine.ts: of all the calls that race to end a run one at most is
\* told that it has, and what it was told stays true.
OneWriterWins ==
    \A w \in Writers : Wrote(w) => /\ run = call[w].to
                                   /\ \A v \in Writers : Wrote(v) => v = w

\* engine.ts: "Duplicate execution must not produce duplicate completion events",
\* and no event speaks of a run that did not pass.
CompletionOnce == completions <= 1 /\ (completions = 1 => run = "passed")

\* M2 in state-machine.ts: a caller that cancels never meets the generic error of
\* an illegal transition, so that a cancellation racing a completion converges.
CancelNeverIllegal ==
    \A w \in Writers : call[w].answer = "illegal" => call[w].to = "passed"

\* MUST-FIX1: a pause that has won the race is not overwritten by passed, however
\* long ago the call read that the run was running.
PausedNeverPasses == [][run = "paused" => run' # "passed"]_vars

\* Every call returns, however the others keep the status changing.
CallReturns == \A w \in Writers : call[w].pc = "read" ~> call[w].pc = "done"

-----------------------------------------------------------------------------
(* The abstract writer this implements.                                    *)

Atomic == INSTANCE AtomicTerminalWrite
          WITH target <- [w \in Writers |-> call[w].to],
               answer <- [w \in Writers |-> call[w].answer]

\* Each call takes effect at one instant, as JobControl's WriteTerminal has it.
ActsAtomically == Atomic!Spec
=============================================================================
