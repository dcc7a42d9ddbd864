----------------------------- MODULE JobControl -----------------------------
(***************************************************************************)
(* The durable job runner of Tekon (packages/core/src/session) around one  *)
(* workflow run.  Several processes (a Web server, CLI invocations), each  *)
(* with a job runner, share one SQLite database.  A run is executed by     *)
(* jobs; each job is one generation of the execution.  A runner claims a   *)
(* queued job, keeps its lease alive with a heartbeat while the executor   *)
(* drives the workflow engine, and settles the job.  Meanwhile users pause,*)
(* cancel, approve and resume from any process, leases expire, processes   *)
(* are stopped in an orderly way or die, and the agent processes they had  *)
(* spawned may outlive them.                                               *)
(*                                                                         *)
(* Grain: an action is one SQLite transaction, or one statement, together  *)
(* with the synchronous process-local effects that follow it.  Reads of    *)
(* the database that a later write relies on are actions of their own;     *)
(* reads of process-local flags that only ever go up are merged with the   *)
(* write that follows, where a flag raised in between can as well be       *)
(* raised after.  The nodes of the plan are abstracted to how many remain, *)
(* an agent or a gate to what its node can do to the run.                  *)
(***************************************************************************)
EXTENDS Naturals, FiniteSets

CONSTANTS Workers,     \* the processes that run a job runner
          Mortal,      \* those that may be stopped or die
          NoWorker,    \* null in the column jobs.owner; also a pure client
          HumanGates,  \* whether the plan has human gates
          Origins,     \* how the run may have come about
          MaxJobs,     \* bound on the generations of the run
          MaxNodes     \* the nodes of the run's plan

ASSUME WorkersAssumption == Mortal \subseteq Workers /\ NoWorker \notin Workers
ASSUME HumanGatesAssumption == HumanGates \in BOOLEAN
ASSUME OriginsAssumption == Origins \subseteq {"admission", "paused", "blocked", "interrupted"}
ASSUME BoundsAssumption  == MaxJobs \in Nat \ {0} /\ MaxNodes \in Nat \ {0}

VARIABLES
    run,        \* workflow_instances.status
    session,    \* sessions.status of the run's canonical session
    pending,    \* a human decision of the run is pending
    remaining,  \* nodes of the plan that have not passed yet
    admitted,   \* job 1 is the job of the run's admission
    njobs,      \* execution jobs created so far; they are numbered by createdAt
    job,        \* job[j]: the row of job j
    confirmed,  \* previousJobIds of the run.resume-exit-confirmed audit events
    mode,       \* mode[w]: life of process w
    poll,       \* poll[w]: where the poll task of runner w is
    exec,       \* exec[j]: the execution of job j in the process that claimed it
    live,       \* jobs with a managed process that has not closed; 0 stands for
                \* an execution older than the job table
    pausing     \* a request to pause has made or found the run paused; of any number of
                \* such requests some may still have to mark the job

rows  == <<run, session, pending, remaining, admitted, njobs, job, confirmed>>
local == <<mode, poll, exec, live, pausing>>
vars  == <<rows, local>>

Jobs == 1..MaxJobs

-----------------------------------------------------------------------------
(* Statuses and rows.                                                      *)

TerminalRun == {"passed", "failed", "cancelled"}
OpenRun     == {"running", "paused", "blocked", "interrupted"}
RunStatus   == TerminalRun \cup OpenRun

SessionStatus == {"active", "awaiting-input", "awaiting-approval", "idle",
                  "done", "failed", "cancelled"}

HeldStatus    == {"running", "paused", "cancelling"}
ActiveStatus  == {"queued"} \cup HeldStatus
SettledStatus == {"done", "failed", "cancelled", "interrupted"}

Evidence   == {"null", "never-started", "managed-handles-closed"}
Lease      == {"null", "fresh", "expired"}

\* abort_state is not modelled: it is "requested" or "propagated" exactly while the
\* status is "cancelling".  Nor are the owner and the lease of a settled row, which
\* no statement reads: settling clears them here.
JobRow == [status   : {"absent"} \cup ActiveStatus \cup SettledStatus,
           owner    : Workers \cup {NoWorker},
           evidence : Evidence,
           lease    : Lease]

NoRow     == [status |-> "absent", owner |-> NoWorker, lease |-> "null",
              evidence |-> "null"]
QueuedRow == [status |-> "queued", owner |-> NoWorker, lease |-> "null",
              evidence |-> "never-started"]

Active(j)     == job[j].status \in ActiveStatus
Held(j)       == job[j].status \in HeldStatus
ActiveJobs    == {j \in Jobs : Active(j)}
Cancelling(j) == job[j].status = "cancelling"

\* updateWorkflowInstanceStatusIfActive: a terminal run keeps its status.
IfActive_Unguarded(to) == to
IfActive(to) == IF run \in TerminalRun THEN run ELSE to

\* casWorkflowInstanceStatus
Cas(from, to) == IF run = from THEN to ELSE run

-----------------------------------------------------------------------------
(* The execution of a job: the program counter in the executor and engine, *)
(* the process it is in, whether its token and controller are still        *)
(* installed (held), the reason its AbortSignal carries, the pause flag,   *)
(* and the status it carries: of the run, read or about to be reported, or *)
(* of the job, about to be settled.                                        *)

PC == {"idle", "start", "resume", "boundary", "node", "read", "checkpoint",
       "return", "throw", "settle", "exit"}

Carried == RunStatus \cup SettledStatus \cup {"none", "terminal", "error"}

Execution == [pc     : PC,
              at     : Workers \cup {NoWorker},
              held   : BOOLEAN,
              signal : {"none", "cancel", "shutdown", "lost"},
              flag   : BOOLEAN,
              val    : Carried]

NotStarted == [pc |-> "idle", at |-> NoWorker, held |-> FALSE, signal |-> "none",
               flag |-> FALSE, val |-> "none"]
Gone       == [NotStarted EXCEPT !.pc = "exit"]
Started(w) == [NotStarted EXCEPT !.pc = "start", !.at = w, !.held = TRUE]

Alive(w) == mode[w] # "down"

\* withOwnedWrite: the fence every write of an execution goes through.
Owns_Unfenced(j) == TRUE
Owns(j) == Held(j) /\ job[j].owner = exec[j].at

Goto(j, pc, val)  == exec' = [exec EXCEPT ![j].pc = pc, ![j].val = val]
At(j, pc)         == exec[j].pc = pc /\ Alive(exec[j].at)

\* AbortController.abort: only the first reason counts.
Signalled(e, s) == IF e.held /\ e.signal = "none" THEN [e EXCEPT !.signal = s] ELSE e

\* The local generation is fenced: aborted, its token, controller and flag dropped.
Lost(e) == IF e.pc = "exit" THEN Gone
           ELSE [Signalled(e, "lost") EXCEPT !.held = FALSE, !.flag = FALSE]

-----------------------------------------------------------------------------
(* Shared transactions.                                                    *)

\* The latest execution job, 0 when the run has none.
Latest == njobs

\* settleOwnedJob: a requested cancellation wins over what the executor reports.
SettledAs_Reported(j, desired) == desired
SettledAs(j, desired) == IF Cancelling(j) THEN "cancelled" ELSE desired

\* What settle can prove about the exit of the managed processes of j.
ExitEvidence_Assumed(j) == "managed-handles-closed"
ExitEvidence(j) == IF j \in live THEN "null" ELSE "managed-handles-closed"

\* interruptJobTxn on an active, claimed job; the run and the session follow
\* only when no newer generation exists.
OnlyLatest(j) == j = Latest

InterruptJob(S) ==
    /\ job' = [j \in Jobs |->
                 IF j \notin S THEN job[j]
                 ELSE [job[j] EXCEPT
                        !.status = IF Cancelling(j) \/ run = "cancelled"
                                   THEN "cancelled" ELSE "interrupted",
                        !.owner = NoWorker, !.lease = "null", !.evidence = "null"]]
    /\ IF \E j \in S : OnlyLatest(j)
       THEN /\ run' = IfActive("interrupted")
            /\ session' = IF run \in TerminalRun THEN session ELSE "awaiting-input"
       ELSE UNCHANGED <<run, session>>

\* DurableJobRunner.requestCancel issued in process c: an unclaimed job is
\* cancelled at once, a claimed one is marked for its owner, and told directly
\* when c is the owner.
CancelStates_Any    == ActiveStatus \cup SettledStatus
CancelStates        == ActiveStatus
Undelivered(j)      == job[j].status = "queued"

RequestCancel(j, c) ==
    /\ job[j].status \in CancelStates
    /\ IF Undelivered(j)
       THEN /\ job' = [job EXCEPT ![j].status = "cancelled"]
            /\ UNCHANGED exec
       ELSE /\ job' = [job EXCEPT ![j].status = "cancelling"]
            /\ exec' = IF job[j].owner = c
                       THEN [exec EXCEPT ![j] = Signalled(@, "cancel")] ELSE exec

\* reconcileCancelledRunTxn
ReconcileCancelledRun_OnlyActive ==
    session' = IF run = "cancelled" /\ session = "active" THEN "cancelled" ELSE session
ReconcileCancelledRun ==
    session' = IF run = "cancelled" THEN "cancelled" ELSE session

\* Where a runner's poll is, and the job it has selected to claim.
PollPlace == [at : {"idle", "reconcile", "claim", "take"}, target : 0..MaxJobs]
PollIdle  == [at |-> "idle", target |-> 0]
Taking(j) == [at |-> "take", target |-> j]

-----------------------------------------------------------------------------
(* Initial states: a run just admitted, whose session and first job the    *)
(* admission transaction created, or a run left by a version without jobs. *)

Init ==
    /\ session = "active" /\ pending = FALSE /\ remaining = MaxNodes
    /\ confirmed = {}
    /\ exec = [j \in Jobs |-> NotStarted]
    /\ mode = [w \in Workers |-> "up"]
    /\ poll = [w \in Workers |-> PollIdle]
    /\ pausing = FALSE
    /\ \/ /\ "admission" \in Origins
          /\ admitted = TRUE /\ njobs = 1 /\ run = "running" /\ live = {}
          /\ job = [j \in Jobs |-> IF j = 1 THEN QueuedRow ELSE NoRow]
       \/ /\ admitted = FALSE /\ njobs = 0
          /\ run \in Origins \ {"admission"}
          /\ live = IF run = "interrupted" THEN {0} ELSE {}
          /\ job = [j \in Jobs |-> NoRow]

-----------------------------------------------------------------------------
(* Clients: session-service.ts, called from any Web or CLI process.        *)

\* requestPause, its first write, which changes nothing when the run is paused already.
\* The CLI, when it sees the run paused that it waits for, makes the second write only.
PauseRun ==
    /\ run \in {"running", "paused"}
    /\ run' = Cas("running", "paused")
    /\ pausing' = TRUE
    /\ UNCHANGED <<session, pending, remaining, admitted, njobs, job, confirmed,
                   mode, poll, exec, live>>

\* Its second, whatever has become of the run since: the active job is marked paused
\* while it is claimed and not being cancelled; the flag is raised at once when the
\* caller's process owns the job.
PauseStates == {"running", "paused"}

PauseJob(j, here) ==
    /\ pausing /\ job[j].status \in PauseStates
    /\ job' = [job EXCEPT ![j].status = "paused"]
    /\ exec' = [exec EXCEPT ![j].flag = @ \/ (here /\ exec[j].held)]
    /\ UNCHANGED <<run, session, pending, remaining, admitted, njobs, confirmed,
                   mode, poll, live, pausing>>

\* requestCancel, its first write (writeWorkflowTerminal): the durable intent.
CancelRun ==
    /\ run \in OpenRun
    /\ run' = "cancelled"
    /\ UNCHANGED <<session, pending, remaining, admitted, njobs, job, confirmed, local>>

\* A process c cancels the active job: the second step of requestCancel, or a
\* CLI's SIGINT, which cancels the job it waits for and not the run.
CancelJob(c) ==
    /\ \E j \in Jobs : RequestCancel(j, c)
    /\ UNCHANGED <<run, session, pending, remaining, admitted, njobs, confirmed,
                   mode, poll, live, pausing>>

\* The third step of requestCancel.
CancelObserved ==
    /\ ReconcileCancelledRun
    /\ UNCHANGED <<run, pending, remaining, admitted, njobs, job, confirmed, local>>

\* A human decision: the CLI's approval sets the run running, a rejection blocks it
\* (from the Web only if it is still paused), the Web's approval leaves it alone.
DecideGate(to) ==
    /\ pending /\ run \in OpenRun
    /\ pending' = FALSE
    /\ run' = IfActive(to)
    /\ UNCHANGED <<session, remaining, admitted, njobs, job, confirmed, local>>

\* resumeRun: enqueueIfNoActiveByRunId, one transaction.  previous is the
\* confirmation's previousJobId, if the caller names one.
NoActiveJob_Unchecked == TRUE
NoActiveJob == ActiveJobs = {}

StaleConfirmation(previous) == previous # Latest

\* hasExitEvidence of the latest job, or a legacy run that did not stop by itself.
ExitKnown_Assumed == TRUE
ExitKnown == IF Latest = 0 THEN run # "interrupted" ELSE job[Latest].evidence # "null"

Enqueue ==
    /\ NoActiveJob /\ run \in OpenRun /\ njobs < MaxJobs
    /\ njobs' = njobs + 1
    /\ job' = [job EXCEPT ![njobs + 1] = QueuedRow]
    /\ UNCHANGED <<run, session, pending, remaining, admitted, local>>

Resume ==
    /\ ExitKnown
    /\ Enqueue
    /\ UNCHANGED confirmed

ResumeConfirmed(previous) ==
    /\ ~StaleConfirmation(previous)
    /\ Enqueue
    /\ confirmed' = confirmed \cup {previous}

\* A paused admission nobody has claimed is released instead of joined by a
\* second job.
ReuseAdmission ==
    /\ run \in OpenRun
    /\ admitted /\ Latest = 1 /\ job[1].status = "queued"
    /\ run' = Cas("paused", "running")
    /\ UNCHANGED <<session, pending, remaining, admitted, njobs, job, confirmed, local>>

-----------------------------------------------------------------------------
(* The poll of runner w: one task, never two at a time.  After each part   *)
(* the runner looks at `stopped` again, except before the claim.           *)

Polls(w, here, next) ==
    /\ poll[w].at = here /\ Alive(w)
    /\ poll' = [poll EXCEPT ![w].at = IF mode[w] = "up" THEN next ELSE "idle"]
    /\ UNCHANGED <<mode, live, pausing>>

\* syncOwnedControls relays to the executions held here what their rows say; then
\* recoverStaleJobs interrupts the jobs of any owner whose lease has expired.  A
\* lease that expires between the two may as well expire before the next poll.
\* There is nothing to reconcile unless the run is cancelled.
Relayed_OnlyPause(j) ==
    IF ~Owns(j) THEN Lost(exec[j])
    ELSE [exec[j] EXCEPT !.flag = @ \/ job[j].status = "paused"]
Relayed(j) ==
    IF ~Owns(j) THEN Lost(exec[j])
    ELSE LET e == [exec[j] EXCEPT !.flag = @ \/ job[j].status = "paused"]
         IN IF Cancelling(j) THEN Signalled(e, "cancel") ELSE e

Stale_RunningOnly(j) == job[j].status = "running" /\ job[j].lease = "expired"
Stale(j) == Held(j) /\ job[j].lease = "expired"

SyncAndRecover(w) ==
    /\ mode[w] = "up"
    /\ Polls(w, "idle", IF run = "cancelled" THEN "reconcile" ELSE "claim")
    /\ exec' = [j \in Jobs |-> IF exec[j].at = w /\ exec[j].held THEN Relayed(j) ELSE exec[j]]
    /\ InterruptJob({j \in Jobs : Stale(j)})
    /\ UNCHANGED <<pending, remaining, admitted, njobs, confirmed>>

\* reconcileCancelledRuns: deliver the cancellation to the active job, then repair
\* the session (a second transaction, which a client's may stand for too).
ReconcileCancelledRuns(w) ==
    /\ Polls(w, "reconcile", "claim")
    /\ IF run = "cancelled" /\ ActiveJobs # {}
       THEN \E j \in ActiveJobs : RequestCancel(j, w)
       ELSE UNCHANGED <<job, exec>>
    /\ ReconcileCancelledRun
    /\ UNCHANGED <<run, pending, remaining, admitted, njobs, confirmed>>

\* claimNext is two statements, and another process may write between them: a
\* queued job of a run that is not over is selected, then it is claimed if it is
\* still queued, whatever has become of its run, and spawnJob starts it.
Claimable_RunningOnly(j) == job[j].status = "queued" /\ run = "running"
Claimable(j) == job[j].status = "queued" /\ run \notin TerminalRun

StillQueued_Unchecked(j) == TRUE
StillQueued(j) == job[j].status = "queued"

SelectJob(w) ==
    /\ poll[w].at = "claim" /\ Alive(w)
    /\ \/ \E j \in Jobs : Claimable(j) /\ poll' = [poll EXCEPT ![w] = Taking(j)]
       \/ (\A j \in Jobs : ~Claimable(j)) /\ poll' = [poll EXCEPT ![w] = PollIdle]
    /\ UNCHANGED <<rows, mode, exec, live, pausing>>

ClaimJob(w) ==
    /\ Alive(w)
    /\ \E j \in Jobs :
          /\ poll[w] = Taking(j)
          /\ IF StillQueued(j)
             THEN /\ job' = [job EXCEPT ![j].status = "running", ![j].owner = w,
                                        ![j].lease = "fresh", ![j].evidence = "null"]
                  /\ exec' = [exec EXCEPT ![j] = Started(w)]
             ELSE UNCHANGED <<job, exec>>
    /\ poll' = [poll EXCEPT ![w] = PollIdle]
    /\ UNCHANGED <<run, session, pending, remaining, admitted, njobs, confirmed,
                   mode, live, pausing>>

-----------------------------------------------------------------------------
(* The executor of job j: workflow-job-executor.ts over engine.ts and      *)
(* node-executor.ts.                                                       *)

Writing == {"start", "resume", "boundary", "node", "checkpoint", "return", "throw"}

ExecutorOnly == UNCHANGED <<admitted, njobs, confirmed, mode, poll, live, pausing>>

\* A write of an execution that no longer owns its job throws JOB_FENCING and so
\* does every write of the handlers it meets on the way out; an execution that
\* knows it (signal "lost") writes nothing.  Either way the executor reports
\* "failed", and settle finds nothing to settle.
Fenced(j) ==
    /\ exec[j].pc \in Writing /\ Alive(exec[j].at) /\ ~Owns(j)
    /\ Goto(j, "settle", "failed")
    /\ ExecutorOnly /\ UNCHANGED <<run, session, pending, remaining, job>>

Writes(j, pc) == At(j, pc) /\ Owns(j)

\* The session becomes active and a turn starts.  The admission's job does not
\* start a run that was paused while it was queued; a resume does not start a run
\* that has become terminal.
BeginTurn(j) ==
    /\ Writes(j, "start")
    /\ session' = "active"
    /\ IF admitted /\ j = 1
       THEN IF run = "paused" THEN Goto(j, "return", "paused") ELSE Goto(j, "boundary", "none")
       ELSE IF run \in TerminalRun THEN Goto(j, "throw", "terminal") ELSE Goto(j, "resume", run)
    /\ ExecutorOnly /\ UNCHANGED <<run, pending, remaining, job>>

\* Building the engine or validating the plan fails.
BeginTurnFails(j) ==
    /\ Writes(j, "start")
    /\ session' = "active"
    /\ Goto(j, "throw", "error")
    /\ ExecutorOnly /\ UNCHANGED <<run, pending, remaining, job>>

\* engine.resumeRun: the status read before goes to running, unless it changed;
\* then only a terminal status stops the resume.
ResumeRun(j) ==
    /\ Writes(j, "resume")
    /\ run' = Cas(exec[j].val, "running")
    /\ IF run \in TerminalRun THEN Goto(j, "throw", "terminal") ELSE Goto(j, "boundary", "none")
    /\ ExecutorOnly /\ UNCHANGED <<session, pending, remaining, job>>

\* executePlan between two nodes looks at the signal, the pause flag and the plan.
NodesLeft_OneMore == remaining >= 0
NodesLeft == remaining > 0

Undisturbed(j) == exec[j].signal = "none" /\ ~exec[j].flag

\* writeWorkflowTerminal(to) for an execution that goes on at pc with the status
\* it has read, or throws.
WriteTerminal(j, to, pc) ==
    CASE run = to ->
           UNCHANGED run /\ Goto(j, pc, to)
      [] run # to /\ run \in TerminalRun ->
           UNCHANGED run /\ Goto(j, "throw", "terminal")
      [] run = "paused" /\ to = "passed" ->
           UNCHANGED run /\ Goto(j, pc, "paused")
      [] run \in {"blocked", "interrupted"} /\ to = "passed" ->
           UNCHANGED run /\ Goto(j, "throw", "error")
      [] OTHER ->
           run' = to /\ Goto(j, pc, to)

\* A shutdown leaves the run interrupted, a cancellation cancels it.
StandDown(j) ==
    /\ Writes(j, "boundary") /\ exec[j].signal # "none"
    /\ IF exec[j].signal = "cancel"
       THEN WriteTerminal(j, "cancelled", "read")
       ELSE run' = IfActive("interrupted") /\ Goto(j, "read", "none")
    /\ ExecutorOnly /\ UNCHANGED <<session, pending, remaining, job>>

\* settlePaused
SettlePaused(j) ==
    /\ Writes(j, "boundary") /\ exec[j].signal = "none" /\ exec[j].flag
    /\ run' = Cas("running", "paused")
    /\ Goto(j, "return", run')
    /\ ExecutorOnly /\ UNCHANGED <<session, pending, remaining, job>>

\* executeNode up to the start of its agent or its gates.
EnterNode(j) ==
    /\ Writes(j, "boundary") /\ Undisturbed(j) /\ NodesLeft
    /\ run' = IfActive("running")
    /\ Goto(j, "node", "none")
    /\ ExecutorOnly /\ UNCHANGED <<session, pending, remaining, job>>

\* A missing dependency blocks the run, the traces of a crashed attempt interrupt it.
RefuseNode(j) ==
    /\ Writes(j, "boundary") /\ Undisturbed(j) /\ NodesLeft
    /\ \E to \in {"blocked", "interrupted"} : run' = IfActive(to)
    /\ Goto(j, "read", "none")
    /\ ExecutorOnly /\ UNCHANGED <<session, pending, remaining, job>>

NodePasses(j) ==
    /\ Writes(j, "node") /\ exec[j].signal = "none"
    /\ remaining' = remaining - 1
    /\ Goto(j, "checkpoint", "none")
    /\ ExecutorOnly /\ UNCHANGED <<run, session, pending, job>>

\* A human gate pauses the run; an exhausted gate pauses, fails or blocks it;
\* a failing agent, gate or commit interrupts it.
NodeStops(j) ==
    /\ Writes(j, "node") /\ exec[j].signal = "none"
    /\ \/ /\ HumanGates
          /\ run' = IfActive("paused")
          /\ pending' = (pending \/ run \in OpenRun)
       \/ /\ \E to \in {"paused", "failed", "blocked", "interrupted"} : run' = IfActive(to)
          /\ UNCHANGED pending
    /\ Goto(j, "read", "none")
    /\ ExecutorOnly /\ UNCHANGED <<session, remaining, job>>

\* The signal reached the agent or is seen between two gates.
NodeAborts(j) ==
    /\ Writes(j, "node") /\ exec[j].signal # "none"
    /\ IF exec[j].signal = "cancel"
       THEN WriteTerminal(j, "cancelled", "read")
       ELSE run' = IfActive("interrupted") /\ Goto(j, "read", "none")
    /\ ExecutorOnly /\ UNCHANGED <<session, pending, remaining, job>>

\* mustGetWorkflow
ReadBack(j) ==
    /\ At(j, "read")
    /\ Goto(j, "return", run)
    /\ ExecutorOnly /\ UNCHANGED <<run, session, pending, remaining, job>>

\* onNodeCheckpoint: fenced by token, owner and status.
Checkpoint(j) ==
    /\ Writes(j, "checkpoint")
    /\ IF exec[j].held /\ job[j].status \in {"running", "paused"}
       THEN Goto(j, "boundary", "none") ELSE Goto(j, "throw", "error")
    /\ ExecutorOnly /\ UNCHANGED <<run, session, pending, remaining, job>>

\* All nodes have passed.
Finish(j) ==
    /\ Writes(j, "boundary") /\ Undisturbed(j) /\ ~NodesLeft
    /\ WriteTerminal(j, "passed", "return")
    /\ ExecutorOnly /\ UNCHANGED <<session, pending, remaining, job>>

\* Other writers won all three attempts of writeWorkflowTerminal.
TerminalWriteExhausted(j) ==
    /\ \/ Writes(j, "boundary") /\ Undisturbed(j) /\ ~NodesLeft
       \/ Writes(j, "boundary") /\ exec[j].signal = "cancel"
       \/ Writes(j, "node") /\ exec[j].signal = "cancel"
    /\ Goto(j, "throw", "terminal")
    /\ ExecutorOnly /\ UNCHANGED <<run, session, pending, remaining, job>>

\* settleByWorkflowStatus: the session and the job status that report a run.
SessionFor_ByDefaultDone(status) ==
    CASE status \in {"paused", "blocked", "interrupted"} -> "awaiting-input"
      [] status = "cancelled" -> "cancelled"
      [] OTHER                -> "done"
SessionFor(status) ==
    CASE status = "passed"    -> "done"
      [] status = "paused"    -> IF pending THEN "awaiting-approval" ELSE "idle"
      [] status \in {"blocked", "interrupted"} -> "awaiting-input"
      [] status = "cancelled" -> "cancelled"
      [] OTHER                -> "failed"

JobFor(status) ==
    CASE status \in {"passed", "paused", "blocked"}   -> "done"
      [] status \in {"interrupted", "cancelled"}      -> status
      [] OTHER                                        -> "failed"

\* What the signal makes of the status the engine returned.
Reported(j, status) ==
    CASE exec[j].signal = "shutdown" -> "interrupted"
      [] exec[j].signal = "cancel"   -> "cancelled"
      [] OTHER                       -> status

Conclude(j) ==
    /\ Writes(j, "return")
    /\ LET status == Reported(j, exec[j].val)
       IN session' = SessionFor(status) /\ Goto(j, "settle", JobFor(status))
    /\ ExecutorOnly /\ UNCHANGED <<run, pending, remaining, job>>

\* The handler of the executor's errors.  A cancellation first tries to cancel
\* the run; a run terminated by someone else is not a failure and leaves the
\* session alone.
ConcludeError(j) ==
    /\ Writes(j, "throw")
    /\ CASE exec[j].signal = "shutdown" ->
              /\ session' = "awaiting-input" /\ UNCHANGED run
              /\ Goto(j, "settle", "interrupted")
         [] exec[j].signal = "cancel" ->
              /\ run' = IfActive("cancelled") /\ UNCHANGED session
              /\ Goto(j, "return", "cancelled")
         [] exec[j].signal \notin {"shutdown", "cancel"} /\ exec[j].val = "terminal" ->
              /\ UNCHANGED <<run, session>>
              /\ Goto(j, "settle", "cancelled")
         [] OTHER ->
              /\ session' = "failed" /\ UNCHANGED run
              /\ Goto(j, "settle", "failed")
    /\ ExecutorOnly /\ UNCHANGED <<pending, remaining, job>>

\* settle: an execution whose token is gone settles nothing.
Settle(j) ==
    /\ At(j, "settle")
    /\ LET desired == IF exec[j].signal = "cancel" THEN "cancelled" ELSE exec[j].val
       IN job' = IF exec[j].held /\ Owns(j)
                 THEN [job EXCEPT ![j] = [status |-> SettledAs(j, desired), owner |-> NoWorker,
                                          lease |-> "null", evidence |-> ExitEvidence(j)]]
                 ELSE job
    /\ exec' = [exec EXCEPT ![j] = Gone]
    /\ ExecutorOnly /\ UNCHANGED <<run, session, pending, remaining>>

\* The settling statement itself fails: the heartbeat has been cleared, the job
\* keeps its row, its token and its controller.
SettleFails(j) ==
    /\ At(j, "settle") /\ exec[j].held
    /\ Goto(j, "exit", "none")
    /\ ExecutorOnly /\ UNCHANGED <<run, session, pending, remaining, job>>

\* The heartbeat renews the lease, or finds that the job is lost.
HeartbeatRuns(j) == exec[j].held /\ exec[j].pc # "exit" /\ Alive(exec[j].at)

Heartbeat(j) ==
    /\ HeartbeatRuns(j)
    /\ IF Owns(j)
       THEN /\ job[j].lease = "expired"
            /\ job' = [job EXCEPT ![j].lease = "fresh"]
            /\ UNCHANGED exec
       ELSE /\ exec' = [exec EXCEPT ![j] = Lost(@)]
            /\ UNCHANGED job
    /\ ExecutorOnly /\ UNCHANGED <<run, session, pending, remaining>>

-----------------------------------------------------------------------------
(* The environment: clocks, agent processes, and the ends of processes.    *)

\* The TTL passes without a heartbeat getting through.
LeaseExpires(j) ==
    /\ Held(j) /\ job[j].lease = "fresh"
    /\ job' = [job EXCEPT ![j].lease = "expired"]
    /\ UNCHANGED <<run, session, pending, remaining, admitted, njobs, confirmed, local>>

\* A node spawns an agent or a gate command.
SpawnProcess(j) ==
    /\ At(j, "node") /\ j \notin live
    /\ live' = live \cup {j}
    /\ UNCHANGED <<rows, mode, poll, exec, pausing>>

\* The last open process of a generation closes, on its own or killed.
ProcessCloses(j) ==
    /\ j \in live
    /\ live' = live \ {j}
    /\ UNCHANGED <<rows, mode, poll, exec, pausing>>

\* stop(): no further poll begins; the barrier waits for the poll in progress.
StopBegins(w) ==
    /\ mode[w] = "up"
    /\ mode' = [mode EXCEPT ![w] = "draining"]
    /\ UNCHANGED <<rows, poll, exec, live, pausing>>

PollBarrier_Missing(w) == TRUE
PollBarrier(w) == poll[w] = PollIdle

\* The settle window ends; what still runs here is told to shut down.
StopEscalates(w) ==
    /\ mode[w] = "draining" /\ PollBarrier(w)
    /\ mode' = [mode EXCEPT ![w] = "aborting"]
    /\ exec' = [j \in Jobs |-> IF exec[j].at = w THEN Signalled(exec[j], "shutdown") ELSE exec[j]]
    /\ UNCHANGED <<rows, poll, live, pausing>>

\* The drain is over or its hard limit is: jobs still held are interrupted, the
\* tokens cleared, and executions that never came back are left to the fence.
StopFinishes(w) ==
    /\ mode[w] = "aborting"
    /\ mode' = [mode EXCEPT ![w] = "stopped"]
    /\ InterruptJob({j \in Jobs : exec[j].at = w /\ exec[j].held /\ Owns(j)})
    /\ exec' = [j \in Jobs |->
                  IF exec[j].at # w THEN exec[j]
                  ELSE IF exec[j].pc = "exit" THEN Gone
                  ELSE [exec[j] EXCEPT !.held = FALSE, !.flag = FALSE]]
    /\ UNCHANGED <<pending, remaining, admitted, njobs, confirmed, poll, live, pausing>>

\* The process ends, at the end of stop() or at any other moment.
ProcessDies(w) ==
    /\ mode[w] # "down"
    /\ mode' = [mode EXCEPT ![w] = "down"]
    /\ poll' = [poll EXCEPT ![w] = PollIdle]
    /\ exec' = [j \in Jobs |-> IF exec[j].at = w THEN Gone ELSE exec[j]]
    /\ UNCHANGED <<rows, live, pausing>>

-----------------------------------------------------------------------------
Client ==
    \/ PauseRun
    \/ \E j \in Jobs, here \in BOOLEAN : PauseJob(j, here)
    \/ CancelRun
    \/ \E c \in Workers \cup {NoWorker} : CancelJob(c)
    \/ CancelObserved
    \/ \E to \in {"running", "blocked", run} : DecideGate(to)
    \/ Resume
    \/ \E previous \in 0..MaxJobs : ResumeConfirmed(previous)
    \/ ReuseAdmission

Runner(w) ==
    \/ SyncAndRecover(w)
    \/ ReconcileCancelledRuns(w)
    \/ SelectJob(w)
    \/ ClaimJob(w)

Executor(j) ==
    \/ Fenced(j) \/ BeginTurn(j) \/ BeginTurnFails(j) \/ ResumeRun(j) \/ StandDown(j)
    \/ SettlePaused(j) \/ EnterNode(j) \/ RefuseNode(j)
    \/ NodePasses(j) \/ NodeStops(j) \/ NodeAborts(j) \/ ReadBack(j) \/ Checkpoint(j)
    \/ Finish(j) \/ TerminalWriteExhausted(j) \/ Conclude(j) \/ ConcludeError(j)
    \/ Settle(j) \/ SettleFails(j) \/ Heartbeat(j)

Environment ==
    \/ \E j \in Jobs : LeaseExpires(j) \/ SpawnProcess(j)
    \/ \E j \in {0} \cup Jobs : ProcessCloses(j)
    \/ \E w \in Mortal : \/ StopBegins(w) \/ StopEscalates(w)
                         \/ StopFinishes(w) \/ ProcessDies(w)

Next ==
    \/ Client
    \/ \E w \in Workers : Runner(w)
    \/ \E j \in Jobs : Executor(j)
    \/ Environment

Spec == Init /\ [][Next]_vars

-----------------------------------------------------------------------------
(* Invariants.                                                             *)

\* The variables have the shapes of the columns and locals they stand for.
TypeOK ==
    /\ run \in RunStatus /\ session \in SessionStatus
    /\ pending \in BOOLEAN /\ admitted \in BOOLEAN /\ pausing \in BOOLEAN
    /\ remaining \in 0..MaxNodes /\ njobs \in 0..MaxJobs
    /\ job \in [Jobs -> JobRow] /\ exec \in [Jobs -> Execution]
    /\ confirmed \subseteq 0..MaxJobs /\ live \subseteq 0..MaxJobs
    /\ mode \in [Workers -> {"up", "draining", "aborting", "stopped", "down"}]
    /\ poll \in [Workers -> PollPlace]

\* F5-P0-01 in session-service.ts: concurrent resumes of several processes never
\* leave a run with two jobs to execute, and the one there is is the newest, the
\* one every control (pause, cancel, recovery) looks for.
OneActiveGeneration ==
    \A j \in Jobs : Active(j) => j = Latest /\ ActiveJobs = {j}

\* job-runner.ts settle, session-store.ts claimNext: a job that claims a proof of exit has no
\* managed process left, whatever was killed, detached or re-enqueued meanwhile;
\* "never-started" is said only of a job no process has claimed.
ExitEvidenceSound ==
    \A j \in Jobs :
        /\ job[j].evidence # "null" => j \notin live
        /\ job[j].evidence = "never-started" => exec[j].pc = "idle"
        /\ job[j].evidence = "managed-handles-closed" => exec[j].pc = "exit"

\* enqueueIfNoActiveByRunId: processes of an older generation run beside a claimed
\* newer one only if a human confirmed, for some generation from the older on,
\* that it had stopped.
OverlapWasConfirmed ==
    \A i \in live, j \in Jobs :
        i < j /\ exec[j].pc # "idle" => \E k \in confirmed : i <= k /\ k < j

\* job-runner.ts stop: once it has returned, this process is the owner of no job
\* that counts as being executed.
StoppedOwnsNothing ==
    \A w \in Workers, j \in Jobs : mode[w] = "stopped" => ~(Held(j) /\ job[j].owner = w)

\* settleByWorkflowStatus: a session shown as done belongs to a run that passed
\* with all its nodes; no failure, fence or stale read makes a false success.
DoneSessionPassed ==
    session = "done" => run = "passed" /\ remaining = 0

-----------------------------------------------------------------------------
(* Action properties.                                                      *)

\* F4-P0-05 in node-executor.ts and M2 in state-machine.ts: no late executor,
\* recovery, decision or resume takes a run out of a terminal status.
TerminalIsFinal == [][(run \in TerminalRun) => run' = run]_vars

\* settleOwnedJob, updateJob conditions: a settled job is never revived, settled
\* again or told to pause or cancel.
SettledJobIsFrozen ==
    [][\A j \in Jobs : job[j].status \in SettledStatus => job'[j] = job[j]]_vars

\* requestCancel against settle, interruptJobTxn and requestPause: a job asked to
\* cancel ends cancelled and as nothing else.
CancelIntentKept ==
    [][\A j \in Jobs : job[j].status = "cancelling"
                       => job'[j].status \in {"cancelling", "cancelled"}]_vars


\* withOwnedWrite: while no process owns the newest generation, only the user's
\* controls change the run; executors that lost their job do not.
OnlyOwnerDrivesRun ==
    [][run' # run /\ (\A j \in Jobs : ~Held(j))
       => \/ run' \in {"paused", "cancelled"}
          \/ run' \in {"running", "blocked"} /\ pending
          \/ run = "paused" /\ run' = "running" /\ job[1].status = "queued"]_vars

-----------------------------------------------------------------------------
(* The abstract run this implements.                                       *)

Phase == IF njobs = 0 THEN "free"
         ELSE IF job[njobs].status = "queued" THEN "queued"
         ELSE IF Held(njobs) THEN "held" ELSE "free"

Lifecycle == INSTANCE RunLifecycle WITH generation <- njobs, phase <- Phase

\* The lifecycle of the run, as its generations are opened, claimed and ended.
RefinesLifecycle == Lifecycle!Spec

-----------------------------------------------------------------------------
(* Liveness, given a process that survives (Mortal # Workers).             *)

\* While a process is alive its poll timer fires, its executors run on, and stop()
\* meets its time limits; an agent call that was aborted returns; a lease nobody
\* renews expires.  Nothing is assumed of users, of the heartbeat, or of an agent
\* that was not told to stop.
Fairness ==
    /\ \A w \in Workers : WF_vars(Runner(w)) /\ WF_vars(StopEscalates(w) \/ StopFinishes(w))
    /\ \A j \in Jobs :
          /\ WF_vars(Fenced(j) \/ BeginTurn(j) \/ ResumeRun(j) \/ StandDown(j)
                     \/ SettlePaused(j) \/ EnterNode(j)
                     \/ NodeAborts(j) \/ ReadBack(j) \/ Checkpoint(j) \/ Finish(j)
                     \/ Conclude(j) \/ ConcludeError(j) \/ Settle(j))
          /\ WF_vars(~HeartbeatRuns(j) /\ LeaseExpires(j))

FairSpec == Spec /\ Fairness

Quiet == ActiveJobs = {} /\ session = "cancelled"

\* session-service.ts requestCancel, M8: once the run is cancelled, and whatever
\* died on the way, no job of it stays active and its session ends up cancelled.
CancelConverges == <>[](run = "cancelled" => Quiet)

\* interruptStale: a claimed job that no live process renews, because the process
\* died, was stopped, or could not write the job's end, does not stay claimed.
UnattendedJobEnds ==
    \A j \in Jobs : (Held(j) /\ ~HeartbeatRuns(j)) ~> ~Held(j)

\* syncOwnedControls, requestCancel: a job asked to cancel, from whatever process,
\* ends cancelled even when its agent would have run for ever.
CancelReachesOwner ==
    \A j \in Jobs : job[j].status = "cancelling" ~> job[j].status = "cancelled"

\* claimNext, requestCancel: a queued job does not wait for ever.
QueuedIsServed == \A j \in Jobs : job[j].status = "queued" ~> job[j].status # "queued"
=============================================================================
