-------------------------- MODULE JobControlProofs --------------------------
(***************************************************************************)
(* Proofs about JobControl, for every set of processes and every bound.    *)
(*                                                                         *)
(* The inductive invariant is TypeOK and OneActiveGeneration with two more *)
(* conjuncts.  NodesRemain keeps the count of nodes from going below zero: *)
(* the execution that is in a node is the only one that may pass a node,   *)
(* which is where OneActiveGeneration is needed.  CarriesFit says what an  *)
(* execution carries: to settle, nothing but an end, so that no job is ever*)
(* settled with a status that would leave it active; into the resume, the  *)
(* status of an open run, so that its CAS never reopens a terminal one.    *)
(***************************************************************************)
EXTENDS JobControl, TLAPS

\* executePlan enters a node only if it has not passed, and nobody else passes it.
NodesRemain == \A j \in Jobs : exec[j].pc = "node" /\ Owns(j) => NodesLeft

\* What an executor returns to settle is the end of a job; a resume that goes on has
\* read the status of an open run.
CarriesFit ==
    \A j \in Jobs : /\ exec[j].pc = "settle" => exec[j].val \in SettledStatus
                    /\ exec[j].pc = "resume" => exec[j].val \in OpenRun

Inv == TypeOK /\ OneActiveGeneration /\ NodesRemain /\ CarriesFit

\* Where an execution is, and what it carries, is unchanged by a step.
SamePlace(i) == exec'[i].at = exec[i].at /\ exec'[i].pc = exec[i].pc /\ exec'[i].val = exec[i].val

\* A step makes no job active again, and gives no claimed job to another process.
NotRevived(i) == job'[i].status \in ActiveStatus => job[i].status \in ActiveStatus
SameOwner(i)  == job'[i].status \in HeldStatus =>
                     job[i].status \in HeldStatus /\ job'[i].owner = job[i].owner

-----------------------------------------------------------------------------
(* What the shared operators do.                                           *)

\* Goto moves one execution, in the process where it is.
LEMMA GotoFact ==
  ASSUME exec \in [Jobs -> Execution], NEW j \in Jobs, NEW pc \in PC, NEW v \in Carried,
         Goto(j, pc, v)
  PROVE  /\ exec' \in [Jobs -> Execution]
         /\ exec'[j].pc = pc /\ exec'[j].val = v
         /\ \A i \in Jobs : exec'[i].at = exec[i].at /\ (i # j => exec'[i] = exec[i])
  BY DEF Goto, Execution

\* A terminal write leaves the execution past its node, with a status it may report.
LEMMA WriteTerminalFact ==
  ASSUME TypeOK, NEW j \in Jobs, NEW to \in TerminalRun, NEW pc \in {"read", "return"},
         WriteTerminal(j, to, pc)
  PROVE  /\ run' \in RunStatus
         /\ run \in TerminalRun => run' = run
         /\ exec' \in [Jobs -> Execution]
         /\ exec'[j].pc \in {"read", "return", "throw"}
         /\ \A i \in Jobs : exec'[i].at = exec[i].at /\ (i # j => exec'[i] = exec[i])
  BY GotoFact DEF WriteTerminal, TypeOK, PC, Carried, TerminalRun, OpenRun, RunStatus

\* A reason to abort changes no process and no program counter.
LEMMA SignalledFact ==
  ASSUME NEW e \in Execution, NEW s \in {"cancel", "shutdown", "lost"}
  PROVE  /\ Signalled(e, s) \in Execution
         /\ Signalled(e, s).at = e.at
         /\ Signalled(e, s).pc = e.pc /\ Signalled(e, s).val = e.val
  BY DEF Signalled, Execution

LEMMA InitialExecutions ==
  /\ NotStarted \in Execution /\ NotStarted.pc = "idle"
  /\ Gone \in Execution /\ Gone.pc = "exit"
  /\ \A w \in Workers : Started(w) \in Execution /\ Started(w).pc = "start"
  BY DEF NotStarted, Gone, Started, Execution, PC, Carried

\* Fencing an execution does not take it into a node.
LEMMA LostFact ==
  ASSUME NEW e \in Execution
  PROVE  /\ Lost(e) \in Execution
         /\ Lost(e).pc = e.pc
         /\ ((Lost(e).at = e.at /\ Lost(e).val = e.val) \/ Lost(e).pc = "exit")
  BY SignalledFact, InitialExecutions DEF Lost, Execution

\* A cancellation touches one active row, and keeps its owner.
LEMMA RequestCancelFact ==
  ASSUME TypeOK, NEW j \in Jobs, NEW c \in Workers \cup {NoWorker}, RequestCancel(j, c)
  PROVE  /\ job' \in [Jobs -> JobRow] /\ exec' \in [Jobs -> Execution]
         /\ \A i \in Jobs : SamePlace(i)
         /\ \A i \in Jobs : i # j => job'[i] = job[i]
         /\ job'[j].owner = job[j].owner
         /\ job[j].status \in ActiveStatus
         /\ \/ job[j].status = "queued" /\ job'[j].status = "cancelled"
            \/ job[j].status \in HeldStatus /\ job'[j].status = "cancelling"
  <1>1. job[j].status \in ActiveStatus
    BY DEF RequestCancel, CancelStates
  <1>2. CASE Undelivered(j)
    BY <1>1, <1>2 DEF RequestCancel, Undelivered, TypeOK, JobRow, SettledStatus, SamePlace
  <1>3. CASE ~Undelivered(j)
    <2>1. /\ job' = [job EXCEPT ![j].status = "cancelling"]
          /\ exec' = IF job[j].owner = c
                     THEN [exec EXCEPT ![j] = Signalled(@, "cancel")] ELSE exec
          /\ job[j].status \in HeldStatus
      BY <1>1, <1>3 DEF RequestCancel, Undelivered, ActiveStatus
    <2>2. exec' \in [Jobs -> Execution] /\ \A i \in Jobs : SamePlace(i)
      BY <2>1, SignalledFact DEF TypeOK, SamePlace
    <2> QED
      BY <1>1, <2>1, <2>2 DEF TypeOK, JobRow, ActiveStatus, HeldStatus
  <1> QED BY <1>2, <1>3

\* An interruption settles the jobs it is given and leaves the others alone.
LEMMA InterruptFact ==
  ASSUME TypeOK, NEW S \in SUBSET Jobs, InterruptJob(S)
  PROVE  /\ job' \in [Jobs -> JobRow]
         /\ run' \in RunStatus /\ session' \in SessionStatus
         /\ run \in TerminalRun => run' = run
         /\ \A i \in Jobs \ S : job'[i] = job[i]
         /\ \A i \in S : job'[i].status \in {"cancelled", "interrupted"}
         /\ \A i \in S : Cancelling(i) => job'[i].status = "cancelled"
  <1>1. /\ job' \in [Jobs -> JobRow]
        /\ \A i \in Jobs \ S : job'[i] = job[i]
        /\ \A i \in S : job'[i].status \in {"cancelled", "interrupted"}
        /\ \A i \in S : Cancelling(i) => job'[i].status = "cancelled"
    BY DEF InterruptJob, TypeOK, JobRow, SettledStatus, Evidence, Lease
  <1>2. /\ run' \in RunStatus /\ session' \in SessionStatus
        /\ run \in TerminalRun => run' = run
    BY DEF InterruptJob, TypeOK, IfActive, RunStatus, OpenRun, SessionStatus
  <1> QED BY <1>1, <1>2

-----------------------------------------------------------------------------
(* Steps that open no generation, and steps of one execution.              *)

LEMMA NoNewGeneration ==
  ASSUME OneActiveGeneration, njobs' = njobs, \A i \in Jobs : NotRevived(i)
  PROVE  OneActiveGeneration'
  BY DEF NotRevived, OneActiveGeneration, ActiveJobs, Active, Latest

LEMMA SamePlaces ==
  ASSUME NodesRemain, CarriesFit, remaining' = remaining,
         \A i \in Jobs : SamePlace(i) \/ exec'[i].pc \notin {"node", "settle", "resume"},
         \A i \in Jobs : SameOwner(i)
  PROVE  NodesRemain' /\ CarriesFit'
  <1>1. NodesRemain'
    BY DEF NodesRemain, NodesLeft, Owns, Held, SamePlace, SameOwner
  <1>2. CarriesFit'
    BY DEF CarriesFit, SamePlace
  <1> QED BY <1>1, <1>2

\* A step of j that leaves the rows of the jobs alone and does not end in a node.
LEMMA LeavesNode ==
  ASSUME Inv, NEW j \in Jobs, job' = job, njobs' = njobs, remaining' = remaining,
         exec'[j].pc # "node", exec'[j].pc = "settle" => exec'[j].val \in SettledStatus,
         exec'[j].pc = "resume" => exec'[j].val \in OpenRun,
         \A i \in Jobs : exec'[i].at = exec[i].at /\ (i # j => exec'[i] = exec[i])
  PROVE  OneActiveGeneration' /\ NodesRemain' /\ CarriesFit'
  <1>1. OneActiveGeneration'
    BY NoNewGeneration DEF Inv, NotRevived
  <1>2. NodesRemain'
    BY DEF Inv, NodesRemain, NodesLeft, Owns, Held
  <1>3. CarriesFit'
    BY DEF Inv, CarriesFit
  <1> QED BY <1>1, <1>2, <1>3

\* The places of a poll.
LEMMA PollFact == PollIdle \in PollPlace /\ \A j \in Jobs : Taking(j) \in PollPlace
  BY BoundsAssumption DEF PollIdle, Taking, PollPlace, Jobs

LEMMA InitInv == Init => Inv
  <1> SUFFICES ASSUME Init PROVE Inv OBVIOUS
  <1>1. NoRow \in JobRow /\ QueuedRow \in JobRow
    BY DEF NoRow, QueuedRow, JobRow, ActiveStatus, Evidence, Lease
  <1>2. TypeOK
    <2>1. run \in RunStatus
      <3>1. Origins \ {"admission"} \subseteq {"paused", "blocked", "interrupted"}
        BY OriginsAssumption
      <3> QED BY <3>1 DEF Init, RunStatus, OpenRun
    <2>2. 0 \in 0..MaxJobs /\ 1 \in 0..MaxJobs /\ MaxNodes \in 0..MaxNodes
      BY BoundsAssumption
    <2>3. live \subseteq 0..MaxJobs /\ njobs \in 0..MaxJobs /\ remaining \in 0..MaxNodes
      BY <2>2 DEF Init
    <2>4. /\ mode \in [Workers -> {"up", "draining", "aborting", "stopped", "down"}]
          /\ poll \in [Workers -> PollPlace]
      BY PollFact DEF Init
    <2>5. /\ session \in SessionStatus /\ confirmed \subseteq 0..MaxJobs
          /\ pending \in BOOLEAN /\ admitted \in BOOLEAN /\ pausing \in BOOLEAN
      BY DEF Init, SessionStatus
    <2>6. job \in [Jobs -> JobRow] /\ exec \in [Jobs -> Execution]
      BY <1>1, InitialExecutions DEF Init
    <2> QED
      BY <2>1, <2>3, <2>4, <2>5, <2>6 DEF TypeOK
  <1>3. OneActiveGeneration
    BY DEF Init, OneActiveGeneration, Active, ActiveJobs, Latest, NoRow, ActiveStatus, HeldStatus
  <1>4. NodesRemain /\ CarriesFit
    BY InitialExecutions DEF Init, NodesRemain, CarriesFit
  <1> QED BY <1>2, <1>3, <1>4 DEF Inv

-----------------------------------------------------------------------------
(* Every step keeps the invariant: the clients.                            *)

\* A cancellation wakes no settled job and moves no execution.
LEMMA RequestCancelInv ==
  ASSUME Inv, NEW j \in Jobs, NEW c \in Workers \cup {NoWorker}, RequestCancel(j, c),
         njobs' = njobs, remaining' = remaining
  PROVE  OneActiveGeneration' /\ NodesRemain' /\ CarriesFit'
  <1>1. \A i \in Jobs : NotRevived(i) /\ SameOwner(i)
    BY RequestCancelFact DEF Inv, NotRevived, SameOwner, ActiveStatus, HeldStatus
  <1>2. \A i \in Jobs : SamePlace(i)
    BY RequestCancelFact DEF Inv
  <1> QED
    BY <1>1, <1>2, NoNewGeneration, SamePlaces DEF Inv

LEMMA ClientInv == Inv /\ Client => Inv'
  <1> SUFFICES ASSUME Inv, Client PROVE Inv' OBVIOUS
  <1> USE DEF Inv
  <1>1. CASE PauseRun \/ CancelRun \/ CancelObserved \/ ReuseAdmission
             \/ \E to \in {"running", "blocked", run} : DecideGate(to)
    <2>1. /\ run' \in RunStatus /\ session' \in SessionStatus /\ pending' \in BOOLEAN
          /\ UNCHANGED <<remaining, admitted, njobs, job, confirmed, mode, poll, exec, live>>
          /\ pausing' \in BOOLEAN
      BY <1>1 DEF PauseRun, CancelRun, CancelObserved, ReuseAdmission, DecideGate, Cas, IfActive, local,
                  ReconcileCancelledRun, TypeOK, RunStatus, TerminalRun, OpenRun, SessionStatus
    <2>2. TypeOK'
      BY <2>1 DEF TypeOK
    <2>3. OneActiveGeneration' /\ NodesRemain' /\ CarriesFit'
      BY <2>1, NoNewGeneration, SamePlaces DEF NotRevived, SameOwner, SamePlace
    <2> QED BY <2>2, <2>3
  <1>2. ASSUME NEW j \in Jobs, NEW here \in BOOLEAN, PauseJob(j, here) PROVE Inv'
    <2>1. exec' \in [Jobs -> Execution] /\ \A i \in Jobs : SamePlace(i)
      BY <1>2 DEF PauseJob, TypeOK, Execution, SamePlace
    <2>2. /\ job' \in [Jobs -> JobRow]
          /\ \A i \in Jobs : NotRevived(i) /\ SameOwner(i)
      BY <1>2 DEF PauseJob, PauseStates, TypeOK, JobRow, NotRevived, SameOwner, ActiveStatus, HeldStatus
    <2>3. TypeOK'
      BY <1>2, <2>1, <2>2 DEF PauseJob, TypeOK
    <2>4. njobs' = njobs /\ remaining' = remaining
      BY <1>2 DEF PauseJob
    <2>5. OneActiveGeneration'
      BY <2>2, <2>4, NoNewGeneration
    <2>6. NodesRemain' /\ CarriesFit'
      BY <2>1, <2>2, <2>4, SamePlaces
    <2> QED BY <2>3, <2>5, <2>6
  <1>3. ASSUME NEW c \in Workers \cup {NoWorker}, CancelJob(c) PROVE Inv'
    <2>1. PICK j \in Jobs : RequestCancel(j, c)
      BY <1>3 DEF CancelJob
    <2>2. TypeOK'
      BY <1>3, <2>1, RequestCancelFact DEF CancelJob, TypeOK
    <2> QED BY <1>3, <2>1, <2>2, RequestCancelInv DEF CancelJob
  <1>4. ASSUME Enqueue, confirmed' \subseteq 0..MaxJobs PROVE Inv'
    <2>1. njobs + 1 \in Jobs
      BY <1>4, BoundsAssumption DEF Enqueue, TypeOK, Jobs
    <2>2. QueuedRow \in JobRow /\ QueuedRow.status = "queued"
      BY DEF QueuedRow, JobRow, ActiveStatus, Evidence, Lease
    <2>3. TypeOK'
      <3>1. njobs' \in 0..MaxJobs
        BY <1>4, <2>1 DEF Enqueue, Jobs
      <3>2. job' \in [Jobs -> JobRow]
        BY <1>4, <2>1, <2>2 DEF Enqueue, TypeOK
      <3> QED BY <1>4, <3>1, <3>2 DEF Enqueue, TypeOK, local
    <2>4. \A i \in Jobs : Active(i)' <=> i = njobs'
      BY <1>4, <2>1, <2>2 DEF Enqueue, NoActiveJob, ActiveJobs, Active, ActiveStatus, TypeOK
    <2>5. OneActiveGeneration'
      BY <2>4 DEF OneActiveGeneration, ActiveJobs, Latest
    <2>6. NodesRemain' /\ CarriesFit'
      <3>1. \A i \in Jobs : SameOwner(i)
        BY <1>4, <2>1, <2>2 DEF Enqueue, SameOwner, HeldStatus, TypeOK
      <3> QED BY <1>4, <3>1, SamePlaces DEF Enqueue, SamePlace, local
    <2> QED BY <2>3, <2>5, <2>6
  <1>5. CASE Resume
    BY <1>4, <1>5 DEF Resume, TypeOK
  <1>6. ASSUME NEW previous \in 0..MaxJobs, ResumeConfirmed(previous) PROVE Inv'
    BY <1>4, <1>6 DEF ResumeConfirmed, TypeOK
  <1> QED
    BY <1>1, <1>2, <1>3, <1>5, <1>6 DEF Client

-----------------------------------------------------------------------------
(* Every step keeps the invariant: the runners.                            *)

\* Relaying the controls of a row leaves the execution where it is, or drops it.
LEMMA RelayedFact ==
  ASSUME TypeOK, NEW j \in Jobs
  PROVE  /\ Relayed(j) \in Execution
         /\ Relayed(j).pc = exec[j].pc
         /\ ((Relayed(j).at = exec[j].at /\ Relayed(j).val = exec[j].val) \/ Relayed(j).pc = "exit")
  <1> DEFINE e == [exec[j] EXCEPT !.flag = @ \/ job[j].status = "paused"]
  <1>1. e \in Execution /\ e.pc = exec[j].pc /\ e.at = exec[j].at /\ e.val = exec[j].val /\ exec[j] \in Execution
    BY DEF TypeOK, Execution
  <1> HIDE DEF e
  <1>2. Relayed(j) \in {Lost(exec[j]), e, Signalled(e, "cancel")}
    BY DEF Relayed, e
  <1> QED BY <1>1, <1>2, LostFact, SignalledFact

LEMMA RunnerInv == ASSUME Inv, NEW w \in Workers, Runner(w) PROVE Inv'
  <1> USE DEF Inv
  <1>1. poll' \in [Workers -> PollPlace]
    <2>1. poll \in [Workers -> PollPlace]
      BY DEF TypeOK
    <2>2. \A p \in PollPlace, a \in {"idle", "reconcile", "claim"} : [p EXCEPT !.at = a] \in PollPlace
      BY DEF PollPlace
    <2>3. \A a \in {"idle", "reconcile", "claim"} :
             [poll EXCEPT ![w].at = a] = [poll EXCEPT ![w] = [poll[w] EXCEPT !.at = a]]
      OBVIOUS
    <2>4. CASE SyncAndRecover(w) \/ ReconcileCancelledRuns(w)
      <3>1. \E a \in {"idle", "reconcile", "claim"} : poll' = [poll EXCEPT ![w].at = a]
        BY <2>4 DEF SyncAndRecover, ReconcileCancelledRuns, Polls
      <3>2. \E p \in PollPlace : poll' = [poll EXCEPT ![w] = p]
        BY <2>1, <2>2, <2>3, <3>1
      <3> QED BY <2>1, <3>2
    <2>5. CASE SelectJob(w) \/ ClaimJob(w)
      <3>1. \/ poll' = [poll EXCEPT ![w] = PollIdle]
            \/ \E j \in Jobs : poll' = [poll EXCEPT ![w] = Taking(j)]
        BY <2>5 DEF SelectJob, ClaimJob
      <3>2. \E p \in PollPlace : poll' = [poll EXCEPT ![w] = p]
        BY <3>1, PollFact
      <3> QED BY <2>1, <3>2
    <2> QED BY <2>4, <2>5 DEF Runner
  <1>2. CASE SyncAndRecover(w)
    <2> DEFINE S == {j \in Jobs : Stale(j)}
    <2>1. InterruptJob(S) /\ S \in SUBSET Jobs
      BY <1>2 DEF SyncAndRecover
    <2> HIDE DEF S
    <2>2. \A i \in Jobs : NotRevived(i) /\ SameOwner(i)
      BY <2>1, InterruptFact DEF NotRevived, SameOwner, ActiveStatus, HeldStatus
    <2>3. /\ exec' \in [Jobs -> Execution]
          /\ \A i \in Jobs : SamePlace(i) \/ exec'[i].pc = "exit"
      BY <1>2, RelayedFact DEF SyncAndRecover, TypeOK, SamePlace
    <2>4. TypeOK'
      BY <1>1, <1>2, <2>1, <2>3, InterruptFact DEF SyncAndRecover, Polls, TypeOK
    <2>5. OneActiveGeneration' /\ NodesRemain' /\ CarriesFit'
      BY <1>2, <2>2, <2>3, NoNewGeneration, SamePlaces DEF SyncAndRecover
    <2> QED BY <2>4, <2>5
  <1>3. CASE ReconcileCancelledRuns(w)
    <2>1. session' \in SessionStatus
      BY <1>3 DEF ReconcileCancelledRuns, ReconcileCancelledRun, TypeOK, SessionStatus
    <2>2. CASE UNCHANGED <<job, exec>>
      <3>1. TypeOK'
        BY <1>1, <1>3, <2>1, <2>2 DEF ReconcileCancelledRuns, Polls, TypeOK
      <3>2. OneActiveGeneration' /\ NodesRemain' /\ CarriesFit'
        BY <1>3, <2>2, NoNewGeneration, SamePlaces DEF ReconcileCancelledRuns, NotRevived, SameOwner, SamePlace
      <3> QED BY <3>1, <3>2
    <2>3. ASSUME NEW j \in Jobs, RequestCancel(j, w) PROVE Inv'
      <3>1. TypeOK'
        BY <1>1, <1>3, <2>1, <2>3, RequestCancelFact DEF ReconcileCancelledRuns, Polls, TypeOK
      <3>2. OneActiveGeneration' /\ NodesRemain' /\ CarriesFit'
        BY <1>3, <2>3, RequestCancelInv DEF ReconcileCancelledRuns
      <3> QED BY <3>1, <3>2
    <2> QED BY <1>3, <2>2, <2>3 DEF ReconcileCancelledRuns, ActiveJobs
  <1>4. CASE SelectJob(w)
    <2>1. TypeOK'
      BY <1>1, <1>4 DEF SelectJob, rows, TypeOK, PollPlace
    <2>2. OneActiveGeneration' /\ NodesRemain' /\ CarriesFit'
      BY <1>4, NoNewGeneration, SamePlaces DEF SelectJob, rows, NotRevived, SameOwner, SamePlace
    <2> QED BY <2>1, <2>2
  <1>5. CASE ClaimJob(w)
    <2>1. CASE UNCHANGED <<job, exec>>
      <3>1. TypeOK'
        BY <1>1, <1>5, <2>1 DEF ClaimJob, TypeOK, PollPlace
      <3>2. OneActiveGeneration' /\ NodesRemain' /\ CarriesFit'
        BY <1>5, <2>1, NoNewGeneration, SamePlaces DEF ClaimJob, NotRevived, SameOwner, SamePlace
      <3> QED BY <3>1, <3>2
    <2>2. ASSUME NEW j \in Jobs, StillQueued(j), exec' = [exec EXCEPT ![j] = Started(w)],
                 job' = [job EXCEPT ![j].status = "running", ![j].owner = w,
                                    ![j].lease = "fresh", ![j].evidence = "null"]
          PROVE  Inv'
      <3>1. /\ job' \in [Jobs -> JobRow]
            /\ Active(j) /\ \A i \in Jobs : i # j => job'[i] = job[i]
        <4>1. job[j] \in JobRow /\ Active(j)
          BY <2>2 DEF TypeOK, StillQueued, Active, ActiveStatus
        <4>2. [job[j] EXCEPT !.status = "running", !.owner = w,
                             !.lease = "fresh", !.evidence = "null"] \in JobRow
          BY <4>1 DEF JobRow, ActiveStatus, HeldStatus, Evidence, Lease
        <4>3. job' = [job EXCEPT ![j] = [job[j] EXCEPT !.status = "running", !.owner = w,
                                                       !.lease = "fresh", !.evidence = "null"]]
          BY <2>2
        <4> QED BY <4>1, <4>2, <4>3 DEF TypeOK
      <3>2. /\ exec' \in [Jobs -> Execution] /\ exec'[j].pc = "start"
            /\ \A i \in Jobs : i # j => exec'[i] = exec[i]
        BY <2>2, InitialExecutions DEF TypeOK
      <3>3. TypeOK'
        BY <1>1, <1>5, <3>1, <3>2 DEF ClaimJob, TypeOK, PollPlace
      <3>4. OneActiveGeneration'
        BY <1>5, <3>1, NoNewGeneration DEF ClaimJob, Active, NotRevived
      <3>5. NodesRemain' /\ CarriesFit'
        BY <1>5, <3>1, <3>2 DEF ClaimJob, NodesRemain, NodesLeft, CarriesFit, Owns, Held
      <3> QED BY <3>3, <3>4, <3>5
    <2> QED BY <1>5, <2>1, <2>2 DEF ClaimJob
  <1> QED BY <1>2, <1>3, <1>4, <1>5 DEF Runner

-----------------------------------------------------------------------------
(* Every step keeps the invariant: the executions.                         *)

\* A step that leaves the rows of the jobs and the plan alone, not into a node.
LEMMA ExecutorStep ==
  ASSUME Inv, NEW j \in Jobs, ExecutorOnly, job' = job, remaining' = remaining,
         run' \in RunStatus, session' \in SessionStatus, pending' \in BOOLEAN,
         exec' \in [Jobs -> Execution], exec'[j].pc # "node",
         exec'[j].pc = "settle" => exec'[j].val \in SettledStatus,
         exec'[j].pc = "resume" => exec'[j].val \in OpenRun,
         \A i \in Jobs : exec'[i].at = exec[i].at /\ (i # j => exec'[i] = exec[i])
  PROVE  Inv'
  <1>1. TypeOK'
    BY DEF ExecutorOnly, Inv, TypeOK
  <1> QED BY <1>1, LeavesNode DEF ExecutorOnly, Inv

\* The same, for a step that only moves the execution and perhaps the statuses.
LEMMA GotoStep ==
  ASSUME Inv, NEW j \in Jobs, ExecutorOnly, job' = job, remaining' = remaining,
         run' \in RunStatus, session' \in SessionStatus, pending' \in BOOLEAN,
         NEW pc \in PC \ {"node"}, NEW v \in Carried, Goto(j, pc, v),
         pc = "settle" => v \in SettledStatus, pc = "resume" => v \in OpenRun
  PROVE  Inv'
  BY ExecutorStep, GotoFact DEF Inv, TypeOK

LEMMA TerminalStep ==
  ASSUME Inv, NEW j \in Jobs, ExecutorOnly, job' = job, remaining' = remaining,
         session' = session, pending' = pending,
         NEW to \in TerminalRun, NEW pc \in {"read", "return"}, WriteTerminal(j, to, pc)
  PROVE  Inv'
  BY ExecutorStep, WriteTerminalFact DEF Inv, TypeOK

LEMMA ExecutorInv == ASSUME Inv, NEW j \in Jobs, Executor(j) PROVE Inv'
  <1> USE DEF Inv
  <1>a. /\ run \in RunStatus /\ session \in SessionStatus /\ pending \in BOOLEAN
        /\ exec[j].val \in Carried /\ RunStatus \subseteq Carried /\ SettledStatus \subseteq Carried
        /\ {"none", "terminal", "error"} \subseteq Carried
    BY DEF TypeOK, Execution, Carried
  <1>b. {"start", "resume", "boundary", "read", "checkpoint", "return", "throw", "settle", "exit"}
          \subseteq PC \ {"node"}
    BY DEF PC
  <1>c. \A to \in RunStatus : IfActive(to) \in RunStatus
    BY <1>a DEF IfActive
  <1>d. /\ {"running", "paused", "failed", "blocked", "interrupted", "cancelled"} \subseteq RunStatus
        /\ {"active", "awaiting-input", "failed"} \subseteq SessionStatus
        /\ {"cancelled", "passed"} \subseteq TerminalRun
        /\ {"failed", "interrupted", "cancelled"} \subseteq SettledStatus
    BY DEF RunStatus, TerminalRun, OpenRun, SessionStatus, SettledStatus
  <1>1. CASE Fenced(j)
    BY <1>1, <1>a, <1>b, <1>d, GotoStep DEF Fenced
  <1>2. CASE BeginTurn(j)
    BY <1>2, <1>a, <1>b, <1>d, GotoStep DEF BeginTurn, RunStatus
  <1>3. CASE BeginTurnFails(j)
    BY <1>3, <1>a, <1>b, <1>d, GotoStep DEF BeginTurnFails
  <1>4. CASE ResumeRun(j)
    BY <1>4, <1>a, <1>b, <1>d, GotoStep DEF ResumeRun, Cas
  <1>5. CASE StandDown(j)
    BY <1>5, <1>a, <1>b, <1>c, <1>d, GotoStep, TerminalStep DEF StandDown
  <1>6. CASE SettlePaused(j)
    BY <1>6, <1>a, <1>b, <1>d, GotoStep DEF SettlePaused, Cas
  <1>7. CASE EnterNode(j)
    <2>1. /\ exec' \in [Jobs -> Execution]
          /\ \A i \in Jobs : exec'[i].at = exec[i].at /\ (i # j => exec'[i] = exec[i])
      BY <1>7, <1>a, GotoFact DEF EnterNode, PC, TypeOK
    <2>2. TypeOK'
      BY <1>7, <1>a, <1>c, <1>d, <2>1 DEF EnterNode, ExecutorOnly, TypeOK
    <2>3. OneActiveGeneration'
      BY <1>7, NoNewGeneration DEF EnterNode, ExecutorOnly, NotRevived
    <2>4. NodesRemain'
      BY <1>7 DEF EnterNode, NodesRemain, NodesLeft
    <2>5. CarriesFit'
      BY <1>7, <1>a, <2>1, GotoFact DEF EnterNode, CarriesFit, PC, TypeOK
    <2> QED BY <2>2, <2>3, <2>4, <2>5
  <1>8. CASE RefuseNode(j)
    BY <1>8, <1>a, <1>b, <1>c, <1>d, GotoStep DEF RefuseNode
  <1>9. CASE NodePasses(j)
    <2>1. /\ exec' \in [Jobs -> Execution] /\ exec'[j].pc = "checkpoint"
          /\ \A i \in Jobs : exec'[i].at = exec[i].at /\ (i # j => exec'[i] = exec[i])
      BY <1>9, <1>a, GotoFact DEF NodePasses, PC, TypeOK
    <2>2. remaining' \in 0..MaxNodes
      BY <1>9, BoundsAssumption DEF NodePasses, Writes, At, NodesRemain, NodesLeft, TypeOK
    <2>3. TypeOK'
      BY <1>9, <2>1, <2>2 DEF NodePasses, ExecutorOnly, TypeOK
    <2>4. OneActiveGeneration'
      BY <1>9, NoNewGeneration DEF NodePasses, ExecutorOnly, NotRevived
    <2>5. \A i \in Jobs : Held(i) => i = j
      <3>1. Active(j) /\ \A i \in Jobs : Held(i) => Active(i)
        BY <1>9 DEF NodePasses, Writes, Owns, Held, Active, ActiveStatus
      <3> QED BY <3>1 DEF OneActiveGeneration, ActiveJobs
    <2>6. NodesRemain'
      BY <1>9, <2>1, <2>5 DEF NodePasses, NodesRemain, Owns, Held
    <2>7. CarriesFit'
      BY <2>1 DEF CarriesFit
    <2> QED BY <2>3, <2>4, <2>6, <2>7
  <1>10. CASE NodeStops(j)
    <2>1. /\ run' \in RunStatus /\ pending' \in BOOLEAN /\ Goto(j, "read", "none")
          /\ ExecutorOnly /\ UNCHANGED <<session, remaining, job>>
      BY <1>10, <1>a, <1>c, <1>d DEF NodeStops
    <2> QED BY <1>a, <1>b, <2>1, GotoStep
  <1>11. CASE NodeAborts(j)
    BY <1>11, <1>a, <1>b, <1>c, <1>d, GotoStep, TerminalStep DEF NodeAborts
  <1>12. CASE ReadBack(j)
    BY <1>12, <1>a, <1>b, GotoStep DEF ReadBack
  <1>13. CASE Checkpoint(j)
    BY <1>13, <1>a, <1>b, GotoStep DEF Checkpoint
  <1>14. CASE Finish(j)
    BY <1>14, <1>a, <1>d, TerminalStep DEF Finish
  <1>15. CASE TerminalWriteExhausted(j)
    BY <1>15, <1>a, <1>b, GotoStep DEF TerminalWriteExhausted
  <1>16. CASE Conclude(j)
    <2> DEFINE status == Reported(j, exec[j].val)
    <2>1. SessionFor(status) \in SessionStatus /\ JobFor(status) \in SettledStatus
      BY DEF SessionFor, JobFor, SessionStatus, SettledStatus
    <2> QED BY <1>16, <1>a, <1>b, <2>1, GotoStep DEF Conclude
  <1>17. CASE ConcludeError(j)
    BY <1>17, <1>a, <1>b, <1>c, <1>d, GotoStep DEF ConcludeError
  <1>18. CASE Settle(j)
    <2> DEFINE end == SettledAs(j, IF exec[j].signal = "cancel" THEN "cancelled" ELSE exec[j].val)
               row == [status |-> end, owner |-> NoWorker, lease |-> "null",
                       evidence |-> ExitEvidence(j)]
    <2>1. end \in SettledStatus
      <3>1. exec[j].pc = "settle"
        BY <1>18 DEF Settle, At
      <3>2. exec[j].val \in SettledStatus
        BY <3>1 DEF CarriesFit
      <3> QED BY <3>2 DEF SettledAs, SettledStatus
    <2> HIDE DEF end
    <2>2. row \in JobRow /\ row.status = end
      BY <2>1 DEF JobRow, ExitEvidence, Evidence, Lease
    <2> HIDE DEF row
    <2>3. job' = job \/ job' = [job EXCEPT ![j] = row]
      BY <1>18 DEF Settle, row, end
    <2>4. /\ job' \in [Jobs -> JobRow]
          /\ \A i \in Jobs : NotRevived(i) /\ SameOwner(i)
      BY <2>1, <2>2, <2>3 DEF TypeOK, NotRevived, SameOwner, ActiveStatus, HeldStatus, SettledStatus
    <2>5. /\ exec' \in [Jobs -> Execution]
          /\ \A i \in Jobs : SamePlace(i) \/ exec'[i].pc = "exit"
      BY <1>18, InitialExecutions DEF Settle, SamePlace, TypeOK
    <2>6. TypeOK'
      BY <1>18, <2>4, <2>5 DEF Settle, ExecutorOnly, TypeOK
    <2>7. OneActiveGeneration'
      BY <1>18, <2>4, NoNewGeneration DEF Settle, ExecutorOnly
    <2>8. NodesRemain' /\ CarriesFit'
      BY <1>18, <2>4, <2>5, SamePlaces DEF Settle
    <2> QED BY <2>6, <2>7, <2>8
  <1>19. CASE SettleFails(j)
    BY <1>19, <1>a, <1>b, GotoStep DEF SettleFails
  <1>20. CASE Heartbeat(j)
    <2>1. /\ exec' \in [Jobs -> Execution]
          /\ \A i \in Jobs : SamePlace(i) \/ exec'[i].pc = "exit"
      BY <1>20, LostFact DEF Heartbeat, SamePlace, TypeOK
    <2>2. /\ job' \in [Jobs -> JobRow]
          /\ \A i \in Jobs : NotRevived(i) /\ SameOwner(i)
      BY <1>20 DEF Heartbeat, TypeOK, JobRow, Lease, NotRevived, SameOwner
    <2>3. TypeOK'
      BY <1>20, <2>1, <2>2 DEF Heartbeat, ExecutorOnly, TypeOK
    <2>4. OneActiveGeneration'
      BY <1>20, <2>2, NoNewGeneration DEF Heartbeat, ExecutorOnly
    <2>5. NodesRemain' /\ CarriesFit'
      BY <1>20, <2>1, <2>2, SamePlaces DEF Heartbeat
    <2> QED BY <2>3, <2>4, <2>5
  <1> QED
    BY <1>1, <1>2, <1>3, <1>4, <1>5, <1>6, <1>7, <1>8, <1>9, <1>10, <1>11, <1>12, <1>13,
       <1>14, <1>15, <1>16, <1>17, <1>18, <1>19, <1>20 DEF Executor

-----------------------------------------------------------------------------
(* Every step keeps the invariant: the environment.                        *)

LEMMA EnvironmentInv == Inv /\ Environment => Inv'
  <1> SUFFICES ASSUME Inv, Environment PROVE Inv' OBVIOUS
  <1> USE DEF Inv
  <1>1. ASSUME NEW j \in Jobs, LeaseExpires(j) PROVE Inv'
    <2>1. /\ job' \in [Jobs -> JobRow]
          /\ \A i \in Jobs : NotRevived(i) /\ SameOwner(i)
      BY <1>1 DEF LeaseExpires, TypeOK, JobRow, Lease, NotRevived, SameOwner
    <2>2. TypeOK'
      BY <1>1, <2>1 DEF LeaseExpires, TypeOK, local
    <2>3. OneActiveGeneration' /\ NodesRemain' /\ CarriesFit'
      BY <1>1, <2>1, NoNewGeneration, SamePlaces DEF LeaseExpires, SamePlace, local, NotRevived, SameOwner
    <2> QED BY <2>2, <2>3
  \* The steps of processes that touch neither rows nor executions.
  <1>2. ASSUME UNCHANGED <<rows, exec, pausing>>, live' \subseteq 0..MaxJobs, poll' = poll,
               mode' \in [Workers -> {"up", "draining", "aborting", "stopped", "down"}]
        PROVE  Inv'
    <2>1. TypeOK'
      BY <1>2 DEF TypeOK, rows
    <2>2. OneActiveGeneration' /\ NodesRemain' /\ CarriesFit'
      BY <1>2, NoNewGeneration, SamePlaces DEF rows, NotRevived, SameOwner, SamePlace
    <2> QED BY <2>1, <2>2
  <1>3. ASSUME NEW j \in Jobs, SpawnProcess(j) PROVE Inv'
    BY <1>2, <1>3, BoundsAssumption DEF SpawnProcess, TypeOK, Jobs
  <1>4. ASSUME NEW j \in {0} \cup Jobs, ProcessCloses(j) PROVE Inv'
    BY <1>2, <1>4 DEF ProcessCloses, TypeOK
  <1>5. ASSUME NEW w \in Mortal, StopBegins(w) PROVE Inv'
    BY <1>2, <1>5 DEF StopBegins, TypeOK
  <1>6. ASSUME NEW w \in Mortal, StopEscalates(w) PROVE Inv'
    <2>1. exec' \in [Jobs -> Execution] /\ \A i \in Jobs : SamePlace(i)
      BY <1>6, SignalledFact DEF StopEscalates, SamePlace, TypeOK
    <2>2. TypeOK'
      BY <1>6, <2>1 DEF StopEscalates, TypeOK, rows
    <2>3. OneActiveGeneration' /\ NodesRemain' /\ CarriesFit'
      BY <1>6, <2>1, NoNewGeneration, SamePlaces DEF StopEscalates, rows, NotRevived, SameOwner
    <2> QED BY <2>2, <2>3
  <1>7. ASSUME NEW w \in Mortal, StopFinishes(w) PROVE Inv'
    <2> DEFINE S == {j \in Jobs : exec[j].at = w /\ exec[j].held /\ Owns(j)}
    <2>1. InterruptJob(S) /\ S \in SUBSET Jobs
      BY <1>7 DEF StopFinishes
    <2> HIDE DEF S
    <2>2. \A i \in Jobs : NotRevived(i) /\ SameOwner(i)
      BY <2>1, InterruptFact DEF NotRevived, SameOwner, ActiveStatus, HeldStatus
    <2>3. /\ exec' \in [Jobs -> Execution]
          /\ \A i \in Jobs : SamePlace(i) \/ exec'[i].pc = "exit"
      BY <1>7, InitialExecutions DEF StopFinishes, TypeOK, Execution, SamePlace
    <2>4. TypeOK'
      BY <1>7, <2>1, <2>3, InterruptFact DEF StopFinishes, TypeOK
    <2>5. OneActiveGeneration' /\ NodesRemain' /\ CarriesFit'
      BY <1>7, <2>2, <2>3, NoNewGeneration, SamePlaces DEF StopFinishes
    <2> QED BY <2>4, <2>5
  <1>8. ASSUME NEW w \in Mortal, ProcessDies(w) PROVE Inv'
    <2>1. /\ exec' \in [Jobs -> Execution]
          /\ \A i \in Jobs : SamePlace(i) \/ exec'[i].pc = "exit"
      BY <1>8, InitialExecutions DEF ProcessDies, SamePlace, TypeOK
    <2>2. TypeOK'
      BY <1>8, <2>1, PollFact DEF ProcessDies, TypeOK, rows
    <2>3. OneActiveGeneration' /\ NodesRemain' /\ CarriesFit'
      BY <1>8, <2>1, NoNewGeneration, SamePlaces DEF ProcessDies, rows, NotRevived, SameOwner
    <2> QED BY <2>2, <2>3
  <1> QED
    BY <1>1, <1>3, <1>4, <1>5, <1>6, <1>7, <1>8 DEF Environment

LEMMA NextInv == Inv /\ [Next]_vars => Inv'
  <1> SUFFICES ASSUME Inv, [Next]_vars PROVE Inv' OBVIOUS
  <1>1. CASE UNCHANGED vars
    BY <1>1 DEF vars, rows, local, Inv, TypeOK, OneActiveGeneration, NodesRemain, CarriesFit,
                Active, ActiveJobs, Latest, Owns, Held, NodesLeft
  <1>2. CASE Next
    BY <1>2, ClientInv, RunnerInv, ExecutorInv, EnvironmentInv DEF Next
  <1> QED BY <1>1, <1>2

LEMMA Invariance == Spec => []Inv
  BY InitInv, NextInv, PTL DEF Spec

\* The variables keep the shapes of the columns and locals they stand for, whatever
\* the number of processes, generations and nodes.
THEOREM TypeCorrect == Spec => []TypeOK
  BY Invariance, PTL DEF Inv

\* However many processes resume, pause, recover and re-admit a run, it never has
\* two execution jobs to execute.
THEOREM OneGeneration == Spec => []OneActiveGeneration
  BY Invariance, PTL DEF Inv

-----------------------------------------------------------------------------
(***************************************************************************)
(* What no step of JobControl may do: proofs of its action properties.     *)
(*                                                                         *)
(* The rows of generations that have not been opened are absent, so that   *)
(* opening one overwrites nothing; Inv and that conjunct are what the      *)
(* steps need.                                                             *)
(***************************************************************************)

\* createdAt increases strictly: the rows after the latest generation do not exist.
UnopenedAbsent == \A j \in Jobs : j > njobs => job[j].status = "absent"

RowInv == Inv /\ UnopenedAbsent

-----------------------------------------------------------------------------
(* What a step may do to one row.                                          *)

RowStep(j) ==
    /\ job[j].status \in SettledStatus => job'[j] = job[j]
    /\ job[j].status = "cancelling" => job'[j].status \in {"cancelling", "cancelled"}
    /\ job[j].status = "absent" =>
          job'[j].status = "absent" \/ j = njobs'

\* Rows that a step leaves alone.
LEMMA RowKept == ASSUME NEW j \in Jobs, job'[j] = job[j] PROVE RowStep(j)
  BY DEF RowStep

\* Rows that a step may change are those of active jobs.
LEMMA ActiveRowStep ==
  ASSUME NEW j \in Jobs, job[j].status \in ActiveStatus,
         Cancelling(j) => job'[j].status \in {"cancelling", "cancelled"}
  PROVE  RowStep(j)
  BY DEF RowStep, Cancelling, ActiveStatus, HeldStatus, SettledStatus

LEMMA RequestCancelRows ==
  ASSUME Inv, NEW j \in Jobs, NEW c \in Workers \cup {NoWorker}, RequestCancel(j, c)
  PROVE  \A i \in Jobs : RowStep(i)
  <1>1. RowStep(j)
    BY RequestCancelFact, ActiveRowStep DEF Inv
  <1>2. \A i \in Jobs : i # j => RowStep(i)
    BY RequestCancelFact, RowKept DEF Inv
  <1> QED BY <1>1, <1>2

LEMMA InterruptRows ==
  ASSUME Inv, NEW S \in SUBSET {j \in Jobs : Held(j)}, InterruptJob(S)
  PROVE  \A i \in Jobs : RowStep(i)
  <1>1. \A i \in Jobs \ S : RowStep(i)
    BY InterruptFact, RowKept DEF Inv
  <1>2. \A i \in S : RowStep(i)
    BY InterruptFact, ActiveRowStep DEF Inv, Held, ActiveStatus
  <1> QED BY <1>1, <1>2

LEMMA RowSteps == ASSUME RowInv, [Next]_vars PROVE \A i \in Jobs : RowStep(i)
  <1> USE DEF RowInv, Inv
  <1>1. ASSUME UNCHANGED job PROVE \A i \in Jobs : RowStep(i)
    BY <1>1, RowKept
  <1>2. ASSUME NEW j \in Jobs, NEW here \in BOOLEAN, PauseJob(j, here)
        PROVE  \A i \in Jobs : RowStep(i)
    <2>1. RowStep(j)
      BY <1>2, ActiveRowStep
         DEF PauseJob, PauseStates, Cancelling, ActiveStatus, HeldStatus
    <2>2. \A i \in Jobs : i # j => RowStep(i)
      BY <1>2, RowKept DEF PauseJob, TypeOK
    <2> QED BY <2>1, <2>2
  <1>3. ASSUME NEW c \in Workers \cup {NoWorker}, CancelJob(c)
        PROVE  \A i \in Jobs : RowStep(i)
    BY <1>3, RequestCancelRows DEF CancelJob
  <1>4. ASSUME Enqueue PROVE \A i \in Jobs : RowStep(i)
    <2>1. njobs' \in Jobs /\ njobs' > njobs
      BY <1>4, BoundsAssumption DEF Enqueue, TypeOK, Jobs
    <2>2. RowStep(njobs')
      BY <1>4, <2>1 DEF UnopenedAbsent, RowStep, SettledStatus
    <2>3. \A i \in Jobs : i # njobs' => RowStep(i)
      BY <1>4, RowKept DEF Enqueue, TypeOK
    <2> QED BY <2>2, <2>3
  <1>5. ASSUME Client PROVE \A i \in Jobs : RowStep(i)
    BY <1>1, <1>2, <1>3, <1>4, <1>5
       DEF Client, PauseRun, CancelRun, CancelObserved, DecideGate, Resume, ResumeConfirmed,
           ReuseAdmission
  <1>6. ASSUME NEW w \in Workers, Runner(w) PROVE \A i \in Jobs : RowStep(i)
    <2>1. CASE SyncAndRecover(w)
      BY <2>1, InterruptRows DEF SyncAndRecover, Stale
    <2>2. CASE ReconcileCancelledRuns(w)
      BY <1>1, <2>2, RequestCancelRows DEF ReconcileCancelledRuns, ActiveJobs
    <2>3. CASE SelectJob(w)
      BY <1>1, <2>3 DEF SelectJob, rows
    <2>4. CASE ClaimJob(w)
      <3>1. ASSUME NEW j \in Jobs, StillQueued(j),
                   \A i \in Jobs : i # j => job'[i] = job[i]
            PROVE  \A i \in Jobs : RowStep(i)
        BY <3>1, ActiveRowStep, RowKept DEF StillQueued, Cancelling, ActiveStatus
      <3>2. UNCHANGED job \/ \E j \in Jobs : StillQueued(j) /\ \A i \in Jobs : i # j => job'[i] = job[i]
        BY <2>4 DEF ClaimJob, TypeOK
      <3> QED BY <1>1, <3>1, <3>2
    <2> QED BY <1>6, <2>1, <2>2, <2>3, <2>4 DEF Runner
  <1>7. ASSUME NEW j \in Jobs, Executor(j) PROVE \A i \in Jobs : RowStep(i)
    <2>1. CASE Settle(j)
      <3>1. Owns(j) /\ ~UNCHANGED job => RowStep(j)
        BY <2>1, ActiveRowStep
           DEF Settle, SettledAs, Owns, Held, ActiveStatus, TypeOK
      <3>2. \A i \in Jobs : i # j => job'[i] = job[i]
        BY <2>1 DEF Settle, TypeOK
      <3> QED BY <1>1, <2>1, <3>1, <3>2, RowKept DEF Settle
    <2>2. CASE Heartbeat(j)
      <3>1. UNCHANGED job \/ (job[j].status \in ActiveStatus /\ job'[j].status = job[j].status)
        BY <2>2 DEF Heartbeat, Owns, Held, ActiveStatus, TypeOK, JobRow
      <3>2. \A i \in Jobs : i # j => job'[i] = job[i]
        BY <2>2 DEF Heartbeat, TypeOK
      <3> QED BY <1>1, <3>1, <3>2, RowKept, ActiveRowStep DEF Cancelling
    <2>3. CASE ~Settle(j) /\ ~Heartbeat(j)
      BY <1>1, <1>7, <2>3
         DEF Executor, Fenced, BeginTurn, BeginTurnFails, ResumeRun, StandDown, SettlePaused,
             EnterNode, RefuseNode, NodePasses, NodeStops, NodeAborts, ReadBack, Checkpoint,
             Finish, TerminalWriteExhausted, Conclude, ConcludeError, SettleFails
    <2> QED BY <2>1, <2>2, <2>3
  <1>8. ASSUME Environment PROVE \A i \in Jobs : RowStep(i)
    <2>1. ASSUME NEW j \in Jobs, LeaseExpires(j) PROVE \A i \in Jobs : RowStep(i)
      <3>1. job[j].status \in ActiveStatus /\ job'[j].status = job[j].status
        BY <2>1 DEF LeaseExpires, Held, ActiveStatus, TypeOK, JobRow
      <3>2. \A i \in Jobs : i # j => job'[i] = job[i]
        BY <2>1 DEF LeaseExpires, TypeOK
      <3> QED BY <3>1, <3>2, RowKept, ActiveRowStep DEF Cancelling
    <2>2. ASSUME NEW w \in Mortal, StopFinishes(w) PROVE \A i \in Jobs : RowStep(i)
      BY <2>2, InterruptRows DEF StopFinishes, Owns
    <2> QED
      BY <1>1, <1>8, <2>1, <2>2
         DEF Environment, SpawnProcess, ProcessCloses, StopBegins, StopEscalates, ProcessDies, rows
  <1>9. CASE UNCHANGED vars
    BY <1>1, <1>9 DEF vars, rows
  <1> QED BY <1>5, <1>6, <1>7, <1>8, <1>9 DEF Next

-----------------------------------------------------------------------------
(* The invariant, with the rows of generations to come.                    *)

LEMMA GenerationsGrow == ASSUME Inv, [Next]_vars PROVE njobs' \in Nat /\ njobs' \in {njobs, njobs + 1}
  <1>1. njobs \in Nat
    BY DEF Inv, TypeOK
  <1>2. Client => njobs' \in {njobs, njobs + 1}
    BY DEF Client, PauseRun, PauseJob, CancelRun, CancelJob, CancelObserved, DecideGate,
           Resume, ResumeConfirmed, Enqueue, ReuseAdmission
  <1>3. \A w \in Workers : Runner(w) => njobs' = njobs
    BY DEF Runner, SyncAndRecover, ReconcileCancelledRuns, SelectJob, ClaimJob, rows
  <1>4. \A j \in Jobs : Executor(j) => njobs' = njobs
    BY DEF Executor, ExecutorOnly, Fenced, BeginTurn, BeginTurnFails, ResumeRun, StandDown,
           SettlePaused, EnterNode, RefuseNode, NodePasses, NodeStops, NodeAborts, ReadBack,
           Checkpoint, Finish, TerminalWriteExhausted, Conclude, ConcludeError, Settle,
           SettleFails, Heartbeat
  <1>5. Environment => njobs' = njobs
    BY DEF Environment, LeaseExpires, SpawnProcess, ProcessCloses, StopBegins, StopEscalates,
           StopFinishes, ProcessDies, rows
  <1>6. UNCHANGED vars => njobs' = njobs
    BY DEF vars, rows
  <1> QED BY <1>1, <1>2, <1>3, <1>4, <1>5, <1>6 DEF Next

LEMMA RowInit == Init => RowInv
  <1>1. Init => UnopenedAbsent
    <2> SUFFICES ASSUME Init, NEW j \in Jobs, j > njobs PROVE job[j].status = "absent"
      BY DEF UnopenedAbsent
    <2>1. job[j] = NoRow
      <3>1. CASE njobs = 1 /\ job = [i \in Jobs |-> IF i = 1 THEN QueuedRow ELSE NoRow]
        <4>1. j # 1
          BY <3>1 DEF Jobs
        <4> QED BY <3>1, <4>1
      <3>2. CASE job = [i \in Jobs |-> NoRow]
        BY <3>2
      <3> QED BY <3>1, <3>2 DEF Init
    <2> QED BY <2>1 DEF NoRow
  <1> QED BY <1>1, InitInv DEF RowInv

LEMMA RowKeeps == ASSUME RowInv, [Next]_vars PROVE RowInv'
  <1>1. Inv'
    BY NextInv DEF RowInv
  <1>2. UnopenedAbsent'
    <2> SUFFICES ASSUME NEW j \in Jobs, j > njobs' PROVE job'[j].status = "absent"
      BY DEF UnopenedAbsent
    <2>1. j > njobs /\ j # njobs' /\ RowStep(j)
      BY GenerationsGrow, RowSteps DEF RowInv, Inv, TypeOK, Jobs
    <2> QED BY <2>1 DEF RowInv, UnopenedAbsent, RowStep
  <1> QED BY <1>1, <1>2 DEF RowInv

LEMMA RowInvariance == Spec => []RowInv
  BY RowInit, RowKeeps, PTL DEF Spec

-----------------------------------------------------------------------------
(* What a step may do to the run.                                          *)

LEMMA TerminalStays == ASSUME Inv, [Next]_vars, run \in TerminalRun PROVE run' = run
  <1> USE DEF Inv
  <1>1. run \notin OpenRun /\ run \notin {"running", "paused"}
    BY DEF TerminalRun, OpenRun
  <1>2. \A to : IfActive(to) = run
    BY DEF IfActive
  <1>3. CASE Client
    BY <1>1, <1>2, <1>3
       DEF Client, PauseRun, PauseJob, CancelRun, CancelJob, CancelObserved, DecideGate,
           Resume, ResumeConfirmed, Enqueue, ReuseAdmission
  <1>4. ASSUME NEW w \in Workers, Runner(w) PROVE run' = run
    BY <1>4, InterruptFact
       DEF Runner, SyncAndRecover, ReconcileCancelledRuns, SelectJob, ClaimJob, rows
  <1>5. ASSUME NEW j \in Jobs, Executor(j) PROVE run' = run
    <2>1. CASE StandDown(j) \/ NodeAborts(j) \/ Finish(j)
      BY <1>2, <2>1, WriteTerminalFact DEF StandDown, NodeAborts, Finish, TerminalRun
    <2>2. CASE ResumeRun(j)
      BY <1>1, <2>2 DEF ResumeRun, Writes, At, Cas, CarriesFit
    <2>3. CASE SettlePaused(j)
      BY <1>1, <2>3 DEF SettlePaused, Cas
    <2>4. CASE EnterNode(j) \/ RefuseNode(j) \/ NodeStops(j) \/ ConcludeError(j)
      BY <1>2, <2>4 DEF EnterNode, RefuseNode, NodeStops, ConcludeError
    <2>5. CASE ~(StandDown(j) \/ NodeAborts(j) \/ Finish(j) \/ ResumeRun(j) \/ SettlePaused(j)
                 \/ EnterNode(j) \/ RefuseNode(j) \/ NodeStops(j) \/ ConcludeError(j))
      BY <1>5, <2>5
         DEF Executor, Fenced, BeginTurn, BeginTurnFails, NodePasses, ReadBack, Checkpoint,
             TerminalWriteExhausted, Conclude, Settle, SettleFails, Heartbeat
    <2> QED BY <2>1, <2>2, <2>3, <2>4, <2>5
  <1>6. CASE Environment
    BY <1>6, InterruptFact
       DEF Environment, LeaseExpires, SpawnProcess, ProcessCloses, StopBegins, StopEscalates,
           StopFinishes, ProcessDies, rows
  <1>7. CASE UNCHANGED vars
    BY <1>7 DEF vars, rows
  <1> QED BY <1>3, <1>4, <1>5, <1>6, <1>7 DEF Next

-----------------------------------------------------------------------------
(* The theorems.                                                           *)

\* No executor, late or not, no recovery, decision or resume takes a run out of a
\* terminal status.
THEOREM TerminalFinality == Spec => TerminalIsFinal
  <1>1. Inv /\ [Next]_vars => [(run \in TerminalRun) => run' = run]_vars
    BY TerminalStays
  <1> QED BY <1>1, Invariance, PTL DEF Spec, TerminalIsFinal

\* A settled job is never revived, settled again or told to pause or cancel.
THEOREM SettledFrozen == Spec => SettledJobIsFrozen
  <1>1. RowInv /\ [Next]_vars
        => [\A j \in Jobs : job[j].status \in SettledStatus => job'[j] = job[j]]_vars
    BY RowSteps DEF RowStep
  <1> QED BY <1>1, RowInvariance, PTL DEF Spec, SettledJobIsFrozen

\* A job asked to cancel ends cancelled and as nothing else.
THEOREM CancelIntent == Spec => CancelIntentKept
  <1>1. RowInv /\ [Next]_vars
        => [\A j \in Jobs : job[j].status = "cancelling"
                            => job'[j].status \in {"cancelling", "cancelled"}]_vars
    BY RowSteps DEF RowStep
  <1> QED BY <1>1, RowInvariance, PTL DEF Spec, CancelIntentKept

-----------------------------------------------------------------------------
(***************************************************************************)
(* JobControl implements RunLifecycle, and only the owner of the newest    *)
(* generation drives its run.                                              *)
(*                                                                         *)
(* The phase of the abstract run is read off the row of the newest job.    *)
(* Every active row is that row (OneActiveGeneration), so a step that      *)
(* opens, claims, cancels or ends a job does it to the abstract generation,*)
(* and a write of an execution, which must own its job, is a step of the   *)
(* holder.  All other steps leave status, generation and phase alone.      *)
(***************************************************************************)

\* The abstract run does not move.
Stutter == run' = run /\ njobs' = njobs /\ Phase' = Phase

\* The row of a job keeps its part in the phase.
SameClass(j) == /\ job'[j].status = "queued" <=> job[j].status = "queued"
                /\ job'[j].status \in HeldStatus <=> job[j].status \in HeldStatus

LEMMA ActiveIsLatest ==
  ASSUME OneActiveGeneration, NEW j \in Jobs, job[j].status \in ActiveStatus
  PROVE  j = njobs
  BY DEF OneActiveGeneration, Active, Latest

\* The phase, from the row of the newest job.
LEMMA PhaseOf ==
  ASSUME TypeOK, NEW j \in Jobs, j = njobs
  PROVE  /\ job[j].status = "queued" => Phase = "queued"
         /\ job[j].status \in HeldStatus => Phase = "held"
         /\ job[j].status \notin ActiveStatus => Phase = "free"
  <1>1. njobs # 0
    BY DEF Jobs
  <1> QED BY <1>1 DEF Phase, Held, HeldStatus, ActiveStatus

LEMMA PhaseStays ==
  ASSUME TypeOK, njobs' = njobs, \A j \in Jobs : SameClass(j)
  PROVE  Phase' = Phase
  <1>1. CASE njobs = 0
    BY <1>1 DEF Phase
  <1>2. CASE njobs # 0
    <2>1. njobs \in Jobs
      BY <1>2 DEF TypeOK, Jobs
    <2> QED BY <1>2, <2>1 DEF Phase, SameClass, Held
  <1> QED BY <1>1, <1>2

-----------------------------------------------------------------------------
(* What the transactions are in the abstract run.                          *)

\* A queued job is cancelled: its generation ends.  A claimed one stays claimed.
LEMMA RequestCancelEnds ==
  ASSUME RowInv, TypeOK', NEW j \in Jobs, NEW c \in Workers \cup {NoWorker}, RequestCancel(j, c),
         run' = run, njobs' = njobs
  PROVE  Stutter \/ Lifecycle!End
  <1> USE DEF RowInv, Inv
  <1>1. /\ j = njobs /\ \A i \in Jobs : i # j => job'[i] = job[i]
        /\ \/ job[j].status = "queued" /\ job'[j].status = "cancelled"
           \/ job[j].status \in HeldStatus /\ job'[j].status = "cancelling"
    BY RequestCancelFact, ActiveIsLatest
  <1>2. CASE job[j].status = "queued" /\ job'[j].status = "cancelled"
    <2>1. Phase = "queued"
      BY <1>1, <1>2, PhaseOf
    <2>2. Phase' = "free"
      BY <1>1, <1>2 DEF Phase, Held, HeldStatus, Jobs
    <2> QED BY <2>1, <2>2 DEF Lifecycle!End
  <1>3. CASE job[j].status \in HeldStatus /\ job'[j].status = "cancelling"
    <2>1. \A i \in Jobs : SameClass(i)
      BY <1>1, <1>3 DEF SameClass, HeldStatus
    <2> QED BY <2>1, PhaseStays DEF Stutter
  <1> QED BY <1>1, <1>2, <1>3

\* Claimed jobs that are interrupted are the newest one, if any: it ends, and an open
\* run is interrupted with it.
LEMMA InterruptEnds ==
  ASSUME RowInv, NEW S \in SUBSET {j \in Jobs : Held(j)}, InterruptJob(S), njobs' = njobs
  PROVE  Stutter \/ Lifecycle!End
  <1> USE DEF RowInv, Inv
  <1>1. \A j \in S : j \in Jobs /\ j = njobs /\ job[j].status \in HeldStatus
    BY ActiveIsLatest DEF Held, ActiveStatus
  <1>2. CASE S = {}
    <2>1. run' = run
      BY <1>2 DEF InterruptJob
    <2>2. \A i \in Jobs : SameClass(i)
      BY <1>2, InterruptFact DEF SameClass
    <2> QED BY <2>1, <2>2, PhaseStays DEF Stutter
  <1>3. CASE S # {}
    <2>1. PICK j \in S : TRUE
      BY <1>3
    <2>2. Phase = "held"
      BY <1>1, <2>1, PhaseOf
    <2>3. job'[j].status \in {"cancelled", "interrupted"}
      BY <1>1, <2>1, InterruptFact
    <2>4. Phase' = "free"
      BY <1>1, <2>1, <2>3 DEF Phase, Held, HeldStatus, Jobs
    <2>5. run' = run \/ (run \in OpenRun /\ run' = "interrupted")
      BY DEF InterruptJob, IfActive, TypeOK, RunStatus
    <2> QED BY <2>2, <2>4, <2>5 DEF Lifecycle!End, Lifecycle!Open, OpenRun
  <1> QED BY <1>2, <1>3

\* A write of an execution is the holder's work.
LEMMA WriteWorks ==
  ASSUME RowInv, [Next]_vars, NEW j \in Jobs, Owns(j), njobs' = njobs, job' = job
  PROVE  Stutter \/ Lifecycle!Work
  <1> USE DEF RowInv, Inv
  <1>1. j = njobs /\ job[j].status \in HeldStatus
    BY ActiveIsLatest DEF Owns, Held, ActiveStatus
  <1>2. Phase = "held"
    BY <1>1, PhaseOf
  <1>3. Phase' = Phase
    BY PhaseStays DEF SameClass
  <1>4. run' \in RunStatus
    BY NextInv DEF TypeOK
  <1>5. CASE run \in TerminalRun
    BY <1>3, <1>5, TerminalStays DEF Stutter
  <1>6. CASE run \notin TerminalRun
    BY <1>2, <1>3, <1>4, <1>6
       DEF Lifecycle!Work, Lifecycle!Open, Lifecycle!Terminal, TypeOK, RunStatus, OpenRun, TerminalRun
  <1> QED BY <1>5, <1>6

\* Nothing the abstract run shows has changed.
LEMMA RowsStutter ==
  ASSUME TypeOK, run' = run, njobs' = njobs, \A i \in Jobs : SameClass(i)
  PROVE  Stutter
  BY PhaseStays DEF Stutter

-----------------------------------------------------------------------------
(* Every step is a step of the abstract run, or none.                      *)

LEMMA ClientRefines == ASSUME RowInv, Client PROVE Stutter \/ Lifecycle!Next
  <1> USE DEF RowInv, Inv
  <1>0. TypeOK'
    BY NextInv DEF Next
  <1>1. ASSUME job' = job, njobs' = njobs PROVE Phase' = Phase
    BY <1>1, PhaseStays DEF SameClass
  <1>2. CASE PauseRun
    <2>1. CASE run = "running"
      BY <1>1, <1>2, <2>1 DEF PauseRun, Cas, Lifecycle!Next, Lifecycle!Control, Lifecycle!Open
    <2>2. CASE run = "paused"
      BY <1>1, <1>2, <2>2 DEF PauseRun, Cas, Stutter
    <2> QED BY <1>2, <2>1, <2>2 DEF PauseRun
  <1>3. ASSUME NEW j \in Jobs, NEW here \in BOOLEAN, PauseJob(j, here) PROVE Stutter
    <2>1. \A i \in Jobs : SameClass(i)
      BY <1>3 DEF PauseJob, PauseStates, SameClass, HeldStatus, TypeOK, JobRow
    <2> QED BY <1>3, <2>1, RowsStutter DEF PauseJob
  <1>4. CASE CancelRun
    BY <1>1, <1>4 DEF CancelRun, OpenRun, Lifecycle!Next, Lifecycle!Control, Lifecycle!Open
  <1>5. ASSUME NEW c \in Workers \cup {NoWorker}, CancelJob(c) PROVE Stutter \/ Lifecycle!Next
    BY <1>0, <1>5, RequestCancelEnds DEF CancelJob, Lifecycle!Next
  <1>6. CASE CancelObserved
    BY <1>1, <1>6 DEF CancelObserved, Stutter
  <1>7. ASSUME NEW to \in {"running", "blocked", run}, DecideGate(to)
        PROVE  Stutter \/ Lifecycle!Next
    <2>1. run \in OpenRun /\ run' = to /\ UNCHANGED <<job, njobs>>
      BY <1>7 DEF DecideGate, IfActive, OpenRun, TerminalRun
    <2> QED BY <1>1, <2>1 DEF Stutter, OpenRun, Lifecycle!Next, Lifecycle!Control, Lifecycle!Open
  <1>8. CASE Enqueue
    <2>1. /\ njobs \in Nat /\ njobs' = njobs + 1 /\ njobs' \in Jobs
          /\ job'[njobs'] = QueuedRow /\ run' = run /\ run \in OpenRun /\ njobs < MaxJobs
      BY <1>8, BoundsAssumption DEF Enqueue, TypeOK, Jobs
    <2>2. Phase = "free"
      <3>1. CASE njobs = 0
        BY <3>1 DEF Phase
      <3>2. CASE njobs # 0
        <4>1. njobs \in Jobs
          BY <3>2 DEF TypeOK, Jobs
        <4>2. job[njobs].status \notin ActiveStatus
          BY <1>8, <4>1 DEF Enqueue, NoActiveJob, ActiveJobs, Active
        <4> QED BY <4>1, <4>2, PhaseOf
      <3> QED BY <3>1, <3>2
    <2>3. Phase' = "queued"
      BY <2>1 DEF Phase, QueuedRow, Jobs
    <2> QED BY <2>1, <2>2, <2>3
            DEF Lifecycle!Next, Lifecycle!OpenGeneration, Lifecycle!Open, OpenRun
  <1>9. CASE ReuseAdmission
    <2>1. /\ njobs = 1 /\ 1 \in Jobs /\ job[1].status = "queued" /\ UNCHANGED <<job, njobs>>
          /\ run' = run \/ (run = "paused" /\ run' = "running")
      BY <1>9, BoundsAssumption DEF ReuseAdmission, Latest, Cas, Jobs
    <2>2. Phase = "queued" /\ Phase' = Phase
      BY <1>1, <2>1, PhaseOf
    <2> QED BY <2>1, <2>2 DEF Stutter, Lifecycle!Next, Lifecycle!Control, Lifecycle!Open
  <1> QED BY <1>2, <1>3, <1>4, <1>5, <1>6, <1>7, <1>8, <1>9 DEF Client, Resume, ResumeConfirmed

LEMMA RunnerRefines ==
  ASSUME RowInv, NEW w \in Workers, Runner(w) PROVE Stutter \/ Lifecycle!Next
  <1> USE DEF RowInv, Inv
  <1>0. TypeOK'
    BY NextInv DEF Next
  <1>1. CASE SyncAndRecover(w)
    <2> DEFINE S == {j \in Jobs : Stale(j)}
    <2>1. InterruptJob(S) /\ S \in SUBSET {j \in Jobs : Held(j)} /\ njobs' = njobs
      BY <1>1 DEF SyncAndRecover, Stale
    <2> HIDE DEF S
    <2> QED BY <2>1, InterruptEnds DEF Lifecycle!Next
  <1>2. CASE ReconcileCancelledRuns(w)
    <2>1. run' = run /\ njobs' = njobs
      BY <1>2 DEF ReconcileCancelledRuns
    <2>2. CASE job' = job
      BY <2>1, <2>2, RowsStutter DEF SameClass
    <2>3. ASSUME NEW j \in Jobs, RequestCancel(j, w) PROVE Stutter \/ Lifecycle!Next
      BY <1>0, <2>1, <2>3, RequestCancelEnds DEF Lifecycle!Next
    <2> QED BY <1>2, <2>2, <2>3 DEF ReconcileCancelledRuns, ActiveJobs
  <1>3. CASE SelectJob(w)
    BY <1>3, RowsStutter DEF SelectJob, rows, SameClass
  <1>4. CASE ClaimJob(w)
    <2>1. run' = run /\ njobs' = njobs
      BY <1>4 DEF ClaimJob
    <2>2. CASE job' = job
      BY <2>1, <2>2, RowsStutter DEF SameClass
    <2>3. ASSUME NEW j \in Jobs, StillQueued(j),
                 job' = [job EXCEPT ![j].status = "running", ![j].owner = w,
                                    ![j].lease = "fresh", ![j].evidence = "null"]
          PROVE  Lifecycle!Claim
      <3>1. j = njobs /\ Phase = "queued"
        BY <2>3, ActiveIsLatest, PhaseOf DEF StillQueued, ActiveStatus
      <3>2. job'[j].status = "running"
        BY <2>3 DEF TypeOK, JobRow
      <3>3. Phase' = "held"
        BY <2>1, <3>1, <3>2 DEF Phase, Held, HeldStatus, Jobs
      <3> QED BY <2>1, <3>1, <3>3 DEF Lifecycle!Claim
    <2> QED BY <1>4, <2>2, <2>3 DEF ClaimJob, Lifecycle!Next
  <1> QED BY <1>1, <1>2, <1>3, <1>4 DEF Runner

LEMMA ExecutorRefines ==
  ASSUME RowInv, NEW j \in Jobs, Executor(j) PROVE Stutter \/ Lifecycle!Next
  <1> USE DEF RowInv, Inv
  <1>0. [Next]_vars
    BY DEF Next
  <1>1. CASE Fenced(j) \/ ReadBack(j) \/ SettleFails(j)
    BY <1>1, RowsStutter DEF Fenced, ReadBack, SettleFails, ExecutorOnly, SameClass
  <1>2. CASE Settle(j)
    <2>1. run' = run /\ njobs' = njobs
      BY <1>2 DEF Settle, ExecutorOnly
    <2>2. CASE job' = job
      BY <2>1, <2>2, RowsStutter DEF SameClass
    <2>3. CASE exec[j].held /\ Owns(j)
      <3>1. j = njobs /\ Phase = "held"
        BY <2>3, ActiveIsLatest, PhaseOf DEF Owns, Held, ActiveStatus
      <3> DEFINE end == SettledAs(j, IF exec[j].signal = "cancel" THEN "cancelled" ELSE exec[j].val)
      <3>2. end \in SettledStatus
        BY <1>2 DEF Settle, At, CarriesFit, SettledAs, SettledStatus
      <3>3. job'[j].status = end
        BY <1>2, <2>3 DEF Settle, TypeOK
      <3> HIDE DEF end
      <3>4. Phase' = "free"
        BY <2>1, <3>1, <3>2, <3>3 DEF Phase, Held, HeldStatus, SettledStatus, Jobs
      <3> QED BY <2>1, <3>1, <3>4 DEF Lifecycle!Next, Lifecycle!End
    <2> QED BY <1>2, <2>2, <2>3 DEF Settle
  <1>3. CASE Heartbeat(j)
    <2>1. \A i \in Jobs : job'[i].status = job[i].status
      BY <1>3 DEF Heartbeat, TypeOK, JobRow
    <2> QED BY <1>3, <2>1, RowsStutter DEF Heartbeat, ExecutorOnly, SameClass
  <1>4. CASE ~(Fenced(j) \/ ReadBack(j) \/ SettleFails(j) \/ Settle(j) \/ Heartbeat(j))
    <2>1. Owns(j) /\ job' = job /\ njobs' = njobs
      BY <1>4 DEF Executor, ExecutorOnly, Writes, BeginTurn, BeginTurnFails, ResumeRun, StandDown,
         SettlePaused, EnterNode, RefuseNode, NodePasses, NodeStops, NodeAborts, Checkpoint,
         Finish, TerminalWriteExhausted, Conclude, ConcludeError
    <2> QED BY <1>0, <2>1, WriteWorks DEF Lifecycle!Next
  <1> QED BY <1>1, <1>2, <1>3, <1>4

LEMMA EnvironmentRefines == ASSUME RowInv, Environment PROVE Stutter \/ Lifecycle!Next
  <1> USE DEF RowInv, Inv
  <1>1. ASSUME UNCHANGED rows PROVE Stutter
    BY <1>1, RowsStutter DEF rows, SameClass
  <1>2. ASSUME NEW j \in Jobs, LeaseExpires(j) PROVE Stutter
    <2>1. \A i \in Jobs : job'[i].status = job[i].status
      BY <1>2 DEF LeaseExpires, TypeOK, JobRow
    <2> QED BY <1>2, <2>1, RowsStutter DEF LeaseExpires, SameClass
  <1>3. ASSUME NEW w \in Mortal, StopFinishes(w) PROVE Stutter \/ Lifecycle!Next
    <2> DEFINE S == {j \in Jobs : exec[j].at = w /\ exec[j].held /\ Owns(j)}
    <2>1. InterruptJob(S) /\ S \in SUBSET {j \in Jobs : Held(j)} /\ njobs' = njobs
      BY <1>3 DEF StopFinishes, Owns
    <2> HIDE DEF S
    <2> QED BY <2>1, InterruptEnds DEF Lifecycle!Next
  <1> QED BY <1>1, <1>2, <1>3
          DEF Environment, SpawnProcess, ProcessCloses, StopBegins, StopEscalates, ProcessDies

LEMMA InitRefines == Init => Lifecycle!Init
  <1> SUFFICES ASSUME Init PROVE Lifecycle!Init OBVIOUS
  <1>1. CASE njobs = 1
    <2>1. run = "running" /\ job[1] = QueuedRow
      BY <1>1, BoundsAssumption DEF Init, Jobs
    <2> QED BY <1>1, <2>1 DEF Lifecycle!Init, Phase, QueuedRow
  <1>2. CASE njobs = 0
    <2>1. run \in {"paused", "blocked", "interrupted"}
      <3>1. Origins \ {"admission"} \subseteq {"paused", "blocked", "interrupted"}
        BY OriginsAssumption
      <3>2. run \in Origins \ {"admission"}
        BY <1>2 DEF Init
      <3> QED BY <3>1, <3>2
    <2> QED BY <1>2, <2>1 DEF Lifecycle!Init, Phase
  <1> QED BY <1>1, <1>2 DEF Init

-----------------------------------------------------------------------------
(* The theorems.                                                           *)

\* The job layer implements the lifecycle of a run: its generations are opened, claimed
\* and ended one after the other, only the holder of the newest one works on the run,
\* and a terminal run gets neither another status nor another generation.
THEOREM JobControlIsLifecycle == Spec => RefinesLifecycle
  <1>1. Init => Lifecycle!Init
    BY InitRefines
  <1>2. RowInv /\ [Next]_vars => [Lifecycle!Next]_(Lifecycle!vars)
    <2> SUFFICES ASSUME RowInv, [Next]_vars PROVE [Lifecycle!Next]_(Lifecycle!vars)
      OBVIOUS
    <2>1. Stutter \/ Lifecycle!Next
      <3>1. CASE UNCHANGED vars
        <4>1. Stutter
          BY <3>1, RowsStutter DEF vars, rows, SameClass, RowInv, Inv
        <4> QED BY <4>1
      <3> QED BY <3>1, ClientRefines, RunnerRefines, ExecutorRefines, EnvironmentRefines DEF Next
    <2> QED BY <2>1 DEF Stutter, Lifecycle!vars
  <1> QED BY <1>1, <1>2, RowInvariance, PTL DEF Spec, RefinesLifecycle, Lifecycle!Spec

\* While no process owns a generation, only the user's controls change the run.
THEOREM OwnerDrives == Spec => OnlyOwnerDrivesRun
  <1> DEFINE Drive == run' # run /\ (\A j \in Jobs : ~Held(j))
                      => \/ run' \in {"paused", "cancelled"}
                         \/ run' \in {"running", "blocked"} /\ pending
                         \/ run = "paused" /\ run' = "running" /\ job[1].status = "queued"
  <1>1. [Next]_vars => [Drive]_vars
    <2> SUFFICES ASSUME [Next]_vars, run' # run, \A j \in Jobs : ~Held(j)
                 PROVE  \/ run' \in {"paused", "cancelled"}
                        \/ run' \in {"running", "blocked"} /\ pending
                        \/ run = "paused" /\ run' = "running" /\ job[1].status = "queued"
      OBVIOUS
    <2>1. \A j \in Jobs : ~Executor(j)
      BY DEF Executor, Fenced, BeginTurn, BeginTurnFails, ResumeRun, StandDown, SettlePaused,
             EnterNode, RefuseNode, NodePasses, NodeStops, NodeAborts, ReadBack, Checkpoint,
             Finish, TerminalWriteExhausted, Conclude, ConcludeError, Settle, SettleFails,
             Heartbeat, Writes, Owns
    <2>2. \A S \in SUBSET Jobs : InterruptJob(S) => S # {}
      BY DEF InterruptJob
    <2>3. \A w \in Workers : ~Runner(w)
      <3>1. \A w \in Workers : ~SyncAndRecover(w)
        BY <2>2 DEF SyncAndRecover, Stale
      <3> QED BY <3>1 DEF Runner, ReconcileCancelledRuns, SelectJob, ClaimJob, rows
    <2>4. ~Environment
      <3>1. \A w \in Mortal : ~StopFinishes(w)
        BY <2>2 DEF StopFinishes, Owns
      <3> QED BY <3>1 DEF Environment, LeaseExpires, SpawnProcess, ProcessCloses, StopBegins,
                          StopEscalates, ProcessDies, rows
    <2>5. Client
      BY <2>1, <2>3, <2>4 DEF Next, vars, rows
    <2> QED BY <2>5
            DEF Client, PauseRun, PauseJob, CancelRun, CancelJob, CancelObserved, DecideGate,
                Resume, ResumeConfirmed, Enqueue, ReuseAdmission, Cas, IfActive
  <1> QED BY <1>1, PTL DEF Spec, OnlyOwnerDrivesRun

-----------------------------------------------------------------------------
(***************************************************************************)
(* What the rows of JobControl say of the processes: a proof of exit is    *)
(* true, generations whose processes overlap were confirmed by a human, a  *)
(* stopped process owns nothing, and a session shown as done passed.       *)
(*                                                                         *)
(* A claimed job whose owner lives is executed by the owner, which holds   *)
(* it (OwnerHolds); this is why the end of stop() finds every job it has   *)
(* to interrupt.  Of two generations the older may have processes left     *)
(* only if it has not proved its exit, and then a confirmation lies        *)
(* between them (UnprovenConfirmed), even before the newer one starts.     *)
(***************************************************************************)

OwnerHolds ==
    \A j \in Jobs : Held(j) =>
        /\ job[j].owner \in Workers
        /\ Alive(job[j].owner) => /\ exec[j].at = job[j].owner /\ exec[j].held
                                  /\ mode[job[j].owner] # "stopped"

\* A process that is past its poll barrier polls no more.
Drained == \A w \in Workers : mode[w] \in {"aborting", "stopped", "down"} => poll[w] = PollIdle

IdleAt == \A j \in Jobs : exec[j].pc = "idle" => exec[j].at = NoWorker /\ ~exec[j].held
Unopened == \A j \in Jobs : j > njobs => exec[j].pc = "idle" /\ j \notin live

Unproven(i) == i \in live \/ (i \in Jobs /\ exec[i].pc \notin {"idle", "exit"})
Confirmed(i, j) == \E k \in confirmed : i <= k /\ k < j
UnprovenConfirmed ==
    \A i \in 0..MaxJobs, j \in Jobs : Unproven(i) /\ i < j /\ j <= njobs => Confirmed(i, j)

\* Processes of an execution older than the job table: its run did not stop by itself.
LegacyKnown == njobs = 0 => ~pending /\ (0 \in live => run \in {"interrupted"} \cup TerminalRun)

ExitInv ==
    /\ RowInv
    /\ OwnerHolds /\ Drained /\ IdleAt /\ Unopened
    /\ ExitEvidenceSound /\ UnprovenConfirmed /\ LegacyKnown

-----------------------------------------------------------------------------
(* Steps that start no execution and prove no exit.                        *)

\* What such a step may do to the execution and the row of i.
CalmExec(i) ==
    /\ exec[i].pc = "idle" <=> exec'[i].pc = "idle"
    /\ exec[i].pc = "idle" => exec'[i].at = exec[i].at /\ exec'[i].held = exec[i].held
    /\ exec[i].pc = "exit" => exec'[i].pc = "exit"
CalmRow(i) == job'[i].evidence \in {job[i].evidence, "null"} /\ SameOwner(i)
\* The owner of a job goes on holding it as long as it is claimed.
Kept(i) == Owns(i) /\ exec[i].held /\ job'[i].status \in HeldStatus =>
               exec'[i].at = exec[i].at /\ exec'[i].held
Calm == \A i \in Jobs : CalmExec(i) /\ CalmRow(i)

LEMMA CalmKeeps ==
  ASSUME ExitInv, Calm, njobs' = njobs, confirmed' = confirmed, live' \subseteq live
  PROVE  IdleAt' /\ Unopened' /\ ExitEvidenceSound' /\ UnprovenConfirmed'
<1> USE DEF ExitInv, RowInv, Inv, Calm
<1>1. IdleAt'
  BY DEF IdleAt, CalmExec
<1>2. Unopened'
  BY DEF Unopened, CalmExec
<1>3. ExitEvidenceSound'
  BY DEF ExitEvidenceSound, CalmExec, CalmRow
<1>4. UnprovenConfirmed'
  BY DEF UnprovenConfirmed, Unproven, Confirmed, CalmExec
<1> QED BY <1>1, <1>2, <1>3, <1>4

LEMMA OwnerKept ==
  ASSUME TypeOK, OwnerHolds, mode' = mode, \A i \in Jobs : SameOwner(i) /\ Kept(i)
  PROVE  OwnerHolds'
<1> SUFFICES ASSUME NEW j \in Jobs, Held(j)'
             PROVE  /\ job'[j].owner \in Workers
                    /\ mode'[job'[j].owner] # "down" =>
                          /\ exec'[j].at = job'[j].owner /\ exec'[j].held
                          /\ mode'[job'[j].owner] # "stopped"
  BY DEF OwnerHolds, Alive
<1>1. Held(j) /\ job'[j].owner = job[j].owner
  BY DEF SameOwner, Held
<1>2. /\ job[j].owner \in Workers
      /\ mode[job[j].owner] # "down" => /\ exec[j].at = job[j].owner /\ exec[j].held
                                        /\ mode[job[j].owner] # "stopped"
  BY <1>1 DEF OwnerHolds, Alive
<1>3. mode'[job'[j].owner] # "down" => exec'[j].at = exec[j].at /\ exec'[j].held
  BY <1>1, <1>2 DEF Kept, Owns, Held
<1> QED BY <1>1, <1>2, <1>3

\* No execution and no row changes at all.
LEMMA StillCalm ==
  ASSUME UNCHANGED <<job, exec>>
  PROVE  Calm /\ \A i \in Jobs : SameOwner(i) /\ Kept(i)
BY DEF Calm, CalmExec, CalmRow, SameOwner, Kept, HeldStatus

\* One execution goes on; no row changes.
LEMMA GotoCalm ==
  ASSUME TypeOK, NEW j \in Jobs, NEW pc, NEW v, pc # "idle", Goto(j, pc, v),
         exec[j].pc \notin {"idle", "exit"}, job' = job
  PROVE  /\ Calm
         /\ \A i \in Jobs : exec'[i].at = exec[i].at /\ exec'[i].held = exec[i].held
         /\ \A i \in Jobs : SameOwner(i) /\ Kept(i)
<1>1. /\ exec'[j].pc = pc /\ exec'[j].at = exec[j].at /\ exec'[j].held = exec[j].held
      /\ \A i \in Jobs : i # j => exec'[i] = exec[i]
  BY DEF Goto, TypeOK, Execution
<1>2. \A i \in Jobs : CalmExec(i) /\ exec'[i].at = exec[i].at /\ exec'[i].held = exec[i].held
  BY <1>1 DEF CalmExec
<1>3. \A i \in Jobs : CalmRow(i) /\ SameOwner(i) /\ Kept(i)
  BY <1>2 DEF CalmRow, SameOwner, Kept, HeldStatus
<1> QED BY <1>2, <1>3 DEF Calm

\* Every write of an execution but the last moves it on from where it is.
LEMMA ExecutorGoes ==
  ASSUME NEW j \in Jobs, Executor(j), ~Settle(j), ~Heartbeat(j)
  PROVE  /\ \E pc \in PC \ {"idle"} : \E v : Goto(j, pc, v)
         /\ exec[j].pc \notin {"idle", "exit"} /\ job' = job /\ ExecutorOnly
<1>a. {"start", "resume", "boundary", "node", "read", "checkpoint", "return", "throw", "settle", "exit"}
        \subseteq PC \ {"idle"}
  BY DEF PC
<1>b. ASSUME NEW to, NEW pc \in {"read", "return"}, WriteTerminal(j, to, pc)
      PROVE  \E p \in PC \ {"idle"} : \E v : Goto(j, p, v)
  <2>1. \E v : Goto(j, pc, v) \/ Goto(j, "throw", v)
    BY <1>b DEF WriteTerminal
  <2> QED BY <1>a, <2>1
<1>1. CASE Fenced(j)
  BY <1>1, <1>a DEF Fenced, Writing
<1>2. CASE BeginTurn(j) \/ BeginTurnFails(j)
  BY <1>2, <1>a DEF BeginTurn, BeginTurnFails, Writes, At
<1>3. CASE ResumeRun(j)
  BY <1>3, <1>a DEF ResumeRun, Writes, At
<1>4. CASE StandDown(j) \/ NodeAborts(j)
  BY <1>4, <1>a, <1>b DEF StandDown, NodeAborts, Writes, At
<1>5. CASE SettlePaused(j) \/ EnterNode(j) \/ RefuseNode(j)
  BY <1>5, <1>a DEF SettlePaused, EnterNode, RefuseNode, Writes, At
<1>6. CASE NodePasses(j) \/ NodeStops(j)
  BY <1>6, <1>a DEF NodePasses, NodeStops, Writes, At
<1>7. CASE ReadBack(j) \/ Checkpoint(j)
  BY <1>7, <1>a DEF ReadBack, Checkpoint, Writes, At
<1>8. CASE Finish(j)
  BY <1>8, <1>b DEF Finish, Writes, At
<1>9. CASE TerminalWriteExhausted(j)
  BY <1>9, <1>a DEF TerminalWriteExhausted, Writes, At
<1>10. CASE Conclude(j)
  BY <1>10, <1>a DEF Conclude, Writes, At
<1>11. CASE ConcludeError(j)
  BY <1>11, <1>a DEF ConcludeError, Writes, At
<1>12. CASE SettleFails(j)
  BY <1>12, <1>a DEF SettleFails, At
<1> QED BY <1>1, <1>2, <1>3, <1>4, <1>5, <1>6, <1>7, <1>8, <1>9, <1>10, <1>11, <1>12 DEF Executor

\* What is left of the invariant when the calm part is known.
LEMMA Rest ==
  ASSUME ExitInv, [Next]_vars, Calm, njobs' = njobs, confirmed' = confirmed, live' \subseteq live,
         OwnerHolds', Drained', LegacyKnown'
  PROVE  ExitInv'
<1>1. RowInv'
  BY RowKeeps DEF ExitInv
<1> QED BY <1>1, CalmKeeps DEF ExitInv

\* An execution that has begun is one of a generation that exists.
LEMMA BegunOpened ==
  ASSUME ExitInv, NEW j \in Jobs, exec[j].pc # "idle"
  PROVE  j <= njobs /\ njobs # 0
  BY DEF ExitInv, Unopened, Jobs, RowInv, Inv, TypeOK

LEMMA ExecutorExit ==
  ASSUME ExitInv, NEW j \in Jobs, Executor(j)
  PROVE  ExitInv'
<1>0. TypeOK /\ [Next]_vars
  BY DEF Next, ExitInv, RowInv, Inv
<1>1. CASE ~Settle(j) /\ ~Heartbeat(j)
  <2>1. PICK pc \in PC \ {"idle"} : \E v : Goto(j, pc, v)
    BY <1>1, ExecutorGoes
  <2>2. PICK v : Goto(j, pc, v)
    BY <2>1
  <2>3. exec[j].pc \notin {"idle", "exit"} /\ job' = job /\ ExecutorOnly
    BY <1>1, ExecutorGoes
  <2>4. Calm /\ \A i \in Jobs : SameOwner(i) /\ Kept(i)
    BY <1>0, <2>2, <2>3, GotoCalm
  <2>5. OwnerHolds'
    BY <1>0, <2>3, <2>4, OwnerKept DEF ExecutorOnly, ExitInv
  <2>6. Drained' /\ LegacyKnown'
    BY <2>3, BegunOpened DEF ExecutorOnly, ExitInv, Drained, LegacyKnown
  <2> QED BY <1>0, <2>3, <2>4, <2>5, <2>6, Rest DEF ExecutorOnly
<1>2. CASE Heartbeat(j)
  <2>1. exec[j].held /\ exec[j].pc # "exit" /\ exec[j].pc # "idle" /\ ExecutorOnly /\ exec[j] \in Execution
    BY <1>0, <1>2 DEF Heartbeat, HeartbeatRuns, ExitInv, IdleAt, TypeOK
  <2>2. /\ \A i \in Jobs \ {j} : exec'[i] = exec[i] /\ job'[i] = job[i]
        /\ exec'[j] = exec[j] \/ (~Owns(j) /\ exec'[j] = Lost(exec[j]))
        /\ job'[j].status = job[j].status /\ job'[j].owner = job[j].owner
        /\ job'[j].evidence = job[j].evidence
    BY <1>0, <1>2 DEF Heartbeat, TypeOK, JobRow
  <2>3. Lost(exec[j]).pc = exec[j].pc
    BY <2>1, LostFact
  <2>4. \A i \in Jobs : CalmExec(i) /\ CalmRow(i) /\ SameOwner(i) /\ Kept(i)
    BY <2>1, <2>2, <2>3 DEF CalmExec, CalmRow, SameOwner, Kept, HeldStatus
  <2>5. OwnerHolds'
    BY <1>0, <2>1, <2>4, OwnerKept DEF ExecutorOnly, ExitInv
  <2>6. Drained' /\ LegacyKnown'
    BY <2>1, BegunOpened DEF ExecutorOnly, ExitInv, Drained, LegacyKnown
  <2> QED BY <1>0, <2>1, <2>4, <2>5, <2>6, Rest DEF ExecutorOnly, Calm
<1>3. CASE Settle(j)
  <2>1. /\ exec[j].pc = "settle" /\ Alive(exec[j].at) /\ ExecutorOnly
        /\ exec' = [exec EXCEPT ![j] = Gone]
    BY <1>3 DEF Settle, At
  <2>2. /\ exec'[j] = Gone /\ Gone.pc = "exit"
        /\ \A i \in Jobs \ {j} : exec'[i] = exec[i] /\ job'[i] = job[i]
    BY <1>0, <1>3, <2>1, InitialExecutions DEF Settle, TypeOK
  <2>3. CASE exec[j].held /\ Owns(j)
    <3>1. job'[j].evidence = ExitEvidence(j) /\ job'[j].status \notin HeldStatus
      <4> DEFINE end == SettledAs(j, IF exec[j].signal = "cancel" THEN "cancelled" ELSE exec[j].val)
      <4>1. end \in SettledStatus
        BY <2>1 DEF ExitInv, RowInv, Inv, CarriesFit, SettledAs, SettledStatus
      <4>2. job'[j].evidence = ExitEvidence(j) /\ job'[j].status = end
        BY <1>0, <1>3, <2>3 DEF Settle, TypeOK
      <4> QED BY <4>1, <4>2 DEF SettledStatus, HeldStatus
    <3>2. \A i \in Jobs : SameOwner(i) /\ Kept(i)
      BY <2>2, <3>1 DEF SameOwner, Kept
    <3>3. OwnerHolds'
      BY <1>0, <2>1, <3>2, OwnerKept DEF ExecutorOnly, ExitInv
    <3>4. IdleAt' /\ Unopened'
      BY <2>1, <2>2 DEF IdleAt, Unopened, ExecutorOnly, ExitInv
    <3>5. ExitEvidenceSound'
      BY <2>1, <2>2, <3>1 DEF ExitEvidenceSound, ExitEvidence, ExecutorOnly, ExitInv
    <3>6. UnprovenConfirmed'
      BY <2>1, <2>2 DEF UnprovenConfirmed, Unproven, Confirmed, ExecutorOnly, ExitInv
    <3>7. Drained' /\ LegacyKnown'
      BY <2>1, BegunOpened DEF ExecutorOnly, ExitInv, Drained, LegacyKnown
    <3> QED BY <1>0, <3>3, <3>4, <3>5, <3>6, <3>7, RowKeeps DEF ExitInv
  <2>4. CASE ~(exec[j].held /\ Owns(j))
    <3>1. job' = job
      BY <1>3, <2>4 DEF Settle
    <3>2. \A i \in Jobs : CalmExec(i) /\ CalmRow(i) /\ SameOwner(i) /\ Kept(i)
      BY <2>1, <2>2, <2>4, <3>1 DEF CalmExec, CalmRow, SameOwner, Kept, HeldStatus
    <3>3. OwnerHolds'
      BY <1>0, <2>1, <3>2, OwnerKept DEF ExecutorOnly, ExitInv
    <3>4. Drained' /\ LegacyKnown'
      BY <2>1, BegunOpened DEF ExecutorOnly, ExitInv, Drained, LegacyKnown
    <3> QED BY <1>0, <2>1, <3>2, <3>3, <3>4, Rest DEF ExecutorOnly, Calm
  <2> QED BY <2>3, <2>4
<1> QED BY <1>1, <1>2, <1>3

-----------------------------------------------------------------------------
(* The clients.                                                            *)

\* A cancellation disturbs no execution and proves nothing.
LEMMA RequestCancelCalm ==
  ASSUME TypeOK, NEW j \in Jobs, NEW c \in Workers \cup {NoWorker}, RequestCancel(j, c)
  PROVE  Calm /\ \A i \in Jobs : SameOwner(i) /\ Kept(i)
<1>1. \A i \in Jobs : CalmRow(i)
  <2>1. job'[j].evidence = job[j].evidence /\ job'[j].owner = job[j].owner
    BY DEF RequestCancel, TypeOK, JobRow
  <2> QED BY <2>1, RequestCancelFact DEF CalmRow, SameOwner, HeldStatus
<1>2. \A i \in Jobs : exec'[i] \in {exec[i], Signalled(exec[i], "cancel")}
  BY DEF RequestCancel, TypeOK
<1>3. \A i \in Jobs : exec'[i].pc = exec[i].pc /\ exec'[i].at = exec[i].at /\ exec'[i].held = exec[i].held
  BY <1>2 DEF Signalled, TypeOK, Execution
<1> QED BY <1>1, <1>3 DEF Calm, CalmExec, CalmRow, Kept

LEMMA EnqueueExit ==
  ASSUME ExitInv, [Next]_vars, Enqueue, confirmed \subseteq confirmed',
         Unproven(njobs) => \E k \in confirmed' : njobs <= k /\ k < njobs + 1
  PROVE  ExitInv'
<1> USE DEF ExitInv, RowInv, Inv
<1>1. /\ njobs \in Nat /\ njobs' = njobs + 1 /\ njobs' \in Jobs
      /\ job'[njobs'] = QueuedRow /\ \A i \in Jobs : i # njobs' => job'[i] = job[i]
      /\ UNCHANGED local
  BY BoundsAssumption DEF Enqueue, TypeOK, Jobs
<1>2. QueuedRow.status = "queued" /\ QueuedRow.evidence = "never-started"
  BY DEF QueuedRow
<1>3. OwnerHolds'
  BY <1>1, <1>2 DEF OwnerHolds, Held, HeldStatus, Alive, local
<1>4. Drained' /\ IdleAt' /\ Unopened' /\ LegacyKnown'
  BY <1>1 DEF Drained, IdleAt, Unopened, LegacyKnown, local, Jobs
<1>5. ExitEvidenceSound'
  <2>1. UNCHANGED <<exec, live>> /\ exec[njobs'].pc = "idle" /\ njobs' \notin live
    BY <1>1 DEF Unopened, local
  <2> QED BY <1>1, <1>2, <2>1 DEF ExitEvidenceSound
<1>6. UnprovenConfirmed'
  <2> SUFFICES ASSUME NEW i \in 0..MaxJobs, NEW j \in Jobs, Unproven(i), i < j, j <= njobs + 1
               PROVE  \E k \in confirmed' : i <= k /\ k < j
    BY <1>1 DEF UnprovenConfirmed, Unproven, Confirmed, local
  <2>1. CASE j <= njobs
    BY <2>1 DEF UnprovenConfirmed, Confirmed
  <2>2. CASE j = njobs + 1 /\ i < njobs
    <3>1. njobs \in Jobs
      BY <2>2 DEF TypeOK, Jobs
    <3>2. PICK k \in confirmed : i <= k /\ k < njobs
      BY <2>2, <3>1 DEF UnprovenConfirmed, Confirmed
    <3>3. k \in Nat /\ k < j /\ k \in confirmed'
      BY <2>2, <3>2, <1>1 DEF TypeOK
    <3> QED BY <3>2, <3>3
  <2>3. CASE j = njobs + 1 /\ i = njobs
    BY <2>3
  <2> QED BY <1>1, <2>1, <2>2, <2>3 DEF Jobs
<1> QED BY <1>3, <1>4, <1>5, <1>6, RowKeeps

LEMMA ClientExit == ASSUME ExitInv, Client PROVE ExitInv'
<1>0. TypeOK /\ [Next]_vars
  BY DEF Next, ExitInv, RowInv, Inv
<1>1. CASE PauseRun \/ CancelRun \/ CancelObserved \/ ReuseAdmission
           \/ \E to \in {"running", "blocked", run} : DecideGate(to)
  <2>1. UNCHANGED <<admitted, njobs, job, confirmed, mode, poll, exec, live>>
    BY <1>1 DEF PauseRun, CancelRun, CancelObserved, ReuseAdmission, DecideGate, local
  <2>2. Calm /\ \A i \in Jobs : SameOwner(i) /\ Kept(i)
    BY <2>1, StillCalm DEF local
  <2>3. OwnerHolds' /\ Drained'
    BY <1>0, <2>1, <2>2, OwnerKept DEF local, ExitInv, Drained
  <2>4. LegacyKnown'
    BY <1>1 DEF PauseRun, CancelRun, CancelObserved, ReuseAdmission, DecideGate, Latest, local,
                ExitInv, LegacyKnown, TerminalRun, Cas
  <2> QED BY <1>0, <2>1, <2>2, <2>3, <2>4, Rest DEF local
<1>2. ASSUME NEW j \in Jobs, NEW here \in BOOLEAN, PauseJob(j, here) PROVE ExitInv'
  <2>1. /\ \A i \in Jobs : exec'[i].pc = exec[i].pc /\ exec'[i].at = exec[i].at /\ exec'[i].held = exec[i].held
        /\ UNCHANGED <<run, pending, njobs, confirmed, mode, poll, live>>
    BY <1>0, <1>2 DEF PauseJob, TypeOK, Execution
  <2>2. \A i \in Jobs : CalmRow(i)
    BY <1>0, <1>2 DEF PauseJob, PauseStates, CalmRow, SameOwner, HeldStatus, TypeOK, JobRow
  <2>3. Calm /\ \A i \in Jobs : SameOwner(i) /\ Kept(i)
    BY <2>1, <2>2 DEF Calm, CalmExec, CalmRow, Kept
  <2>4. OwnerHolds' /\ Drained' /\ LegacyKnown'
    BY <1>0, <2>1, <2>3, OwnerKept DEF ExitInv, Drained, LegacyKnown
  <2> QED BY <1>0, <2>1, <2>3, <2>4, Rest
<1>3. ASSUME NEW c \in Workers \cup {NoWorker}, CancelJob(c) PROVE ExitInv'
  <2>1. UNCHANGED <<run, pending, njobs, confirmed, mode, poll, live>>
    BY <1>3 DEF CancelJob
  <2>2. Calm /\ \A i \in Jobs : SameOwner(i) /\ Kept(i)
    BY <1>0, <1>3, RequestCancelCalm DEF CancelJob
  <2>3. OwnerHolds' /\ Drained' /\ LegacyKnown'
    BY <1>0, <2>1, <2>2, OwnerKept DEF ExitInv, Drained, LegacyKnown
  <2> QED BY <1>0, <2>1, <2>2, <2>3, Rest
<1>4. CASE Resume
  <2>1. ~Unproven(njobs)
    <3>1. CASE njobs = 0
      BY <1>4, <3>1 DEF Resume, ExitKnown, Latest, Enqueue, ExitInv, LegacyKnown, Unproven,
                        Jobs, OpenRun, TerminalRun
    <3>2. CASE njobs # 0
      <4>1. njobs \in Jobs
        BY <1>0, <3>2 DEF TypeOK, Jobs
      <4>2. job[njobs].evidence \in {"never-started", "managed-handles-closed"}
        BY <1>0, <1>4, <3>2, <4>1 DEF Resume, ExitKnown, Latest, TypeOK, JobRow, Evidence
      <4> QED BY <4>1, <4>2 DEF ExitInv, ExitEvidenceSound, Unproven
    <3> QED BY <3>1, <3>2
  <2> QED BY <1>0, <1>4, <2>1, EnqueueExit DEF Resume
<1>5. ASSUME NEW previous \in 0..MaxJobs, ResumeConfirmed(previous) PROVE ExitInv'
  <2>1. previous = njobs /\ confirmed' = confirmed \cup {previous} /\ Enqueue
    BY <1>5 DEF ResumeConfirmed, StaleConfirmation, Latest
  <2> QED BY <1>0, <1>5, <2>1, EnqueueExit
<1> QED BY <1>1, <1>2, <1>3, <1>4, <1>5 DEF Client

-----------------------------------------------------------------------------
(* The runners.                                                            *)

\* An interruption leaves the executions alone and proves nothing.
LEMMA InterruptRowsCalm ==
  ASSUME TypeOK, NEW S \in SUBSET Jobs, InterruptJob(S)
  PROVE  /\ \A i \in Jobs : CalmRow(i)
         /\ \A i \in S : job'[i].status \notin HeldStatus
         /\ \A i \in Jobs \ S : job'[i] = job[i]
         /\ run' \in {run, "interrupted"}
<1>1. \A i \in S : job'[i].evidence = "null"
  BY DEF InterruptJob, TypeOK, JobRow
<1>2. \A i \in S : job'[i].status \notin HeldStatus
  BY InterruptFact DEF HeldStatus
<1>3. run' \in {run, "interrupted"}
  BY DEF InterruptJob, IfActive
<1>4. \A i \in Jobs \ S : job'[i] = job[i]
  BY InterruptFact
<1>5. \A i \in Jobs : CalmRow(i)
  BY <1>1, <1>2, <1>4 DEF CalmRow, SameOwner, HeldStatus
<1> QED BY <1>2, <1>3, <1>4, <1>5

\* A process at work on a poll has not passed the barrier of its stop().
LEMMA PollDrained ==
  ASSUME TypeOK, Drained, NEW w \in Workers, Runner(w)
  PROVE  Drained' /\ mode' = mode /\ mode[w] \notin {"aborting", "stopped", "down"}
<1>1. mode[w] \notin {"aborting", "stopped", "down"}
  <2>1. CASE SyncAndRecover(w)
    BY <2>1 DEF SyncAndRecover
  <2>2. CASE ReconcileCancelledRuns(w) \/ SelectJob(w) \/ ClaimJob(w)
    <3>1. poll[w].at \in {"reconcile", "claim", "take"}
      <4>1. \A j \in Jobs : Taking(j).at = "take"
        BY DEF Taking
      <4>2. ClaimJob(w) => \E j \in Jobs : poll[w] = Taking(j)
        BY DEF ClaimJob
      <4> QED BY <2>2, <4>1, <4>2 DEF ReconcileCancelledRuns, SelectJob, Polls
    <3>2. poll[w] # PollIdle
      BY <3>1 DEF PollIdle
    <3> QED BY <3>2 DEF Drained
  <2> QED BY <2>1, <2>2 DEF Runner
<1>2. mode' = mode /\ \A v \in Workers : v # w => poll'[v] = poll[v]
  BY DEF Runner, SyncAndRecover, ReconcileCancelledRuns, SelectJob, ClaimJob, Polls, TypeOK
<1> QED BY <1>1, <1>2 DEF Drained

LEMMA RunnerExit == ASSUME ExitInv, NEW w \in Workers, Runner(w) PROVE ExitInv'
<1>0. TypeOK /\ [Next]_vars
  BY DEF Next, ExitInv, RowInv, Inv
<1>1. Drained' /\ mode' = mode /\ mode[w] \notin {"aborting", "stopped", "down"}
  BY <1>0, PollDrained DEF ExitInv
<1>2. UNCHANGED <<pending, njobs, confirmed, live>> /\ (run' = run \/ run' = "interrupted")
  <2>1. CASE SyncAndRecover(w)
    <3> DEFINE S == {j \in Jobs : Stale(j)}
    <3>1. InterruptJob(S) /\ S \in SUBSET Jobs
      BY <2>1 DEF SyncAndRecover
    <3> HIDE DEF S
    <3>2. run' \in {run, "interrupted"}
      BY <1>0, <3>1, InterruptRowsCalm
    <3> QED BY <2>1, <3>2 DEF SyncAndRecover, Polls
  <2>2. CASE ReconcileCancelledRuns(w) \/ SelectJob(w) \/ ClaimJob(w)
    BY <2>2 DEF ReconcileCancelledRuns, SelectJob, ClaimJob, Polls, rows
  <2> QED BY <2>1, <2>2 DEF Runner
<1>3. LegacyKnown'
  BY <1>2 DEF ExitInv, LegacyKnown
<1>4. ASSUME Calm, \A i \in Jobs : SameOwner(i) /\ Kept(i) PROVE ExitInv'
  <2>1. OwnerHolds'
    BY <1>0, <1>1, <1>4, OwnerKept DEF ExitInv
  <2> QED BY <1>0, <1>1, <1>2, <1>3, <1>4, <2>1, Rest
<1>5. CASE SyncAndRecover(w)
  <2> DEFINE S == {j \in Jobs : Stale(j)}
  <2>1. InterruptJob(S) /\ S \in SUBSET Jobs
    BY <1>5 DEF SyncAndRecover
  <2> HIDE DEF S
  <2>2. \A i \in Jobs : CalmRow(i)
    BY <1>0, <2>1, InterruptRowsCalm
  <2>3. ASSUME NEW i \in Jobs PROVE CalmExec(i) /\ Kept(i)
    <3>1. CASE exec'[i] = exec[i]
      BY <3>1 DEF CalmExec, Kept
    <3>2. CASE exec[i].held /\ exec'[i] = Relayed(i)
      <4>1. exec[i].pc # "idle" /\ exec'[i].pc = exec[i].pc
        BY <1>0, <3>2, RelayedFact DEF ExitInv, IdleAt
      <4>2. Owns(i) => exec'[i].at = exec[i].at /\ exec'[i].held = exec[i].held
        <5> DEFINE e == [exec[i] EXCEPT !.flag = @ \/ job[i].status = "paused"]
        <5>1. e.at = exec[i].at /\ e.held = exec[i].held /\ e \in Execution
          BY <1>0 DEF TypeOK, Execution
        <5>2. Owns(i) => Relayed(i) \in {e, Signalled(e, "cancel")}
          BY DEF Relayed
        <5> HIDE DEF e
        <5> QED BY <3>2, <5>1, <5>2 DEF Signalled, Execution
      <4> QED BY <3>2, <4>1, <4>2 DEF CalmExec, Kept
    <3> QED BY <1>5, <3>1, <3>2 DEF SyncAndRecover
  <2> QED BY <1>4, <2>2, <2>3 DEF Calm, CalmRow
<1>6. CASE ReconcileCancelledRuns(w)
  <2>1. UNCHANGED <<job, exec>> \/ \E j \in Jobs : RequestCancel(j, w)
    BY <1>6 DEF ReconcileCancelledRuns, ActiveJobs
  <2> QED BY <1>0, <1>4, <2>1, StillCalm, RequestCancelCalm
<1>7. CASE SelectJob(w)
  BY <1>4, <1>7, StillCalm DEF SelectJob, rows
<1>8. CASE ClaimJob(w)
  <2>1. CASE UNCHANGED <<job, exec>>
    BY <1>4, <2>1, StillCalm
  <2>2. ASSUME NEW j \in Jobs, StillQueued(j), exec' = [exec EXCEPT ![j] = Started(w)],
               job' = [job EXCEPT ![j].status = "running", ![j].owner = w,
                                  ![j].lease = "fresh", ![j].evidence = "null"]
        PROVE  ExitInv'
    <3>1. j = njobs
      BY <2>2 DEF StillQueued, ExitInv, RowInv, Inv, OneActiveGeneration, Active, ActiveStatus, Latest
    <3>2. /\ job'[j].owner = w /\ job'[j].evidence = "null"
          /\ \A i \in Jobs : i # j => job'[i] = job[i]
      <4>1. job[j] \in JobRow
        BY <1>0 DEF TypeOK
      <4>2. job' = [job EXCEPT ![j] = [job[j] EXCEPT !.status = "running", !.owner = w,
                                                     !.lease = "fresh", !.evidence = "null"]]
        BY <2>2
      <4> QED BY <1>0, <4>1, <4>2 DEF TypeOK, JobRow
    <3>3. /\ exec'[j].pc = "start" /\ exec'[j].at = w /\ exec'[j].held
          /\ \A i \in Jobs : i # j => exec'[i] = exec[i]
      BY <1>0, <2>2 DEF TypeOK, Started, NotStarted
    <3>4. OwnerHolds'
      <4> SUFFICES ASSUME NEW i \in Jobs, Held(i)'
                   PROVE  /\ job'[i].owner \in Workers
                          /\ mode[job'[i].owner] # "down" =>
                                /\ exec'[i].at = job'[i].owner /\ exec'[i].held
                                /\ mode[job'[i].owner] # "stopped"
        BY <1>1 DEF OwnerHolds, Alive
      <4>1. CASE i = j
        BY <1>1, <3>2, <3>3, <4>1
      <4>2. CASE i # j
        BY <3>2, <3>3, <4>2 DEF ExitInv, OwnerHolds, Held, Alive
      <4> QED BY <4>1, <4>2
    <3>5. IdleAt' /\ Unopened'
      <4>1. \A i \in Jobs : i > njobs' => i > njobs /\ i # j
        BY <1>0, <1>2, <3>1 DEF TypeOK, Jobs
      <4>2. IdleAt'
        BY <3>3 DEF ExitInv, IdleAt
      <4> QED BY <1>2, <3>3, <4>1, <4>2 DEF ExitInv, Unopened
    <3>6. ExitEvidenceSound'
      BY <1>2, <3>2, <3>3 DEF ExitInv, ExitEvidenceSound
    <3>7. UnprovenConfirmed'
      <4> SUFFICES ASSUME NEW i \in 0..MaxJobs, NEW k \in Jobs, Unproven(i)', i < k, k <= njobs
                   PROVE  Confirmed(i, k)
        BY <1>2 DEF UnprovenConfirmed, Confirmed
      <4>1. i # j
        BY <3>1 DEF Jobs
      <4>2. Unproven(i)
        BY <1>2, <3>3, <4>1 DEF Unproven
      <4> QED BY <4>2 DEF ExitInv, UnprovenConfirmed
    <3> QED BY <1>0, <1>1, <1>3, <3>4, <3>5, <3>6, <3>7, RowKeeps DEF ExitInv
  <2> QED BY <1>8, <2>1, <2>2 DEF ClaimJob
<1> QED BY <1>5, <1>6, <1>7, <1>8 DEF Runner

-----------------------------------------------------------------------------
(* The environment, and the invariant.                                     *)

LEMMA EnvironmentExit == ASSUME ExitInv, Environment PROVE ExitInv'
<1>0. TypeOK /\ [Next]_vars
  BY DEF Next, ExitInv, RowInv, Inv
<1>1. ASSUME NEW j \in Jobs, LeaseExpires(j) PROVE ExitInv'
  <2>1. UNCHANGED <<run, pending, njobs, confirmed, mode, poll, exec, live>>
    BY <1>1 DEF LeaseExpires, local
  <2>2. \A i \in Jobs : job'[i].evidence = job[i].evidence /\ job'[i].status = job[i].status
                        /\ job'[i].owner = job[i].owner
    BY <1>0, <1>1 DEF LeaseExpires, TypeOK, JobRow
  <2>3. Calm /\ \A i \in Jobs : SameOwner(i) /\ Kept(i)
    BY <2>1, <2>2 DEF Calm, CalmExec, CalmRow, SameOwner, Kept
  <2>4. OwnerHolds' /\ Drained' /\ LegacyKnown'
    BY <1>0, <2>1, <2>3, OwnerKept DEF ExitInv, Drained, LegacyKnown
  <2> QED BY <1>0, <2>1, <2>3, <2>4, Rest
<1>2. ASSUME NEW j \in Jobs, SpawnProcess(j) PROVE ExitInv'
  <2>1. /\ UNCHANGED <<rows, mode, poll, exec>> /\ live' = live \cup {j}
        /\ exec[j].pc = "node" /\ j <= njobs
    BY <1>2, BegunOpened DEF SpawnProcess, At
  <2>2. OwnerHolds' /\ Drained' /\ IdleAt' /\ LegacyKnown'
    BY <2>1 DEF ExitInv, OwnerHolds, Held, Alive, Drained, IdleAt, LegacyKnown, rows, Jobs
  <2>3. Unopened'
    <3>1. \A i \in Jobs : i > njobs => i # j
      BY <1>0, <2>1 DEF TypeOK, Jobs
    <3> QED BY <2>1, <3>1 DEF ExitInv, Unopened, rows
  <2>4. ExitEvidenceSound'
    <3>1. job[j].evidence = "null"
      BY <1>0, <2>1 DEF ExitInv, ExitEvidenceSound, TypeOK, JobRow, Evidence
    <3> QED BY <2>1, <3>1 DEF ExitInv, ExitEvidenceSound, rows
  <2>5. UnprovenConfirmed'
    <3>1. \A i \in 0..MaxJobs : Unproven(i)' => Unproven(i)
      BY <2>1 DEF Unproven
    <3> QED BY <2>1, <3>1 DEF ExitInv, UnprovenConfirmed, Confirmed, rows
  <2> QED BY <1>0, <2>2, <2>3, <2>4, <2>5, RowKeeps DEF ExitInv
<1>3. ASSUME NEW j \in {0} \cup Jobs, ProcessCloses(j) PROVE ExitInv'
  <2>1. UNCHANGED <<run, pending, njobs, confirmed, job, mode, poll, exec>> /\ live' \subseteq live
    BY <1>3 DEF ProcessCloses, rows
  <2>2. Calm /\ \A i \in Jobs : SameOwner(i) /\ Kept(i)
    BY <2>1, StillCalm
  <2>3. OwnerHolds' /\ Drained' /\ LegacyKnown'
    BY <1>0, <2>1, <2>2, OwnerKept DEF ExitInv, Drained, LegacyKnown
  <2> QED BY <1>0, <2>1, <2>2, <2>3, Rest
\* The steps of a process towards its end.
<1>4. ASSUME NEW w \in Mortal, UNCHANGED <<rows, live>> \/ StopFinishes(w), Calm,
             OwnerHolds', Drained'
      PROVE  ExitInv'
  <2>1. UNCHANGED <<pending, njobs, confirmed, live>> /\ run' \in {run, "interrupted"}
    <3>1. CASE StopFinishes(w)
      <4> DEFINE S == {j \in Jobs : exec[j].at = w /\ exec[j].held /\ Owns(j)}
      <4>1. InterruptJob(S) /\ S \in SUBSET Jobs
        BY <3>1 DEF StopFinishes
      <4> HIDE DEF S
      <4> QED BY <1>0, <3>1, <4>1, InterruptRowsCalm DEF StopFinishes
    <3> QED BY <1>4, <3>1 DEF rows
  <2>2. LegacyKnown'
    BY <2>1 DEF ExitInv, LegacyKnown
  <2> QED BY <1>0, <1>4, <2>1, <2>2, Rest
<1>5. ASSUME NEW w \in Mortal, StopBegins(w) PROVE ExitInv'
  <2>1. UNCHANGED <<rows, poll, exec, live>> /\ mode' = [mode EXCEPT ![w] = "draining"] /\ mode[w] = "up"
    BY <1>5 DEF StopBegins
  <2>2. \A v \in Workers : mode'[v] = mode[v] \/ (mode'[v] = "draining" /\ mode[v] = "up")
    BY <1>0, <2>1 DEF TypeOK
  <2>3. OwnerHolds' /\ Drained'
    BY <2>1, <2>2 DEF ExitInv, OwnerHolds, Held, Alive, Drained, rows
  <2> QED BY <1>4, <2>1, <2>3, StillCalm DEF rows
<1>6. ASSUME NEW w \in Mortal, StopEscalates(w) PROVE ExitInv'
  <2>1. /\ UNCHANGED <<rows, poll, live>> /\ mode' = [mode EXCEPT ![w] = "aborting"]
        /\ mode[w] = "draining" /\ poll[w] = PollIdle
    BY <1>6 DEF StopEscalates, PollBarrier
  <2>2. \A v \in Workers : mode'[v] = mode[v]
                            \/ (v = w /\ mode'[v] = "aborting" /\ mode[v] = "draining")
    BY <1>0, <2>1 DEF TypeOK
  <2>3. \A i \in Jobs : exec'[i].pc = exec[i].pc /\ exec'[i].at = exec[i].at /\ exec'[i].held = exec[i].held
    <3>1. \A i \in Jobs : exec'[i] \in {exec[i], Signalled(exec[i], "shutdown")}
      BY <1>6 DEF StopEscalates
    <3> QED BY <1>0, <3>1 DEF Signalled, TypeOK, Execution
  <2>4. Calm
    BY <2>1, <2>3 DEF Calm, CalmExec, CalmRow, SameOwner, rows
  <2>5. OwnerHolds' /\ Drained'
    BY <2>1, <2>2, <2>3 DEF ExitInv, OwnerHolds, Held, Alive, Drained, rows
  <2> QED BY <1>4, <2>1, <2>4, <2>5
<1>7. ASSUME NEW w \in Mortal, StopFinishes(w) PROVE ExitInv'
  <2> DEFINE S == {j \in Jobs : exec[j].at = w /\ exec[j].held /\ Owns(j)}
  <2>1. InterruptJob(S) /\ S \in SUBSET Jobs
    BY <1>7 DEF StopFinishes
  <2>2. \A i \in Jobs : exec[i].at = w /\ exec[i].held /\ Owns(i) => i \in S
    OBVIOUS
  <2> HIDE DEF S
  <2>3. w \in Workers /\ w # NoWorker
    BY WorkersAssumption
  <2>4. /\ mode' = [mode EXCEPT ![w] = "stopped"] /\ mode[w] = "aborting" /\ poll' = poll
        /\ \A i \in Jobs : exec[i].at # w => exec'[i] = exec[i]
        /\ \A i \in Jobs : exec[i].at = w => exec'[i].pc = exec[i].pc
    BY <1>0, <1>7, InitialExecutions DEF StopFinishes, TypeOK, Execution
  <2>5. Calm
    BY <1>0, <2>1, <2>3, <2>4, InterruptRowsCalm DEF ExitInv, IdleAt, Calm, CalmExec
  <2>6. \A v \in Workers : mode'[v] = mode[v] \/ (v = w /\ mode'[v] = "stopped" /\ mode[v] = "aborting")
    BY <1>0, <2>4 DEF TypeOK
  <2>7. Drained'
    BY <2>4, <2>6 DEF ExitInv, Drained
  <2>8. OwnerHolds'
    <3> SUFFICES ASSUME NEW i \in Jobs, Held(i)'
                 PROVE  /\ job'[i].owner \in Workers
                        /\ mode'[job'[i].owner] # "down" =>
                              /\ exec'[i].at = job'[i].owner /\ exec'[i].held
                              /\ mode'[job'[i].owner] # "stopped"
      BY DEF OwnerHolds, Alive
    <3>1. i \notin S /\ job'[i] = job[i] /\ Held(i)
      BY <1>0, <2>1, InterruptRowsCalm DEF Held
    <3>2. /\ job[i].owner \in Workers
          /\ mode[job[i].owner] # "down" => /\ exec[i].at = job[i].owner /\ exec[i].held
                                            /\ mode[job[i].owner] # "stopped"
      BY <3>1 DEF ExitInv, OwnerHolds, Alive
    <3>3. job[i].owner # w
      BY <2>2, <2>4, <3>1, <3>2 DEF Owns
    <3> QED BY <2>4, <2>6, <3>1, <3>2, <3>3
  <2> QED BY <1>4, <1>7, <2>5, <2>7, <2>8
<1>8. ASSUME NEW w \in Mortal, ProcessDies(w) PROVE ExitInv'
  <2>1. /\ UNCHANGED <<rows, live>> /\ mode' = [mode EXCEPT ![w] = "down"]
        /\ poll' = [poll EXCEPT ![w] = PollIdle] /\ w \in Workers /\ w # NoWorker
        /\ \A i \in Jobs : exec[i].at # w => exec'[i] = exec[i]
        /\ \A i \in Jobs : exec[i].at = w => exec'[i].pc = "exit"
    BY <1>8, InitialExecutions, WorkersAssumption DEF ProcessDies
  <2>2. Calm
    BY <2>1 DEF ExitInv, IdleAt, Calm, CalmExec, CalmRow, SameOwner, rows
  <2>3. \A v \in Workers : /\ v = w => mode'[v] = "down" /\ poll'[v] = PollIdle
                           /\ v # w => mode'[v] = mode[v] /\ poll'[v] = poll[v]
    BY <1>0, <2>1 DEF TypeOK
  <2>4. OwnerHolds' /\ Drained'
    <3>1. Drained'
      BY <2>3 DEF ExitInv, Drained
    <3>2. OwnerHolds'
      BY <2>1, <2>3 DEF ExitInv, OwnerHolds, Held, Alive, rows
    <3> QED BY <3>1, <3>2
  <2> QED BY <1>4, <2>1, <2>2, <2>4
<1> QED BY <1>1, <1>2, <1>3, <1>5, <1>6, <1>7, <1>8 DEF Environment

LEMMA InitExit == Init => ExitInv
<1> SUFFICES ASSUME Init PROVE ExitInv OBVIOUS
<1>1. \A j \in Jobs : exec[j] = NotStarted /\ job[j] \in {QueuedRow, NoRow}
  BY DEF Init
<1>2. OwnerHolds
  BY <1>1 DEF OwnerHolds, Held, HeldStatus, QueuedRow, NoRow
<1>3. Drained /\ IdleAt
  BY <1>1 DEF Init, Drained, IdleAt, NotStarted
<1>4. live \subseteq {0} /\ \A j \in Jobs : exec[j].pc = "idle"
  BY <1>1 DEF Init, NotStarted
<1>5. Unopened
  BY <1>4 DEF Unopened, Jobs
<1>6. ExitEvidenceSound
  BY <1>1, <1>4 DEF ExitEvidenceSound, QueuedRow, NoRow, Jobs
<1>7. UnprovenConfirmed
  BY <1>4 DEF UnprovenConfirmed, Unproven, Init, Jobs
<1>8. LegacyKnown
  BY DEF Init, LegacyKnown
<1> QED BY <1>2, <1>3, <1>5, <1>6, <1>7, <1>8, RowInit DEF ExitInv

LEMMA NextExit == ASSUME ExitInv, [Next]_vars PROVE ExitInv'
<1>1. CASE UNCHANGED vars
  <2>1. UNCHANGED <<rows, local>>
    BY <1>1 DEF vars
  <2>2. OwnerHolds' /\ Drained' /\ LegacyKnown'
    BY <2>1 DEF ExitInv, OwnerHolds, Held, Alive, Drained, LegacyKnown, rows, local
  <2> QED BY <2>1, <2>2, StillCalm, Rest DEF rows, local
<1> QED BY <1>1, ClientExit, RunnerExit, ExecutorExit, EnvironmentExit DEF Next

LEMMA ExitInvariance == Spec => []ExitInv
  BY InitExit, NextExit, PTL DEF Spec

-----------------------------------------------------------------------------
(* A run that says passed has passed all its nodes.                        *)

\* An executor that reports "passed" has read it, and the run cannot change it back.
PassedMeans ==
    /\ run = "passed" => remaining = 0
    /\ \A j \in Jobs : exec[j].pc = "return" /\ exec[j].val = "passed" => run = "passed"

PassInv == Inv /\ PassedMeans /\ DoneSessionPassed

\* The run becomes passed in the write that follows the last node, and no other.
LEMMA PassedBy ==
  ASSUME Inv, [Next]_vars, run # "passed", run' = "passed"
  PROVE  \E j \in Jobs : Finish(j)
<1> USE DEF Inv
<1>1. IfActive("running") # "passed" /\ IfActive("paused") # "passed" /\ IfActive("failed") # "passed"
      /\ IfActive("blocked") # "passed" /\ IfActive("interrupted") # "passed"
      /\ IfActive("cancelled") # "passed" /\ IfActive(run) # "passed"
  BY DEF IfActive
<1>2. ~Client
  BY <1>1 DEF Client, PauseRun, PauseJob, CancelRun, CancelJob, CancelObserved, DecideGate, Cas,
              Resume, ResumeConfirmed, Enqueue, ReuseAdmission
<1>3. \A w \in Workers : ~Runner(w)
  BY <1>1 DEF Runner, SyncAndRecover, ReconcileCancelledRuns, SelectJob, ClaimJob, InterruptJob, rows
<1>4. ~Environment
  BY <1>1 DEF Environment, LeaseExpires, SpawnProcess, ProcessCloses, StopBegins, StopEscalates,
              StopFinishes, ProcessDies, InterruptJob, rows
<1>5. \A j \in Jobs : Executor(j) => Finish(j)
  BY <1>1 DEF Executor, Fenced, BeginTurn, BeginTurnFails, ResumeRun, StandDown, SettlePaused,
              EnterNode, RefuseNode, NodePasses, NodeStops, NodeAborts, ReadBack, Checkpoint,
              TerminalWriteExhausted, Conclude, ConcludeError, Settle, SettleFails, Heartbeat,
              WriteTerminal, Cas
<1>6. ~UNCHANGED vars
  BY DEF vars, rows
<1> QED BY <1>2, <1>3, <1>4, <1>5, <1>6 DEF Next

\* Nodes that have passed stay passed.
LEMMA RemainingStays ==
  ASSUME Inv, [Next]_vars, remaining = 0
  PROVE  remaining' = 0
<1> USE DEF Inv
<1>1. \A j \in Jobs : ~NodePasses(j)
  BY DEF NodePasses, Writes, At, NodesRemain, NodesLeft
<1>2. Client => remaining' = remaining
  BY DEF Client, PauseRun, PauseJob, CancelRun, CancelJob, CancelObserved, DecideGate,
         Resume, ResumeConfirmed, Enqueue, ReuseAdmission
<1>3. \A w \in Workers : Runner(w) => remaining' = remaining
  BY DEF Runner, SyncAndRecover, ReconcileCancelledRuns, SelectJob, ClaimJob, rows
<1>4. \A j \in Jobs : Executor(j) => remaining' = remaining
  BY <1>1 DEF Executor, Fenced, BeginTurn, BeginTurnFails, ResumeRun, StandDown, SettlePaused,
              EnterNode, RefuseNode, NodeStops, NodeAborts, ReadBack, Checkpoint, Finish,
              TerminalWriteExhausted, Conclude, ConcludeError, Settle, SettleFails, Heartbeat
<1>5. Environment => remaining' = remaining
  BY DEF Environment, LeaseExpires, SpawnProcess, ProcessCloses, StopBegins, StopEscalates,
         StopFinishes, ProcessDies, rows
<1>6. UNCHANGED vars => remaining' = remaining
  BY DEF vars, rows
<1> QED BY <1>2, <1>3, <1>4, <1>5, <1>6 DEF Next

\* An execution comes to report "passed" only by reading it.
LEMMA ReturnsPassed ==
  ASSUME Inv, [Next]_vars, NEW j \in Jobs, exec'[j].pc = "return", exec'[j].val = "passed"
  PROVE  (exec[j].pc = "return" /\ exec[j].val = "passed") \/ run' = "passed"
<1> USE DEF Inv
<1> SUFFICES ASSUME ~(exec[j].pc = "return" /\ exec[j].val = "passed") PROVE run' = "passed"
  OBVIOUS
<1>1. ~SamePlace(j)
  BY DEF SamePlace
<1>2. ASSUME NEW i \in Jobs, NEW pc, NEW v, Goto(i, pc, v) PROVE pc = "return" /\ v = "passed"
  <2>1. i # j => exec'[j] = exec[j]
    BY <1>2 DEF Goto, TypeOK
  <2>2. i = j
    BY <1>1, <2>1 DEF SamePlace
  <2>3. exec'[j].pc = pc /\ exec'[j].val = v
    BY <1>2, <2>2 DEF Goto, TypeOK, Execution
  <2> QED BY <2>3
<1>3. ASSUME NEW i \in Jobs, NEW to, NEW pc, WriteTerminal(i, to, pc) PROVE run' = "passed"
  BY <1>2, <1>3 DEF WriteTerminal
<1>4. ASSUME NEW i \in Jobs, Executor(i) PROVE run' = "passed"
  <2>1. CASE StandDown(i) \/ NodeAborts(i) \/ Finish(i)
    BY <1>2, <1>3, <2>1 DEF StandDown, NodeAborts, Finish
  <2>2. CASE SettlePaused(i)
    BY <1>2, <2>2 DEF SettlePaused
  <2>3. CASE ReadBack(i)
    BY <1>2, <2>3 DEF ReadBack
  <2>4. CASE Settle(i) \/ Heartbeat(i)
    <3>1. exec'[j] = exec[j] \/ exec'[j] = Gone \/ exec'[j] = Lost(exec[j])
      BY <2>4 DEF Settle, Heartbeat, TypeOK
    <3>2. SamePlace(j) \/ exec'[j].pc = "exit"
      BY <3>1, LostFact, InitialExecutions DEF SamePlace, TypeOK
    <3> QED BY <1>1, <3>2
  <2>5. CASE ConcludeError(i)
    BY <1>2, <2>5 DEF ConcludeError
  <2>6. CASE Fenced(i) \/ BeginTurn(i) \/ BeginTurnFails(i) \/ ResumeRun(i) \/ EnterNode(i)
             \/ RefuseNode(i) \/ NodePasses(i) \/ NodeStops(i) \/ Checkpoint(i)
             \/ TerminalWriteExhausted(i) \/ Conclude(i) \/ SettleFails(i)
    BY <1>2, <2>6 DEF Fenced, BeginTurn, BeginTurnFails, ResumeRun, EnterNode, RefuseNode,
         NodePasses, NodeStops, Checkpoint, TerminalWriteExhausted, Conclude, SettleFails
  <2> QED BY <1>4, <2>1, <2>2, <2>3, <2>4, <2>5, <2>6 DEF Executor
<1>5. ~Client
  <2>1. PauseRun \/ CancelRun \/ CancelObserved \/ ReuseAdmission \/ Resume
          \/ (\E to : DecideGate(to)) \/ (\E p : ResumeConfirmed(p)) => exec' = exec
    BY DEF PauseRun, CancelRun, CancelObserved, ReuseAdmission, Resume, DecideGate,
           ResumeConfirmed, Enqueue, local
  <2>2. \A i \in Jobs, here \in BOOLEAN : PauseJob(i, here) => SamePlace(j)
    BY DEF PauseJob, SamePlace, TypeOK, Execution
  <2>3. \A c \in Workers \cup {NoWorker} : CancelJob(c) => SamePlace(j)
    BY RequestCancelFact DEF CancelJob
  <2> QED BY <1>1, <2>1, <2>2, <2>3 DEF Client, SamePlace
<1>6. ASSUME NEW w \in Workers PROVE ~Runner(w)
  <2>1. SyncAndRecover(w) => SamePlace(j) \/ exec'[j].pc = "exit"
    BY RelayedFact DEF SyncAndRecover, SamePlace
  <2>2. ReconcileCancelledRuns(w) => SamePlace(j)
    BY RequestCancelFact DEF ReconcileCancelledRuns, ActiveJobs, SamePlace
  <2>3. SelectJob(w) => SamePlace(j)
    BY DEF SelectJob, SamePlace
  <2>4. ClaimJob(w) => SamePlace(j) \/ exec'[j].pc = "start"
    <3>1. ClaimJob(w) => exec'[j] = exec[j] \/ exec'[j] = Started(w)
      BY DEF ClaimJob, TypeOK
    <3> QED BY <3>1, InitialExecutions DEF SamePlace
  <2> QED BY <1>1, <2>1, <2>2, <2>3, <2>4 DEF Runner
<1>7. ~Environment
  <2>1. \A w \in Mortal : StopEscalates(w) => SamePlace(j)
    BY SignalledFact DEF StopEscalates, SamePlace, TypeOK
  <2>2. \A w \in Mortal : StopFinishes(w) \/ ProcessDies(w) => SamePlace(j) \/ exec'[j].pc = "exit"
    <3>1. ASSUME NEW w \in Mortal, StopFinishes(w) PROVE SamePlace(j) \/ exec'[j].pc = "exit"
      BY <3>1, InitialExecutions DEF StopFinishes, SamePlace, TypeOK, Execution
    <3>2. ASSUME NEW w \in Mortal, ProcessDies(w) PROVE SamePlace(j) \/ exec'[j].pc = "exit"
      BY <3>2, InitialExecutions DEF ProcessDies, SamePlace, TypeOK
    <3> QED BY <3>1, <3>2
  <2> QED BY <1>1, <2>1, <2>2
             DEF Environment, LeaseExpires, SpawnProcess, ProcessCloses, StopBegins, SamePlace, local
<1>8. ~UNCHANGED vars
  BY <1>1 DEF vars, local, SamePlace
<1> QED BY <1>4, <1>5, <1>6, <1>7, <1>8 DEF Next

\* A session comes to say done only when an execution reports "passed".
LEMMA SessionDone ==
  ASSUME Inv, [Next]_vars, session' = "done"
  PROVE  session = "done" \/ \E j \in Jobs : exec[j].pc = "return" /\ exec[j].val = "passed"
<1> SUFFICES ASSUME session # "done"
             PROVE  \E j \in Jobs : exec[j].pc = "return" /\ exec[j].val = "passed"
  OBVIOUS
<1>1. ~Client
  BY DEF Client, PauseRun, PauseJob, CancelRun, CancelJob, CancelObserved, DecideGate,
         Resume, ResumeConfirmed, Enqueue, ReuseAdmission, ReconcileCancelledRun
<1>2. \A w \in Workers : ~Runner(w)
  BY DEF Runner, SyncAndRecover, ReconcileCancelledRuns, SelectJob, ClaimJob, InterruptJob,
         ReconcileCancelledRun, rows
<1>3. ~Environment
  BY DEF Environment, LeaseExpires, SpawnProcess, ProcessCloses, StopBegins, StopEscalates,
         StopFinishes, ProcessDies, InterruptJob, rows
<1>4. ~UNCHANGED vars
  BY DEF vars, rows
<1>5. PICK j \in Jobs : Executor(j)
  BY <1>1, <1>2, <1>3, <1>4 DEF Next
<1>6. Conclude(j)
  BY <1>5 DEF Executor, Fenced, BeginTurn, BeginTurnFails, ResumeRun, StandDown, SettlePaused,
       EnterNode, RefuseNode, NodePasses, NodeStops, NodeAborts, ReadBack, Checkpoint, Finish,
       TerminalWriteExhausted, ConcludeError, Settle, SettleFails, Heartbeat
<1>7. exec[j].pc = "return" /\ session' = SessionFor(Reported(j, exec[j].val))
  BY <1>6 DEF Conclude, Writes, At
<1>8. Reported(j, exec[j].val) = "passed"
  BY <1>7 DEF SessionFor
<1>9. exec[j].val = "passed"
  BY <1>8 DEF Reported
<1> QED BY <1>7, <1>9

LEMMA PassKeeps == ASSUME PassInv, [Next]_vars PROVE PassInv'
<1> USE DEF PassInv, PassedMeans, DoneSessionPassed
<1>1. Inv'
  BY NextInv
<1>2. run = "passed" => run' = "passed" /\ remaining' = 0
  BY TerminalStays, RemainingStays DEF TerminalRun
<1>3. run # "passed" /\ run' = "passed" => remaining' = 0
  <2> SUFFICES ASSUME run # "passed", run' = "passed" PROVE remaining' = 0
    OBVIOUS
  <2>1. PICK j \in Jobs : Finish(j)
    BY PassedBy
  <2> QED BY <2>1 DEF Finish, NodesLeft, Inv, TypeOK
<1>4. PassedMeans'
  BY <1>2, <1>3, ReturnsPassed
<1>5. DoneSessionPassed'
  BY <1>2, <1>3, SessionDone
<1> QED BY <1>1, <1>4, <1>5

-----------------------------------------------------------------------------
(* The theorems.                                                           *)

\* A job that claims a proof of exit has no managed process left, and "never-started"
\* is said only of a job no process has claimed.
THEOREM ExitEvidenceTrue == Spec => []ExitEvidenceSound
  BY ExitInvariance, PTL DEF ExitInv

\* Processes of an older generation run beside a claimed newer one only if a human
\* confirmed, for some generation from the older on, that it had stopped.
THEOREM OverlapConfirmed == Spec => []OverlapWasConfirmed
<1>1. ExitInv => OverlapWasConfirmed
  <2> SUFFICES ASSUME ExitInv, NEW i \in live, NEW j \in Jobs, i < j, exec[j].pc # "idle"
               PROVE  \E k \in confirmed : i <= k /\ k < j
    BY DEF OverlapWasConfirmed
  <2>1. j <= njobs /\ i \in 0..MaxJobs
    BY BegunOpened DEF ExitInv, RowInv, Inv, TypeOK
  <2> QED BY <2>1 DEF ExitInv, UnprovenConfirmed, Unproven, Confirmed
<1> QED BY <1>1, ExitInvariance, PTL

\* Once stop() has returned, the process owns no job that counts as being executed.
THEOREM StoppedOwns == Spec => []StoppedOwnsNothing
<1>1. ExitInv => StoppedOwnsNothing
  BY DEF ExitInv, OwnerHolds, Alive, StoppedOwnsNothing
<1> QED BY <1>1, ExitInvariance, PTL

\* A session shown as done belongs to a run that passed with all its nodes.
THEOREM DonePassed == Spec => []DoneSessionPassed
<1>1. Init => PassInv
  <2>1. Init => run # "passed" /\ session # "done" /\ \A j \in Jobs : exec[j].pc # "return"
    BY OriginsAssumption, InitialExecutions DEF Init
  <2> QED BY <2>1, InitInv DEF PassInv, PassedMeans, DoneSessionPassed
<1>2. PassInv => DoneSessionPassed
  BY DEF PassInv
<1> QED BY <1>1, <1>2, PassKeeps, PTL DEF Spec
=============================================================================
