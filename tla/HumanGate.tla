------------------------------ MODULE HumanGate ------------------------------
(***************************************************************************)
(* A node's human gate (packages/core/src/gate/human-gate.ts and the       *)
(* approvals of the CLI and the Web): an executor that asks, and people    *)
(* that decide, resume and cancel from other processes.  Asking is a gate  *)
(* result, a decision, the node's status and the run's, written one after  *)
(* the other; deciding is the decision by compare-and-set and then three   *)
(* or four more writes, none of which looks at what it overwrites.  Both   *)
(* may end after any of them, and anything may happen between two.         *)
(*                                                                         *)
(* Grain: one write.  A transition that the engine checks is two steps     *)
(* (Judge, and the write), since nothing holds the row between them.  What *)
(* executeNode reads before its first write is one look; the run, the role *)
(* run and the lease of a start are one write.  The run has one job at a   *)
(* time (JobControl).                                                      *)
(***************************************************************************)
EXTENDS Naturals, Sequences

CONSTANTS Deciders,     \* callers that approve or reject, each in a process of its own
          MaxFaults,    \* bound: failures, deaths, rejections, hasty approvals and resumes
          MaxAsked      \* bound: how often the gate asks

ASSUME BoundsAssumption == MaxFaults \in Nat /\ MaxAsked \in Nat

VARIABLES
    run,       \* workflow_instances.status
    node,      \* nodes.status
    agent,     \* whether the latest role run of the node completed
    lease,     \* whether the node has an open worktree lease
    asked,     \* the gate's results in their order, each with its human decision
    ex,        \* the execution of the run's job
    call,      \* what a decider is doing
    faults     \* how many of them have happened

vars == <<run, node, agent, lease, asked, ex, call, faults>>
work == <<agent, lease>>

Over == {"passed", "failed", "cancelled"}
IfActive(to) == IF run \in Over THEN run ELSE to

Question == [decision : {"none", "pending", "approved", "rejected"},
             result : {"blocked", "passed", "failed"}]
Idle == [pc |-> "idle", path |-> "cli", verdict |-> "approved", of |-> 0]

Init ==
    /\ run = "running" /\ node = "pending"
    /\ agent = FALSE /\ lease = FALSE
    /\ asked = <<>>
    /\ ex = "enter"
    /\ call = [c \in Deciders |-> Idle]
    /\ faults = 0

Fault == faults < MaxFaults /\ faults' = faults + 1

-----------------------------------------------------------------------------
(* The executor: node-executor.ts and gate-runner.ts for this node.        *)

Ends == ex' = "none"
Continues(pc) == ex' = pc /\ UNCHANGED run
Throws == Ends /\ UNCHANGED <<run, node>>

\* The node is left interrupted, and then the run.
Interrupts == Continues("failing") /\ UNCHANGED node

InterruptNode ==
    /\ ex = "failing"
    /\ node' = "interrupted"
    /\ Continues("interrupted")
    /\ UNCHANGED <<work, asked, call, faults>>

StopRun ==
    /\ ex = "interrupted"
    /\ run' = IfActive("interrupted")
    /\ Ends
    /\ UNCHANGED <<node, work, asked, call, faults>>

\* engine.ts, resumeRun.
Claim ==
    /\ ex = "queued"
    /\ run' = IfActive("running")
    /\ ex' = IF run \in Over THEN "none" ELSE "enter"
    /\ UNCHANGED <<node, work, asked, call, faults>>

AtGates ==
    \/ node = "awaiting-gate"
    \/ lease /\ agent /\ node \in {"paused", "running"}

\* What executeNode makes of the node, its lease and its latest role run.
Enter ==
    /\ ex = "enter"
    /\ Continues(IF node = "passed" THEN "rest"
                 ELSE IF lease /\ node = "running" /\ ~agent THEN "failing"
                 ELSE IF node = "awaiting-gate" THEN "reopened"
                 ELSE IF AtGates THEN "reopen"
                 ELSE "start")
    /\ UNCHANGED <<node, work, asked, call, faults>>

\* A paused node becomes running and awaiting-gate at once: nobody looks in between.
Reopen ==
    /\ ex = "reopen"
    /\ node' = "awaiting-gate"
    /\ Continues("reopened")
    /\ UNCHANGED <<work, asked, call, faults>>

Reopened ==
    /\ ex = "reopened"
    /\ run' = IfActive("running")
    /\ ex' = "gate"
    /\ UNCHANGED <<node, work, asked, call, faults>>

\* checkedTransitionNode: read the node and judge; write it in a statement of its own.
Judge(legal, pc) ==
    /\ IF node \in legal THEN Continues(pc) /\ UNCHANGED node ELSE Throws
    /\ UNCHANGED <<work, asked, call, faults>>

Startable == {"pending", "needs-revision", "blocked", "paused", "interrupted"}
Start == ex = "start" /\ Judge(Startable, "starting")

StartNode ==
    /\ ex = "starting"
    /\ node' = "running"
    /\ Continues("started")
    /\ UNCHANGED <<work, asked, call, faults>>

\* The run, the role run and the lease.
Started ==
    /\ ex = "started"
    /\ run' = IfActive("running")
    /\ agent' = FALSE /\ lease' = TRUE
    /\ ex' = "agent"
    /\ UNCHANGED <<node, asked, call, faults>>

AgentCompletes ==
    /\ ex = "agent"
    /\ agent' = TRUE
    /\ Continues("await")
    /\ UNCHANGED <<node, lease, asked, call, faults>>

\* What the agent left is finalized, unless that fails too.
AgentFails ==
    /\ ex = "agent"
    /\ Fault
    /\ Interrupts
    /\ lease' \in BOOLEAN
    /\ UNCHANGED <<agent, asked, call>>

AwaitGate == ex = "await" /\ Judge({"running"}, "awaiting")

Await ==
    /\ ex = "awaiting"
    /\ node' = "awaiting-gate"
    /\ Continues("gate")
    /\ UNCHANGED <<work, asked, call, faults>>

\* A gate whose latest result passed is not run again.
Opens == asked # <<>> /\ asked[Len(asked)].result = "passed"

RunGate ==
    /\ ex = "gate"
    /\ \/ /\ Opens
          /\ Continues("final")
          /\ UNCHANGED <<node, asked>>
       \/ /\ ~Opens /\ lease /\ Len(asked) < MaxAsked
          /\ asked' = Append(asked, [decision |-> "none", result |-> "blocked"])
          /\ Continues("decide")
          /\ UNCHANGED node
       \/ /\ ~Opens /\ ~lease
          /\ Interrupts
          /\ UNCHANGED asked
    /\ UNCHANGED <<work, call, faults>>

\* requestHumanGate.
CreateDecision ==
    /\ ex = "decide"
    /\ IF run \in Over
       THEN Interrupts /\ UNCHANGED asked
       ELSE /\ asked' = [asked EXCEPT ![Len(asked)].decision = "pending"]
            /\ Continues("pause-node")
            /\ UNCHANGED node
    /\ UNCHANGED <<work, call, faults>>

PauseNode ==
    /\ ex = "pause-node"
    /\ node' = "paused"
    /\ Continues("pause-run")
    /\ UNCHANGED <<work, asked, call, faults>>

PauseRun ==
    /\ ex = "pause-run"
    /\ IF run \in Over
       THEN Interrupts
       ELSE run' = "paused" /\ ex' = "settle" /\ UNCHANGED node
    /\ UNCHANGED <<work, asked, call, faults>>

\* The engine reads the run back and the job is settled, whatever it says.
Settle ==
    /\ ex = "settle"
    /\ Throws
    /\ UNCHANGED <<work, asked, call, faults>>

Finalize ==
    /\ ex = "final"
    /\ lease' = FALSE
    /\ Continues("pass")
    /\ UNCHANGED <<node, agent, asked, call, faults>>

FinalizeFails ==
    /\ ex = "final" /\ lease
    /\ Fault
    /\ Interrupts
    /\ UNCHANGED <<work, asked, call>>

Pass == ex = "pass" /\ Judge({"running", "awaiting-gate"}, "passing")

WritePassed ==
    /\ ex = "passing"
    /\ node' = "passed"
    /\ Continues("rest")
    /\ UNCHANGED <<work, asked, call, faults>>

\* The nodes behind this one, and writeWorkflowTerminal.
Finish ==
    /\ ex = "rest"
    /\ run' = IF run = "running" THEN "passed" ELSE run
    /\ Ends
    /\ UNCHANGED <<node, work, asked, call, faults>>

\* The process dies or loses its job, and the job is interrupted.
Crash ==
    /\ ex # "none"
    /\ Fault
    /\ run' = IfActive("interrupted")
    /\ Ends
    /\ UNCHANGED <<node, work, asked, call>>

-----------------------------------------------------------------------------
(* People.                                                                 *)

\* enqueueIfNoActiveByRunId and its hand-off.
Enqueue ==
    /\ ex = "none" /\ run \notin Over
    /\ ex' = "queued"
    /\ node' = IF node = "running" /\ ~agent THEN "interrupted" ELSE node

\* Mutant: a gate result nobody has answered counts as a pending decision.
Pending_ByResult == \E i \in DOMAIN asked : asked[i].result = "blocked"

Pending == \E i \in DOMAIN asked : asked[i].decision = "pending"
Quiet == \A c \in Deciders : call[c].pc = "idle"

\* A resume refuses while a decision is pending.  One that does not wait for a call
\* under way is counted.
Resume ==
    /\ ~Pending
    /\ Enqueue
    /\ IF Quiet THEN UNCHANGED faults ELSE Fault
    /\ UNCHANGED <<run, work, asked, call>>

Cancel ==
    /\ run \notin Over
    /\ run' = "cancelled"
    /\ UNCHANGED <<node, work, asked, ex, call, faults>>

At(c, pc) == call[c].pc = pc
Goto(c, pc) == call' = [call EXCEPT ![c].pc = pc]
Done(c) == call' = [call EXCEPT ![c] = Idle]
Approves(c) == call[c].verdict = "approved"

\* What a call checks first; the Web also refuses while a job is active.
Begin(c, path, verdict, d) ==
    /\ call[c] = Idle
    /\ asked[d].decision = "pending"
    /\ run \notin Over
    /\ path = "web" => ex = "none"
    /\ call' = [call EXCEPT ![c] = [pc |-> "decide", path |-> path, verdict |-> verdict, of |-> d]]
    /\ UNCHANGED <<run, node, work, asked, ex>>

\* Nothing is under way, and this is the newest question.
Patiently(d) ==
    /\ ex = "none" /\ Quiet
    /\ \A i \in DOMAIN asked : asked[i].decision = "pending" => i <= d
Approve(c, path, d) == Begin(c, path, "approved", d) /\ Patiently(d) /\ UNCHANGED faults
ApproveHastily(c, path, d) == Begin(c, path, "approved", d) /\ ~Patiently(d) /\ Fault
Reject(c, path, d) == Begin(c, path, "rejected", d) /\ Fault

\* Mutant: whoever comes last decides.
Decide_Overwrites(c) ==
    /\ At(c, "decide")
    /\ asked' = [asked EXCEPT ![call[c].of].decision = call[c].verdict]
    /\ Goto(c, "result")
    /\ UNCHANGED <<run, node, work, ex, faults>>

\* updateHumanDecision, if the decision is still pending.
Decide(c) ==
    /\ At(c, "decide")
    /\ IF asked[call[c].of].decision = "pending"
       THEN /\ asked' = [asked EXCEPT ![call[c].of].decision = call[c].verdict]
            /\ Goto(c, "result")
       ELSE Done(c) /\ UNCHANGED asked
    /\ UNCHANGED <<run, node, work, ex, faults>>

\* Mutant: the verdict itself is written as the gate's result.
WriteResult_Verdict(c) ==
    /\ At(c, "result")
    /\ asked' = [asked EXCEPT ![call[c].of].result = call[c].verdict]
    /\ Goto(c, "node")
    /\ UNCHANGED <<run, node, work, ex, faults>>

WriteResult(c) ==
    /\ At(c, "result")
    /\ asked' = [asked EXCEPT ![call[c].of].result = IF Approves(c) THEN "passed" ELSE "failed"]
    /\ Goto(c, "node")
    /\ UNCHANGED <<run, node, work, ex, faults>>

WriteNode(c) ==
    /\ At(c, "node")
    /\ node' = IF Approves(c) THEN "running" ELSE "blocked"
    /\ Goto(c, IF Approves(c) /\ call[c].path = "web" THEN "await" ELSE "run")
    /\ UNCHANGED <<run, work, asked, ex, faults>>

\* setActiveStatus; the Web's rejection blocks the run only if it is still paused.
WriteRun(c) ==
    /\ At(c, "run")
    /\ run' = IF Approves(c) THEN IfActive("running")
              ELSE IF call[c].path = "cli" \/ run = "paused" THEN IfActive("blocked") ELSE run
    /\ IF Approves(c) /\ run \notin Over THEN Goto(c, "await") ELSE Done(c)
    /\ UNCHANGED <<node, work, asked, ex, faults>>

WriteAwait(c) ==
    /\ At(c, "await")
    /\ node' = "awaiting-gate"
    /\ Goto(c, "resume")
    /\ UNCHANGED <<run, work, asked, ex, faults>>

\* resumeRun after an approval does not look at other decisions.
ResumeAfter(c) ==
    /\ At(c, "resume")
    /\ \/ Enqueue
       \/ (ex # "none" \/ run \in Over) /\ UNCHANGED <<ex, node>>
    /\ Done(c)
    /\ UNCHANGED <<run, work, asked, faults>>

\* A write fails, or the process dies: the rest of the call is not done.
CallEnds(c) ==
    /\ call[c] # Idle
    /\ Fault
    /\ Done(c)
    /\ UNCHANGED <<run, node, work, asked, ex>>

-----------------------------------------------------------------------------
Execution ==
    \/ Claim \/ Enter \/ InterruptNode \/ Reopen \/ Reopened \/ Start \/ StartNode \/ Started
    \/ AgentCompletes \/ AwaitGate \/ Await \/ RunGate \/ CreateDecision \/ PauseNode
    \/ PauseRun \/ Settle \/ Finalize \/ Pass \/ WritePassed \/ Finish \/ StopRun

CallStep(c) ==
    Decide(c) \/ WriteResult(c) \/ WriteNode(c) \/ WriteRun(c) \/ WriteAwait(c) \/ ResumeAfter(c)

Approval == \E c \in Deciders, d \in DOMAIN asked, path \in {"cli", "web"} : Approve(c, path, d)

Next ==
    \/ Execution
    \/ AgentFails \/ FinalizeFails \/ Crash
    \/ Resume \/ Cancel
    \/ Approval
    \/ \E c \in Deciders : \/ \E d \in DOMAIN asked, path \in {"cli", "web"} : Reject(c, path, d) \/ ApproveHastily(c, path, d)
                           \/ CallStep(c) \/ CallEnds(c)

Spec == Init /\ [][Next]_vars

\* The job goes on and calls go on; and somebody patient keeps approving and resuming.
FairSpec ==
    /\ Spec
    /\ WF_vars(Execution)
    /\ WF_vars(Approval) /\ WF_vars(Resume)
    /\ \A c \in Deciders : WF_vars(CallStep(c))

-----------------------------------------------------------------------------
\* Every variable has its type, and every call speaks of a question within the bound.
TypeOK ==
    /\ run \in {"running", "paused", "blocked", "interrupted"} \cup Over
    /\ node \in {"pending", "running", "awaiting-gate", "passed", "blocked", "paused", "interrupted"}
    /\ agent \in BOOLEAN /\ lease \in BOOLEAN
    /\ asked \in Seq(Question) /\ Len(asked) <= MaxAsked
    /\ ex \in {"none", "queued", "enter", "failing", "reopen", "reopened", "start", "starting",
               "started", "agent", "await", "awaiting", "gate", "decide", "pause-node",
               "pause-run", "settle", "final", "pass", "passing", "rest", "interrupted"}
    /\ call \in [Deciders -> [pc : {"idle", "decide", "result", "node", "run", "await", "resume"},
                              path : {"cli", "web"}, verdict : {"approved", "rejected"},
                              of : 0..MaxAsked]]
    /\ faults \in 0..MaxFaults

\* A node with a human gate passes only if a person approved the question that was asked
\* last, through deaths between any two writes, two people deciding at once from the CLI
\* and the Web, decisions on older questions, and resumes in between.
PassesOnlyApproved ==
    [][node # "passed" /\ node' = "passed"
       => asked # <<>> /\ asked[Len(asked)].decision = "approved"]_vars

\* A node whose work is promoted and whose lease is released is running again: an
\* approval that was overtaken by a resume has set it back, or a death has stopped its
\* second start before the role run.  Every resume refuses to start it.
Wedged == node = "running" /\ agent /\ ~lease

\* However often asking, deciding, resuming and executing are cut short between two of
\* their writes, and whatever hasty approvals and resumes do meanwhile: once people are
\* patient, approving what is asked and resuming what stopped ends the run.  (Or the node
\* is wedged; README.)
ApprovedRunEnds == <>[](run \in Over \/ Wedged)
=============================================================================
