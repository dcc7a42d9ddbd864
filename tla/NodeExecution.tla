---------------------------- MODULE NodeExecution ----------------------------
(***************************************************************************)
(* One node of a run and its auto-fix gate, executed by a succession of    *)
(* executors in Git worktrees: workflow/node-executor.ts, gate-runner.ts,  *)
(* lease-service.ts and runtime/worktree-manager.ts.  An executor owns the *)
(* run's job until it ends or loses it; the fence of JobControl refuses    *)
(* every later write of its to the database, and nothing refuses its Git   *)
(* commands.  A new executor finds its way from what is durable: the       *)
(* node's status, the latest role run, the leases, the gate results and    *)
(* the audit events.                                                       *)
(*                                                                         *)
(* A commit is the set of the changes it contains.  Two writes of one      *)
(* executor are one step where an executor that finds only the first one   *)
(* done does what it does when it finds both.                              *)
(***************************************************************************)
EXTENDS Naturals, Sequences, FiniteSets, SequencesExt

CONSTANTS
    Executors,     \* the executions of the run's successive jobs
    Nobody,        \* no executor
    MaxAttempts,   \* the gate's maxRetries
    MaxLeases,     \* bound: worktree leases
    MaxChanges,    \* bound: changes made by agents
    MaxResults     \* bound: gate results

ASSUME NobodyAssumption == Nobody \notin Executors
ASSUME BoundsAssumption == {MaxAttempts, MaxLeases, MaxChanges, MaxResults} \subseteq Nat

VARIABLES
    owner,     \* the executor that owns the run's job
    node,      \* the node's status
    agent,     \* the status of its latest role run
    mayChange, \* whether the node declares code-changes
    events,    \* the audit events that recovery reads
    results,   \* the gate's results, each with what the gate saw and its repair node
    leases,    \* the lease rows and their worktrees
    branch,    \* the head of the run's branch
    changes,   \* how many changes agents have made
    overlap,   \* history: a job was started while an executor of an earlier one still ran
    ex         \* the executors

vars == <<owner, node, agent, mayChange, events, results, leases, branch, changes, overlap, ex>>

-----------------------------------------------------------------------------
Source == 0    \* the node; its repair nodes are named by the failed result

Statuses == {"pending", "running", "awaiting-gate", "passed", "needs-revision",
             "blocked", "paused", "failed", "interrupted"}
RoleRuns == {"none", "running", "passed", "interrupted"}
RepairStatuses == {"absent", "running", "passed", "interrupted"}
EventTypes == {"created", "intent", "failed", "promoted", "released"}

Event(type, of) == [type |-> type, of |-> of]

\* DurableCalls are the steps that begin with a write to the database.
DurableCalls ==
    {"enter", "role-run", "lease", "record-lease", "agent", "await", "gate", "recheck", "intent",
     "revise", "create-repair", "repair", "repaired", "repair-failed", "exhausted",
     "record-promotion", "release", "record-release", "give-up", "pass"}
GitCalls == {"commit", "promote", "remove"}
PCs == DurableCalls \cup GitCalls \cup {"idle", "final", "done"}

Backs == {"agent", "repair", "fallback", "final"}

Fresh == [pc |-> "idle", abort |-> "no", lease |-> 0, of |-> Source, alias |-> 0,
          attempt |-> 0, wrote |-> FALSE, back |-> "agent"]

Go(e, pc) == ex' = [ex EXCEPT ![e].pc = pc]
Lives(e) == ex[e].pc \notin {"idle", "done"}

\* The executor ends and its job is settled.
Ends(e) ==
    /\ ex' = [ex EXCEPT ![e] = [Fresh EXCEPT !.pc = "done"]]
    /\ owner' = IF owner = e THEN Nobody ELSE owner

-----------------------------------------------------------------------------
(* What recovery makes of the durable records                              *)

Open(n) == {l \in DOMAIN leases : leases[l].node = n /\ ~leases[l].released}

\* The indices of the events that created a lease of n, and of the repair intents.
CreatedAt(n) ==
    {i \in DOMAIN events : events[i].type = "created" /\ leases[events[i].of].node = n}
Intents == {i \in DOMAIN events : events[i].type = "intent"}
Latest(S) == IF S = {} THEN 0 ELSE Max(S)

\* The lease that was last created for n, according to the events.
LastCreated(n) == {events[i].of : i \in {Latest(CreatedAt(n))} \ {0}}
Disagrees(n) ==
    \/ Cardinality(Open(n)) > 1
    \/ Cardinality(Open(n)) = 1 /\ LastCreated(n) \notin {{}, Open(n)}

\* The last repair intent counts if it is later than the node's own last lease,
\* which is closed, and the node is at its gates.
IntentCounts ==
    /\ Open(Source) = {}
    /\ node \in {"awaiting-gate", "running", "paused"}
    /\ Latest(Intents) > Latest(CreatedAt(Source))
IntendedRepair == events[Latest(Intents)].of

\* Mutant: recovery looks for the node's own lease only.
ExecutionNodeIsSource == Source

\* The node whose lease the work is in.
ExecutionNode ==
    IF IntentCounts /\ results[IntendedRepair].repair # "absent" THEN IntendedRepair ELSE Source

Identified ==
    /\ ~Disagrees(Source)
    /\ ExecutionNode # Source => results[ExecutionNode].repair = "passed"
    /\ ~Disagrees(ExecutionNode)

\* activeExecutionLease throws if ~CanLookUp(e), and else returns one of Active(e), if any.
CanLookUp(e) == ex[e].alias # 0 \/ Identified
Active(e) == IF ex[e].alias # 0 THEN {ex[e].alias} ELSE Open(ExecutionNode)

\* The latest execution's lease is released, and its promotion and its release were
\* recorded, in this order.
FinalizedEvidence ==
    LET finalized == {l \in DOMAIN leases : /\ leases[l].node = ExecutionNode
                                            /\ leases[l].released
                                            /\ LastCreated(ExecutionNode) \in {{}, {l}}}
    IN  /\ Cardinality(finalized) = 1
        /\ \E l \in finalized : \E i, k \in DOMAIN events :
               i < k /\ events[i] = Event("promoted", l) /\ events[k] = Event("released", l)

\* A lease made after a failed repair, and not yet marked as at its gate.
PendingFallback ==
    LET failed == Latest({i \in DOMAIN events : events[i].type = "failed"})
        created == Latest(CreatedAt(Source))
    IN  failed > 0 /\ created > failed /\ created > Latest(Intents)

AtGates ==
    \/ node = "awaiting-gate"
    \/ node \in {"running", "paused"} /\ agent = "passed" /\ Open(ExecutionNode) # {}
    \/ node = "needs-revision" /\ agent = "passed" /\ Open(Source) # {} /\ PendingFallback

PassedBefore == results # <<>> /\ Last(results).passed

-----------------------------------------------------------------------------
Init ==
    /\ owner = Nobody
    /\ node = "pending"
    /\ agent = "none"
    /\ mayChange \in BOOLEAN
    /\ events = <<>>
    /\ results = <<>>
    /\ leases = <<>>
    /\ branch = {}
    /\ changes = 0
    /\ overlap = FALSE
    /\ ex = [e \in Executors |-> Fresh]

durable == <<node, agent, events, results>>
git == <<leases, branch, changes>>
fixed == <<mayChange, overlap>>

(***************************************************************************)
(* Jobs, aborts and deaths                                                 *)
(***************************************************************************)

\* A job is created and claimed.  The hand-off of a resume interrupts role runs, and
\* the node unless its last agent completed.
Start(e) ==
    /\ owner = Nobody /\ ex[e].pc = "idle" /\ node # "passed"
    /\ owner' = e
    /\ node' = IF node = "running" /\ agent # "passed" THEN "interrupted" ELSE node
    /\ agent' = IF agent = "running" THEN "interrupted" ELSE agent
    /\ overlap' = (overlap \/ \E f \in Executors : Lives(f))
    /\ Go(e, "enter")
    /\ UNCHANGED <<mayChange, events, results, git>>

\* The lease of the job expires, or its process dies: the job is interrupted.
LoseJob ==
    /\ owner # Nobody
    /\ owner' = Nobody
    /\ UNCHANGED <<durable, fixed, git, ex>>

Crash(e) ==
    /\ Lives(e)
    /\ Ends(e)
    /\ UNCHANGED <<durable, fixed, git>>

\* The executor's signal is aborted: it is told that the job is lost, or that it is to
\* stop (shutdown, cancellation).
Abort(e) ==
    /\ Lives(e) /\ ex[e].abort = "no"
    /\ ex' = [ex EXCEPT ![e].abort = IF owner = e THEN "stop" ELSE "lost"]
    /\ UNCHANGED <<owner, durable, fixed, git>>

\* The write of an executor that has lost its job is refused, and so are the ones by
\* which it would report that.
Refused(e) ==
    /\ owner # e
    /\ ex[e].pc \in DurableCalls
    /\ Ends(e)
    /\ UNCHANGED <<durable, fixed, git>>

(***************************************************************************)
(* executeNode: up to the gates                                            *)
(***************************************************************************)

\* The executor resumes at the gates, or starts the node; it gives up if the records
\* contradict each other or the node is in no status to start from.  A running node
\* whose agent did not complete was interrupted by the hand-off.
Enter(e) ==
    /\ owner = e /\ ex[e].pc = "enter"
    /\ \/ /\ Identified /\ AtGates
          /\ node' = "awaiting-gate"
          /\ Go(e, "gate")
          /\ UNCHANGED owner
       \/ /\ Identified /\ ~AtGates
          /\ node \in {"pending", "interrupted", "needs-revision", "blocked"}
          /\ node' = "running"
          /\ ex' = [ex EXCEPT ![e].pc = "role-run",
                              ![e].lease = IF Open(Source) = {} THEN 0
                                           ELSE CHOOSE l \in Open(Source) : TRUE]
          /\ UNCHANGED owner
       \/ /\ \/ ~Identified
             \/ ~AtGates /\ node \in {"running", "paused", "failed"}
          /\ Ends(e)
          /\ UNCHANGED node
    /\ UNCHANGED <<agent, fixed, events, results, git>>

CreateRoleRun(e) ==
    /\ owner = e /\ ex[e].pc = "role-run"
    /\ agent' = "running"
    /\ Go(e, IF ex[e].lease = 0 THEN "lease" ELSE "agent")
    /\ UNCHANGED <<owner, node, fixed, events, results, git>>

\* createExecutionLease: a worktree of the head of the run's branch, for the node or
\* for a repair node.
CreateLease(e) ==
    /\ owner = e /\ ex[e].pc = "lease"
    /\ Len(leases) < MaxLeases
    /\ leases' = Append(leases, [node |-> ex[e].of, base |-> branch, head |-> branch,
                                 edits |-> {}, tree |-> TRUE, released |-> FALSE])
    /\ ex' = [ex EXCEPT ![e].pc = "record-lease", ![e].lease = Len(leases) + 1]
    /\ UNCHANGED <<owner, durable, fixed, branch, changes>>

\* Git refuses the worktree, or the main worktree is dirty.
CannotLease(e) ==
    /\ owner = e /\ ex[e].pc = "lease"
    /\ IF ex[e].of = Source
       THEN /\ node' = "interrupted"
            /\ Ends(e)
       ELSE /\ Go(e, "repair-failed")
            /\ UNCHANGED <<owner, node>>
    /\ UNCHANGED <<agent, events, results, fixed, git>>

\* The lease of a source after a failed repair is for the gate and not for an agent.
RecordLease(e) ==
    /\ owner = e /\ ex[e].pc = "record-lease"
    /\ events' = Append(events, Event("created", ex[e].lease))
    /\ ex' = [ex EXCEPT ![e].wrote = FALSE,
                        ![e].pc = IF ex[e].of # Source THEN "repair"
                                  ELSE IF ex[e].attempt > 0 THEN "repaired" ELSE "agent"]
    /\ UNCHANGED <<owner, node, agent, results, fixed, git>>

\* An agent at work changes files in its worktree, and may commit them.
Change(e) ==
    /\ ex[e].pc \in {"agent", "repair"} /\ ~ex[e].wrote /\ changes < MaxChanges
    /\ leases[ex[e].lease].tree
    /\ \E at \in {"edits", "head"} :
           leases' = [leases EXCEPT ![ex[e].lease][at] = @ \cup {changes + 1}]
    /\ changes' = changes + 1
    /\ ex' = [ex EXCEPT ![e].wrote = TRUE]
    /\ UNCHANGED <<owner, durable, fixed, branch>>

AgentSucceeds(e) ==
    /\ owner = e /\ ex[e].pc = "agent" /\ leases[ex[e].lease].tree
    /\ agent' = "passed"
    /\ Go(e, "await")
    /\ UNCHANGED <<owner, node, events, results, fixed, git>>

\* The agent fails, is killed, or is not started because the signal is aborted: what
\* it left is committed and promoted all the same.
AgentFails(e) ==
    /\ owner = e /\ ex[e].pc = "agent"
    /\ agent' = "interrupted"
    /\ node' = "interrupted"
    /\ ex' = [ex EXCEPT ![e].pc = "commit", ![e].back = "agent"]
    /\ UNCHANGED <<owner, events, results, fixed, git>>

AwaitGate(e) ==
    /\ owner = e /\ ex[e].pc = "await"
    /\ node' = "awaiting-gate"
    /\ Go(e, "gate")
    /\ UNCHANGED <<owner, agent, events, results, fixed, git>>

(***************************************************************************)
(* Gates and repair                                                        *)
(***************************************************************************)

\* An aborted executor stands down before its next step, and leaves the node, the
\* lease and the worktree as they are.  Only a source agent and a finalization that has
\* begun go on.
Checked == {"gate", "recheck", "intent", "revise", "create-repair", "repair", "repaired",
            "repair-failed", "exhausted", "final", "give-up", "pass"}
MayStand(e) ==
    \/ ex[e].pc \in Checked
    \/ ex[e].pc = "lease" /\ ex[e].attempt > 0
StandDown(e) ==
    /\ ex[e].abort # "no" /\ MayStand(e)
    /\ Ends(e)
    /\ UNCHANGED <<durable, fixed, git>>

\* A gate that has passed is not run again.
SkipGate(e) ==
    /\ owner = e /\ ex[e].pc = "gate" /\ ex[e].abort = "no"
    /\ PassedBefore
    /\ Go(e, "final")
    /\ UNCHANGED <<owner, durable, fixed, git>>

MustRunGate(e) == \/ ex[e].pc = "recheck"
                  \/ ex[e].pc = "gate" /\ ~PassedBefore

\* Mutant: one attempt more than the gate allows.
RunGateOnceMore(e) ==
    /\ owner = e /\ ex[e].abort = "no"
    /\ MustRunGate(e)
    /\ Len(results) < MaxResults
    /\ CanLookUp(e)
    /\ \E l \in Active(e), passed \in BOOLEAN :
           /\ passed => leases[l].tree
           /\ results' = Append(results, [passed |-> passed, repair |-> "absent",
                                          saw |-> leases[l].head \cup leases[l].edits])
           /\ Go(e, IF passed THEN "final"
                    ELSE IF ex[e].attempt <= MaxAttempts THEN "intent" ELSE "exhausted")
    /\ UNCHANGED <<owner, node, agent, events, fixed, git>>

\* The gate's command runs in the worktree of the latest execution.
RunGate(e) ==
    /\ owner = e /\ ex[e].abort = "no"
    /\ MustRunGate(e)
    /\ Len(results) < MaxResults
    /\ CanLookUp(e)
    /\ \E l \in Active(e), passed \in BOOLEAN :
           /\ passed => leases[l].tree
           /\ results' = Append(results, [passed |-> passed, repair |-> "absent",
                                          saw |-> leases[l].head \cup leases[l].edits])
           /\ Go(e, IF passed THEN "final"
                    ELSE IF ex[e].attempt < MaxAttempts THEN "intent" ELSE "exhausted")
    /\ UNCHANGED <<owner, node, agent, events, fixed, git>>

\* There is no worktree to run the gate in, or the records contradict each other.
GateThrows(e) ==
    /\ owner = e /\ ex[e].abort = "no"
    /\ MustRunGate(e)
    /\ ~CanLookUp(e) \/ Active(e) = {}
    /\ node' = "interrupted"
    /\ Ends(e)
    /\ UNCHANGED <<agent, events, results, fixed, git>>

\* The attempts are used up: the gate says what becomes of the node (onExhausted), and
\* so of the run.  If the executor dies before the run is written, a resume finds the
\* node failed in a run that is not.
Exhausted(e) ==
    /\ owner = e /\ ex[e].pc = "exhausted" /\ ex[e].abort = "no"
    /\ node' \in {"blocked", "paused", "failed"}
    /\ Ends(e)
    /\ UNCHANGED <<agent, events, results, fixed, git>>

IntendRepair(e) ==
    /\ owner = e /\ ex[e].pc = "intent" /\ ex[e].abort = "no"
    /\ events' = Append(events, Event("intent", Len(results)))
    /\ ex' = [ex EXCEPT ![e].pc = "revise", ![e].attempt = @ + 1]
    /\ UNCHANGED <<owner, node, agent, results, fixed, git>>

\* The lease the gate failed in is finalized: the repair starts from its work.
Revise(e) ==
    /\ owner = e /\ ex[e].pc = "revise" /\ ex[e].abort = "no"
    /\ node' = "needs-revision"
    /\ ex' = [ex EXCEPT ![e].pc = "commit", ![e].back = "repair"]
    /\ UNCHANGED <<owner, agent, events, results, fixed, git>>

CreateRepair(e) ==
    /\ owner = e /\ ex[e].pc = "create-repair" /\ ex[e].abort = "no"
    /\ results' = [results EXCEPT ![Len(results)].repair = "running"]
    /\ ex' = [ex EXCEPT ![e].pc = "lease", ![e].of = Len(results)]
    /\ UNCHANGED <<owner, node, agent, events, fixed, git>>

\* The repair's worktree becomes the node's.
RepairSucceeds(e) ==
    /\ owner = e /\ ex[e].pc = "repair" /\ ex[e].abort = "no"
    /\ leases[ex[e].lease].tree
    /\ results' = [results EXCEPT ![ex[e].of].repair = "passed"]
    /\ ex' = [ex EXCEPT ![e].pc = "repaired", ![e].alias = ex[e].lease]
    /\ UNCHANGED <<owner, node, agent, events, fixed, git>>

\* A failed repair is finalized first, before any write that might be refused.
RepairFails(e) ==
    /\ ex[e].pc = "repair" /\ ex[e].abort = "no"
    /\ ex' = [ex EXCEPT ![e].pc = "commit", ![e].back = "fallback"]
    /\ UNCHANGED <<owner, durable, fixed, git>>

\* The gate gets a new lease of the node, if an attempt is left.
RecordFailure(e) ==
    /\ owner = e /\ ex[e].pc = "repair-failed" /\ ex[e].abort = "no"
    /\ results' = [results EXCEPT ![ex[e].of].repair = "interrupted"]
    /\ events' = Append(events, Event("failed", ex[e].of))
    /\ ex' = [ex EXCEPT ![e].of = Source,
                        ![e].pc = IF ex[e].attempt < MaxAttempts THEN "lease" ELSE "exhausted"]
    /\ UNCHANGED <<owner, node, agent, fixed, git>>

BackToGate(e) ==
    /\ owner = e /\ ex[e].pc = "repaired" /\ ex[e].abort = "no"
    /\ node' = "awaiting-gate"
    /\ ex' = [ex EXCEPT ![e].pc = "recheck", ![e].of = Source]
    /\ UNCHANGED <<owner, agent, events, results, fixed, git>>

(***************************************************************************)
(* finalizeExecutionLease                                                  *)
(***************************************************************************)

\* The gates have passed.
FinalizeNode(e) ==
    /\ ex[e].pc = "final" /\ ex[e].abort = "no"
    /\ ex' = [ex EXCEPT ![e].pc = "commit", ![e].back = "final"]
    /\ UNCHANGED <<owner, durable, fixed, git>>

Finalized(e) == IF ex[e].back = "fallback" THEN ex[e].of ELSE Source
Found(e) == IF Finalized(e) = Source THEN Active(e) ELSE Open(Finalized(e))
Unambiguous(e) == IF Finalized(e) = Source THEN CanLookUp(e) ELSE ~Disagrees(Finalized(e))

\* Mutant: only uncommitted changes are inspected.
AllowedByStatus(e, l) ==
    \/ mayChange /\ Finalized(e) = Source
    \/ leases[l].edits = {}

\* Only a node that declares code-changes may have changed anything; a repair node
\* never declares it.
Allowed(e, l) ==
    \/ mayChange /\ Finalized(e) = Source
    \/ leases[l].edits = {} /\ leases[l].head = leases[l].base

\* What the caller does next; the error of a failed source agent is swallowed.
Returns(e) ==
    \/ ex[e].back = "agent" /\ Ends(e)
    \/ /\ ex[e].back # "agent"
       /\ Go(e, CASE ex[e].back = "repair" -> "create-repair"
                  [] ex[e].back = "fallback" -> "repair-failed"
                  [] ex[e].back = "final" -> "pass")
       /\ UNCHANGED owner
Throws(e) ==
    \/ ex[e].back = "agent" /\ Ends(e)
    \/ ex[e].back # "agent" /\ Go(e, "give-up") /\ UNCHANGED owner

Commit(e) ==
    /\ ex[e].pc = "commit"
    /\ \/ /\ Unambiguous(e)
          /\ \E l \in Found(e) :
                 /\ leases[l].tree /\ Allowed(e, l)
                 /\ leases' = [leases EXCEPT ![l].head = @ \cup leases[l].edits, ![l].edits = {}]
                 /\ ex' = [ex EXCEPT ![e].pc = "promote", ![e].lease = l]
          /\ UNCHANGED owner
       \/ /\ Unambiguous(e) /\ Found(e) = {}
          /\ IF node = "awaiting-gate" /\ ~FinalizedEvidence THEN Throws(e) ELSE Returns(e)
          /\ UNCHANGED leases
       \/ /\ \/ ~Unambiguous(e)
             \/ \E l \in Found(e) : ~leases[l].tree \/ ~Allowed(e, l)
          /\ Throws(e)
          /\ UNCHANGED leases
    /\ UNCHANGED <<durable, fixed, branch, changes>>

\* Mutant: the expected head is read from the branch just before it is replaced.
PromoteOverFreshHead(e) ==
    /\ ex[e].pc = "promote"
    /\ branch' = leases[ex[e].lease].head
    /\ Go(e, "record-promotion")
    /\ UNCHANGED <<owner, durable, fixed, leases, changes>>

\* promoteLeaseToRunBranch: update-ref expects the head the lease was created from.
Promote(e) ==
    /\ ex[e].pc = "promote"
    /\ IF branch = leases[ex[e].lease].base
       THEN /\ branch' = leases[ex[e].lease].head
            /\ Go(e, "record-promotion")
            /\ UNCHANGED owner
       ELSE /\ Throws(e)
            /\ UNCHANGED branch
    /\ UNCHANGED <<durable, fixed, leases, changes>>

RecordPromotion(e) ==
    /\ owner = e /\ ex[e].pc = "record-promotion"
    /\ events' = Append(events, Event("promoted", ex[e].lease))
    /\ Go(e, "remove")
    /\ UNCHANGED <<owner, node, agent, results, fixed, git>>

RemoveWorktree(e) ==
    /\ ex[e].pc = "remove"
    /\ IF leases[ex[e].lease].tree
       THEN /\ leases' = [leases EXCEPT ![ex[e].lease].tree = FALSE]
            /\ Go(e, "release")
            /\ UNCHANGED owner
       ELSE /\ Throws(e)
            /\ UNCHANGED leases
    /\ UNCHANGED <<durable, fixed, branch, changes>>

Release(e) ==
    /\ owner = e /\ ex[e].pc = "release"
    /\ leases' = [leases EXCEPT ![ex[e].lease].released = TRUE]
    /\ ex' = [ex EXCEPT ![e].pc = "record-release",
                        ![e].alias = IF @ = ex[e].lease THEN 0 ELSE @]
    /\ UNCHANGED <<owner, durable, fixed, branch, changes>>

RecordRelease(e) ==
    /\ owner = e /\ ex[e].pc = "record-release"
    /\ events' = Append(events, Event("released", ex[e].lease))
    /\ Returns(e)
    /\ UNCHANGED <<node, agent, results, fixed, git>>

\* runGit throws when the command fails: a lock, a hook, a full disk.
GitFails(e) ==
    /\ ex[e].pc \in GitCalls
    /\ Throws(e)
    /\ UNCHANGED <<durable, fixed, git>>

\* A finalization that failed interrupts the node.
GiveUp(e) ==
    /\ owner = e /\ ex[e].pc = "give-up" /\ ex[e].abort = "no"
    /\ node' = "interrupted"
    /\ Ends(e)
    /\ UNCHANGED <<agent, events, results, fixed, git>>

Pass(e) ==
    /\ owner = e /\ ex[e].pc = "pass" /\ ex[e].abort = "no"
    /\ node' = "passed"
    /\ Ends(e)
    /\ UNCHANGED <<agent, events, results, fixed, git>>

-----------------------------------------------------------------------------
Next ==
    \/ LoseJob
    \/ \E e \in Executors :
        \/ Start(e) \/ Crash(e) \/ Abort(e) \/ Refused(e) \/ StandDown(e)
        \/ Enter(e) \/ CreateRoleRun(e) \/ CreateLease(e) \/ CannotLease(e) \/ RecordLease(e)
        \/ Change(e) \/ AgentSucceeds(e) \/ AgentFails(e) \/ AwaitGate(e)
        \/ SkipGate(e) \/ RunGate(e) \/ GateThrows(e) \/ Exhausted(e)
        \/ IntendRepair(e) \/ Revise(e) \/ CreateRepair(e)
        \/ RepairSucceeds(e) \/ RepairFails(e) \/ RecordFailure(e) \/ BackToGate(e)
        \/ FinalizeNode(e) \/ Commit(e) \/ Promote(e) \/ RecordPromotion(e)
        \/ RemoveWorktree(e) \/ Release(e) \/ RecordRelease(e) \/ GitFails(e) \/ GiveUp(e) \/ Pass(e)

Spec == Init /\ [][Next]_vars

-----------------------------------------------------------------------------
(* Properties                                                              *)

\* Every variable has its type, and the rows refer to rows that exist.
TypeOK ==
    /\ owner \in Executors \cup {Nobody}
    /\ node \in Statuses
    /\ agent \in RoleRuns
    /\ {mayChange, overlap} \subseteq BOOLEAN
    /\ branch \subseteq 1..changes
    /\ changes \in 0..MaxChanges
    /\ results \in Seq([passed : BOOLEAN, repair : RepairStatuses, saw : SUBSET (1..changes)])
    /\ leases \in Seq([node : 0..Len(results), base : SUBSET (1..changes),
                       head : SUBSET (1..changes), edits : SUBSET (1..changes),
                       tree : BOOLEAN, released : BOOLEAN])
    /\ events \in Seq([type : EventTypes, of : Nat])
    /\ \A i \in DOMAIN events :
           events[i].of \in IF events[i].type \in {"intent", "failed"} THEN DOMAIN results
                            ELSE DOMAIN leases
    /\ ex \in [Executors -> [pc : PCs, abort : {"no", "stop", "lost"}, lease : 0..Len(leases),
                             of : 0..Len(results), alias : 0..Len(leases),
                             attempt : 0..MaxAttempts, wrote : BOOLEAN, back : Backs]]

\* The run's branch never loses a commit, however late an executor that has lost its job
\* promotes its lease.
BranchKeepsCommits == [][branch \subseteq branch']_vars

\* A node that has passed has left nothing behind: its latest execution's lease, whether
\* the node's own or a repair's, was committed, promoted and released, through every crash
\* and every change of executors.  Only a surviving agent may change it later.
PassedLeavesNothingBehind ==
    node = "passed" =>
        /\ Open(Source) = {}
        /\ Last(leases).released
        /\ ~overlap => Last(leases).edits = {} /\ Last(leases).head \subseteq branch

\* A node that does not declare code-changes never changes the run's branch, whatever its
\* agent and its repairs leave in their worktrees and however often it is resumed, unless
\* a surviving agent commits while its successor finalizes the lease they share.
UndeclaredChangesStayOut == ~mayChange /\ ~overlap => branch = {}

\* "Tekon Engine promotes and commits passed node changes after gates": when the node has
\* passed, a gate that passed has seen everything that is in the run's branch.
PassedChangesWereGated ==
    node = "passed" /\ ~overlap =>
        \E i \in DOMAIN results : results[i].passed /\ branch \subseteq results[i].saw
=============================================================================
