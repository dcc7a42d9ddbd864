----------------------------- MODULE DeliveryPr -----------------------------
(***************************************************************************)
(* Delivery of one run: createPr, called from the Web or a CLI, by several *)
(* processes and again after a failure or a crash, and the automation job  *)
(* that prepares the delivery.  All of them keep one row,                  *)
(* delivery_pull_requests, which they read and then write whole; git and   *)
(* the host are reached by commands (CommandGateway) that may take effect  *)
(* although they are reported as failed.                                   *)
(*                                                                         *)
(* The run is ready: the preparation both start with (evidence, package    *)
(* files, audit) passes or the operation ends.  The host refuses a second  *)
(* open pull request; nobody closes the first.                             *)
(***************************************************************************)
EXTENDS CommandGateway

CONSTANTS Preparers,    \* executions of the delivery-auto-prepare job
          MaxStarts,    \* bound on the calls that begin
          MaxDeaths,    \* bound on the processes that die in the middle
          None

ASSUME ProcsAssumption == Callers \cap Preparers = {}

Remote == {"push", "create", "view"}
ASSUME ToolsAssumption == Tools = Remote

VARIABLES
    row,        \* delivery_pull_requests, or None
    remote,     \* the host: is the branch there, is there a pull request
    call,       \* createPr calls
    prep,       \* auto-prepare executions
    announced,  \* history: a call has returned a pull request
    overlap,    \* history: an operation began while another was going on
    starts, deaths

vars == <<row, remote, call, prep, announced, overlap, starts, deaths, cmd, stray>>
gateway == <<cmd, stray>>
bounds == <<starts, deaths>>

Statuses == {"prepared", "awaiting-approval", "creating-pr", "branch-pushed",
             "created", "failed"}
Rows == [status : Statuses, url : BOOLEAN, approved : BOOLEAN, pushed : BOOLEAN]
ASSUME NoneAssumption == None \notin Rows
NewRow == [status |-> "prepared", url |-> FALSE, approved |-> FALSE, pushed |-> FALSE]
Existing(r) == IF r = None THEN NewRow ELSE r
Created(r) == r # None /\ r.status = "created" /\ r.url

NoCall == [pc |-> "idle", approved |-> FALSE, seen |-> None]
NoPrep == [pc |-> "idle", seen |-> None]

Init ==
    /\ GatewayInit
    /\ row = None
    /\ remote = [branch |-> FALSE, pr |-> FALSE]
    /\ call = [c \in Callers |-> NoCall]
    /\ prep = [p \in Preparers |-> NoPrep]
    /\ announced = FALSE
    /\ overlap = FALSE
    /\ starts = 0 /\ deaths = 0

Busy == \/ \E c \in Callers : call[c].pc # "idle"
        \/ \E p \in Preparers : prep[p].pc # "idle"

Goto(c, from, to) == call[c].pc = from /\ call' = [call EXCEPT ![c].pc = to]

-----------------------------------------------------------------------------
(* createPr.                                                               *)

\* Mutant: no guard on the created row.
BeginAlways(c, approved) ==
    /\ call[c].pc = "idle" /\ starts < MaxStarts
    /\ starts' = starts + 1
    /\ overlap' = (overlap \/ Busy)
    /\ call' = [call EXCEPT ![c] = [NoCall EXCEPT !.pc = "status", !.approved = approved]]
    /\ UNCHANGED <<row, remote, prep, announced, deaths, gateway>>

\* The call begins: a row that says created, with its URL, is the answer.
Begin(c, approved) ==
    /\ call[c].pc = "idle" /\ starts < MaxStarts
    /\ starts' = starts + 1
    /\ overlap' = (overlap \/ Busy)
    /\ \/ /\ Created(row)
          /\ announced' = TRUE
          /\ UNCHANGED call
       \/ /\ ~Created(row)
          /\ call' = [call EXCEPT ![c] = [NoCall EXCEPT !.pc = "status",
                                                        !.approved = approved]]
          /\ UNCHANGED announced
    /\ UNCHANGED <<row, remote, prep, deaths, gateway>>

\* upsertDeliveryState: read the row after the status commands ...
ReadState(c) ==
    /\ call[c].pc = "status"
    /\ call' = [call EXCEPT ![c] = [@ EXCEPT !.pc = "upsert", !.seen = row]]
    /\ UNCHANGED <<row, remote, prep, announced, overlap, bounds, gateway>>

\* ... and write it whole from what was read; an approval is added, not removed.
UpsertState(c) ==
    LET seen == Existing(call[c].seen) IN
    /\ Goto(c, "upsert", "probe")
    /\ row' = [seen EXCEPT
                 !.status = CASE @ = "created" -> "created"
                              [] call[c].approved -> "creating-pr"
                              [] OTHER -> "awaiting-approval",
                 !.approved = @ \/ call[c].approved]
    /\ UNCHANGED <<remote, prep, announced, overlap, bounds, gateway>>

\* The probes of the branch and of the work tree: they may fail; a dry run, whether
\* approved or not, and a call without an approval end here; any other fails on a
\* dirty work tree.
Probe(c) ==
    /\ \/ Goto(c, "probe", "fail")
       \/ Goto(c, "probe", "idle")
       \/ call[c].approved /\ Goto(c, "probe", "push")
    /\ UNCHANGED <<row, remote, prep, announced, overlap, bounds, gateway>>

\* git branch, unless it exists, which may fail, and git push.
Push(c) ==
    /\ \/ Goto(c, "push", "pushing") /\ Run(c, "push")
       \/ Goto(c, "push", "fail") /\ UNCHANGED gateway
    /\ UNCHANGED <<row, remote, prep, announced, overlap, bounds>>

\* runDeliveryCommand returns or throws: what comes next in each case.
After(c, pc, done, failed) ==
    /\ cmd[c].stage = "settled"
    /\ Goto(c, pc, IF cmd[c].result = "ok" THEN done ELSE failed)
    /\ cmd' = [cmd EXCEPT ![c] = NoCommand]
    /\ UNCHANGED <<stray, row, remote, prep, announced, overlap, bounds>>

Pushed(c) == After(c, "pushing", "mark", "fail")

\* markBranchPushed: read the row, then write it whole.
ReadPushed(c) ==
    /\ call[c].pc = "mark"
    /\ call' = [call EXCEPT ![c] = [@ EXCEPT !.pc = "marking", !.seen = row]]
    /\ UNCHANGED <<row, remote, prep, announced, overlap, bounds, gateway>>

MarkPushed(c) ==
    /\ Goto(c, "marking", "create")
    /\ row' = [call[c].seen EXCEPT !.status = "branch-pushed", !.pushed = TRUE]
    /\ UNCHANGED <<remote, prep, announced, overlap, bounds, gateway>>

\* gh pr create; after any failure of it, gh pr view.
Create(c) ==
    /\ \/ Goto(c, "create", "creating") /\ Run(c, "create")
       \/ Goto(c, "view", "viewing") /\ Run(c, "view")
    /\ UNCHANGED <<row, remote, prep, announced, overlap, bounds>>

CreateEnded(c) == After(c, "creating", "record", "view")
ViewEnded(c) == After(c, "viewing", "record", "fail")

\* Mutant: the row is marked and the URL is not stored.
RecordStatus(c) ==
    /\ Goto(c, "record", "idle")
    /\ row' = [row EXCEPT !.status = "created"]
    /\ announced' = TRUE
    /\ UNCHANGED <<remote, prep, overlap, bounds, gateway>>

\* markDeliveryPullRequestCreated: one UPDATE of status and URL; then the answer.
Record(c) ==
    /\ Goto(c, "record", "idle")
    /\ row' = [row EXCEPT !.status = "created", !.url = TRUE]
    /\ announced' = TRUE
    /\ UNCHANGED <<remote, prep, overlap, bounds, gateway>>

\* markDeliveryPullRequestFailed: one UPDATE of status and failure; then throw.
Fail(c) ==
    /\ Goto(c, "fail", "idle")
    /\ row' = [row EXCEPT !.status = "failed"]
    /\ UNCHANGED <<remote, prep, announced, overlap, bounds, gateway>>

-----------------------------------------------------------------------------
(* delivery-auto-prepare.                                                  *)

\* The job begins: only a missing or failed row is prepared.
BeginPrepare(p) ==
    /\ prep[p].pc = "idle" /\ starts < MaxStarts
    /\ row # None => row.status = "failed"
    /\ starts' = starts + 1
    /\ overlap' = (overlap \/ Busy)
    /\ prep' = [prep EXCEPT ![p] = [pc |-> "preparing", seen |-> row]]
    /\ UNCHANGED <<row, remote, call, announced, deaths, gateway>>

\* Mutant: preparing again starts from a new row.
PrepareAnew(p) ==
    /\ prep[p].pc = "preparing"
    /\ prep' = [prep EXCEPT ![p] = NoPrep]
    /\ row' = NewRow
    /\ UNCHANGED <<remote, call, announced, overlap, bounds, gateway>>

\* It ends: the row as it was when the job began, prepared; or the preparation
\* failed and the row is left.
Prepare(p) ==
    /\ prep[p].pc = "preparing"
    /\ prep' = [prep EXCEPT ![p] = NoPrep]
    /\ \/ row' = [Existing(prep[p].seen) EXCEPT !.status = "prepared"]
       \/ UNCHANGED row
    /\ UNCHANGED <<remote, call, announced, overlap, bounds, gateway>>

-----------------------------------------------------------------------------
(* Commands, the host, and processes that die.                             *)

\* A command of this tool takes effect on the host.
Takes(tool) ==
    CASE tool = "push" -> remote' = [remote EXCEPT !.branch = TRUE]
      [] tool = "create" -> /\ remote.branch /\ ~remote.pr
                            /\ remote' = [remote EXCEPT !.pr = TRUE]
      [] tool = "view" -> remote.pr /\ UNCHANGED remote

CommandWorks(c) ==
    /\ Work(c)
    /\ Takes(cmd[c].tool)
    /\ UNCHANGED <<row, call, prep, announced, overlap, bounds>>

StrayWorks(tool) ==
    /\ tool \in stray
    /\ stray' = stray \ {tool}
    /\ Takes(tool) \/ UNCHANGED remote
    /\ UNCHANGED <<row, call, prep, announced, overlap, bounds, cmd>>

CommandEnds(c) ==
    /\ \E success, logged \in BOOLEAN : Close(c, success, logged)
    /\ UNCHANGED <<row, remote, call, prep, announced, overlap, bounds>>

CommandTimesOut(c) ==
    /\ TimeOut(c)
    /\ UNCHANGED <<row, remote, call, prep, announced, overlap, bounds>>

CommandGrace(c) ==
    /\ Grace(c)
    /\ UNCHANGED <<row, remote, call, prep, announced, overlap, bounds>>

\* The process of a call or of a job dies.
Die(c) ==
    /\ deaths < MaxDeaths
    /\ deaths' = deaths + 1
    /\ call[c].pc # "idle"
    /\ call' = [call EXCEPT ![c] = NoCall]
    /\ Orphan(c)
    /\ UNCHANGED <<row, remote, prep, announced, overlap, starts>>

JobDies(p) ==
    /\ deaths < MaxDeaths
    /\ deaths' = deaths + 1
    /\ prep[p].pc # "idle"
    /\ prep' = [prep EXCEPT ![p] = NoPrep]
    /\ UNCHANGED <<row, remote, call, announced, overlap, starts, gateway>>

CallStep(c) ==
    \/ ReadState(c) \/ UpsertState(c) \/ Probe(c) \/ Push(c) \/ Pushed(c)
    \/ ReadPushed(c) \/ MarkPushed(c) \/ Create(c) \/ CreateEnded(c)
    \/ ViewEnded(c) \/ Record(c) \/ Fail(c)

Next ==
    \/ \E c \in Callers :
         \/ \E approved \in BOOLEAN : Begin(c, approved)
         \/ CallStep(c) \/ CommandWorks(c) \/ CommandEnds(c)
         \/ CommandTimesOut(c) \/ CommandGrace(c) \/ Die(c)
    \/ \E p \in Preparers : BeginPrepare(p) \/ Prepare(p) \/ JobDies(p)
    \/ \E tool \in Tools : StrayWorks(tool)

Spec == Init /\ [][Next]_vars

\* The calling process goes on, and its timers fire.  A child need not do its
\* work nor end.
Fairness ==
    \A c \in Callers :
        WF_vars(CallStep(c)) /\ WF_vars(CommandTimesOut(c)) /\ WF_vars(CommandGrace(c))

FairSpec == Spec /\ Fairness

-----------------------------------------------------------------------------
(* Properties.                                                             *)

\* Types; a created row has its URL, and its pull request and branch are there.
TypeOK ==
    /\ row \in Rows \cup {None}
    /\ row # None /\ row.status = "created" => row.url
    /\ row # None /\ row.url => remote.pr
    /\ remote \in [branch : BOOLEAN, pr : BOOLEAN]
    /\ remote.pr => remote.branch
    /\ \A c \in Callers :
         /\ call[c].seen \in Rows \cup {None}
         /\ call[c].pc \in {"idle", "status", "upsert", "probe", "push", "pushing", "mark",
              "marking", "create", "creating", "view", "viewing", "record", "fail"}
         /\ call[c].pc \in {"marking"} => call[c].seen # None
    /\ cmd \in [Callers -> Commands]
    /\ stray \subseteq Tools

\* Nothing reaches the host without a record: as long as operations were not
\* concurrent, a branch or a pull request on the host, also one that a command
\* brought about after it was given up or after its caller died, belongs to a
\* row that holds the human approval; preparing again does not lose it.
EffectIsOnRecord ==
    ~overlap /\ (remote.branch \/ remote.pr) => row # None /\ row.approved

\* A pull request that was announced to a caller stays recorded as created, so
\* that a later call returns it instead of pushing and creating again; whatever
\* calls, failures, crashes and preparations follow one another.
AnnouncedIsRecorded ==
    ~overlap /\ announced => Created(row)

\* Every call returns, or its process dies, even when a child ignores its signals.
CallsReturn ==
    \A c \in Callers : call[c].pc # "idle" ~> call[c].pc = "idle"
=============================================================================
