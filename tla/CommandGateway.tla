--------------------------- MODULE CommandGateway ---------------------------
(***************************************************************************)
(* runProcess of the command gateway: a child process with a timeout.  A   *)
(* call is answered once: when the child has closed, or, when the child    *)
(* does not end after SIGTERM and SIGKILL (its group may hold the pipes),  *)
(* a grace period later.  A child that was given up, or killed while a     *)
(* request of its was on its way, may still take effect after the answer.  *)
(*                                                                         *)
(* Left out: the abort signal (delivery passes none), policies, stdin and  *)
(* the progress file.  The two timeouts, total and no-progress, are one.   *)
(***************************************************************************)
EXTENDS Naturals, FiniteSets

CONSTANTS Callers,   \* who may have a command running, one each
          Tools      \* the commands they run

VARIABLES cmd,       \* per caller: the command it waits for
          stray      \* tools of commands that were answered and may still act

NoCommand == [stage |-> "none", tool |-> "none", did |-> FALSE, result |-> "none"]

Commands ==
    [stage : {"none", "running", "terminating", "killing", "settled"},
     tool : Tools \cup {"none"}, did : BOOLEAN, result : {"none", "ok", "failed"}]

GatewayInit ==
    /\ cmd = [c \in Callers |-> NoCommand]
    /\ stray = {}

Alive(c) == cmd[c].stage \in {"running", "terminating", "killing"}

\* spawn, with the total timeout armed.
Run(c, tool) ==
    /\ ~Alive(c)
    /\ cmd' = [cmd EXCEPT ![c] = [NoCommand EXCEPT !.stage = "running", !.tool = tool]]
    /\ UNCHANGED stray

\* The command does what it is for.
Work(c) ==
    /\ Alive(c) /\ ~cmd[c].did
    /\ cmd' = [cmd EXCEPT ![c].did = TRUE]
    /\ UNCHANGED stray

\* What is still on its way when a command that did nothing yet is cut off.
Leftovers(c) == IF cmd[c].did THEN {} ELSE {cmd[c].tool}

Settle(c, result) ==
    cmd' = [cmd EXCEPT ![c] = [@ EXCEPT !.stage = "settled", !.result = result]]

\* 'close': answered with the exit code, unless the timeout has struck or the
\* log files could not be written; exit code 0 means that the work is done.
Close(c, success, logged) ==
    /\ Alive(c)
    /\ success => cmd[c].did
    /\ Settle(c, IF success /\ logged /\ cmd[c].stage = "running" THEN "ok" ELSE "failed")
    /\ \/ UNCHANGED stray
       \/ /\ cmd[c].stage # "running"
          /\ stray' = stray \cup Leftovers(c)

\* triggerTimeout: SIGTERM to the child's group.
TimeOut(c) ==
    /\ cmd[c].stage = "running"
    /\ cmd' = [cmd EXCEPT ![c].stage = "terminating"]
    /\ UNCHANGED stray

\* Mutant: the answer waits for the child to close.
KillAndWait(c) ==
    /\ cmd[c].stage \in {"terminating", "killing"}
    /\ cmd' = [cmd EXCEPT ![c].stage = "killing"]
    /\ UNCHANGED stray

\* The grace timers: SIGKILL, then an answer without the child.
Grace(c) ==
    \/ /\ cmd[c].stage = "terminating"
       /\ cmd' = [cmd EXCEPT ![c].stage = "killing"]
       /\ UNCHANGED stray
    \/ /\ cmd[c].stage = "killing"
       /\ Settle(c, "failed")
       /\ stray' = stray \cup Leftovers(c)

\* The calling process dies: its children, in groups of their own, do not.
Orphan(c) ==
    /\ cmd' = [cmd EXCEPT ![c] = NoCommand]
    /\ stray' = stray \cup (IF Alive(c) THEN Leftovers(c) ELSE {})
=============================================================================
