------------------------- MODULE AtomicTerminalWrite -------------------------
(***************************************************************************)
(* What writeWorkflowTerminal promises its callers: it behaves as if each  *)
(* call read, judged and wrote the status of the run in one step, except   *)
(* that under contention it may refuse a run that is still open.           *)
(***************************************************************************)
EXTENDS RunStatuses, Naturals

CONSTANT Writers     \* the calls, by any process

\* Status of the run; what each call is to write ("none" before the call) and has
\* answered; how many completion events have been recorded.
VARIABLES run, target, answer, completions

vars == <<run, target, answer, completions>>

Init ==
    /\ run \in Open
    /\ target = [w \in Writers |-> "none"]
    /\ answer = [w \in Writers |-> "none"]
    /\ completions = 0

Call(w) ==
    /\ target[w] = "none"
    /\ \E to \in Targets : target' = [target EXCEPT ![w] = to]
    /\ UNCHANGED <<run, answer, completions>>

Pending(w) == target[w] # "none" /\ answer[w] = "none"

Decline(w) ==
    /\ Pending(w)
    /\ Verdict(run, target[w]) # "write"
    /\ answer' = [answer EXCEPT ![w] = Verdict(run, target[w])]
    /\ UNCHANGED <<run, target, completions>>

Write(w) ==
    /\ Pending(w)
    /\ Verdict(run, target[w]) = "write"
    /\ run' = target[w]
    /\ answer' = [answer EXCEPT ![w] = "written"]
    /\ UNCHANGED <<target, completions>>

GiveUp(w) ==
    /\ Pending(w) /\ run \in Open
    /\ answer' = [answer EXCEPT ![w] = "terminal"]
    /\ UNCHANGED <<run, target, completions>>

\* The one call that made the run pass may record it, once.
Complete(w) ==
    /\ answer[w] = "written" /\ target[w] = "passed"
    /\ completions = 0
    /\ completions' = 1
    /\ UNCHANGED <<run, target, answer>>

OtherWriter ==
    /\ run \in Open
    /\ run' \in Open \cup {"failed"}
    /\ UNCHANGED <<target, answer, completions>>

Next ==
    \/ \E w \in Writers : Call(w) \/ Decline(w) \/ Write(w) \/ GiveUp(w) \/ Complete(w)
    \/ OtherWriter

Spec == Init /\ [][Next]_vars
=============================================================================
