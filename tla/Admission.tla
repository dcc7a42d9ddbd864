------------------------------ MODULE Admission ------------------------------
(***************************************************************************)
(* Admission of runs (packages/core/src/db/admission-store.ts and the      *)
(* start paths around it in session-service.ts and engine.ts).  A call     *)
(* looks its request id up, prepares a run of its own, and admits it in    *)
(* one transaction unless the id is taken; then, or when it finds the run  *)
(* admitted without its files, it makes the run's directory and records    *)
(* what became of that.  Calls that share an id run at the same time in    *)
(* several processes; a call may fail at any statement, and then looks the *)
(* id up again; or its process dies.  Processes that start, and resumes,   *)
(* repair the directories others left behind.                              *)
(*                                                                         *)
(* Grain: one transaction, one statement, or one directory.                *)
(***************************************************************************)
EXTENDS Naturals, FiniteSets

CONSTANTS Requests,    \* request identities
          Intents,     \* hashes of request envelopes
          Calls,       \* start calls; call c prepares a run that is named c here
          Scanners,    \* processes, each of which repairs directories when it starts
          None

ASSUME ActorsAssumption == Calls \cap Scanners = {}

VARIABLES
    row,       \* run_admissions by request id
    dirs,      \* runs whose directory exists
    begun,     \* runs an execution of which has been claimed
    disk,      \* whether directories can be made just now
    at,        \* where a call or scanner is: program counter and locals
    sent,      \* the request of a call
    answer     \* what a call has returned

vars == <<row, dirs, begun, disk, at, sent, answer>>

Actors == Calls \cup Scanners

FilesStates == {"pending", "ready", "recovery_required"}
Rows == [intent : Intents, run : Calls, files : FilesStates]

\* attempt: the first lookup of startRun, or its recovery of the run it has found; the
\* lookup in its catch, after an error that does not name a run or one that does; or a
\* repair.
Places == [pc      : {"idle", "lookup", "admit", "read", "mkdir", "update", "reread", "done"},
           attempt : {"first", "found", "again", "known", "repair"},
           request : Requests \cup {None},
           made    : BOOLEAN]
Idle == [pc |-> "idle", attempt |-> "first", request |-> None, made |-> FALSE]

Answers == [state : {"accepted", "recovery-required"}, run : Calls]
           \cup [state : {"conflict", "unknown"}, run : {None}]

Sent == [request : Requests, intent : Intents]

ASSUME NoneAssumption == None \notin Rows \cup Sent \cup Answers \cup [intent : Intents, run : Calls]

Init ==
    /\ row = [r \in Requests |-> None]
    /\ dirs = {} /\ begun = {}
    /\ disk = "sound"
    /\ at = [a \in Actors |-> Idle]
    /\ sent = [c \in Calls |-> None]
    /\ answer = [c \in Calls |-> None]

-----------------------------------------------------------------------------
Goto(a, pc) == at' = [at EXCEPT ![a].pc = pc]
My(a) == row[at[a].request]

\* A call returns; a scanner or a resume goes on to other things.
Return(a, state, run) ==
    IF a \in Calls
    THEN /\ at' = [at EXCEPT ![a] = [Idle EXCEPT !.pc = "done"]]
         /\ answer' = [answer EXCEPT ![a] = [state |-> state, run |-> run]]
    ELSE /\ at' = [at EXCEPT ![a] = Idle]
         /\ UNCHANGED answer

\* The answer made of a row of run_admissions.
Receipt_Raw(a, found) == Return(a, found.files, found.run)
Receipt(a, found) ==
    Return(a, IF found.files = "ready" THEN "accepted" ELSE "recovery-required", found.run)

\* An error goes to the catch of startRun, which looks for a winner once more.  An error
\* of the recovery of a run that the lookup had found names that run.
Throw(a) == at' = [at EXCEPT ![a] = [Idle EXCEPT
                      !.pc = "lookup", !.request = at[a].request,
                      !.attempt = IF at[a].attempt = "found" THEN "known" ELSE "again"]]

Recover(c) == at' = [at EXCEPT ![c].pc = "read",
                               ![c].attempt = IF @ = "first" THEN "found" ELSE @]

Start(c, r, i) ==
    /\ sent[c] = None
    /\ sent' = [sent EXCEPT ![c] = [request |-> r, intent |-> i]]
    /\ at' = [at EXCEPT ![c] = [Idle EXCEPT !.pc = "lookup", !.request = r]]
    /\ UNCHANGED <<row, dirs, begun, disk, answer>>

\* lookupRun.
SameIntent_Trusted(c) == TRUE
SameIntent(c) == My(c).intent = sent[c].intent

Lookup(c) ==
    /\ at[c].pc = "lookup"
    /\ \/ /\ My(c) = None
          /\ IF at[c].attempt = "first" THEN Goto(c, "admit") /\ UNCHANGED answer
                                        ELSE Return(c, "unknown", None)
       \/ /\ My(c) # None /\ ~SameIntent(c)
          /\ IF at[c].attempt = "first" THEN Throw(c) /\ UNCHANGED answer
                                        ELSE Return(c, "conflict", None)
       \/ /\ My(c) # None /\ SameIntent(c)
          /\ IF My(c).files = "ready" THEN Receipt(c, My(c)) ELSE Recover(c) /\ UNCHANGED answer
    /\ UNCHANGED <<row, dirs, begun, disk, sent>>

\* admitRun's transaction: the run, its session, its queued job and this row, or nothing.
Taken_Unchecked(c) == FALSE
Taken(c) == My(c) # None

Admit(c) ==
    /\ at[c].pc = "admit"
    /\ IF Taken(c)
       THEN /\ IF SameIntent(c) THEN Goto(c, "read") ELSE Throw(c)
            /\ UNCHANGED row
       ELSE /\ row' = [row EXCEPT ![at[c].request] =
                           [intent |-> sent[c].intent, run |-> c, files |-> "pending"]]
            /\ Goto(c, "read")
    /\ UNCHANGED <<dirs, begun, disk, sent, answer>>

-----------------------------------------------------------------------------
(* recoverAdmissionFiles.                                                  *)

ReadRow(a) ==
    /\ at[a].pc = "read"
    /\ IF My(a).files = "ready" THEN Receipt(a, My(a)) ELSE Goto(a, "mkdir") /\ UNCHANGED answer
    /\ UNCHANGED <<row, dirs, begun, disk, sent>>

\* prepareRunDirectory: any error of it is caught and becomes recovery_required.
PrepareDirectory(a) ==
    /\ at[a].pc = "mkdir"
    /\ \/ /\ dirs' = dirs \cup {My(a).run}
          /\ at' = [at EXCEPT ![a].pc = "update", ![a].made = TRUE]
       \/ /\ disk = "faulty"
          /\ Goto(a, "update")
          /\ UNCHANGED dirs
    /\ UNCHANGED <<row, begun, disk, sent, answer>>

Recorded_Overwrites(a) == IF at[a].made THEN "ready" ELSE "recovery_required"
Recorded_Optimist(a)   == "ready"
Recorded(a) == IF My(a).files = "ready" \/ at[a].made THEN "ready" ELSE "recovery_required"

UpdateFiles(a) ==
    /\ at[a].pc = "update"
    /\ row' = [row EXCEPT ![at[a].request].files = Recorded(a)]
    /\ at' = [at EXCEPT ![a].pc = "reread", ![a].made = FALSE]
    /\ UNCHANGED <<dirs, begun, disk, sent, answer>>

Reread(a) ==
    /\ at[a].pc = "reread"
    /\ Receipt(a, My(a))
    /\ UNCHANGED <<row, dirs, begun, disk, sent>>

\* scanAndRecoverAdmissions at the start of a process, one row after the other; the
\* same of a resume, which repairs the directory of its own run.
Unready_Pending == {"pending"}
Unready == {"pending", "recovery_required"}

Repair(s, r) ==
    /\ at[s].pc = "idle"
    /\ row[r] # None /\ row[r].files \in Unready
    /\ at' = [at EXCEPT ![s] = [Idle EXCEPT !.pc = "read", !.attempt = "repair", !.request = r]]
    /\ UNCHANGED <<row, dirs, begun, disk, sent, answer>>

-----------------------------------------------------------------------------
\* A statement, the preflight or the construction of the run fails.  What the catch of
\* startRun cannot read it does not know, unless an error names the run: the one in hand,
\* or one of the recovery under way.
Unnamed(a) == at[a].attempt = "again" /\ at[a].pc = "lookup"

Fail(a) ==
    /\ at[a].pc \in {"lookup", "admit", "read", "update", "reread"}
    /\ CASE at[a].attempt \in {"first", "found"}     -> Throw(a) /\ UNCHANGED answer
         [] at[a].attempt = "repair" \/ Unnamed(a)  -> Return(a, "unknown", None)
         [] OTHER                                   -> Return(a, "recovery-required", My(a).run)
    /\ UNCHANGED <<row, dirs, begun, disk, sent>>

\* The process dies: its caller never hears.
Die(a) ==
    /\ at[a].pc \notin {"idle", "done"}
    /\ Return(a, "unknown", None)
    /\ UNCHANGED <<row, dirs, begun, disk, sent>>

\* claimNext takes the admission's job only when the files are ready, and the engine
\* checks it again (assertAdmissionReady).
Claimable_AnyFiles(r) == row[r] # None
Claimable(r) == row[r] # None /\ row[r].files = "ready"

Claim(r) ==
    /\ Claimable(r)
    /\ row[r].run \notin begun
    /\ begun' = begun \cup {row[r].run}
    /\ UNCHANGED <<row, dirs, disk, at, sent, answer>>

DiskChanges ==
    /\ disk' \in {"sound", "faulty"} \ {disk}
    /\ UNCHANGED <<row, dirs, begun, at, sent, answer>>

-----------------------------------------------------------------------------
Recovery(a) == ReadRow(a) \/ PrepareDirectory(a) \/ UpdateFiles(a) \/ Reread(a)
Repairs(s) == \E r \in Requests : Repair(s, r)

Next ==
    \/ \E c \in Calls : \/ \E r \in Requests, i \in Intents : Start(c, r, i)
                        \/ Lookup(c)
                        \/ Admit(c)
    \/ \E a \in Actors : Recovery(a) \/ Fail(a) \/ Die(a)
    \/ \E s \in Scanners : Repairs(s)
    \/ \E r \in Requests : Claim(r)
    \/ DiskChanges

Spec == Init /\ [][Next]_vars

\* Of the code: a repair that has begun goes on.  Of the surroundings: processes are
\* started again and again, and not every one of their repairs fails or is killed.
FairSpec ==
    /\ Spec
    /\ \A s \in Scanners : /\ WF_vars(Recovery(s) \/ Repairs(s))
                           /\ SF_vars(ReadRow(s)) /\ SF_vars(PrepareDirectory(s)) /\ SF_vars(UpdateFiles(s))
    /\ \A r \in Requests : WF_vars(Claim(r))

-----------------------------------------------------------------------------
(* Properties.                                                             *)

\* Rows, places and answers have the shapes of the schema and of the results.
TypeOK ==
    /\ row \in [Requests -> Rows \cup {None}]
    /\ dirs \subseteq Calls /\ begun \subseteq Calls
    /\ disk \in {"sound", "faulty"}
    /\ at \in [Actors -> Places]
    /\ sent \in [Calls -> Sent \cup {None}]
    /\ answer \in [Calls -> Answers \cup {None}]

\* session-store.ts, claimNext: no execution of a run begins before the directory it
\* writes to exists, however recoveries, their failures and claims interleave.
BegunHasDirectory == begun \subseteq dirs

Found == [r \in Requests |-> IF row[r] = None THEN None
                             ELSE [intent |-> row[r].intent, run |-> row[r].run]]
Once == INSTANCE AdmitOnce
        WITH admitted <- Found,
             ready <- {r \in Requests : row[r] # None /\ row[r].files = "ready"}

\* session-service.ts, "Never return a loser ID": calls that race, fail, die and are
\* repeated still admit one run for an id and are told of it, and "A slower failed
\* recovery must not overwrite another process's ready state" (admission-store.ts).
AdmitsOnce == Once!Spec

\* An admitted run whose process died is not forgotten: once directories can be made
\* for good it gets its directory, is recorded ready and is claimed.
Begun(r) == row[r] # None /\ row[r].run \in begun
AdmittedBegins ==
    \A r \in Requests : (row[r] # None /\ <>[](disk = "sound")) ~> Begun(r)
=============================================================================
