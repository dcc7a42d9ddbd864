------------------------- MODULE NodeExecutionProofs -------------------------
(***************************************************************************)
(* For any number of executors, leases, changes and attempts.              *)
(*                                                                         *)
(* The run's branch never loses a commit.  A lease is promoted long after  *)
(* it was created, perhaps by an executor that has lost its job.  The      *)
(* compare-and-set of update-ref makes that safe because of what the lease *)
(* contains: a worktree begins with the commit it was created from and     *)
(* only adds to it (WorkGrows), so that whatever replaces that commit      *)
(* contains it.                                                            *)
(*                                                                         *)
(* A node that has passed leaves nothing behind.  The caller that marks it *)
(* passed knows only where it stands, and every crash makes it start from  *)
(* the rows again.  Records says what the rows tell whoever reads them,    *)
(* Standing what the owner of the job may conclude at each of its steps,   *)
(* and Serial what the branch holds while no two executors have overlapped.*)
(* The newest lease, the last intent and the last result are greatest      *)
(* elements of finite sets: they exist by the well-foundedness of          *)
(* inclusion.                                                              *)
(***************************************************************************)
EXTENDS NodeExecution, FiniteSetTheorems, WellFoundedInduction, TLAPS

Result == [passed : BOOLEAN, repair : RepairStatuses, saw : SUBSET Nat]
Lease == [node : Nat, base : SUBSET Nat, head : SUBSET Nat, edits : SUBSET Nat,
          tree : BOOLEAN, released : BOOLEAN]
Execution == [pc : PCs, abort : {"no", "stop", "lost"}, lease : Nat, of : Nat, alias : Nat,
              attempt : Nat, wrote : BOOLEAN, back : Backs]

\* As much of TypeOK as the proof needs.
Typed ==
    /\ results \in Seq(Result)
    /\ leases \in Seq(Lease)
    /\ branch \in SUBSET Nat /\ changes \in Nat
    /\ ex \in [Executors -> Execution]

\* Where an executor has a lease at hand.
Holding == {"record-lease", "agent", "repair", "promote"}
Names(x) ==
    /\ x.lease \in 0..Len(leases) /\ x.alias \in 0..Len(leases)
    /\ x.pc \in Holding => x.lease # 0
LeasesNamed == \A e \in Executors : Names(ex[e])

WorkGrows == \A l \in DOMAIN leases : leases[l].base \subseteq leases[l].head

Inv == Typed /\ LeasesNamed /\ WorkGrows

-----------------------------------------------------------------------------
\* One place of a sequence is replaced.
LEMMA SeqExcept ==
  ASSUME NEW S, NEW s \in Seq(S), NEW i, NEW v, i \in DOMAIN s => v \in S
  PROVE  /\ [s EXCEPT ![i] = v] \in Seq(S)
         /\ Len([s EXCEPT ![i] = v]) = Len(s)
         /\ DOMAIN [s EXCEPT ![i] = v] = DOMAIN s
         /\ \A j \in DOMAIN s : [s EXCEPT ![i] = v][j] = IF j = i THEN v ELSE s[j]
<1> DEFINE t == [s EXCEPT ![i] = v]
<1>1. /\ Len(s) \in Nat /\ DOMAIN s = 1..Len(s) /\ DOMAIN t = 1..Len(s)
      /\ \A j \in 1..Len(s) : t[j] = (IF j = i THEN v ELSE s[j]) /\ s[j] \in S
  OBVIOUS
<1>2. t = [j \in 1..Len(s) |-> t[j]]
  BY <1>1
<1>3. \A j \in 1..Len(s) : t[j] \in S
  BY <1>1
<1>4. \E n \in Nat : t \in [1..n -> S]
  BY <1>1, <1>2, <1>3
<1> HIDE DEF t
<1>5. t \in Seq(S) /\ Len(t) = Len(s)
  BY <1>1, <1>4
<1> QED BY <1>1, <1>5 DEF t

LEMMA InvInit == Init => Inv
<1> SUFFICES ASSUME Init PROVE Inv
  OBVIOUS
<1>1. Fresh \in Execution /\ Names(Fresh)
  BY DEF Init, Fresh, Execution, PCs, Backs, Source, Names, Holding
<1> QED BY <1>1 DEF Init, Inv, Typed, LeasesNamed, WorkGrows

\* One executor changes, and perhaps its lease.
LEMMA Advances ==
  ASSUME Inv, NEW e \in Executors, NEW x \in Execution, ex' = [ex EXCEPT ![e] = x], Names(x)',
         results' \in Seq(Result), leases' \in Seq(Lease), Len(leases) <= Len(leases'),
         branch' \in SUBSET Nat, changes' \in Nat, WorkGrows'
  PROVE  Inv'
<1>1. Typed'
  BY DEF Inv, Typed
<1>2. LeasesNamed'
  <2> SUFFICES ASSUME NEW f \in Executors PROVE Names(ex[f])'
    BY DEF LeasesNamed
  <2>1. CASE f = e
    BY <2>1 DEF Inv, Typed
  <2>2. CASE f # e
    <3>1. ex'[f] = ex[f] /\ Names(ex[f]) /\ Len(leases) \in Nat /\ Len(leases') \in Nat
      BY <2>2 DEF Inv, Typed, LeasesNamed
    <3> QED BY <3>1 DEF Names
  <2> QED BY <2>1, <2>2
<1> QED BY <1>1, <1>2 DEF Inv

\* One executor changes, and no lease.
LEMMA Moves ==
  ASSUME Inv, NEW e \in Executors, NEW x \in Execution, Names(x),
         ex' = [ex EXCEPT ![e] = x], UNCHANGED <<leases, branch, changes>>,
         results' \in Seq(Result)
  PROVE  Inv'
<1>1. WorkGrows' /\ leases' \in Seq(Lease) /\ Len(leases) <= Len(leases') /\ Names(x)'
  BY DEF Inv, Typed, WorkGrows, Names
<1>2. branch' \in SUBSET Nat /\ changes' \in Nat
  BY DEF Inv, Typed
<1> QED BY <1>1, <1>2, Advances

LEMMA Goes ==
  ASSUME Inv, NEW e \in Executors, NEW pc \in PCs, Go(e, pc), UNCHANGED <<leases, branch, changes>>,
         results' \in Seq(Result),
         pc \in Holding => ex[e].lease # 0
  PROVE  Inv'
<1> DEFINE x == [ex[e] EXCEPT !.pc = pc]
<1>1. ex[e] \in Execution /\ Names(ex[e])
  BY DEF Inv, Typed, LeasesNamed
<1>2. x \in Execution /\ Names(x)
  BY <1>1 DEF Execution, Names
<1>3. ex' = [ex EXCEPT ![e] = x]
  BY DEF Go
<1> HIDE DEF x
<1> QED BY <1>2, <1>3, Moves

LEMMA Stops ==
  ASSUME Inv, NEW e \in Executors, Ends(e), UNCHANGED <<leases, branch, changes, results>>
  PROVE  Inv'
<1>1. Fresh \in Execution /\ Fresh.lease \in 0..Len(leases) /\ Fresh.alias \in 0..Len(leases)
  BY DEF Fresh, Execution, PCs, Backs, Source, Inv, Typed
<1> DEFINE x == [Fresh EXCEPT !.pc = "done"]
<1>2. "done" \in PCs \ Holding
  BY DEF PCs, Holding
<1>3. x \in Execution /\ Names(x)
  BY <1>1, <1>2 DEF Execution, Names
<1>4. ex' = [ex EXCEPT ![e] = x] /\ results' \in Seq(Result)
  BY DEF Ends, Inv, Typed
<1> HIDE DEF x
<1> QED BY <1>3, <1>4, Moves

\* The places of an executor that its steps name.
LEMMA Places == /\ GitCalls \subseteq PCs /\ DurableCalls \subseteq PCs /\ {"idle", "final", "done"} \subseteq PCs
                /\ "commit" \in GitCalls /\ "promote" \in GitCalls /\ "remove" \in GitCalls
  BY DEF PCs, GitCalls

\* A failed finalization.
LEMMA ThrowsKeeps ==
  ASSUME Inv, NEW e \in Executors, Throws(e), UNCHANGED <<leases, branch, changes, results>>
  PROVE  Inv'
<1>1. CASE Ends(e)
  BY <1>1, Stops
<1>2. CASE Go(e, "give-up")
  <2>1. "give-up" \in PCs \ Holding /\ results' \in Seq(Result)
    BY DEF PCs, DurableCalls, Holding, Inv, Typed
  <2> QED BY <1>2, <2>1, Goes
<1> QED BY <1>1, <1>2 DEF Throws

LEMMA ReturnsKeeps ==
  ASSUME Inv, NEW e \in Executors, Returns(e), UNCHANGED <<leases, branch, changes, results>>
  PROVE  Inv'
<1>1. CASE Ends(e)
  BY <1>1, Stops
<1>2. CASE ex[e].back # "agent" /\ ~Ends(e)
  <2>1. \E pc \in {"create-repair", "repair-failed", "pass"} : Go(e, pc)
    BY <1>2 DEF Returns, Inv, Typed, Execution, Backs
  <2>2. {"create-repair", "repair-failed", "pass"} \subseteq PCs \ Holding /\ results' \in Seq(Result)
    BY DEF PCs, DurableCalls, Holding, Inv, Typed
  <2> QED BY <2>1, <2>2, Goes
<1> QED BY <1>1, <1>2 DEF Returns

-----------------------------------------------------------------------------
\* Steps that only move the executor, or end it.
LEMMA SimpleKeeps ==
  ASSUME Inv, NEW e \in Executors,
         \/ Start(e) \/ Crash(e) \/ Refused(e) \/ StandDown(e) \/ CannotLease(e) \/ AgentSucceeds(e)
         \/ AwaitGate(e) \/ SkipGate(e) \/ GateThrows(e) \/ Exhausted(e) \/ RecordPromotion(e)
         \/ GiveUp(e) \/ Pass(e)
  PROVE  Inv'
<1>1. UNCHANGED <<leases, branch, changes, results>> /\ results' \in Seq(Result)
  BY DEF Start, Crash, Refused, StandDown, CannotLease, AgentSucceeds, AwaitGate, SkipGate,
         GateThrows, Exhausted, RecordPromotion, GiveUp, Pass, durable, git, fixed, Inv, Typed
<1>2. Ends(e) \/ \E pc \in {"enter", "repair-failed", "await", "gate", "final", "remove"} : Go(e, pc)
  BY DEF Start, Crash, Refused, StandDown, CannotLease, AgentSucceeds, AwaitGate, SkipGate,
         GateThrows, Exhausted, RecordPromotion, GiveUp, Pass
<1>3. {"enter", "repair-failed", "await", "gate", "final", "remove"} \subseteq PCs \ Holding
  BY DEF PCs, DurableCalls, GitCalls, Holding
<1> QED BY <1>1, <1>2, <1>3, Goes, Stops
\* Steps that change the executor's own record, and perhaps a result.
LEMMA MovingKeeps ==
  ASSUME Inv, NEW e \in Executors,
         \/ Abort(e) \/ RecordLease(e) \/ AgentFails(e) \/ IntendRepair(e) \/ Revise(e) \/ RepairFails(e)
         \/ BackToGate(e) \/ FinalizeNode(e)
  PROVE  Inv'
<1>1. ex[e] \in Execution /\ Names(ex[e]) /\ results' \in Seq(Result)
  BY
  DEF Inv, Typed, LeasesNamed, Abort, RecordLease, AgentFails, IntendRepair, Revise,
      RepairFails,
         BackToGate, FinalizeNode, durable, git
<1>2. UNCHANGED <<leases, branch, changes>>
  BY
  DEF Abort, RecordLease, AgentFails, IntendRepair, Revise, RepairFails, BackToGate,
      FinalizeNode, git
<1>3. {"agent", "repair", "repaired", "commit", "revise", "recheck"} \subseteq PCs
  BY DEF PCs, DurableCalls, GitCalls
<1>4. SUFFICES \E x \in Execution : Names(x) /\ ex' = [ex EXCEPT ![e] = x]
  BY <1>1, <1>2, <1>4, Moves
<1>5. CASE Abort(e)
  <2> DEFINE x == [ex[e] EXCEPT !.abort = IF owner = e THEN "stop" ELSE "lost"]
  <2>1. x \in Execution /\ Names(x)
    BY <1>1 DEF Execution, Names
  <2>2. ex' = [ex EXCEPT ![e] = x]
    BY <1>5 DEF Abort
  <2> QED BY <2>1, <2>2
<1>6. CASE RecordLease(e)
  <2> DEFINE x == [ex[e] EXCEPT !.wrote = FALSE,
                                !.pc = IF ex[e].of # Source THEN "repair"
                                       ELSE IF ex[e].attempt > 0 THEN "repaired" ELSE "agent"]
  <2>1. x \in Execution /\ Names(x)
    BY <1>1, <1>3, <1>6 DEF Execution, Names, RecordLease, Holding
  <2>2. ex' = [ex EXCEPT ![e] = x]
    BY <1>6 DEF RecordLease
  <2> QED BY <2>1, <2>2
<1>7. CASE AgentFails(e) \/ Revise(e) \/ RepairFails(e) \/ FinalizeNode(e)
  <2>1. PICK back \in Backs : ex' = [ex EXCEPT ![e].pc = "commit", ![e].back = back]
    BY <1>7 DEF AgentFails, Revise, RepairFails, FinalizeNode, Backs
  <2> DEFINE x == [ex[e] EXCEPT !.pc = "commit", !.back = back]
  <2>2. x \in Execution /\ Names(x)
    BY <1>1, <1>3 DEF Execution, Names, Holding
  <2>3. ex' = [ex EXCEPT ![e] = x]
    BY <2>1
  <2> QED BY <2>2, <2>3
<1>8. CASE IntendRepair(e)
  <2> DEFINE k == ex[e].attempt + 1
  <2> DEFINE x == [ex[e] EXCEPT !.pc = "revise", !.attempt = k]
  <2>2. ex' = [ex EXCEPT ![e] = x]
    BY <1>8 DEF IntendRepair
  <2>3. k \in Nat
    BY <1>1 DEF Execution
  <2> HIDE DEF k
  <2>1. x \in Execution /\ Names(x)
    BY <1>1, <1>3, <2>3 DEF Execution, Names, Holding
  <2> QED BY <2>1, <2>2
<1>9. CASE BackToGate(e)
  <2> DEFINE x == [ex[e] EXCEPT !.pc = "recheck", !.of = Source]
  <2>1. x \in Execution /\ Names(x)
    BY <1>1, <1>3 DEF Execution, Names, Holding, Source
  <2>2. ex' = [ex EXCEPT ![e] = x]
    BY <1>9 DEF BackToGate
  <2> QED BY <2>1, <2>2
<1> QED BY <1>5, <1>6, <1>7, <1>8, <1>9
\* Steps that write results.
LEMMA ResultsKeep ==
  ASSUME Inv, NEW e \in Executors,
         CreateRepair(e) \/ RepairSucceeds(e) \/ RecordFailure(e)
  PROVE  Inv'
<1>1. ex[e] \in Execution /\ Names(ex[e]) /\ UNCHANGED <<leases, branch, changes>>
  BY DEF Inv, Typed, LeasesNamed, CreateRepair, RepairSucceeds, RecordFailure, git
<1>2. \E n \in Nat, s \in RepairStatuses : results' = [results EXCEPT ![n].repair = s]
  <2>1. Len(results) \in Nat /\ ex[e].of \in Nat
    BY <1>1 DEF Inv, Typed, Execution
  <2> QED BY <2>1 DEF CreateRepair, RepairSucceeds, RecordFailure, RepairStatuses
<1>3. results' \in Seq(Result)
  <2>1. PICK n \in Nat, s \in RepairStatuses : results' = [results EXCEPT ![n].repair = s]
    BY <1>2
  <2>2. results \in Seq(Result)
    BY DEF Inv, Typed
  <2> DEFINE r == [results[n] EXCEPT !.repair = s]
  <2>3. results' = [results EXCEPT ![n] = r]
    BY <2>1
  <2>4. n \in DOMAIN results => r \in Result
    <3> SUFFICES ASSUME n \in DOMAIN results PROVE r \in Result
      OBVIOUS
    <3>1. results[n] \in Result
      BY <2>2
    <3> QED BY <3>1 DEF Result
  <2> HIDE DEF r
  <2> QED BY <2>2, <2>3, <2>4, SeqExcept
<1>4. {"lease", "repaired", "exhausted"} \subseteq PCs \ Holding
  BY DEF PCs, DurableCalls, Holding
<1>5. SUFFICES \E x \in Execution : Names(x) /\ ex' = [ex EXCEPT ![e] = x]
  BY <1>1, <1>3, <1>5, Moves
<1>6. CASE CreateRepair(e)
  <2> DEFINE n == Len(results)
  <2> DEFINE x == [ex[e] EXCEPT !.pc = "lease", !.of = n]
  <2>1. ex' = [ex EXCEPT ![e] = x]
    BY <1>6 DEF CreateRepair
  <2>2. n \in Nat
    BY DEF Inv, Typed
  <2> HIDE DEF n
  <2>3. x \in Execution /\ Names(x)
    BY <1>1, <1>4, <2>2 DEF Execution, Names
  <2> QED BY <2>1, <2>3
<1>7. CASE RepairSucceeds(e)
  <2> DEFINE x == [ex[e] EXCEPT !.pc = "repaired", !.alias = ex[e].lease]
  <2>1. ex' = [ex EXCEPT ![e] = x]
    BY <1>7 DEF RepairSucceeds
  <2>2. x \in Execution /\ Names(x)
    BY <1>1, <1>4 DEF Execution, Names
  <2> QED BY <2>1, <2>2
<1>8. CASE RecordFailure(e)
  <2>1. PICK pc \in PCs \ Holding : ex' = [ex EXCEPT ![e].of = Source, ![e].pc = pc]
    BY <1>4, <1>8 DEF RecordFailure
  <2> DEFINE x == [ex[e] EXCEPT !.of = Source, !.pc = pc]
  <2>2. ex' = [ex EXCEPT ![e] = x]
    BY <2>1
  <2>3. Source \in Nat
    BY DEF Source
  <2>4. x \in Execution /\ Names(x)
    BY <1>1, <2>3 DEF Execution, Names
  <2> QED BY <2>2, <2>4
<1> QED BY <1>6, <1>7, <1>8

LEMMA RunGateKeeps ==
  ASSUME Inv, NEW e \in Executors, RunGate(e)
  PROVE  Inv'
<1>1. PICK l \in Active(e), passed \in BOOLEAN :
        /\ results' = Append(results, [passed |-> passed, repair |-> "absent",
                                       saw |-> leases[l].head \cup leases[l].edits])
        /\ Go(e, IF passed THEN "final"
                 ELSE IF ex[e].attempt < MaxAttempts THEN "intent" ELSE "exhausted")
  BY DEF RunGate
<1>2. ex[e] \in Execution /\ Names(ex[e]) /\ leases \in Seq(Lease) /\ results \in Seq(Result)
  BY DEF Inv, Typed, LeasesNamed
<1>3. l \in DOMAIN leases
  BY <1>2 DEF Active, Open, Names
<1>4. leases[l].head \cup leases[l].edits \in SUBSET Nat
  <2>1. leases[l] \in Lease
    BY <1>2, <1>3
  <2> QED BY <2>1 DEF Lease
<1>5. results' \in Seq(Result)
  <2> DEFINE saw == leases[l].head \cup leases[l].edits
  <2> DEFINE r == [passed |-> passed, repair |-> "absent", saw |-> saw]
  <2>1. saw \in SUBSET Nat
    BY <1>4
  <2> HIDE DEF saw
  <2>2. r \in Result
    BY <2>1 DEF Result, RepairStatuses
  <2>3. results' = Append(results, r)
    BY <1>1 DEF saw
  <2> HIDE DEF r
  <2> QED BY <1>2, <2>2, <2>3
<1>6. \E pc \in {"final", "intent", "exhausted"} : Go(e, pc)
  BY <1>1
<1>7. {"final", "intent", "exhausted"} \subseteq PCs \ Holding
  BY DEF PCs, DurableCalls, Holding
<1>8. UNCHANGED <<leases, branch, changes>>
  BY DEF RunGate, git
<1> QED BY <1>5, <1>6, <1>7, <1>8, Goes

LEMMA EnterKeeps ==
  ASSUME Inv, NEW e \in Executors, Enter(e) \/ CreateRoleRun(e)
  PROVE  Inv'
<1>2. UNCHANGED <<leases, branch, changes, results>>
  BY DEF Enter, CreateRoleRun, git
<1>1. ex[e] \in Execution /\ Names(ex[e]) /\ results' \in Seq(Result) /\ Len(leases) \in Nat
  BY <1>2 DEF Inv, Typed, LeasesNamed
<1>3. {"role-run", "gate", "lease"} \subseteq PCs \ Holding /\ "agent" \in PCs
  BY DEF PCs, DurableCalls, Holding
<1>4. CASE \E lease \in 0..Len(leases) : ex' = [ex EXCEPT ![e].pc = "role-run", ![e].lease = lease]
  <2>1. PICK lease \in 0..Len(leases) : ex' = [ex EXCEPT ![e].pc = "role-run", ![e].lease = lease]
    BY <1>4
  <2>2. lease \in Nat
    BY <1>1
  <2> DEFINE x == [ex[e] EXCEPT !.pc = "role-run", !.lease = lease]
  <2>3. ex' = [ex EXCEPT ![e] = x]
    BY <2>1
  <2>4. x \in Execution /\ Names(x)
    BY <1>1, <1>3, <2>2 DEF Execution, Names
  <2> HIDE DEF x
  <2> QED BY <1>1, <1>2, <2>3, <2>4, Moves
<1>5. CASE Go(e, "gate") \/ Ends(e)
  BY <1>1, <1>2, <1>3, <1>5, Goes, Stops
<1>6. CASE CreateRoleRun(e)
  <2>1. Go(e, "lease") \/ (Go(e, "agent") /\ ex[e].lease # 0)
    BY <1>6 DEF CreateRoleRun
  <2> QED BY <1>1, <1>2, <1>3, <2>1, Goes
<1>7. CASE Enter(e)
  <2> DEFINE lease == IF Open(Source) = {} THEN 0 ELSE CHOOSE l \in Open(Source) : TRUE
  <2>1. lease \in 0..Len(leases)
    <3>1. Open(Source) \subseteq 0..Len(leases)
      BY <1>1 DEF Open, Inv, Typed
    <3>2. Open(Source) # {} => (CHOOSE l \in Open(Source) : TRUE) \in Open(Source)
      OBVIOUS
    <3> QED BY <1>1, <3>1, <3>2
  <2>2. \/ Go(e, "gate") \/ Ends(e)
        \/ ex' = [ex EXCEPT ![e].pc = "role-run", ![e].lease = lease]
    BY <1>7 DEF Enter
  <2> HIDE DEF lease
  <2> QED BY <1>4, <1>5, <2>1, <2>2
<1> QED BY <1>6, <1>7
-----------------------------------------------------------------------------
\* One executor changes, and one lease.
LEMMA Works ==
  ASSUME Inv, NEW e \in Executors, NEW x \in Execution, Names(x), ex' = [ex EXCEPT ![e] = x],
         NEW l, NEW q, l \in DOMAIN leases => q \in Lease /\ q.base \subseteq q.head,
         leases' = [leases EXCEPT ![l] = q],
         UNCHANGED <<results, branch>>, changes' \in Nat
  PROVE  Inv'
<1>1. leases \in Seq(Lease) /\ results' \in Seq(Result) /\ branch' \in SUBSET Nat /\ Len(leases) \in Nat
  BY DEF Inv, Typed
<1>2. /\ leases' \in Seq(Lease) /\ Len(leases') = Len(leases)
      /\ DOMAIN leases' = DOMAIN leases
      /\ \A j \in DOMAIN leases : leases'[j] = IF j = l THEN q ELSE leases[j]
  BY <1>1, SeqExcept
<1>3. WorkGrows'
  BY <1>2 DEF Inv, WorkGrows
<1>4. Names(x)' /\ Len(leases) <= Len(leases')
  BY <1>1, <1>2 DEF Names
<1> QED BY <1>1, <1>2, <1>3, <1>4, Advances

LEMMA CreateLeaseKeeps ==
  ASSUME Inv, NEW e \in Executors, CreateLease(e)
  PROVE  Inv'
<1> DEFINE q == [node |-> ex[e].of, base |-> branch, head |-> branch,
                 edits |-> {}, tree |-> TRUE, released |-> FALSE]
<1>1. /\ leases \in Seq(Lease) /\ branch \in SUBSET Nat /\ Len(leases) \in Nat
      /\ ex[e] \in Execution /\ Names(ex[e])
  BY DEF Inv, Typed, LeasesNamed
<1>2. q \in Lease /\ q.base \subseteq q.head
  BY <1>1 DEF Lease, Execution
<1>3. leases' = Append(leases, q)
  BY DEF CreateLease
<1> HIDE DEF q
<1>4. /\ leases' \in Seq(Lease) /\ Len(leases') = Len(leases) + 1
      /\ \A l \in DOMAIN leases' : leases'[l] = q \/ (l \in DOMAIN leases /\ leases'[l] = leases[l])
  BY <1>1, <1>2, <1>3
<1>5. WorkGrows'
  BY <1>2, <1>4 DEF Inv, WorkGrows
<1> DEFINE n == Len(leases) + 1
<1> DEFINE x == [ex[e] EXCEPT !.pc = "record-lease", !.lease = n]
<1>6. ex' = [ex EXCEPT ![e] = x]
  BY DEF CreateLease
<1>7. /\ n \in Nat /\ n # 0 /\ n = Len(leases') /\ n \in 0..Len(leases')
      /\ ex[e].alias \in 0..Len(leases') /\ "record-lease" \in PCs
  BY <1>1, <1>4 DEF Names, PCs, DurableCalls
<1> HIDE DEF n
<1>12. x \in Execution /\ x.lease = n /\ x.alias = ex[e].alias
  BY <1>1, <1>7 DEF Execution
<1> HIDE DEF x
<1>8. PICK y \in Execution : y = x /\ y.lease = n /\ y.alias = ex[e].alias
  BY <1>12
<1>9. Names(y)'
  BY <1>7, <1>8 DEF Names
<1>10. results' \in Seq(Result) /\ branch' \in SUBSET Nat /\ changes' \in Nat
  BY DEF CreateLease, durable, Inv, Typed
<1>11. Len(leases) <= Len(leases') /\ ex' = [ex EXCEPT ![e] = y]
  BY <1>1, <1>4, <1>6, <1>8
<1> QED BY <1>4, <1>5, <1>9, <1>10, <1>11, Advances

\* An agent, a removal and a release change what the executor's lease says.
LEMMA LeaseKeeps ==
  ASSUME Inv, NEW e \in Executors, Change(e) \/ Release(e)
  PROVE  Inv'
<1> DEFINE l == ex[e].lease
<1>1. /\ leases \in Seq(Lease) /\ ex[e] \in Execution /\ Names(ex[e])
      /\ UNCHANGED <<results, branch>>
  BY DEF Inv, Typed, LeasesNamed, Change, Release, durable
<1>5. changes' \in Nat
  <2>1. changes' = changes \/ changes' = changes + 1
    BY DEF Change, Release
  <2> QED BY <2>1 DEF Inv, Typed
<1>2. l \in DOMAIN leases => leases[l] \in Lease /\ leases[l].base \subseteq leases[l].head
  BY <1>1 DEF Inv, WorkGrows
<1>3. CASE Change(e)
  <2> DEFINE n == changes + 1
  <2> DEFINE x == [ex[e] EXCEPT !.wrote = TRUE]
  <2>1. x \in Execution /\ Names(x)
    BY <1>1 DEF Execution, Names
  <2>2. ex' = [ex EXCEPT ![e] = x]
    BY <1>3 DEF Change
  <2>3. n \in Nat
    BY DEF Inv, Typed
  <2>4. \/ leases' = [leases EXCEPT ![l].edits = @ \cup {n}]
        \/ leases' = [leases EXCEPT ![l].head = @ \cup {n}]
    BY <1>3 DEF Change
  <2> HIDE DEF n, x
  <2> SUFFICES ASSUME NEW q, leases' = [leases EXCEPT ![l] = q],
                      \/ q = [leases[l] EXCEPT !.edits = leases[l].edits \cup {n}]
                      \/ q = [leases[l] EXCEPT !.head = leases[l].head \cup {n}]
               PROVE  Inv'
    BY <2>4
  <2>5. l \in DOMAIN leases => q \in Lease /\ q.base \subseteq q.head
    BY <1>2, <2>3 DEF Lease
  <2> HIDE DEF l
  <2> QED BY <1>1, <1>5, <2>1, <2>2, <2>5, Works
<1>4. CASE Release(e)
  <2> DEFINE alias == IF ex[e].alias = l THEN 0 ELSE ex[e].alias
  <2> DEFINE x == [ex[e] EXCEPT !.pc = "record-release", !.alias = alias]
  <2> DEFINE q == [leases[l] EXCEPT !.released = TRUE]
  <2>1. alias \in 0..Len(leases) /\ alias \in Nat
    BY <1>1 DEF Names, Execution
  <2>2. ex' = [ex EXCEPT ![e] = x]
    BY <1>4 DEF Release
  <2>3. "record-release" \in PCs \ Holding
    BY DEF PCs, DurableCalls, Holding
  <2> HIDE DEF alias
  <2>4. x \in Execution /\ Names(x)
    BY <1>1, <2>1, <2>3 DEF Execution, Names
  <2>5. leases' = [leases EXCEPT ![l] = q]
    BY <1>4 DEF Release
  <2>6. l \in DOMAIN leases => q \in Lease /\ q.base \subseteq q.head
    BY <1>2 DEF Lease
  <2> HIDE DEF q, x, l
  <2> QED BY <1>1, <1>5, <2>2, <2>4, <2>5, <2>6, Works
<1> QED BY <1>3, <1>4

LEMMA RemoveKeeps ==
  ASSUME Inv, NEW e \in Executors, RemoveWorktree(e)
  PROVE  Inv'
<1>1. CASE Throws(e) /\ UNCHANGED leases
  <2>1. UNCHANGED <<leases, branch, changes, results>>
    BY <1>1 DEF RemoveWorktree, durable
  <2> QED BY <1>1, <2>1, ThrowsKeeps
<1>2. CASE Go(e, "release") /\ leases' = [leases EXCEPT ![ex[e].lease].tree = FALSE]
  <2> DEFINE l == ex[e].lease
  <2> DEFINE x == [ex[e] EXCEPT !.pc = "release"]
  <2> DEFINE q == [leases[l] EXCEPT !.tree = FALSE]
  <2>1. /\ leases \in Seq(Lease) /\ ex[e] \in Execution /\ Names(ex[e])
        /\ changes' \in Nat /\ UNCHANGED <<results, branch>>
    BY DEF Inv, Typed, LeasesNamed, RemoveWorktree, durable
  <2>2. "release" \in PCs \ Holding
    BY DEF PCs, DurableCalls, Holding
  <2>3. x \in Execution /\ Names(x)
    BY <2>1, <2>2 DEF Execution, Names
  <2>4. ex' = [ex EXCEPT ![e] = x] /\ leases' = [leases EXCEPT ![l] = q]
    BY <1>2 DEF Go
  <2>5. l \in DOMAIN leases => leases[l] \in Lease /\ leases[l].base \subseteq leases[l].head
    BY <2>1 DEF Inv, WorkGrows
  <2>6. l \in DOMAIN leases => q \in Lease /\ q.base \subseteq q.head
    BY <2>5 DEF Lease
  <2> HIDE DEF q, x, l
  <2> QED BY <2>1, <2>3, <2>4, <2>6, Works
<1> QED BY <1>1, <1>2 DEF RemoveWorktree
\* A lease that is found is one that exists, and a commit only adds to it.
LEMMA CommitKeeps ==
  ASSUME Inv, NEW e \in Executors, Commit(e)
  PROVE  Inv'
<1>1. /\ leases \in Seq(Lease) /\ ex[e] \in Execution /\ Names(ex[e]) /\ Len(leases) \in Nat
      /\ changes \in Nat
  BY DEF Inv, Typed, LeasesNamed
<1>2. UNCHANGED <<branch, changes, results>>
  BY DEF Commit, durable
<1>3. CASE /\ Throws(e) \/ Returns(e)
           /\ UNCHANGED leases
  BY <1>2, <1>3, ThrowsKeeps, ReturnsKeeps
<1>4. CASE \E l \in Found(e) :
             /\ leases' = [leases EXCEPT ![l].head = @ \cup leases[l].edits, ![l].edits = {}]
             /\ ex' = [ex EXCEPT ![e].pc = "promote", ![e].lease = l]
  <2>1. PICK l \in Found(e) :
             /\ leases' = [leases EXCEPT ![l].head = @ \cup leases[l].edits, ![l].edits = {}]
             /\ ex' = [ex EXCEPT ![e].pc = "promote", ![e].lease = l]
    BY <1>4
  <2>2. l \in DOMAIN leases
    BY <1>1 DEF Found, Active, Open, Names
  <2>3. l \in 0..Len(leases) /\ l # 0 /\ l \in Nat /\ "promote" \in PCs
    BY <1>1, <2>2, Places
  <2>4. leases[l] \in Lease /\ leases[l].base \subseteq leases[l].head
    BY <1>1, <2>2 DEF Inv, WorkGrows
  <2> DEFINE head == leases[l].head \cup leases[l].edits
  <2> DEFINE q == [leases[l] EXCEPT !.head = head, !.edits = {}]
  <2> DEFINE x == [ex[e] EXCEPT !.pc = "promote", !.lease = l]
  <2>5. leases' = [leases EXCEPT ![l] = q]
    BY <2>1
  <2>6. ex' = [ex EXCEPT ![e] = x]
    BY <2>1
  <2>7. head \in SUBSET Nat /\ leases[l].base \subseteq head
    BY <2>4 DEF Lease
  <2> HIDE DEF head
  <2>8. q \in Lease /\ q.base \subseteq q.head
    BY <2>4, <2>7 DEF Lease
  <2>9. x \in Execution /\ Names(x)
    BY <1>1, <2>3 DEF Execution, Names
  <2> HIDE DEF q, x
  <2> QED BY <1>1, <1>2, <2>5, <2>6, <2>8, <2>9, Works
<1> QED BY <1>3, <1>4 DEF Commit

LEMMA PromoteKeeps ==
  ASSUME Inv, NEW e \in Executors, Promote(e)
  PROVE  Inv' /\ branch \subseteq branch'
<1>1. /\ leases \in Seq(Lease) /\ ex[e] \in Execution /\ Names(ex[e])
      /\ UNCHANGED <<leases, changes, results>>
  BY DEF Inv, Typed, LeasesNamed, Promote, durable
<1>2. CASE Throws(e) /\ UNCHANGED branch
  BY <1>1, <1>2, ThrowsKeeps
<1>3. CASE /\ branch = leases[ex[e].lease].base
           /\ branch' = leases[ex[e].lease].head
           /\ Go(e, "record-promotion")
  <2> DEFINE l == ex[e].lease
  <2>1. l \in DOMAIN leases
    <3>1. ex[e].pc = "promote" /\ l \in 0..Len(leases)
      BY <1>1 DEF Promote, Names
    <3>2. l # 0
      BY <1>1, <3>1 DEF Names, Holding
    <3> QED BY <1>1, <3>1, <3>2
  <2>2. leases[l] \in Lease /\ leases[l].base \subseteq leases[l].head
    BY <1>1, <2>1 DEF Inv, WorkGrows
  <2>3. branch' \in SUBSET Nat /\ branch \subseteq branch'
    BY <1>3, <2>2 DEF Lease
  <2> DEFINE x == [ex[e] EXCEPT !.pc = "record-promotion"]
  <2>4. ex' = [ex EXCEPT ![e] = x]
    BY <1>3 DEF Go
  <2>5. "record-promotion" \in PCs \ Holding
    BY DEF PCs, DurableCalls, Holding
  <2>6. x \in Execution /\ Names(x)
    BY <1>1, <2>5 DEF Execution, Names
  <2> HIDE DEF x
  <2>7. PICK y \in Execution : Names(y) /\ y = x
    BY <2>6
  <2>8. /\ leases' \in Seq(Lease) /\ results' \in Seq(Result) /\ changes' \in Nat
        /\ Len(leases) <= Len(leases') /\ WorkGrows' /\ Names(y)'
    BY <1>1, <2>7 DEF Inv, Typed, WorkGrows, Names
  <2>9. ex' = [ex EXCEPT ![e] = y]
    BY <2>4, <2>7
  <2> QED BY <2>3, <2>7, <2>8, <2>9, Advances
<1> QED BY <1>2, <1>3 DEF Promote

\* A write that is recorded, and a Git command that fails.
LEMMA EndingKeeps ==
  ASSUME Inv, NEW e \in Executors, RecordRelease(e) \/ GitFails(e)
  PROVE  Inv'
<1>1. UNCHANGED <<leases, branch, changes, results>>
  BY DEF RecordRelease, GitFails, durable, git
<1>2. Returns(e) \/ Throws(e)
  BY DEF RecordRelease, GitFails
<1> QED BY <1>1, <1>2, ReturnsKeeps, ThrowsKeeps

LEMMA LoseJobKeeps ==
  ASSUME Inv, LoseJob
  PROVE  Inv'
BY DEF LoseJob, durable, git, Inv, Typed, LeasesNamed, Names, WorkGrows

\* One step of any kind.
LEMMA InvNext == Inv /\ [Next]_vars => Inv'
<1> SUFFICES ASSUME Inv, [Next]_vars PROVE Inv'
  OBVIOUS
<1>1. CASE UNCHANGED vars
  BY <1>1 DEF vars, Inv, Typed, LeasesNamed, Names, WorkGrows
<1>2. CASE LoseJob
  BY <1>2, LoseJobKeeps
<1>3. ASSUME NEW e \in Executors,
             \/ Start(e) \/ Crash(e) \/ Refused(e) \/ StandDown(e) \/ CannotLease(e)
             \/ AgentSucceeds(e) \/ AwaitGate(e) \/ SkipGate(e) \/ GateThrows(e) \/ Exhausted(e)
             \/ RecordPromotion(e) \/ GiveUp(e) \/ Pass(e)
      PROVE  Inv'
  BY <1>3, SimpleKeeps
<1>4. ASSUME NEW e \in Executors,
             \/ Abort(e) \/ RecordLease(e) \/ AgentFails(e) \/ IntendRepair(e) \/ Revise(e)
             \/ RepairFails(e) \/ BackToGate(e) \/ FinalizeNode(e)
      PROVE  Inv'
  BY <1>4, MovingKeeps
<1>5. ASSUME NEW e \in Executors,
             \/ CreateRepair(e) \/ RepairSucceeds(e) \/ RecordFailure(e) \/ RunGate(e)
             \/ Enter(e) \/ CreateRoleRun(e)
      PROVE  Inv'
  BY <1>5, ResultsKeep, RunGateKeeps, EnterKeeps
<1>6. ASSUME NEW e \in Executors,
             \/ CreateLease(e) \/ Change(e) \/ Release(e) \/ RemoveWorktree(e) \/ Commit(e)
             \/ Promote(e) \/ RecordRelease(e) \/ GitFails(e)
      PROVE  Inv'
  BY <1>6, CreateLeaseKeeps, LeaseKeeps, RemoveKeeps, CommitKeeps, PromoteKeeps, EndingKeeps
<1> QED BY <1>1, <1>2, <1>3, <1>4, <1>5, <1>6 DEF Next

LEMMA Invariance == Spec => []Inv
BY InvInit, InvNext, PTL DEF Spec

\* Promotion is the only step that moves the branch, and it only adds to it.
LEMMA BranchStep == Inv /\ [Next]_vars => [branch \subseteq branch']_vars
<1> SUFFICES ASSUME Inv, [Next]_vars PROVE branch \subseteq branch'
  OBVIOUS
<1>1. CASE UNCHANGED branch
  BY <1>1
<1>2. ASSUME NEW e \in Executors, Promote(e) PROVE branch \subseteq branch'
  BY <1>2, PromoteKeeps
<1>3. CASE ~\E e \in Executors : Promote(e)
  <2>1. UNCHANGED branch
    BY <1>3
    DEF vars, Next, LoseJob, Start, Crash, Abort, Refused, StandDown, Enter, CreateRoleRun,
       CreateLease, CannotLease, RecordLease, Change, AgentSucceeds, AgentFails, AwaitGate, SkipGate,
       RunGate, GateThrows, Exhausted, IntendRepair, Revise, CreateRepair, RepairSucceeds, RepairFails,
       RecordFailure, BackToGate, FinalizeNode, Commit, RecordPromotion, RemoveWorktree, Release,
       RecordRelease, GitFails, GiveUp, Pass, git
  <2> QED BY <2>1
<1> QED BY <1>2, <1>3

(***************************************************************************)
(* promoteLeaseToRunBranch (worktree-manager.ts): however many executors   *)
(* have lost their jobs and go on with their Git commands, and whichever   *)
(* lease they promote, the run's branch keeps every commit.                *)
(***************************************************************************)
THEOREM BranchKeeps == Spec => BranchKeepsCommits
BY Invariance, BranchStep, PTL DEF Spec, BranchKeepsCommits

-----------------------------------------------------------------------------
(***************************************************************************)
(* A node that does not declare code-changes.  As long as no two executors *)
(* have ever run at the same time, the lease that Commit has inspected is  *)
(* still as it was when Promote reads it, because nobody else is there to  *)
(* change it.                                                              *)
(***************************************************************************)
Alone == \A e, f \in Executors : Lives(e) /\ Lives(f) => e = f
Clean ==
    /\ branch = {}
    /\ \A l \in DOMAIN leases : leases[l].base = {}
    /\ \A e \in Executors : ex[e].pc = "promote" => leases[ex[e].lease].head = {}
Untouched == ~mayChange /\ ~overlap => Alone /\ Clean

LEMMA UntouchedInit == Init => Untouched
BY DEF Init, Untouched, Alone, Clean, Lives, Fresh

\* The only living executor acts.
LEMMA ActsAlone ==
  ASSUME Alone, NEW e \in Executors, Lives(e), \A f \in Executors \ {e} : ex'[f] = ex[f],
         branch' = {}, \A l \in DOMAIN leases' : leases'[l].base = {},
         ex'[e].pc = "promote" => leases'[ex'[e].lease].head = {}
  PROVE  Alone' /\ Clean'
<1>1. ASSUME NEW f \in Executors \ {e} PROVE ~Lives(f) /\ ~Lives(f)' /\ ex'[f].pc # "promote"
  BY <1>1 DEF Alone, Lives
<1> QED BY <1>1 DEF Alone, Clean, Lives

\* Where an executor uses its lease, and where it finalizes it.
WorkPlaces == {"role-run", "record-lease", "agent", "repair"}
LeaseCalls == {"promote", "record-promotion", "remove", "release"}

\* The steps that leave Git alone and are not about to promote a lease.
Elsewhere(e) ==
    \/ Crash(e) \/ Abort(e) \/ Refused(e) \/ StandDown(e) \/ Enter(e) \/ CreateRoleRun(e)
    \/ CannotLease(e) \/ RecordLease(e) \/ AgentSucceeds(e) \/ AgentFails(e) \/ AwaitGate(e)
    \/ SkipGate(e) \/ RunGate(e) \/ GateThrows(e) \/ Exhausted(e) \/ IntendRepair(e) \/ Revise(e)
    \/ CreateRepair(e) \/ RepairSucceeds(e) \/ RepairFails(e) \/ RecordFailure(e) \/ BackToGate(e)
    \/ FinalizeNode(e) \/ RecordPromotion(e) \/ RecordRelease(e) \/ GitFails(e) \/ GiveUp(e) \/ Pass(e)

LEMMA ElsewhereFacts ==
  ASSUME NEW e \in Executors, Elsewhere(e)
  PROVE  UNCHANGED <<leases, branch, mayChange, overlap>> /\ Lives(e)
<1>1. UNCHANGED <<leases, branch, mayChange, overlap>>
  BY
  DEF Elsewhere, Crash, Abort, Refused, StandDown, Enter, CreateRoleRun, CannotLease,
      RecordLease,
     AgentSucceeds, AgentFails, AwaitGate, SkipGate, RunGate, GateThrows, Exhausted, IntendRepair,
     Revise, CreateRepair, RepairSucceeds, RepairFails, RecordFailure, BackToGate, FinalizeNode,
     RecordPromotion, RecordRelease, GitFails, GiveUp, Pass, git, fixed
<1>2. Lives(e)
  <2>1. CASE Crash(e) \/ Abort(e)
    BY <2>1 DEF Crash, Abort
  <2>2. CASE ex[e].pc \in DurableCalls \cup GitCalls \cup {"final"}
    BY <2>2 DEF Lives, DurableCalls, GitCalls
  <2>3. CASE StandDown(e)
    BY <2>3 DEF StandDown, MayStand, Checked, Lives
  <2>4. CASE SkipGate(e) \/ RunGate(e) \/ GateThrows(e)
    BY <2>4 DEF SkipGate, RunGate, GateThrows, MustRunGate, Lives
  <2> QED BY <2>1, <2>2, <2>3, <2>4 DEF Elsewhere, Refused, Enter, CreateRoleRun, CannotLease,
     RecordLease, AgentSucceeds, AgentFails, AwaitGate, Exhausted, IntendRepair, Revise, CreateRepair,
     RepairSucceeds, RepairFails, RecordFailure, BackToGate, FinalizeNode, RecordPromotion,
     RecordRelease, GitFails, GiveUp, Pass, DurableCalls, GitCalls
<1> QED BY <1>1, <1>2

\* What becomes of the leases that an executor has at hand, from x to y.
Follows(x, y) ==
    /\ y.alias # 0 => y.alias = x.alias \/ (x.pc = "repair" /\ y.alias = x.lease)
    /\ y.pc \in WorkPlaces /\ y.lease # 0 =>
          (x.pc \in WorkPlaces /\ y.lease = x.lease) \/ y.lease \in Open(Source)
    /\ y.pc \in LeaseCalls =>
          /\ x.pc \in LeaseCalls /\ y.lease = x.lease
          /\ y.pc = "promote" <=> x.pc = "promote"

Still(e) == \A f \in Executors \ {e} : ex'[f] = ex[f]

LEMMA GoesFollows ==
  ASSUME Inv, NEW e \in Executors, NEW pc, Go(e, pc),
         pc \in WorkPlaces => ex[e].pc \in WorkPlaces,
         pc \in LeaseCalls => ex[e].pc \in LeaseCalls /\ (pc = "promote" <=> ex[e].pc = "promote")
  PROVE  Still(e) /\ Follows(ex[e], ex'[e])
<1>1. ex \in [Executors -> Execution]
  BY DEF Inv, Typed
<1>2. Still(e)
  BY <1>1 DEF Go, Still
<1>3. ex'[e].pc = pc /\ ex'[e].alias = ex[e].alias /\ ex'[e].lease = ex[e].lease
  BY <1>1 DEF Go, Execution
<1> QED BY <1>2, <1>3 DEF Follows

LEMMA EndsFollows ==
  ASSUME Inv, NEW e \in Executors, Ends(e)
  PROVE  Still(e) /\ Follows(ex[e], ex'[e])
<1>1. ex \in [Executors -> Execution]
  BY DEF Inv, Typed
<1> QED BY <1>1 DEF Ends, Fresh, Follows, Still, WorkPlaces, LeaseCalls

LEMMA ReturnsFollow ==
  ASSUME Inv, NEW e \in Executors, Returns(e) \/ Throws(e)
  PROVE  Still(e) /\ Follows(ex[e], ex'[e])
<1>1. Ends(e) \/ \E pc \in {"create-repair", "repair-failed", "pass", "give-up"} : Go(e, pc)
  <2>1. ex[e] \in Execution
    BY DEF Inv, Typed
  <2> QED BY <2>1 DEF Returns, Throws, Execution, Backs
<1>2. {"create-repair", "repair-failed", "pass", "give-up"} \cap (WorkPlaces \cup LeaseCalls) = {}
  BY DEF WorkPlaces, LeaseCalls
<1> QED BY <1>1, <1>2, EndsFollows, GoesFollows

LEMMA ElsewhereFollows ==
  ASSUME Inv, NEW e \in Executors, Elsewhere(e)
  PROVE  Still(e) /\ Follows(ex[e], ex'[e])
<1>1. ex \in [Executors -> Execution] /\ ex[e] \in Execution
  BY DEF Inv, Typed
<1> DEFINE Plain == PCs \ (WorkPlaces \cup LeaseCalls)
<1>2. CASE Ends(e) \/ \E pc \in Plain : Go(e, pc)
  BY <1>2, EndsFollows, GoesFollows
<1>3. CASE Abort(e)
  <2>1. /\ Still(e)
        /\ ex'[e].pc = ex[e].pc /\ ex'[e].alias = ex[e].alias /\ ex'[e].lease = ex[e].lease
    BY <1>1, <1>3 DEF Abort, Execution, Still
  <2> QED BY <2>1 DEF Follows
<1>4. CASE Enter(e)
  <2>1. "gate" \in Plain
    BY DEF PCs, DurableCalls, WorkPlaces, LeaseCalls
  <2>2. CASE ex' = [ex EXCEPT ![e].pc = "role-run",
                              ![e].lease = IF Open(Source) = {} THEN 0
                                           ELSE CHOOSE l \in Open(Source) : TRUE]
    <3> DEFINE l == IF Open(Source) = {} THEN 0 ELSE CHOOSE l \in Open(Source) : TRUE
    <3>1. l = 0 \/ l \in Open(Source)
      OBVIOUS
    <3>2. /\ Still(e) /\ ex'[e].pc = "role-run" /\ ex'[e].alias = ex[e].alias /\ ex'[e].lease = l
      BY <1>1, <2>2 DEF Execution, Still
    <3> HIDE DEF l
    <3> QED BY <3>1, <3>2 DEF Follows, LeaseCalls
  <2> QED BY <1>2, <1>4, <2>1, <2>2 DEF Enter
<1>5. CASE CreateRoleRun(e) \/ RunGate(e)
  <2>1. {"lease", "final", "intent", "exhausted"} \subseteq Plain
    BY DEF PCs, DurableCalls, WorkPlaces, LeaseCalls
  <2>2. CASE Go(e, "agent") /\ ex[e].pc = "role-run"
    BY <2>2, GoesFollows DEF WorkPlaces, LeaseCalls
  <2> QED BY <1>2, <1>5, <2>1, <2>2 DEF CreateRoleRun, RunGate
<1>6. CASE RecordLease(e)
  <2>1. /\ Still(e) /\ ex'[e].pc \in {"repair", "repaired", "agent"} /\ ex[e].pc = "record-lease"
        /\ ex'[e].alias = ex[e].alias /\ ex'[e].lease = ex[e].lease
    BY <1>1, <1>6 DEF RecordLease, Execution, Still
  <2> QED BY <2>1 DEF Follows, WorkPlaces, LeaseCalls
<1>7. CASE RepairSucceeds(e)
  <2>1. /\ Still(e) /\ ex'[e].pc = "repaired" /\ ex[e].pc = "repair" /\ ex'[e].alias = ex[e].lease
    BY <1>1, <1>7 DEF RepairSucceeds, Execution, Still
  <2> QED BY <2>1 DEF Follows, WorkPlaces, LeaseCalls
<1>8. CASE \/ AgentFails(e) \/ IntendRepair(e) \/ Revise(e) \/ CreateRepair(e) \/ RepairFails(e)
           \/ RecordFailure(e) \/ BackToGate(e) \/ FinalizeNode(e)
  <2>1. /\ Still(e) /\ ex'[e].pc \in {"commit", "revise", "lease", "exhausted", "recheck"}
        /\ ex'[e].alias = ex[e].alias
    <3>1. CASE \E back \in Backs : ex' = [ex EXCEPT ![e].pc = "commit", ![e].back = back]
      BY <1>1, <3>1 DEF Execution, Still
    <3>2. CASE RecordFailure(e)
      BY <1>1, <3>2 DEF RecordFailure, Execution, Still
    <3>3. CASE IntendRepair(e)
      BY <1>1, <3>3 DEF IntendRepair, Execution, Still
    <3>4. CASE CreateRepair(e) \/ BackToGate(e)
      BY <1>1, <3>4 DEF CreateRepair, BackToGate, Execution, Still
    <3> QED BY <1>8, <3>1, <3>2, <3>3, <3>4 DEF AgentFails, Revise, RepairFails, FinalizeNode, Backs
  <2> QED BY <2>1 DEF Follows, WorkPlaces, LeaseCalls
<1>9. CASE \/ Crash(e) \/ Refused(e) \/ StandDown(e) \/ CannotLease(e) \/ AgentSucceeds(e)
           \/ AwaitGate(e) \/ SkipGate(e) \/ GateThrows(e) \/ Exhausted(e) \/ GiveUp(e) \/ Pass(e)
  <2>1. {"repair-failed", "await", "gate", "final"} \subseteq Plain
    BY DEF PCs, DurableCalls, WorkPlaces, LeaseCalls
  <2> QED BY <1>2, <1>9, <2>1 DEF Crash, Refused, StandDown, CannotLease, AgentSucceeds, AwaitGate,
     SkipGate, GateThrows, Exhausted, GiveUp, Pass
<1>10. CASE RecordPromotion(e)
  <2>1. Go(e, "remove") /\ ex[e].pc = "record-promotion"
    BY <1>10 DEF RecordPromotion
  <2> QED BY <2>1, GoesFollows DEF WorkPlaces, LeaseCalls
<1>11. CASE RecordRelease(e) \/ GitFails(e)
  BY <1>11, ReturnsFollow DEF RecordRelease, GitFails
<1> QED BY <1>3, <1>4, <1>5, <1>6, <1>7, <1>8, <1>9, <1>10, <1>11 DEF Elsewhere

LEMMA ActsElsewhere == ASSUME Inv, Untouched, NEW e \in Executors, Elsewhere(e) PROVE Untouched'
<1>1. UNCHANGED <<leases, branch, mayChange, overlap>> /\ Lives(e)
  BY ElsewhereFacts
<1>2. /\ \A f \in Executors \ {e} : ex'[f] = ex[f]
      /\ ex'[e].pc = "promote" => ex[e].pc = "promote" /\ ex'[e].lease = ex[e].lease
  BY ElsewhereFollows DEF Still, Follows, LeaseCalls
<1>3. SUFFICES ASSUME ~mayChange, ~overlap, Alone, Clean PROVE Alone' /\ Clean'
  BY <1>1 DEF Untouched
<1> QED BY <1>1, <1>2, <1>3, ActsAlone DEF Clean

\* It works on the branch's leases.
LEMMA ActsOnLeases ==
  ASSUME Inv, Untouched, NEW e \in Executors,
         CreateLease(e) \/ Change(e) \/ Commit(e) \/ Promote(e) \/ RemoveWorktree(e) \/ Release(e)
  PROVE  Untouched'
<1>1. /\ UNCHANGED <<mayChange, overlap>> /\ Lives(e)
      /\ ex \in [Executors -> Execution] /\ leases \in Seq(Lease)
  BY
  DEF CreateLease, Change, Commit, Promote, RemoveWorktree, Release, fixed, Lives, Inv,
      Typed
<1>2. SUFFICES ASSUME ~mayChange, ~overlap, Alone, Clean PROVE Alone' /\ Clean'
  BY <1>1 DEF Untouched
<1>3. ASSUME Returns(e) \/ Throws(e)
      PROVE  (\A f \in Executors \ {e} : ex'[f] = ex[f]) /\ ex'[e].pc # "promote"
  <2>1. Ends(e) \/ \E pc \in {"create-repair", "repair-failed", "pass", "give-up"} : Go(e, pc)
    BY <1>1, <1>3 DEF Returns, Throws, Execution, Backs
  <2> QED BY <1>1, <2>1 DEF Ends, Go, Execution, Fresh
<1>4. CASE CreateLease(e)
  <2>1. /\ \A f \in Executors \ {e} : ex'[f] = ex[f]
        /\ ex'[e].pc # "promote"
        /\ branch' = {}
    BY <1>1, <1>2, <1>4 DEF CreateLease, Execution, Clean
  <2>2. \A l \in DOMAIN leases' : leases'[l].base = {}
    <3> DEFINE q == [node |-> ex[e].of, base |-> branch, head |-> branch,
                     edits |-> {}, tree |-> TRUE, released |-> FALSE]
    <3>1. leases' = Append(leases, q) /\ q.base = {}
      BY <1>2, <1>4 DEF CreateLease, Clean
    <3> HIDE DEF q
    <3>2. \A l \in DOMAIN leases' : leases'[l] = q \/ (l \in DOMAIN leases /\ leases'[l] = leases[l])
      BY <1>1, <3>1
    <3> QED BY <1>2, <3>1, <3>2 DEF Clean
  <2> QED BY <1>1, <1>2, <2>1, <2>2, ActsAlone
<1>5. CASE Change(e) \/ RemoveWorktree(e) \/ Release(e)
  <2>1. branch' = {} /\ DOMAIN leases' = DOMAIN leases /\ \A l \in DOMAIN leases : leases'[l].base = {}
    <3>1. UNCHANGED branch
      BY <1>5 DEF Change, RemoveWorktree, Release
    <3> DEFINE k == ex[e].lease
    <3>2. \/ UNCHANGED leases
          \/ leases' = [leases EXCEPT ![k].edits = @ \cup {changes + 1}]
          \/ leases' = [leases EXCEPT ![k].head = @ \cup {changes + 1}]
          \/ leases' = [leases EXCEPT ![k].tree = FALSE]
          \/ leases' = [leases EXCEPT ![k].released = TRUE]
      BY <1>5 DEF Change, RemoveWorktree, Release
    <3>3. ASSUME NEW l \in DOMAIN leases PROVE leases[l] \in Lease /\ leases[l].base = {}
      BY <1>1, <1>2, <3>3 DEF Clean
    <3> QED BY <1>1, <1>2, <3>1, <3>2, <3>3 DEF Clean, Lease
  <2>2. (\A f \in Executors \ {e} : ex'[f] = ex[f]) /\ ex'[e].pc # "promote"
    <3>1. CASE Change(e)
      BY <1>1, <3>1 DEF Change, Execution
    <3>2. CASE Go(e, "release")
      BY <1>1, <3>2 DEF Go, Execution
    <3>3. CASE Release(e)
      BY <1>1, <3>3 DEF Release, Execution
    <3> QED BY <1>3, <1>5, <3>1, <3>2, <3>3 DEF RemoveWorktree
  <2> QED BY <1>1, <1>2, <2>1, <2>2, ActsAlone
<1>6. CASE Commit(e)
  <2>1. branch' = {}
    BY <1>2, <1>6 DEF Commit, Clean
  <2>2. CASE (Throws(e) \/ Returns(e)) /\ UNCHANGED leases
    BY <1>1, <1>2, <1>3, <2>1, <2>2, ActsAlone DEF Clean
  <2>3. ASSUME NEW l \in Found(e), Allowed(e, l),
               leases' = [leases EXCEPT ![l].head = @ \cup leases[l].edits, ![l].edits = {}],
               ex' = [ex EXCEPT ![e].pc = "promote", ![e].lease = l]
        PROVE  Alone' /\ Clean'
    <3>1. l \in DOMAIN leases
      BY <1>1 DEF Found, Active, Open, Inv, LeasesNamed, Names
    <3>2. leases[l] \in Lease /\ leases[l].edits = {} /\ leases[l].head = {}
      BY <1>1, <1>2, <2>3, <3>1 DEF Allowed, Clean
    <3>3. leases'[l].head = {} /\ ex'[e].lease = l
      BY <1>1, <2>3, <3>1, <3>2 DEF Lease, Execution
    <3>4. \A f \in Executors \ {e} : ex'[f] = ex[f]
      BY <1>1, <2>3
    <3>5. \A k \in DOMAIN leases' : leases'[k].base = {}
      <4>1. DOMAIN leases' = DOMAIN leases
        BY <2>3
      <4>2. ASSUME NEW k \in DOMAIN leases PROVE leases[k] \in Lease /\ leases[k].base = {}
        BY <1>1, <1>2, <4>2 DEF Clean
      <4> QED BY <2>3, <4>1, <4>2 DEF Lease
    <3> QED BY <1>1, <1>2, <2>1, <3>3, <3>4, <3>5, ActsAlone
  <2> QED BY <1>6, <2>2, <2>3 DEF Commit
<1>7. CASE Promote(e)
  <2>1. UNCHANGED leases /\ \A l \in DOMAIN leases' : leases'[l].base = {}
    BY <1>2, <1>7 DEF Promote, Clean
  <2>2. branch' = {}
    BY <1>2, <1>7 DEF Promote, Clean
  <2>3. (\A f \in Executors \ {e} : ex'[f] = ex[f]) /\ ex'[e].pc # "promote"
    <3>1. CASE Go(e, "record-promotion")
      BY <1>1, <3>1 DEF Go, Execution
    <3> QED BY <1>3, <1>7, <3>1 DEF Promote
  <2> QED BY <1>1, <1>2, <2>1, <2>2, <2>3, ActsAlone
<1> QED BY <1>4, <1>5, <1>6, <1>7

\* A new executor begins when none is left, or the overlap is on record.
LEMMA StartsAlone ==
  ASSUME Inv, Untouched, NEW e \in Executors, Start(e)
  PROVE  Untouched'
<1>1. /\ UNCHANGED <<leases, branch, mayChange>> /\ ex \in [Executors -> Execution]
      /\ ~overlap' => ~overlap /\ \A f \in Executors : ~Lives(f)
  BY DEF Start, git, Inv, Typed
<1>2. ex'[e].pc = "enter" /\ \A f \in Executors \ {e} : ex'[f] = ex[f]
  BY <1>1 DEF Start, Go, Execution
<1>3. SUFFICES ASSUME ~mayChange, ~overlap', Alone, Clean PROVE Alone' /\ Clean'
  BY <1>1 DEF Untouched
<1>4. Alone'
  BY <1>1, <1>2, <1>3 DEF Alone, Lives
<1>5. Clean'
  BY <1>1, <1>2, <1>3 DEF Clean
<1> QED BY <1>4, <1>5

LEMMA UntouchedNext == Inv /\ Untouched /\ [Next]_vars => Untouched'
<1> SUFFICES ASSUME Inv, Untouched, [Next]_vars PROVE Untouched'
  OBVIOUS
<1>1. CASE UNCHANGED vars \/ LoseJob
  BY <1>1 DEF vars, LoseJob, durable, git, fixed, Untouched, Alone, Clean, Lives
<1>2. ASSUME NEW e \in Executors, Start(e) PROVE Untouched'
  BY <1>2, StartsAlone
<1>3. ASSUME NEW e \in Executors,
             CreateLease(e) \/ Change(e) \/ Commit(e) \/ Promote(e) \/ RemoveWorktree(e) \/ Release(e)
      PROVE  Untouched'
  BY <1>3, ActsOnLeases
<1>4. ASSUME NEW e \in Executors, Elsewhere(e) PROVE Untouched'
  BY <1>4, ActsElsewhere
<1> QED BY <1>1, <1>2, <1>3, <1>4 DEF Next, Elsewhere

(***************************************************************************)
(* assertDeclaredChanges before promoteLeaseToRunBranch: without a         *)
(* surviving agent, a node that does not declare code-changes leaves the   *)
(* run's branch as it was, for any number of executions and repairs.       *)
(***************************************************************************)
THEOREM UndeclaredStaysOut == Spec => []UndeclaredChangesStayOut
<1>1. Spec => []Untouched
  BY InvInit, InvNext, UntouchedInit, UntouchedNext, PTL DEF Spec
<1>2. Untouched => UndeclaredChangesStayOut
  BY DEF Untouched, Clean, UndeclaredChangesStayOut
<1> QED BY <1>1, <1>2, PTL

-----------------------------------------------------------------------------
(***************************************************************************)
(* What the durable records say, and where the owner of the job stands.    *)
(***************************************************************************)

Newest == Len(leases)
RepairLeases == {l \in DOMAIN leases : leases[l].node # Source}

\* Every repair has its intent before its lease; leases are made when the node has none
\* open; the newest is later than what the events say of earlier ones.
Records ==
    /\ \A i \in Intents : ~results[events[i].of].passed
    /\ \A i, j \in Intents : i < j => events[i].of < events[j].of
    /\ \A l \in RepairLeases :
           /\ results[leases[l].node].repair # "absent"
           /\ \E i \in Intents : events[i].of = leases[l].node
    /\ \A k, l \in RepairLeases : k < l => leases[k].node < leases[l].node
    /\ \A n \in DOMAIN results :
           results[n].repair = "passed" => \E l \in DOMAIN leases : leases[l].node = n
    /\ Open(Source) \subseteq {Newest}
    /\ Newest \in RepairLeases =>
           \A j \in Intents :
               /\ events[j].of = leases[Newest].node => \A i \in CreatedAt(Source) : i < j
               /\ events[j].of > leases[Newest].node => events[j].of = Len(results)
    /\ results # <<>> => leases # <<>>

\* A repair of the last result is intended, and nothing was leased since.
Intended ==
    /\ results # <<>>
    /\ \A l \in RepairLeases : leases[l].node < Len(results)
    /\ \E j \in Intents : events[j].of = Len(results) /\ \A i \in CreatedAt(Source) : i < j

NewestReleased == leases # <<>> /\ leases[Newest].released
NothingOpen == Open(Source) = {}
\* When this lease is released, the newest lease and all of the node's are.
Decides(l) == l = Newest \/ (NothingOpen /\ NewestReleased)

Finalizing(x) == x.pc \in LeaseCalls \cup {"commit", "record-release"}
For(x, back) == Finalizing(x) /\ x.back = back

AliasPlaces == {"repaired", "recheck", "intent", "revise", "exhausted", "final", "give-up"}

\* Where the owner of the job stands: with the lease of a repair that it goes on with,
AliasStands(x) ==
    x.alias # 0 =>
        /\ x.alias = Newest /\ Newest \in RepairLeases
        /\ \/ x.pc \in AliasPlaces
           \/ (For(x, "repair") \/ For(x, "final")) /\ x.pc # "record-release"
        /\ x.pc \in {"repaired", "recheck"} => leases[Newest].node = Len(results)

\* about to make a lease, or at work in the one it made,
LeaseStands(x) ==
    /\ x.pc \in {"enter", "role-run"} => x.of = Source
    /\ x.pc = "role-run" /\ x.lease = 0 => NothingOpen
    /\ x.pc = "lease" =>
          /\ NothingOpen
          /\ x.of # Source =>
                Intended /\ x.of = Len(results) /\ results[x.of].repair # "absent"
    /\ x.pc \in {"record-lease", "repair"} =>
          /\ x.lease \in DOMAIN leases /\ x.lease = Newest /\ leases[x.lease].node = x.of
          /\ x.of # Source => x.of = Len(results)
    /\ x.pc = "repair" => x.of # Source

\* at the gate,
GateStands(x) ==
    /\ x.pc \in {"gate", "recheck", "intent", "final"} \/ For(x, "final") =>
          node = "awaiting-gate"
    /\ x.pc = "intent" =>
          /\ results # <<>> /\ ~results[Len(results)].passed
          /\ \A i \in Intents : events[i].of < Len(results)
          /\ x.attempt < MaxAttempts
    /\ x.pc = "final" \/ For(x, "final") => results # <<>> /\ results[Len(results)].passed

\* in a repair,
RepairStands(x) ==
    /\ x.pc \in {"revise", "create-repair"} \/ For(x, "repair") => Intended
    /\ For(x, "repair") => node = "needs-revision"
    /\ x.pc \in {"create-repair", "repair-failed"} => NothingOpen
    /\ x.pc = "record-release" /\ x.back = "repair" => NothingOpen
    /\ x.pc = "repair-failed" \/ For(x, "fallback") =>
          NothingOpen /\ x.of \in DOMAIN results

\* or with the lease it finalizes.
FinalStands(x) ==
    /\ x.pc \in LeaseCalls =>
          /\ x.lease \in DOMAIN leases
          /\ x.back \in {"repair", "final"} => Decides(x.lease)
          /\ x.alias # 0 => x.lease = x.alias
    /\ x.pc = "record-release" => x.lease \in DOMAIN leases
    /\ x.pc = "pass" \/ (x.pc = "record-release" /\ x.back = "final") =>
          NothingOpen /\ NewestReleased

Stands(x) ==
    AliasStands(x) /\ LeaseStands(x) /\ GateStands(x) /\ RepairStands(x) /\ FinalStands(x)

Standing ==
    /\ owner # Nobody => Stands(ex[owner])
    /\ \A e \in Executors : ex[e].pc = "idle" => ex[e] = Fresh
    /\ node = "passed" => owner = Nobody /\ NothingOpen /\ NewestReleased

(***************************************************************************)
(* While no two executors have run at once, a lease that is released is in *)
(* the branch.                                                             *)
(***************************************************************************)
InBranch(l) == leases[l].edits = {} /\ leases[l].head \subseteq branch
ReleasedInBranch == \A l \in DOMAIN leases : leases[l].released => InBranch(l)

\* What an executor has at hand.
Holds(x) ==
    /\ x.pc \in WorkPlaces /\ x.lease # 0 => ~leases[x.lease].released
    /\ x.pc \notin {"idle", "done"} /\ x.alias # 0 => ~leases[x.alias].released
    /\ x.pc = "promote" => leases[x.lease].edits = {}
    /\ x.pc \in LeaseCalls \ {"promote"} => InBranch(x.lease)
    /\ x.pc \in LeaseCalls => x.lease # 0
InOrder == Alone /\ ReleasedInBranch /\ \A e \in Executors : Holds(ex[e])
Serial == ~overlap => InOrder

-----------------------------------------------------------------------------
(* The latest of some events: a non-empty set of numbers with a bound has  *)
(* a greatest element, by the well-foundedness of inclusion of finite sets.*)

LEMMA LeastElement ==
  ASSUME NEW S \in SUBSET Nat, S # {}
  PROVE  \E m \in S : \A n \in S : m <= n
<1> DEFINE T == {0..n : n \in S}
<1>1. T \subseteq FiniteSubsetsOf(Nat) /\ T # {}
  <2>1. ASSUME NEW n \in S PROVE 0..n \in FiniteSubsetsOf(Nat)
    <3>1. IsFiniteSet(0..n)
      BY FS_Interval
    <3> QED BY <3>1 DEF FiniteSubsetsOf
  <2> QED BY <2>1
<1>2. PICK x \in T : \A y \in T : <<y, x>> \notin StrictSubsetOrdering(Nat)
  <2> HIDE DEF T
  <2> QED BY <1>1, FS_StrictSubsetOrderingWellFounded, WFMin
<1>3. PICK m \in S : x = 0..m
  OBVIOUS
<1>4. ASSUME NEW n \in S, ~(m <= n) PROVE FALSE
  <2>1. 0..n \in T /\ 0..n \subseteq 0..m /\ 0..n # 0..m
    BY <1>4
  <2>2. <<0..n, x>> \in StrictSubsetOrdering(Nat)
    BY <2>1, <1>3 DEF StrictSubsetOrdering
  <2> QED BY <2>1, <2>2, <1>2
<1> QED BY <1>4

LEMMA GreatestElement ==
  ASSUME NEW b \in Nat, NEW S \in SUBSET (0..b), S # {}
  PROVE  \E m \in S : \A n \in S : n <= m
<1> DEFINE B == {n \in Nat : \A k \in S : k <= n}
<1>1. PICK m \in B : \A n \in B : m <= n
  <2>1. B \in SUBSET Nat /\ b \in B
    OBVIOUS
  <2> HIDE DEF B
  <2> QED BY <2>1, LeastElement
<1>2. m \in S
  <2> SUFFICES ASSUME m \notin S PROVE FALSE
    OBVIOUS
  <2>1. \A k \in S : k \in Nat /\ k <= m /\ k # m
    OBVIOUS
  <2>2. m \in Nat /\ m # 0 /\ m - 1 \in Nat
    <3>1. PICK k \in S : TRUE
      OBVIOUS
    <3>2. m \in Nat /\ k \in Nat /\ k <= m /\ k # m
      BY <2>1
    <3> QED BY <3>2
  <2>3. \A k \in S : k <= m - 1
    BY <2>1, <2>2
  <2>4. m - 1 \in B
    BY <2>2, <2>3
  <2> QED BY <1>1, <2>4
<1> QED BY <1>2

LEMMA LatestFact ==
  ASSUME NEW n \in Nat, NEW S \in SUBSET (1..n), S # {}
  PROVE  Latest(S) \in S /\ \A i \in S : i <= Latest(S)
<1>1. PICK m \in S : \A i \in S : i <= m
  <2>1. S \in SUBSET (0..n)
    OBVIOUS
  <2> QED BY <2>1, GreatestElement
<1>2. Latest(S) = CHOOSE x \in S : \A i \in S : x >= i
  BY DEF Latest, Max
<1>3. m \in S /\ \A i \in S : m >= i
  BY <1>1
<1>4. LET x == CHOOSE x \in S : \A i \in S : x >= i IN x \in S /\ \A i \in S : x >= i
  BY <1>3
<1> QED BY <1>2, <1>4

\* The same for one set that is the other, whatever it is of.
LEMMA LatestIn ==
  ASSUME TypeOK, NEW S, S \subseteq DOMAIN events, S # {}
  PROVE  Latest(S) \in S /\ \A i \in S : i <= Latest(S)
<1>1. Len(events) \in Nat /\ S \in SUBSET (1..Len(events))
  BY DEF TypeOK
<1> QED BY <1>1, LatestFact

LEMMA LatestNone == Latest({}) = 0
  BY DEF Latest

LEMMA LatestNat ==
  ASSUME TypeOK, NEW S, S \subseteq DOMAIN events
  PROVE  Latest(S) \in Nat
<1>1. DOMAIN events \subseteq Nat
  BY DEF TypeOK
<1> QED BY <1>1, LatestIn, LatestNone

-----------------------------------------------------------------------------
(* What a step keeps that makes no lease, no intent and no result.         *)

SameLeases ==
    /\ Len(leases') = Len(leases) /\ DOMAIN leases' = DOMAIN leases
    /\ \A l \in DOMAIN leases : /\ leases'[l].node = leases[l].node
                                /\ leases[l].released => leases'[l].released
SameIntents ==
    /\ Intents' = Intents /\ \A i \in Intents : events'[i].of = events[i].of
    /\ CreatedAt(Source)' = CreatedAt(Source)
SameResults ==
    /\ Len(results') = Len(results) /\ DOMAIN results' = DOMAIN results
    /\ \A n \in DOMAIN results :
          /\ results'[n].passed = results[n].passed
          /\ results[n].repair # "absent" => results'[n].repair # "absent"
          /\ results'[n].repair = "passed" =>
                results[n].repair = "passed" \/ \E l \in DOMAIN leases : leases[l].node = n
Same == SameLeases /\ SameIntents /\ SameResults

-----------------------------------------------------------------------------
(* Types                                                                   *)

ResultT == [passed : BOOLEAN, repair : RepairStatuses, saw : SUBSET (1..changes)]
LeaseT == [node : 0..Len(results), base : SUBSET (1..changes), head : SUBSET (1..changes),
           edits : SUBSET (1..changes), tree : BOOLEAN, released : BOOLEAN]
EventT == [type : EventTypes, of : Nat]
ExT == [pc : PCs, abort : {"no", "stop", "lost"}, lease : 0..Len(leases),
        of : 0..Len(results), alias : 0..Len(leases),
        attempt : 0..MaxAttempts, wrote : BOOLEAN, back : Backs]
Refers(i) == events[i].of \in IF events[i].type \in {"intent", "failed"} THEN DOMAIN results
                              ELSE DOMAIN leases

LEMMA SeqIn ==
  ASSUME NEW S, NEW n \in Nat, NEW s, DOMAIN s = 1..n, s = [i \in DOMAIN s |-> s[i]],
         \A i \in DOMAIN s : s[i] \in S
  PROVE  s \in Seq(S) /\ Len(s) = n
<1>1. s \in [1..n -> S]
  OBVIOUS
<1> QED BY <1>1

LEMMA TypeFacts ==
  ASSUME TypeOK
  PROVE  /\ results \in Seq(ResultT) /\ Len(results) \in Nat /\ DOMAIN results = 1..Len(results)
         /\ leases \in Seq(LeaseT) /\ Len(leases) \in Nat /\ DOMAIN leases = 1..Len(leases)
         /\ events \in Seq(EventT) /\ Len(events) \in Nat /\ DOMAIN events = 1..Len(events)
         /\ \A i \in DOMAIN results : results[i] \in ResultT
         /\ \A l \in DOMAIN leases : leases[l] \in LeaseT
         /\ \A i \in DOMAIN events : events[i] \in EventT /\ Refers(i)
         /\ ex \in [Executors -> ExT] /\ \A e \in Executors : ex[e] \in ExT
         /\ changes \in Nat /\ 0 \in 0..Len(leases) /\ 0 \in 0..Len(results) /\ Source = 0
<1>1. /\ results \in Seq(ResultT) /\ leases \in Seq(LeaseT) /\ events \in Seq(EventT)
      /\ ex \in [Executors -> ExT] /\ changes \in Nat
  BY BoundsAssumption DEF TypeOK, ResultT, LeaseT, EventT, ExT
<1>2. \A i \in DOMAIN events : Refers(i)
  BY DEF TypeOK, Refers
<1>3. Len(results) \in Nat /\ Len(leases) \in Nat /\ Len(events) \in Nat
  BY <1>1
<1> HIDE DEF ResultT, LeaseT, EventT, ExT
<1> QED BY <1>1, <1>2, <1>3 DEF Source

\* The rows only grow in number, and each is of its type after the step.
LEMMA TypeGrows ==
  ASSUME TypeOK, NEW e \in Executors, NEW x, ex' = [ex EXCEPT ![e] = x], x \in ExT',
         owner' \in Executors \cup {Nobody}, node' \in Statuses, agent' \in RoleRuns,
         UNCHANGED mayChange, overlap' \in BOOLEAN,
         branch' \subseteq 1..changes', changes' \in 0..MaxChanges,
         Len(results) <= Len(results'), results' \in Seq(ResultT'),
         Len(leases) <= Len(leases'), leases' \in Seq(LeaseT'),
         events' \in Seq(EventT), \A i \in DOMAIN events' : Refers(i)'
  PROVE  TypeOK'
<1>1. ex' \in [Executors -> ExT']
  <2>1. Len(results') \in Nat /\ Len(leases') \in Nat
    OBVIOUS
  <2>2. ExT \subseteq ExT'
    <3>1. 0..Len(leases) \subseteq 0..Len(leases') /\ 0..Len(results) \subseteq 0..Len(results')
      BY <2>1, TypeFacts
    <3> QED BY <3>1 DEF ExT
  <2>3. ex \in [Executors -> ExT]
    BY TypeFacts
  <2> HIDE DEF ExT
  <2> QED BY <2>2, <2>3
<1>2. {mayChange, overlap}' \subseteq BOOLEAN
  BY DEF TypeOK
<1> QED BY <1>1, <1>2 DEF TypeOK, ResultT, LeaseT, EventT, ExT, Refers

\* Nothing but the executor, the node and the agent changes.
LEMMA TypeMoves ==
  ASSUME TypeOK, NEW e \in Executors, NEW x \in ExT, ex' = [ex EXCEPT ![e] = x],
         owner' \in Executors \cup {Nobody}, node' \in Statuses, agent' \in RoleRuns,
         UNCHANGED <<mayChange, results, events, leases, branch, changes>>, overlap' \in BOOLEAN
  PROVE  TypeOK'
<1>1. /\ ExT' = ExT /\ ResultT' = ResultT /\ LeaseT' = LeaseT
      /\ \A i \in DOMAIN events : Refers(i)' <=> Refers(i)
  BY DEF ExT, ResultT, LeaseT, Refers
<1>2. /\ branch' \subseteq 1..changes' /\ changes' \in 0..MaxChanges
  BY DEF TypeOK
<1>3. /\ results' \in Seq(ResultT') /\ leases' \in Seq(LeaseT') /\ events' \in Seq(EventT)
      /\ \A i \in DOMAIN events' : Refers(i)'
      /\ Len(results) <= Len(results') /\ Len(leases) <= Len(leases') /\ x \in ExT'
  BY <1>1, TypeFacts
<1> HIDE DEF ExT, ResultT, LeaseT, EventT, Refers
<1> QED BY <1>2, <1>3, TypeGrows

\* An event is added.
LEMMA TypeEvents ==
  ASSUME TypeOK, NEW type \in EventTypes, NEW of,
         IF type \in {"intent", "failed"} THEN of \in DOMAIN results ELSE of \in DOMAIN leases,
         events' = Append(events, Event(type, of)), UNCHANGED leases,
         DOMAIN results' = DOMAIN results
  PROVE  /\ events' \in Seq(EventT) /\ \A i \in DOMAIN events' : Refers(i)'
         /\ Len(events') = Len(events) + 1 /\ DOMAIN events' = 1..Len(events) + 1
         /\ events'[Len(events) + 1] = Event(type, of)
         /\ Event(type, of).type = type /\ Event(type, of).of = of
         /\ \A i \in DOMAIN events : i \in DOMAIN events' /\ events'[i] = events[i]
<1> DEFINE v == Event(type, of)
<1>1. v \in EventT /\ v.type = type /\ v.of = of
  <2>1. of \in Nat
    BY TypeFacts
  <2> QED BY <2>1 DEF Event, EventT
<1>2. events' = Append(events, v)
  OBVIOUS
<1>3. events \in Seq(EventT) /\ Len(events) \in Nat
  BY TypeFacts
<1> HIDE DEF v, EventT
<1>4. /\ events' \in Seq(EventT)
      /\ Len(events') = Len(events) + 1 /\ DOMAIN events' = 1..Len(events) + 1
      /\ events'[Len(events) + 1] = v
      /\ \A i \in DOMAIN events : i \in DOMAIN events' /\ events'[i] = events[i]
  BY <1>1, <1>2, <1>3
<1>5. \A i \in DOMAIN events' : Refers(i)'
  <2>1. \A i \in DOMAIN events' : i \in DOMAIN events \/ i = Len(events) + 1
    BY <1>3, <1>4
  <2> QED BY <1>1, <1>4, <2>1, TypeFacts DEF Refers
<1> QED BY <1>1, <1>4, <1>5 DEF v

\* A lease is changed, to one of the same node.
LEMMA TypeLease ==
  ASSUME TypeOK, NEW l, NEW q,
         l \in DOMAIN leases =>
            /\ q \in LeaseT' /\ q.node = leases[l].node
            /\ leases[l].released => q.released,
         leases' = [leases EXCEPT ![l] = q], UNCHANGED <<results, events>>,
         changes' \in Nat, changes <= changes'
  PROVE  /\ leases' \in Seq(LeaseT') /\ Len(leases') = Len(leases)
         /\ SameLeases
         /\ \A k \in DOMAIN leases : leases'[k] = IF k = l THEN q ELSE leases[k]
         /\ results' \in Seq(ResultT')
         /\ \A i \in DOMAIN events' : Refers(i)'
<1>1. LeaseT \subseteq LeaseT' /\ ResultT \subseteq ResultT'
  BY TypeFacts DEF LeaseT, ResultT
<1>2. leases \in Seq(LeaseT') /\ results \in Seq(ResultT')
  <2>1. /\ \A k \in DOMAIN leases : leases[k] \in LeaseT'
        /\ \A k \in DOMAIN results : results[k] \in ResultT'
    BY <1>1, TypeFacts
  <2> HIDE DEF LeaseT, ResultT
  <2>2. /\ leases = [k \in DOMAIN leases |-> leases[k]]
        /\ results = [k \in DOMAIN results |-> results[k]]
    BY TypeFacts
  <2> QED BY <2>1, <2>2, TypeFacts, SeqIn
<1> HIDE DEF LeaseT, ResultT
<1>3. /\ leases' \in Seq(LeaseT') /\ Len(leases') = Len(leases)
      /\ DOMAIN leases' = DOMAIN leases
      /\ \A k \in DOMAIN leases : leases'[k] = IF k = l THEN q ELSE leases[k]
  BY <1>2, SeqExcept
<1>4. SameLeases
  BY <1>3 DEF SameLeases
<1> QED BY <1>2, <1>3, <1>4, TypeFacts DEF Refers

\* A result is changed in its repair.
LEMMA TypeResult ==
  ASSUME TypeOK, NEW n \in DOMAIN results, NEW s \in RepairStatuses,
         results' = [results EXCEPT ![n].repair = s], UNCHANGED <<leases, changes>>
  PROVE  /\ results' \in Seq(ResultT') /\ Len(results') = Len(results)
         /\ DOMAIN results' = DOMAIN results
         /\ \A k \in DOMAIN results : /\ results'[k].passed = results[k].passed
                                      /\ results'[k].repair = IF k = n THEN s ELSE results[k].repair
         /\ leases' \in Seq(LeaseT')
<1> DEFINE r == [results[n] EXCEPT !.repair = s]
<1>1. results[n] \in ResultT
  BY TypeFacts
<1>2. r \in ResultT /\ r.passed = results[n].passed /\ r.repair = s
  BY <1>1 DEF ResultT
<1>3. results' = [results EXCEPT ![n] = r]
  OBVIOUS
<1>4. ResultT' = ResultT
  BY DEF ResultT
<1> HIDE DEF r, ResultT
<1>5. /\ results' \in Seq(ResultT) /\ Len(results') = Len(results)
      /\ DOMAIN results' = DOMAIN results
      /\ \A k \in DOMAIN results : results'[k] = IF k = n THEN r ELSE results[k]
  BY <1>2, <1>3, TypeFacts, SeqExcept
<1>6. LeaseT' = LeaseT
  BY <1>5 DEF LeaseT
<1> QED BY <1>2, <1>4, <1>5, <1>6, TypeFacts

-----------------------------------------------------------------------------
(* The rows                                                                *)

LEMMA IntentFact ==
  ASSUME TypeOK, NEW i \in Intents
  PROVE  i \in DOMAIN events /\ i \in Nat /\ events[i].of \in DOMAIN results /\ events[i].of \in Nat
  BY TypeFacts DEF Intents, Refers

LEMMA CreatedFact ==
  ASSUME TypeOK, NEW n, NEW i \in CreatedAt(n)
  PROVE  i \in DOMAIN events /\ i \in Nat /\ events[i].of \in DOMAIN leases
  BY TypeFacts DEF CreatedAt, Refers

LEMMA NodeFact ==
  ASSUME TypeOK, NEW l \in DOMAIN leases
  PROVE  leases[l].node \in Nat /\ (leases[l].node # Source => leases[l].node \in DOMAIN results)
<1>1. leases[l] \in LeaseT
  BY TypeFacts
<1> QED BY <1>1, TypeFacts DEF LeaseT

\* The facts about the records that the owner's place relies on.
LEMMA SameFacts ==
  ASSUME TypeOK, Same
  PROVE  /\ Newest' = Newest /\ RepairLeases' = RepairLeases
         /\ NothingOpen => NothingOpen'
         /\ Open(Source)' \subseteq Open(Source)
         /\ NewestReleased => NewestReleased'
         /\ Intended => Intended'
         /\ \A l \in DOMAIN leases : Decides(l) => Decides(l)'
<1>1. /\ Newest' = Newest /\ RepairLeases' = RepairLeases
      /\ Open(Source)' \subseteq Open(Source)
  BY DEF Newest, RepairLeases, Open, Same, SameLeases
<1>2. NewestReleased => NewestReleased'
  <2> HAVE NewestReleased
  <2>1. Len(leases) \in Nat /\ Len(leases) # 0 /\ Newest \in DOMAIN leases
    BY TypeFacts DEF NewestReleased, Newest
  <2>2. leases' # <<>> /\ leases'[Newest].released
    BY <2>1 DEF Same, SameLeases, NewestReleased
  <2> QED BY <1>1, <2>2 DEF NewestReleased
<1>3. Intended => Intended'
  <2> HAVE Intended
  <2>1. \A l \in RepairLeases : leases'[l].node = leases[l].node
    BY DEF RepairLeases, Same, SameLeases
  <2>2. results' # <<>>
    BY TypeFacts DEF Intended, Same, SameResults
  <2> QED BY <1>1, <2>1, <2>2 DEF Intended, Same, SameIntents, SameResults
<1>4. NothingOpen => NothingOpen'
  BY <1>1 DEF NothingOpen
<1> QED BY <1>1, <1>2, <1>3, <1>4 DEF Decides

LEMMA SameRecords == ASSUME TypeOK, Records, Same PROVE Records'
<1>1. /\ Newest' = Newest /\ RepairLeases' = RepairLeases
      /\ Open(Source)' \subseteq Open(Source)
  BY SameFacts
<1>2. /\ \A l \in DOMAIN leases : leases'[l].node = leases[l].node
      /\ RepairLeases \subseteq DOMAIN leases
      /\ \A i \in Intents : events[i].of \in DOMAIN results
      /\ \A l \in RepairLeases : leases[l].node \in DOMAIN results
  BY NodeFact, IntentFact DEF Same, SameLeases, RepairLeases
<1>3. results' # <<>> => leases' # <<>>
  BY TypeFacts DEF Records, Same, SameLeases, SameResults
<1>4. /\ \A i \in Intents' : ~results'[events'[i].of].passed
      /\ \A i, j \in Intents' : i < j => events'[i].of < events'[j].of
  BY <1>2 DEF Records, Same, SameIntents, SameResults
<1>5. /\ \A l \in RepairLeases' :
           /\ results'[leases'[l].node].repair # "absent"
           /\ \E i \in Intents' : events'[i].of = leases'[l].node
      /\ \A k, l \in RepairLeases' : k < l => leases'[k].node < leases'[l].node
  BY <1>1, <1>2 DEF Records, Same, SameIntents, SameResults
<1>6. \A n \in DOMAIN results' :
           results'[n].repair = "passed" => \E l \in DOMAIN leases' : leases'[l].node = n
  BY <1>2 DEF Records, Same, SameLeases, SameResults
<1>7. Open(Source)' \subseteq {Newest'}
  BY <1>1 DEF Records
<1>8. Newest' \in RepairLeases' =>
           \A j \in Intents' :
               /\ events'[j].of = leases'[Newest'].node => \A i \in CreatedAt(Source)' : i < j
               /\ events'[j].of > leases'[Newest'].node => events'[j].of = Len(results')
  BY <1>1, <1>2 DEF Records, Same, SameIntents, SameResults
<1> QED BY <1>3, <1>4, <1>5, <1>6, <1>7, <1>8 DEF Records

\* The durable rows are as they were.
LEMMA SameRows ==
  ASSUME TypeOK, UNCHANGED <<results, events>>, SameLeases
  PROVE  Same
<1>1. CreatedAt(Source)' = CreatedAt(Source)
  <2>1. \A i \in DOMAIN events : events[i].type = "created" => events[i].of \in DOMAIN leases
    BY TypeFacts DEF Refers
  <2> QED BY <2>1 DEF CreatedAt, SameLeases, Source
<1> QED BY <1>1 DEF Same, SameIntents, SameResults, Intents

\* An event that is no intent, and tells of no lease of the node, is added.
LEMMA SameEvents ==
  ASSUME TypeOK, NEW type \in EventTypes, NEW of, events' = Append(events, Event(type, of)),
         type # "intent", UNCHANGED leases,
         type = "created" => leases[of].node # Source
  PROVE  SameIntents
<1>1. events \in Seq(EventT) /\ Len(events) \in Nat /\ DOMAIN events = 1..Len(events)
  BY TypeFacts
<1>2. Event(type, of).type = type /\ Event(type, of).of = of /\ Event(type, of) = [type |-> type, of |-> of]
  BY DEF Event
<1> DEFINE v == Event(type, of)
<1> HIDE DEF v
<1>3. /\ DOMAIN events' = 1..Len(events) + 1 /\ events'[Len(events) + 1] = v
      /\ \A i \in DOMAIN events : events'[i] = events[i]
  <2>1. events' = Append(events, v)
    BY DEF v
  <2> QED BY <1>1, <2>1
<1>4. \A i \in DOMAIN events' : i \in DOMAIN events \/ i = Len(events) + 1
  BY <1>1, <1>3
<1>5. Len(events) + 1 \notin DOMAIN events /\ DOMAIN events \subseteq DOMAIN events'
  BY <1>1, <1>3
<1>6. v.type # "intent" /\ (v.type = "created" => leases[v.of].node # Source)
  BY <1>2 DEF v
<1>7. Intents' = Intents /\ \A i \in Intents : events'[i].of = events[i].of
  BY <1>3, <1>4, <1>5, <1>6 DEF Intents
<1>8. CreatedAt(Source)' = CreatedAt(Source)
  BY <1>3, <1>4, <1>5, <1>6 DEF CreatedAt, Source
<1> QED BY <1>7, <1>8 DEF SameIntents

-----------------------------------------------------------------------------
(* Where the owner stands, after a step of its own or of another.          *)

LEMMA StandsStill ==
  ASSUME TypeOK, Same, UNCHANGED <<node, results, events>>, NEW x \in ExT, Stands(x)
  PROVE  Stands(x)'
<1>1. /\ Newest' = Newest /\ RepairLeases' = RepairLeases
      /\ NothingOpen => NothingOpen'
      /\ NewestReleased => NewestReleased'
      /\ Intended => Intended'
      /\ \A l \in DOMAIN leases : Decides(l) => Decides(l)'
  BY SameFacts
<1>2. /\ \A l \in DOMAIN leases : leases'[l].node = leases[l].node
      /\ DOMAIN leases' = DOMAIN leases
      /\ Intents' = Intents
  BY DEF Same, SameLeases, SameIntents
<1>3. AliasStands(x)'
  <2>1. Newest \in RepairLeases => Newest \in DOMAIN leases
    BY DEF RepairLeases
  <2> QED BY <1>1, <1>2, <2>1 DEF Stands, AliasStands
<1>4. LeaseStands(x)'
  BY <1>1, <1>2 DEF Stands, LeaseStands
<1>5. GateStands(x)'
  BY <1>2 DEF Stands, GateStands
<1>6. RepairStands(x)'
  BY <1>1 DEF Stands, RepairStands
<1>7. FinalStands(x)'
  BY <1>1, <1>2 DEF Stands, FinalStands
<1> QED BY <1>3, <1>4, <1>5, <1>6, <1>7 DEF Stands

\* What the rest is left with when one executor moves.
LEMMA StandingBy ==
  ASSUME TypeOK, Standing, NEW e \in Executors, NEW x, ex' = [ex EXCEPT ![e] = x],
         x.pc # "idle", owner' \in {owner, Nobody},
         owner = e => owner' = Nobody \/ Stands(x)',
         owner # e => Same /\ UNCHANGED <<node, results, events>>,
         node' = "passed" => owner' = Nobody /\ NothingOpen' /\ NewestReleased'
  PROVE  Standing'
<1>1. owner' # Nobody => Stands(ex[owner])'
  <2> HAVE owner' # Nobody
  <2>1. owner' = owner /\ owner \in Executors /\ Stands(ex[owner])
    BY DEF Standing, TypeOK
  <2>2. CASE owner = e
    BY <2>1, <2>2, TypeFacts
  <2>3. CASE owner # e
    <3>1. PICK y \in ExT : y = ex[owner] /\ y = ex'[owner]
      BY <2>1, <2>3, TypeFacts
    <3>2. Stands(y)'
      BY <2>1, <2>3, <3>1, StandsStill
    <3> QED BY <2>1, <3>1, <3>2
  <2> QED BY <2>2, <2>3
<1>2. \A f \in Executors : ex'[f].pc = "idle" => ex'[f] = Fresh
  BY TypeFacts DEF Standing
<1> QED BY <1>1, <1>2 DEF Standing

Known == TypeOK /\ Records /\ Standing

-----------------------------------------------------------------------------
(* Steps that leave the rows alone.                                        *)

LEMMA RowsFacts ==
  ASSUME Known, UNCHANGED <<results, events, leases>>
  PROVE  /\ Same /\ Records'
         /\ Newest' = Newest /\ RepairLeases' = RepairLeases /\ Intents' = Intents
         /\ NothingOpen => NothingOpen'
         /\ NewestReleased => NewestReleased'
         /\ Intended => Intended'
         /\ \A l \in DOMAIN leases : Decides(l) => Decides(l)'
<1>1. SameLeases
  BY DEF SameLeases
<1>2. Same
  BY <1>1, SameRows DEF Known
<1> QED BY <1>2, SameFacts, SameRecords DEF Known, Same, SameIntents

\* The executor ends.
LEMMA EndsKeeps ==
  ASSUME Known, NEW e \in Executors, Ends(e), UNCHANGED <<results, events, leases>>,
         node' \in Statuses, agent' \in RoleRuns, UNCHANGED <<mayChange, overlap, branch, changes>>,
         owner # e => UNCHANGED node,
         node' = "passed" => node = "passed" \/ (NothingOpen /\ NewestReleased)
  PROVE  Known'
<1> DEFINE x == [Fresh EXCEPT !.pc = "done"]
<1>1. x \in ExT /\ x.pc = "done"
  <2>1. 0 \in 0..Len(leases) /\ 0 \in 0..Len(results) /\ 0 \in 0..MaxAttempts
    BY TypeFacts, BoundsAssumption DEF Known
  <2> QED BY <2>1 DEF Fresh, ExT, PCs, Backs, Source
<1>2. ex' = [ex EXCEPT ![e] = x] /\ owner' = IF owner = e THEN Nobody ELSE owner
  BY DEF Ends
<1> HIDE DEF x
<1>3. TypeOK'
  <2>1. owner' \in Executors \cup {Nobody} /\ overlap' \in BOOLEAN
    BY <1>2 DEF Known, TypeOK
  <2> QED BY <1>1, <1>2, <2>1, TypeMoves DEF Known
<1>4. Standing'
  <2>1. node' = "passed" => owner' = Nobody /\ NothingOpen' /\ NewestReleased'
    BY <1>2, RowsFacts DEF Known, Standing
  <2>2. Same /\ (owner # e => UNCHANGED <<node, results, events>>)
    BY RowsFacts
  <2> QED BY <1>1, <1>2, <2>1, <2>2, StandingBy DEF Known
<1> QED BY <1>3, <1>4, RowsFacts DEF Known

\* The owner of the job goes on.
LEMMA OwnerMoves ==
  ASSUME Known, NEW e \in Executors, owner = e, UNCHANGED owner, UNCHANGED <<results, events, leases>>,
         NEW x \in ExT, ex' = [ex EXCEPT ![e] = x], x.pc # "idle", Stands(x)',
         node' \in Statuses \ {"passed"}, agent' \in RoleRuns,
         UNCHANGED <<mayChange, overlap, branch, changes>>
  PROVE  Known'
<1>1. TypeOK'
  <2>1. owner' \in Executors \cup {Nobody} /\ overlap' \in BOOLEAN /\ node' \in Statuses
    BY DEF Known, TypeOK
  <2> QED BY <2>1, TypeMoves DEF Known
<1>2. Standing'
  BY StandingBy DEF Known
<1> QED BY <1>1, <1>2, RowsFacts DEF Known

\* Any executor goes on, and leaves the database alone.
LEMMA AnyMoves ==
  ASSUME Known, NEW e \in Executors, UNCHANGED <<owner, node, agent, results, events, leases>>,
         NEW x \in ExT, ex' = [ex EXCEPT ![e] = x], x.pc # "idle",
         owner = e => Stands(x)',
         UNCHANGED <<mayChange, overlap, branch, changes>>
  PROVE  Known'
<1>1. TypeOK'
  <2>1. /\ owner' \in Executors \cup {Nobody} /\ overlap' \in BOOLEAN /\ node' \in Statuses
        /\ agent' \in RoleRuns
    BY DEF Known, TypeOK
  <2> QED BY <2>1, TypeMoves DEF Known
<1>2. Standing'
  <2>1. node' = "passed" => owner' = Nobody /\ NothingOpen' /\ NewestReleased'
    BY RowsFacts DEF Known, Standing
  <2>2. Same /\ UNCHANGED <<node, results, events>>
    BY RowsFacts
  <2> QED BY <2>1, <2>2, StandingBy DEF Known
<1> QED BY <1>1, <1>2, RowsFacts DEF Known

Like(x, y) ==
    /\ x.lease = y.lease /\ x.of = y.of /\ x.alias = y.alias
    /\ x.attempt = y.attempt /\ x.wrote = y.wrote

LEMMA GoFact ==
  ASSUME TypeOK, NEW e \in Executors, NEW pc \in PCs, Go(e, pc)
  PROVE  \E x \in ExT : /\ ex' = [ex EXCEPT ![e] = x]
                        /\ x.pc = pc /\ x.back = ex[e].back /\ Like(x, ex[e])
<1> DEFINE x == [ex[e] EXCEPT !.pc = pc]
<1>1. ex[e] \in ExT
  BY TypeFacts
<1>2. x \in ExT /\ x.pc = pc /\ x.back = ex[e].back /\ Like(x, ex[e])
  BY <1>1 DEF ExT, Like
<1>3. ex' = [ex EXCEPT ![e] = x]
  BY DEF Go
<1> HIDE DEF x
<1> QED BY <1>2, <1>3

LEMMA BackFact ==
  ASSUME TypeOK, NEW e \in Executors, NEW back \in Backs,
         ex' = [ex EXCEPT ![e].pc = "commit", ![e].back = back]
  PROVE  \E x \in ExT : /\ ex' = [ex EXCEPT ![e] = x]
                        /\ x.pc = "commit" /\ x.back = back /\ Like(x, ex[e])
<1> DEFINE x == [ex[e] EXCEPT !.pc = "commit", !.back = back]
<1>1. ex[e] \in ExT
  BY TypeFacts
<1>2. x \in ExT /\ x.pc = "commit" /\ x.back = back /\ Like(x, ex[e])
  BY <1>1 DEF ExT, Like, PCs, GitCalls
<1>3. ex' = [ex EXCEPT ![e] = x]
  OBVIOUS
<1> HIDE DEF x
<1> QED BY <1>2, <1>3

LEMMA OwnerFact ==
  ASSUME Known, NEW e \in Executors, owner = e
  PROVE  ex[e] \in ExT /\ Stands(ex[e]) /\ node # "passed"
  BY TypeFacts, NobodyAssumption DEF Known, Standing

\* The owner goes to a place of which nothing is required but the node's status.
LEMMA OwnerGoes ==
  ASSUME Known, Inv, NEW e \in Executors, owner = e,
         \/ CreateRoleRun(e) \/ (CannotLease(e) /\ ex[e].of # Source) \/ AgentSucceeds(e) \/ AwaitGate(e)
         \/ SkipGate(e)
  PROVE  Known'
<1>1. /\ UNCHANGED owner /\ UNCHANGED <<results, events, leases>> /\ node' \in Statuses \ {"passed"} /\ agent' \in RoleRuns
      /\ UNCHANGED <<mayChange, overlap, branch, changes>>
  BY OwnerFact
  DEF CreateRoleRun, CannotLease, AgentSucceeds, AwaitGate, SkipGate, Known, TypeOK, git, fixed,
      durable, Statuses, RoleRuns
<1>2. PICK pc \in {"lease", "agent", "repair-failed", "await", "gate", "final"} :
         /\ Go(e, pc)
         /\ \/ pc = "lease" /\ ex[e].pc = "role-run" /\ ex[e].lease = 0
            \/ pc = "agent" /\ ex[e].pc = "role-run"
            \/ pc = "repair-failed" /\ ex[e].pc = "lease" /\ ex[e].of # Source
            \/ pc = "await" /\ ex[e].pc = "agent"
            \/ pc = "gate" /\ ex[e].pc = "await" /\ node' = "awaiting-gate"
            \/ pc = "final" /\ ex[e].pc = "gate" /\ node' = node /\ PassedBefore
  BY DEF CreateRoleRun, CannotLease, AgentSucceeds, AwaitGate, SkipGate, durable
<1>3. pc \in PCs
  BY DEF PCs, DurableCalls
<1>4. PICK x \in ExT : ex' = [ex EXCEPT ![e] = x] /\ x.pc = pc /\ Like(x, ex[e])
  BY <1>2, <1>3, GoFact DEF Known
<1>5. Stands(ex[e])
  BY OwnerFact
<1>6. AliasStands(x)'
  BY <1>2, <1>4, <1>5
  DEF Stands, AliasStands, Like, AliasPlaces, For, Finalizing, LeaseCalls
<1>7. LeaseStands(x)'
  BY <1>1, <1>2, <1>4, <1>5, RowsFacts DEF Stands, LeaseStands, Like
<1>8. GateStands(x)'
  BY <1>1, <1>2, <1>4, <1>5
  DEF Stands, GateStands, Like, For, Finalizing, LeaseCalls, PassedBefore, Last
<1>9. RepairStands(x)'
  <2>1. ex[e].of # Source /\ ex[e].pc = "lease" => ex[e].of \in DOMAIN results
    <3>1. ex[e].of \in 0..Len(results) /\ DOMAIN results = 1..Len(results) /\ Len(results) \in Nat
      BY OwnerFact, TypeFacts DEF ExT, Known
    <3>2. \A n \in Nat : \A k \in 0..n : k # 0 => k \in 1..n
      OBVIOUS
    <3> QED BY <3>1, <3>2 DEF Source
  <2>2. x.pc = "repair-failed" => NothingOpen' /\ x.of \in DOMAIN results'
    <3> HAVE x.pc = "repair-failed"
    <3>1. ex[e].pc = "lease" /\ ex[e].of # Source
      BY <1>2, <1>4
    <3>2. NothingOpen /\ x.of = ex[e].of
      BY <1>4, <1>5, <3>1 DEF Stands, LeaseStands, Like
    <3>3. NothingOpen' /\ results' = results
      BY <1>1, <3>2, RowsFacts 
    <3> QED BY <2>1, <3>1, <3>2, <3>3
  <2>3. ~Finalizing(x) /\ x.pc \notin {"revise", "create-repair", "record-release"}
    BY <1>2, <1>4 DEF Finalizing, LeaseCalls
  <2> QED BY <2>2, <2>3 DEF RepairStands, For
<1>10. FinalStands(x)'
  BY <1>2, <1>4 DEF FinalStands, LeaseCalls
<1>11. Stands(x)' /\ x.pc # "idle"
  BY <1>2, <1>4, <1>6, <1>7, <1>8, <1>9, <1>10 DEF Stands
<1> QED BY <1>1, <1>4, <1>11, OwnerMoves

\* An executor is told that it is aborted.
LEMMA AbortKeepsK == ASSUME Known, NEW e \in Executors, Abort(e) PROVE Known'
<1>1. ex[e] \in ExT
  BY TypeFacts DEF Known
<1>2. PICK x \in ExT : /\ ex' = [ex EXCEPT ![e] = x]
                       /\ x.pc = ex[e].pc /\ x.back = ex[e].back /\ Like(x, ex[e])
  <2> DEFINE y == [ex[e] EXCEPT !.abort = IF owner = e THEN "stop" ELSE "lost"]
  <2>1. y \in ExT /\ y.pc = ex[e].pc /\ y.back = ex[e].back /\ Like(y, ex[e])
    BY <1>1 DEF ExT, Like
  <2>2. ex' = [ex EXCEPT ![e] = y]
    BY DEF Abort
  <2> HIDE DEF y
  <2> QED BY <2>1, <2>2
<1>3. x.pc # "idle" /\ UNCHANGED <<node, agent, owner, results, events, leases, mayChange, overlap, branch, changes>>
  BY <1>2 DEF Abort, Lives, durable, fixed, git
<1>4. ASSUME owner = e PROVE Stands(x)'
  <2>1. Stands(ex[e]) /\ ex[e] \in ExT /\ Same
    BY <1>3, <1>4, OwnerFact, RowsFacts
  <2>2. Stands(x)
    BY <1>2, <2>1
    DEF Stands, AliasStands, LeaseStands, GateStands, RepairStands, FinalStands,
                      Like, For, Finalizing
  <2>3. TypeOK /\ UNCHANGED <<node, results, events>> /\ x \in ExT
    BY <1>2, <1>3 DEF Known
  <2> QED BY <2>1, <2>2, <2>3, StandsStill
<1>5. /\ UNCHANGED <<owner, node, agent, results, events, leases>>
      /\ UNCHANGED <<mayChange, overlap, branch, changes>>
  BY <1>3
<1>6. x \in ExT /\ ex' = [ex EXCEPT ![e] = x] /\ x.pc # "idle"
  BY <1>2, <1>3
<1> QED BY <1>4, <1>5, <1>6, AnyMoves

\* A job is started.
LEMMA StartKeepsK == ASSUME Known, NEW e \in Executors, Start(e) PROVE Known'
<1>1. /\ UNCHANGED <<results, events, leases, mayChange, branch, changes>>
      /\ ex[e].pc = "idle" /\ owner = Nobody /\ owner' = e /\ node # "passed"
      /\ Go(e, "enter")
  BY DEF Start, git
<1>2. /\ node' \in Statuses \ {"passed"} /\ agent' \in RoleRuns /\ overlap' \in BOOLEAN
  BY DEF Start, Known, TypeOK, Statuses, RoleRuns
<1>3. ex[e] = Fresh
  BY <1>1 DEF Known, Standing
<1>4. PICK x \in ExT : ex' = [ex EXCEPT ![e] = x] /\ x.pc = "enter" /\ Like(x, ex[e])
  <2>1. "enter" \in PCs
    BY DEF PCs, DurableCalls
  <2> QED BY <1>1, <2>1, GoFact DEF Known
<1>5. Stands(x)'
  BY <1>3, <1>4 DEF Stands, AliasStands, LeaseStands, GateStands, RepairStands, FinalStands,
                    Like, For, Finalizing, LeaseCalls, Fresh
<1>6. TypeOK'
  BY <1>1, <1>2, <1>4, TypeMoves DEF Known
<1>7. Standing'
  <2>1. ex'[e] = x
    BY <1>4, TypeFacts DEF Known
  <2>2. \A f \in Executors : ex'[f].pc = "idle" => ex'[f] = Fresh
    BY <1>4, TypeFacts DEF Known, Standing
  <2> QED BY <1>1, <1>2, <1>5, <2>1, <2>2 DEF Standing
<1> QED BY <1>1, <1>6, <1>7, RowsFacts DEF Known

\* The node is entered.
LEMMA EnterKeepsK == ASSUME Known, NEW e \in Executors, Enter(e) PROVE Known'
<1>1. /\ owner = e /\ ex[e].pc = "enter" /\ Stands(ex[e]) /\ ex[e] \in ExT
      /\ UNCHANGED <<agent, results, events, leases, mayChange, overlap, branch, changes>>
      /\ agent \in RoleRuns /\ node \in Statuses \ {"passed"}
  BY OwnerFact DEF Enter, fixed, git, Known, TypeOK
<1>2. CASE Ends(e) /\ UNCHANGED node
  BY <1>1, <1>2, EndsKeeps DEF Known, TypeOK
<1>3. CASE Go(e, "gate") /\ node' = "awaiting-gate" /\ UNCHANGED owner
  <2>1. PICK x \in ExT : ex' = [ex EXCEPT ![e] = x] /\ x.pc = "gate" /\ Like(x, ex[e])
    <3>1. "gate" \in PCs
      BY DEF PCs, DurableCalls
    <3> QED BY <1>3, <3>1, GoFact DEF Known
  <2>2. Stands(x)'
    BY <1>1, <1>3, <2>1
    DEF Stands, AliasStands, LeaseStands, GateStands, RepairStands, FinalStands,
                    Like, For, Finalizing, LeaseCalls, AliasPlaces
  <2>3. node' \in Statuses \ {"passed"}
    BY <1>3 DEF Statuses
  <2> QED BY <1>1, <1>3, <2>1, <2>2, <2>3, OwnerMoves
<1>4. CASE /\ node' = "running" /\ UNCHANGED owner
           /\ ex' = [ex EXCEPT ![e].pc = "role-run",
                               ![e].lease = IF Open(Source) = {} THEN 0
                                            ELSE CHOOSE l \in Open(Source) : TRUE]
  <2> DEFINE lease == IF Open(Source) = {} THEN 0 ELSE CHOOSE l \in Open(Source) : TRUE
  <2>1. lease \in 0..Len(leases) /\ (lease = 0 => NothingOpen)
    <3>1. Len(leases) \in Nat /\ Open(Source) \subseteq 1..Len(leases)
      BY TypeFacts DEF Known, Open
    <3>2. Open(Source) # {} => lease \in Open(Source)
      OBVIOUS
    <3> HIDE DEF lease
    <3>3. Open(Source) = {} => lease = 0
      BY DEF lease
    <3> QED BY <3>1, <3>2, <3>3 DEF NothingOpen
  <2>2. ex' = [ex EXCEPT ![e].pc = "role-run", ![e].lease = lease]
    BY <1>4
  <2>3. PICK n \in 0..Len(leases) : n = lease
    BY <2>1
  <2>4. PICK x \in ExT : /\ ex' = [ex EXCEPT ![e] = x]
                         /\ x.pc = "role-run" /\ x.lease = n /\ x.of = ex[e].of
                         /\ x.alias = ex[e].alias
    <3> HIDE DEF lease
    <3> DEFINE y == [ex[e] EXCEPT !.pc = "role-run", !.lease = n]
    <3>1. ex' = [ex EXCEPT ![e] = y]
      BY <2>2, <2>3
    <3>2. /\ y \in ExT /\ y.pc = "role-run" /\ y.lease = n /\ y.of = ex[e].of
          /\ y.alias = ex[e].alias
      BY <1>1 DEF ExT, PCs, DurableCalls
    <3> HIDE DEF y
    <3> QED BY <3>1, <3>2
  <2> HIDE DEF lease
  <2>5. Stands(x)'
    <3>1. AliasStands(x)'
      BY <1>1, <2>4 DEF Stands, AliasStands, For, Finalizing, LeaseCalls, AliasPlaces
    <3>2. LeaseStands(x)'
      BY <1>1, <2>1, <2>3, <2>4, RowsFacts DEF Stands, LeaseStands
    <3>3. GateStands(x)' /\ RepairStands(x)' /\ FinalStands(x)'
      BY <2>4 DEF GateStands, RepairStands, FinalStands, For, Finalizing, LeaseCalls
    <3> QED BY <3>1, <3>2, <3>3 DEF Stands
  <2>6. node' \in Statuses \ {"passed"}
    BY <1>4 DEF Statuses
  <2>7. x.pc # "idle" /\ owner = e /\ UNCHANGED owner /\ agent' \in RoleRuns
    BY <1>1, <1>4, <2>4
  <2>8. /\ UNCHANGED <<results, events, leases>>
        /\ UNCHANGED <<mayChange, overlap, branch, changes>>
    BY <1>1
  <2> QED BY <2>4, <2>5, <2>6, <2>7, <2>8, OwnerMoves
<1> QED BY <1>2, <1>3, <1>4 DEF Enter

\* The executor ends, by itself or not.
LEMMA EndingKeepsK ==
  ASSUME Known, NEW e \in Executors,
         \/ Crash(e) \/ Refused(e) \/ StandDown(e) \/ (CannotLease(e) /\ ex[e].of = Source)
         \/ GateThrows(e) \/ Exhausted(e) \/ GiveUp(e) \/ Pass(e)
  PROVE  Known'
<1>1. /\ Ends(e) /\ UNCHANGED <<results, events, leases, mayChange, overlap, branch, changes, agent>>
  BY
  DEF Crash, Refused, StandDown, CannotLease, GateThrows, Exhausted, GiveUp, Pass, durable,
      fixed, git
<1>2. node' \in Statuses /\ agent' \in RoleRuns
  BY <1>1
  DEF Crash, Refused, StandDown, CannotLease, GateThrows, Exhausted, GiveUp, Pass, durable,
     Known, TypeOK, Statuses
<1>3. owner # e => UNCHANGED node
  BY
  DEF Crash, Refused, StandDown, CannotLease, GateThrows, Exhausted, GiveUp, Pass, durable
<1>4. ASSUME node' = "passed" PROVE node = "passed" \/ (NothingOpen /\ NewestReleased)
  <2>1. CASE Pass(e)
    BY <2>1, OwnerFact DEF Pass, Stands, FinalStands
  <2> QED BY <1>4, <2>1 DEF Crash, Refused, StandDown, CannotLease, GateThrows, Exhausted, GiveUp, durable
<1> QED BY <1>1, <1>2, <1>3, <1>4, EndsKeeps

\* An agent has failed, the gate has, a repair has, or the gates have passed.
LEMMA CommitsKeepK ==
  ASSUME Known, Inv, NEW e \in Executors,
         AgentFails(e) \/ Revise(e) \/ RepairFails(e) \/ FinalizeNode(e)
  PROVE  Known'
<1>1. /\ UNCHANGED <<owner, results, events, leases, mayChange, overlap, branch, changes>>
      /\ owner # e => UNCHANGED <<node, agent>>
      /\ agent' \in RoleRuns /\ node' \in Statuses /\ (node # "passed" => node' # "passed")
  BY
  DEF AgentFails, Revise, RepairFails, FinalizeNode, durable, fixed, git, Known, TypeOK,
      Statuses, RoleRuns
<1>2. PICK back \in Backs :
        /\ ex' = [ex EXCEPT ![e].pc = "commit", ![e].back = back]
        /\ \/ back = "agent" /\ ex[e].pc = "agent"
           \/ back = "repair" /\ ex[e].pc = "revise" /\ node' = "needs-revision"
           \/ back = "fallback" /\ ex[e].pc = "repair"
           \/ back = "final" /\ ex[e].pc = "final" /\ UNCHANGED node
  BY DEF AgentFails, Revise, RepairFails, FinalizeNode, Backs, durable
<1>3. PICK x \in ExT : /\ ex' = [ex EXCEPT ![e] = x]
                       /\ x.pc = "commit" /\ x.back = back /\ Like(x, ex[e])
  BY <1>2, BackFact DEF Known
<1>4. ASSUME owner = e PROVE Stands(x)'
  <2>1. Stands(ex[e]) /\ ex[e] \in ExT
    BY <1>4, OwnerFact
  <2>2. AliasStands(x)' /\ LeaseStands(x)'
    BY <1>1, <1>2, <1>3, <2>1, RowsFacts
       DEF Stands, AliasStands, LeaseStands, Like, For, Finalizing, LeaseCalls, AliasPlaces
  <2>3. GateStands(x)'
    BY <1>1, <1>2, <1>3, <2>1, RowsFacts
       DEF Stands, GateStands, Like, For, Finalizing, LeaseCalls
  <2>4. FinalStands(x)'
    BY <1>1, <1>2, <1>3 DEF FinalStands, LeaseCalls
  <2>5. ex[e].pc = "repair" => NothingOpen /\ ex[e].of \in DOMAIN results
    <3> HAVE ex[e].pc = "repair"
    <3>1. /\ ex[e].lease \in DOMAIN leases /\ ex[e].lease = Newest
          /\ leases[ex[e].lease].node # Source /\ leases[ex[e].lease].node = ex[e].of
      BY <2>1 DEF Stands, LeaseStands
    <3>2. Open(Source) \subseteq {Newest} /\ Newest \notin Open(Source)
      BY <3>1 DEF Known, Records, Open
    <3> QED BY <3>1, <3>2, NodeFact DEF Known, NothingOpen
  <2>6. RepairStands(x)'
    BY <1>1, <1>2, <1>3, <2>1, <2>5, RowsFacts
       DEF Stands, RepairStands, Like, For, Finalizing, LeaseCalls
  <2> QED BY <2>2, <2>3, <2>4, <2>6 DEF Stands
<1>5. CASE owner = e
  BY <1>1, <1>3, <1>4, <1>5, OwnerFact, OwnerMoves
<1>6. CASE owner # e
  BY <1>1, <1>3, <1>6, AnyMoves
<1> QED BY <1>5, <1>6

LEMMA BackToGateKeepsK == ASSUME Known, NEW e \in Executors, BackToGate(e) PROVE Known'
<1>1. /\ owner = e /\ ex[e].pc = "repaired" /\ Stands(ex[e]) /\ ex[e] \in ExT
      /\ node' = "awaiting-gate"
      /\ UNCHANGED <<owner, agent, results, events, leases, mayChange, overlap, branch, changes>>
      /\ agent' \in RoleRuns /\ node' \in Statuses \ {"passed"}
  BY OwnerFact DEF BackToGate, fixed, git, Known, TypeOK, Statuses
<1>2. PICK x \in ExT : /\ ex' = [ex EXCEPT ![e] = x]
                       /\ x.pc = "recheck" /\ x.of = Source /\ x.alias = ex[e].alias
  <2> DEFINE y == [ex[e] EXCEPT !.pc = "recheck", !.of = Source]
  <2>1. ex' = [ex EXCEPT ![e] = y]
    BY DEF BackToGate
  <2>2. /\ y \in ExT /\ y.pc = "recheck" /\ y.of = Source /\ y.alias = ex[e].alias
    <3>1. Source \in 0..Len(results)
      BY TypeFacts DEF Known
    <3> QED BY <1>1, <3>1 DEF ExT, PCs, DurableCalls
  <2> HIDE DEF y
  <2> QED BY <2>1, <2>2
<1>4. Stands(x)'
  <2>1. AliasStands(x)'
    <3>1. Newest \in RepairLeases => leases'[Newest] = leases[Newest]
      BY <1>1
    <3> QED BY <1>1, <1>2, <3>1, RowsFacts DEF Stands, AliasStands, AliasPlaces
  <2>2. GateStands(x)'
    BY <1>1, <1>2 DEF GateStands, For, Finalizing, LeaseCalls
  <2>3. LeaseStands(x)' /\ RepairStands(x)' /\ FinalStands(x)'
    BY <1>2 DEF LeaseStands, RepairStands, FinalStands, For, Finalizing, LeaseCalls
  <2> QED BY <2>1, <2>2, <2>3 DEF Stands
<1>5. x.pc # "idle" /\ owner = e /\ UNCHANGED owner /\ agent' \in RoleRuns
      /\ node' \in Statuses \ {"passed"}
  BY <1>1, <1>2
<1>6. /\ UNCHANGED <<results, events, leases>>
      /\ UNCHANGED <<mayChange, overlap, branch, changes>>
  BY <1>1
<1> QED BY <1>2, <1>4, <1>5, <1>6, OwnerMoves

-----------------------------------------------------------------------------
(* Steps of the owner that change the rows.                                *)

LEMMA ExSame ==
  ASSUME Len(results') = Len(results), Len(leases') = Len(leases)
  PROVE  ExT' = ExT
  BY DEF ExT

\* The owner writes, and goes on.
LEMMA OwnerWrites ==
  ASSUME Known, NEW e \in Executors, owner = e, UNCHANGED owner,
         NEW x \in ExT', ex' = [ex EXCEPT ![e] = x], x.pc # "idle", Records', Stands(x)',
         node' \in Statuses \ {"passed"}, agent' \in RoleRuns,
         UNCHANGED <<mayChange, overlap, branch, changes>>,
         Len(results) <= Len(results'), results' \in Seq(ResultT'),
         Len(leases) <= Len(leases'), leases' \in Seq(LeaseT'),
         events' \in Seq(EventT), \A i \in DOMAIN events' : Refers(i)'
  PROVE  Known'
<1>1. TypeOK'
  <2>1. /\ owner' \in Executors \cup {Nobody} /\ overlap' \in BOOLEAN /\ node' \in Statuses
        /\ branch' \subseteq 1..changes' /\ changes' \in 0..MaxChanges
    BY DEF Known, TypeOK
  <2> QED BY <2>1, TypeGrows DEF Known
<1>2. Standing'
  BY StandingBy DEF Known
<1> QED BY <1>1, <1>2 DEF Known

\* The lease of the latest execution decides the node's, and the repair of the newest
\* lease is the last that was intended.
LEMMA ActiveFact ==
  ASSUME Known, NEW e \in Executors, owner = e, CanLookUp(e), NEW l \in Active(e)
  PROVE  /\ l \in DOMAIN leases /\ Decides(l)
         /\ ex[e].alias = 0 /\ Newest \in RepairLeases =>
                \A j \in Intents : events[j].of <= leases[Newest].node
<1>1. Stands(ex[e]) /\ ex[e] \in ExT /\ TypeOK /\ Records
  BY OwnerFact DEF Known
<1>2. CASE ex[e].alias # 0
  BY <1>1, <1>2 DEF Active, Stands, AliasStands, RepairLeases, Decides
<1>3. CASE ex[e].alias = 0 /\ ExecutionNode = Source
  BY <1>1, <1>3 DEF Active, Open, Records, Decides, RepairLeases
<1>4. CASE ex[e].alias = 0 /\ ExecutionNode # Source
  <2> DEFINE n == ExecutionNode
  <2>1. IntentCounts /\ n = IntendedRepair /\ l \in DOMAIN leases /\ leases[l].node = n
    BY <1>4 DEF Active, Open, ExecutionNode
  <2>2. l \in RepairLeases
    BY <1>4, <2>1 DEF RepairLeases
  <2> HIDE DEF n
  <2>3. /\ Latest(Intents) \in Intents /\ \A i \in Intents : i <= Latest(Intents)
        /\ events[Latest(Intents)].of = n
    <3>1. Intents \subseteq DOMAIN events /\ CreatedAt(Source) \subseteq DOMAIN events
      BY DEF Intents, CreatedAt
    <3>2. Intents # {}
      BY <1>1, <2>2 DEF Records
    <3> QED BY <1>1, <2>1, <3>1, <3>2, LatestIn DEF IntendedRepair
  <2>4. \A j \in Intents : events[j].of <= n
    <3> SUFFICES ASSUME NEW j \in Intents PROVE events[j].of <= n
      OBVIOUS
    <3>1. j \in Nat /\ Latest(Intents) \in Nat /\ events[j].of \in Nat /\ n \in Nat /\ j <= Latest(Intents)
      BY <1>1, <2>3, IntentFact
    <3> QED BY <1>1, <2>3, <3>1 DEF Records
  <2>5. Newest \in RepairLeases => leases[Newest].node = n /\ Newest = l
    <3> HAVE Newest \in RepairLeases
    <3>1. PICK i \in Intents : events[i].of = leases[Newest].node
      BY <1>1 DEF Records
    <3>2. leases[Newest].node <= n
      BY <2>4, <3>1
    <3>3. Newest \in Nat /\ l \in Nat /\ l <= Newest /\ leases[Newest].node \in Nat /\ n \in Nat
      <4>1. n \in Nat
        BY <1>1, <2>1, NodeFact
      <4>2. leases[Newest].node \in Nat
        BY <1>1, <3>1, IntentFact
      <4>3. Newest \in Nat /\ DOMAIN leases = 1..Newest
        BY <1>1, TypeFacts DEF Newest
      <4> QED BY <2>1, <4>1, <4>2, <4>3
    <3>4. l < Newest => n < leases[Newest].node
      BY <1>1, <2>1, <2>2 DEF Records
    <3> QED BY <2>1, <3>2, <3>3, <3>4
  <2>6. NothingOpen
    BY <2>1 DEF IntentCounts, NothingOpen
  <2>7. Newest \notin RepairLeases => NewestReleased
    <3> HAVE Newest \notin RepairLeases
    <3>1. Newest \in DOMAIN leases /\ leases # <<>>
      BY <1>1, <2>1, TypeFacts DEF Newest
    <3> QED BY <2>6, <3>1 DEF RepairLeases, NothingOpen, Open, NewestReleased
  <2> QED BY <2>1, <2>4, <2>5, <2>6, <2>7 DEF Decides
<1> QED BY <1>2, <1>3, <1>4

LEMMA RunGateKeepsK == ASSUME Known, Inv, NEW e \in Executors, RunGate(e) PROVE Known'
<1>1. /\ owner = e /\ Stands(ex[e]) /\ ex[e] \in ExT /\ CanLookUp(e) /\ node # "passed"
      /\ ex[e].pc \in {"gate", "recheck"}
      /\ UNCHANGED <<owner, node, agent, events, leases, mayChange, overlap, branch, changes>>
      /\ agent' \in RoleRuns /\ node' \in Statuses \ {"passed"} /\ TypeOK /\ Records
  BY OwnerFact DEF RunGate, MustRunGate, fixed, git, Known, TypeOK, Statuses
<1>2. PICK l \in Active(e), passed \in BOOLEAN :
        /\ results' = Append(results, [passed |-> passed, repair |-> "absent",
                                       saw |-> leases[l].head \cup leases[l].edits])
        /\ Go(e, IF passed THEN "final"
                 ELSE IF ex[e].attempt < MaxAttempts THEN "intent" ELSE "exhausted")
  BY DEF RunGate
<1>3. /\ l \in DOMAIN leases
      /\ ex[e].alias = 0 /\ Newest \in RepairLeases =>
                \A j \in Intents : events[j].of <= leases[Newest].node
  BY <1>1, ActiveFact
<1>4. PICK r \in ResultT : r.passed = passed /\ r.repair = "absent" /\ results' = Append(results, r)
  <2> DEFINE saw == leases[l].head \cup leases[l].edits
  <2> DEFINE q == [passed |-> passed, repair |-> "absent", saw |-> saw]
  <2>1. saw \in SUBSET (1..changes)
    <3>1. leases[l] \in LeaseT
      BY <1>1, <1>3, TypeFacts
    <3> QED BY <3>1 DEF LeaseT
  <2> HIDE DEF saw
  <2>2. q \in ResultT /\ q.passed = passed /\ q.repair = "absent"
    BY <2>1 DEF ResultT, RepairStatuses
  <2>3. results' = Append(results, q)
    BY <1>2 DEF saw
  <2> HIDE DEF q
  <2> QED BY <2>2, <2>3
<1>5. /\ results' \in Seq(ResultT) /\ Len(results') = Len(results) + 1
      /\ Len(results) \in Nat /\ DOMAIN results = 1..Len(results)
      /\ DOMAIN results' = 1..Len(results) + 1 /\ results'[Len(results) + 1] = r
      /\ \A n \in DOMAIN results : results'[n] = results[n]
  <2> HIDE DEF ResultT
  <2>1. results \in Seq(ResultT) /\ Len(results) \in Nat /\ DOMAIN results = 1..Len(results)
    BY <1>1, TypeFacts
  <2> QED BY <1>4, <2>1
<1>6. /\ Newest' = Newest /\ RepairLeases' = RepairLeases /\ Intents' = Intents
      /\ CreatedAt(Source)' = CreatedAt(Source) /\ Open(Source)' = Open(Source)
  BY <1>1 DEF Newest, RepairLeases, Intents, CreatedAt, Open, Source
<1>7. /\ \A i \in Intents : events[i].of \in DOMAIN results /\ events[i].of \in Nat
      /\ \A k \in RepairLeases : k \in DOMAIN leases /\ leases[k].node \in DOMAIN results
  BY <1>1, IntentFact, NodeFact DEF RepairLeases
<1>8. Records'
  <2>1. /\ \A i \in Intents' : ~results'[events'[i].of].passed
        /\ \A i, j \in Intents' : i < j => events'[i].of < events'[j].of
    BY <1>1, <1>5, <1>6, <1>7 DEF Records
  <2>2. /\ \A k \in RepairLeases' :
           /\ results'[leases'[k].node].repair # "absent"
           /\ \E i \in Intents' : events'[i].of = leases'[k].node
        /\ \A j, k \in RepairLeases' : j < k => leases'[j].node < leases'[k].node
    BY <1>1, <1>5, <1>6, <1>7 DEF Records
  <2>3. \A n \in DOMAIN results' :
           results'[n].repair = "passed" => \E k \in DOMAIN leases' : leases'[k].node = n
    <3>1. \A n \in DOMAIN results' : n \in DOMAIN results \/ n = Len(results) + 1
      BY <1>5
    <3> QED BY <1>1, <1>4, <1>5, <3>1 DEF Records
  <2>4. Open(Source)' \subseteq {Newest'} /\ (results' # <<>> => leases' # <<>>)
    BY <1>1, <1>3, <1>6, TypeFacts DEF Records
  <2>5. Newest' \in RepairLeases' =>
           \A j \in Intents' :
               /\ events'[j].of = leases'[Newest'].node => \A i \in CreatedAt(Source)' : i < j
               /\ events'[j].of > leases'[Newest'].node => events'[j].of = Len(results')
    <3>1. ASSUME Newest \in RepairLeases, NEW j \in Intents PROVE events[j].of <= leases[Newest].node
      <4>1. CASE ex[e].alias = 0
        BY <1>3, <3>1, <4>1
      <4>2. CASE ex[e].alias # 0
        <5>1. ex[e].pc = "recheck" /\ leases[Newest].node = Len(results)
          BY <1>1, <4>2 DEF Stands, AliasStands, AliasPlaces, For, Finalizing, LeaseCalls
        <5> QED BY <1>5, <1>7, <5>1
      <4> QED BY <4>1, <4>2
    <3>2. ASSUME Newest \in RepairLeases, NEW j \in Intents PROVE ~(events[j].of > leases[Newest].node)
      <4>1. events[j].of \in Nat /\ leases[Newest].node \in Nat
        BY <1>5, <1>7, <3>2
      <4> QED BY <3>1, <3>2, <4>1
    <3> QED BY <1>1, <1>6, <3>2 DEF Records
  <2> QED BY <2>1, <2>2, <2>3, <2>4, <2>5 DEF Records
<1>9. PICK x \in ExT : /\ ex' = [ex EXCEPT ![e] = x] /\ Like(x, ex[e])
                       /\ \/ x.pc = "final" /\ passed
                          \/ x.pc = "intent" /\ ~passed /\ ex[e].attempt < MaxAttempts
                          \/ x.pc = "exhausted"
  <2>1. {"final", "intent", "exhausted"} \subseteq PCs
    BY DEF PCs, DurableCalls
  <2>2. PICK pc \in {"final", "intent", "exhausted"} :
           /\ Go(e, pc) /\ \/ pc = "final" /\ passed
                           \/ pc = "intent" /\ ~passed /\ ex[e].attempt < MaxAttempts
                           \/ pc = "exhausted"
    BY <1>2
  <2>3. pc \in PCs
    BY <2>1
  <2>4. PICK x \in ExT : ex' = [ex EXCEPT ![e] = x] /\ x.pc = pc /\ Like(x, ex[e])
    BY <1>1, <2>2, <2>3, GoFact
  <2> QED BY <2>2, <2>4
<1>10. Stands(x)'
  <2>1. AliasStands(x)'
    BY <1>1, <1>6, <1>9
    DEF Stands, AliasStands, AliasPlaces, Like, For, Finalizing, LeaseCalls
  <2>2. GateStands(x)'
    <3>1. node = "awaiting-gate"
      BY <1>1 DEF Stands, GateStands
    <3>2. results' # <<>> /\ results'[Len(results')].passed = passed
      BY <1>4, <1>5
    <3>3. \A i \in Intents' : events'[i].of < Len(results')
      BY <1>1, <1>5, <1>6, <1>7
    <3> QED BY <1>1, <1>9, <3>1, <3>2, <3>3 DEF GateStands, Like, For, Finalizing, LeaseCalls
  <2>3. LeaseStands(x)' /\ RepairStands(x)' /\ FinalStands(x)'
    BY <1>9 DEF LeaseStands, RepairStands, FinalStands, For, Finalizing, LeaseCalls
  <2> QED BY <2>1, <2>2, <2>3 DEF Stands
<1>11. /\ results' \in Seq(ResultT') /\ leases' \in Seq(LeaseT')
       /\ events' \in Seq(EventT) /\ \A i \in DOMAIN events' : Refers(i)'
       /\ x \in ExT'
  <2>1. ResultT' = ResultT
    BY <1>1 DEF ResultT
  <2>2. LeaseT \subseteq LeaseT' /\ ExT \subseteq ExT'
    <3>1. 0..Len(results) \subseteq 0..Len(results')
      BY <1>5
    <3> QED BY <1>1, <3>1 DEF LeaseT, ExT
  <2>3. leases \in Seq(LeaseT')
    <3> HIDE DEF LeaseT
    <3>1. \A k \in DOMAIN leases : leases[k] \in LeaseT'
      BY <1>1, <2>2, TypeFacts
    <3>2. leases = [k \in DOMAIN leases |-> leases[k]]
      BY <1>1, TypeFacts
    <3> QED BY <1>1, <3>1, <3>2, TypeFacts, SeqIn
  <2>4. \A i \in DOMAIN events' : Refers(i)'
    <3>1. DOMAIN results \subseteq DOMAIN results'
      BY <1>5
    <3> QED BY <1>1, <3>1, TypeFacts DEF Refers
  <2> HIDE DEF ResultT, LeaseT, ExT, EventT
  <2> QED BY <1>1, <1>5, <2>1, <2>2, <2>3, <2>4, TypeFacts
<1>12. /\ Len(results) <= Len(results') /\ Len(leases) <= Len(leases') /\ x.pc # "idle"
       /\ UNCHANGED owner /\ UNCHANGED <<mayChange, overlap, branch, changes>>
  BY <1>1, <1>5, <1>9, TypeFacts
<1> QED BY <1>1, <1>8, <1>9, <1>10, <1>11, <1>12, OwnerWrites

\* A repair of the result that failed is intended.
LEMMA IntendRepairKeepsK == ASSUME Known, NEW e \in Executors, IntendRepair(e) PROVE Known'
<1>1. /\ owner = e /\ Stands(ex[e]) /\ ex[e] \in ExT /\ ex[e].pc = "intent"
      /\ UNCHANGED <<owner, node, agent, results, leases, mayChange, overlap, branch, changes>>
      /\ agent' \in RoleRuns /\ node' \in Statuses \ {"passed"} /\ TypeOK /\ Records
  BY OwnerFact DEF IntendRepair, fixed, git, Known, TypeOK, Statuses
<1>2. /\ results # <<>> /\ ~results[Len(results)].passed
      /\ \A i \in Intents : events[i].of < Len(results)
      /\ ex[e].attempt < MaxAttempts
  BY <1>1 DEF Stands, GateStands
<1>3. /\ Len(results) \in DOMAIN results /\ Len(results) \in Nat
      /\ Len(events) \in Nat /\ DOMAIN events = 1..Len(events)
  BY <1>1, <1>2, TypeFacts
<1> DEFINE k == Len(events) + 1
<1>4. /\ events' \in Seq(EventT) /\ \A i \in DOMAIN events' : Refers(i)'
      /\ DOMAIN events' = 1..k /\ events'[k] = Event("intent", Len(results))
      /\ \A i \in DOMAIN events : i \in DOMAIN events' /\ events'[i] = events[i]
  <2> DEFINE of == Len(results)
  <2>1. of \in DOMAIN results /\ events' = Append(events, Event("intent", of))
    BY <1>3 DEF IntendRepair
  <2>2. "intent" \in EventTypes /\ UNCHANGED leases /\ DOMAIN results' = DOMAIN results
    BY <1>1 DEF EventTypes
  <2> HIDE DEF of
  <2>3. IF "intent" \in {"intent", "failed"} THEN of \in DOMAIN results ELSE of \in DOMAIN leases
    BY <2>1
  <2>4. /\ events' \in Seq(EventT) /\ \A i \in DOMAIN events' : Refers(i)'
        /\ DOMAIN events' = 1..Len(events) + 1
        /\ events'[Len(events) + 1] = Event("intent", of)
        /\ \A i \in DOMAIN events : i \in DOMAIN events' /\ events'[i] = events[i]
    BY <1>1, <2>1, <2>2, <2>3, TypeEvents
  <2> QED BY <2>4 DEF of
<1>5. /\ events'[k].type = "intent" /\ events'[k].of = Len(results)
      /\ \A i \in DOMAIN events' : i \in DOMAIN events \/ i = k
      /\ \A i \in DOMAIN events : i < k
      /\ k \in DOMAIN events' /\ k \notin DOMAIN events
  BY <1>3, <1>4 DEF Event
<1> HIDE DEF k
<1>6. Intents' = Intents \cup {k} /\ CreatedAt(Source)' = CreatedAt(Source)
  <2>1. Intents' = Intents \cup {k}
    BY <1>4, <1>5 DEF Intents
  <2>2. CreatedAt(Source)' = CreatedAt(Source)
    <3>1. DOMAIN events' = DOMAIN events \cup {k} /\ leases' = leases
      BY <1>1, <1>4, <1>5
    <3> QED BY <1>4, <1>5, <3>1 DEF CreatedAt, Source
  <2> QED BY <2>1, <2>2
<1>7. /\ \A i \in Intents : i \in DOMAIN events /\ i \in Nat /\ events'[i].of = events[i].of
      /\ \A i \in Intents : events[i].of \in DOMAIN results /\ events[i].of \in Nat
      /\ \A i \in CreatedAt(Source) : i \in DOMAIN events
      /\ \A l \in RepairLeases : leases[l].node \in DOMAIN results /\ leases[l].node \in Nat
  BY <1>1, <1>4, IntentFact, CreatedFact, NodeFact DEF RepairLeases
<1>8. Newest' = Newest /\ RepairLeases' = RepairLeases /\ Open(Source)' = Open(Source)
  BY <1>1 DEF Newest, RepairLeases, Open, Source
<1>9. \A l \in RepairLeases : leases[l].node < Len(results)
  BY <1>1, <1>2 DEF Records
<1>10. Records'
  <2>1. \A i \in Intents' : ~results'[events'[i].of].passed
    BY <1>1, <1>2, <1>5, <1>6, <1>7 DEF Records
  <2>2. \A i, j \in Intents' : i < j => events'[i].of < events'[j].of
    <3> SUFFICES ASSUME NEW i \in Intents', NEW j \in Intents', i < j
                 PROVE  events'[i].of < events'[j].of
      OBVIOUS
    <3>1. i # k
      <4>1. k \in Nat /\ j \in Nat /\ (j \in DOMAIN events => j < k)
        BY <1>3, <1>5, <1>6, <1>7 DEF k
      <4> QED BY <1>6, <1>7, <4>1
    <3>2. i \in Intents
      BY <1>6, <3>1
    <3>3. CASE j = k
      BY <1>2, <1>5, <1>7, <3>2, <3>3
    <3>4. CASE j \in Intents
      BY <1>1, <1>7, <3>2, <3>4 DEF Records
    <3> QED BY <1>6, <3>3, <3>4
  <2>3. /\ \A l \in RepairLeases' :
           /\ results'[leases'[l].node].repair # "absent"
           /\ \E i \in Intents' : events'[i].of = leases'[l].node
        /\ \A j, l \in RepairLeases' : j < l => leases'[j].node < leases'[l].node
    BY <1>1, <1>6, <1>7, <1>8 DEF Records
  <2>4. /\ \A n \in DOMAIN results' :
           results'[n].repair = "passed" => \E l \in DOMAIN leases' : leases'[l].node = n
        /\ Open(Source)' \subseteq {Newest'} /\ (results' # <<>> => leases' # <<>>)
    BY <1>1, <1>8 DEF Records
  <2>5. Newest' \in RepairLeases' =>
           \A j \in Intents' :
               /\ events'[j].of = leases'[Newest'].node => \A i \in CreatedAt(Source)' : i < j
               /\ events'[j].of > leases'[Newest'].node => events'[j].of = Len(results')
    <3> SUFFICES ASSUME Newest \in RepairLeases, NEW j \in Intents'
                 PROVE  /\ events'[j].of = leases[Newest].node => \A i \in CreatedAt(Source) : i < j
                        /\ events'[j].of > leases[Newest].node => events'[j].of = Len(results)
      BY <1>1, <1>6, <1>8
    <3>1. CASE j = k
      BY <1>5, <1>7, <3>1
    <3>2. CASE j \in Intents
      BY <1>1, <1>7, <3>2 DEF Records
    <3> QED BY <1>6, <3>1, <3>2
  <2> QED BY <2>1, <2>2, <2>3, <2>4, <2>5 DEF Records
<1>11. PICK x \in ExT : ex' = [ex EXCEPT ![e] = x] /\ x.pc = "revise" /\ x.alias = ex[e].alias
  <2> DEFINE m == ex[e].attempt + 1
  <2>1. m \in 0..MaxAttempts
    <3>1. ex[e].attempt \in 0..MaxAttempts /\ MaxAttempts \in Nat
      BY <1>1, BoundsAssumption DEF ExT
    <3> QED BY <1>2, <3>1
  <2> DEFINE y == [ex[e] EXCEPT !.pc = "revise", !.attempt = m]
  <2>2. ex' = [ex EXCEPT ![e] = y]
    BY DEF IntendRepair
  <2> HIDE DEF m
  <2>3. y \in ExT /\ y.pc = "revise" /\ y.alias = ex[e].alias
    BY <1>1, <2>1 DEF ExT, PCs, DurableCalls
  <2> HIDE DEF y
  <2> QED BY <2>2, <2>3
<1>12. Stands(x)'
  <2>1. AliasStands(x)'
    BY <1>1, <1>8, <1>11 DEF Stands, AliasStands, AliasPlaces, For, Finalizing, LeaseCalls
  <2>2. Intended'
    BY <1>1, <1>2, <1>5, <1>6, <1>7, <1>8, <1>9 DEF Intended
  <2>3. /\ GateStands(x)' /\ LeaseStands(x)' /\ RepairStands(x)' /\ FinalStands(x)'
    BY <1>11, <2>2
    DEF GateStands, LeaseStands, RepairStands, FinalStands, For, Finalizing, LeaseCalls
  <2> QED BY <2>1, <2>3 DEF Stands
<1>13. /\ results' \in Seq(ResultT') /\ leases' \in Seq(LeaseT') /\ x \in ExT'
       /\ Len(results) <= Len(results') /\ Len(leases) <= Len(leases') /\ x.pc # "idle"
       /\ UNCHANGED owner /\ UNCHANGED <<mayChange, overlap, branch, changes>>
  <2>1. ResultT' = ResultT /\ LeaseT' = LeaseT /\ ExT' = ExT
    BY <1>1 DEF ResultT, LeaseT, ExT
  <2> HIDE DEF ResultT, LeaseT, ExT
  <2> QED BY <1>1, <1>11, <2>1, TypeFacts
<1> QED BY <1>1, <1>4, <1>10, <1>11, <1>12, <1>13, OwnerWrites

\* The row of a repair is written.
LEMMA RepairRow ==
  ASSUME TypeOK, NEW n \in DOMAIN results, NEW s \in RepairStatuses \ {"absent"},
         results' = [results EXCEPT ![n].repair = s], UNCHANGED <<leases, changes>>,
         s = "passed" => \E l \in DOMAIN leases : leases[l].node = n
  PROVE  /\ results' \in Seq(ResultT') /\ leases' \in Seq(LeaseT')
         /\ Len(results') = Len(results) /\ Len(leases') = Len(leases) /\ ExT' = ExT
         /\ SameResults /\ SameLeases
         /\ results'[n].repair = s
<1>1. /\ results' \in Seq(ResultT') /\ Len(results') = Len(results)
      /\ DOMAIN results' = DOMAIN results
      /\ \A k \in DOMAIN results : /\ results'[k].passed = results[k].passed
                                   /\ results'[k].repair = IF k = n THEN s ELSE results[k].repair
      /\ leases' \in Seq(LeaseT')
  BY TypeResult
<1>2. SameLeases
  BY DEF SameLeases
<1>3. SameResults
  BY <1>1 DEF SameResults
<1> QED BY <1>1, <1>2, <1>3, ExSame

\* The owner writes, and the records tell what they told.
LEMMA OwnerKeepsSame ==
  ASSUME Known, NEW e \in Executors, owner = e, UNCHANGED owner, Same,
         NEW x \in ExT, ex' = [ex EXCEPT ![e] = x], x.pc # "idle", Stands(x)',
         node' \in Statuses \ {"passed"}, agent' \in RoleRuns,
         UNCHANGED <<mayChange, overlap, branch, changes>>,
         results' \in Seq(ResultT'), leases' \in Seq(LeaseT'),
         events' \in Seq(EventT), \A i \in DOMAIN events' : Refers(i)'
  PROVE  Known'
<1>1. Records' /\ Len(results') = Len(results) /\ Len(leases') = Len(leases)
  BY SameRecords DEF Known, Same, SameResults, SameLeases
<1>2. Len(results) <= Len(results') /\ Len(leases) <= Len(leases') /\ x \in ExT'
  BY <1>1, ExSame, TypeFacts DEF Known
<1> QED BY <1>1, <1>2, OwnerWrites

\* The events are as they were.
LEMMA EventsSame ==
  ASSUME TypeOK, UNCHANGED events, SameResults, SameLeases
  PROVE  /\ events' \in Seq(EventT) /\ \A i \in DOMAIN events' : Refers(i)'
         /\ Same
<1>1. events' \in Seq(EventT) /\ \A i \in DOMAIN events' : Refers(i)'
  BY TypeFacts DEF Refers, SameResults, SameLeases
<1>2. CreatedAt(Source)' = CreatedAt(Source)
  <2>1. \A i \in DOMAIN events : events[i].type = "created" => events[i].of \in DOMAIN leases
    BY TypeFacts DEF Refers
  <2> QED BY <2>1 DEF CreatedAt, SameLeases, Source
<1>3. Same
  BY <1>2 DEF Same, SameIntents, Intents
<1> QED BY <1>1, <1>3

LEMMA CreateRepairKeepsK == ASSUME Known, NEW e \in Executors, CreateRepair(e) PROVE Known'
<1>1. /\ owner = e /\ Stands(ex[e]) /\ ex[e] \in ExT /\ ex[e].pc = "create-repair"
      /\ UNCHANGED <<owner, node, agent, events, leases, mayChange, overlap, branch, changes>>
      /\ agent' \in RoleRuns /\ node' \in Statuses \ {"passed"} /\ TypeOK /\ Records
  BY OwnerFact DEF CreateRepair, fixed, git, Known, TypeOK, Statuses
<1>2. Intended /\ NothingOpen /\ ex[e].alias = 0
  BY <1>1 DEF Stands, RepairStands, AliasStands, AliasPlaces, For, Finalizing, LeaseCalls
<1>3. PICK n \in DOMAIN results : n = Len(results) /\ n # Source
  BY <1>1, <1>2, TypeFacts DEF Intended
<1>4. /\ results' \in Seq(ResultT') /\ leases' \in Seq(LeaseT')
      /\ Len(results') = Len(results) /\ Len(leases') = Len(leases) /\ ExT' = ExT
      /\ SameResults /\ SameLeases
      /\ results'[n].repair = "running"
  <2>1. "running" \in RepairStatuses \ {"absent"} /\ results' = [results EXCEPT ![n].repair = "running"]
    BY <1>3 DEF CreateRepair, RepairStatuses
  <2> QED BY <1>1, <2>1, RepairRow
<1>5. /\ events' \in Seq(EventT) /\ \A i \in DOMAIN events' : Refers(i)'
      /\ Same
  BY <1>1, <1>4, EventsSame
<1>6. PICK x \in ExT : /\ ex' = [ex EXCEPT ![e] = x]
                       /\ x.pc = "lease" /\ x.of = n /\ x.alias = 0
  <2> DEFINE y == [ex[e] EXCEPT !.pc = "lease", !.of = n]
  <2>1. ex' = [ex EXCEPT ![e] = y]
    BY <1>3 DEF CreateRepair
  <2>2. n \in 0..Len(results)
    BY <1>1, TypeFacts
  <2>3. y \in ExT /\ y.pc = "lease" /\ y.of = n /\ y.alias = 0
    BY <1>1, <1>2, <2>2 DEF ExT, PCs, DurableCalls
  <2> HIDE DEF y
  <2> QED BY <2>1, <2>3
<1>7. Stands(x)'
  <2>1. Intended' /\ NothingOpen'
    BY <1>1, <1>2, <1>5, SameFacts
  <2>2. LeaseStands(x)'
    BY <1>3, <1>4, <1>6, <2>1 DEF LeaseStands
  <2>3. AliasStands(x)' /\ GateStands(x)' /\ RepairStands(x)' /\ FinalStands(x)'
    BY <1>6
    DEF AliasStands, GateStands, RepairStands, FinalStands, For, Finalizing, LeaseCalls
  <2> QED BY <2>2, <2>3 DEF Stands
<1>8. x.pc # "idle" /\ UNCHANGED owner /\ UNCHANGED <<mayChange, overlap, branch, changes>>
  BY <1>1, <1>6
<1> QED BY <1>1, <1>4, <1>5, <1>6, <1>7, <1>8, OwnerKeepsSame

LEMMA RepairSucceedsKeepsK == ASSUME Known, NEW e \in Executors, RepairSucceeds(e) PROVE Known'
<1>1. /\ owner = e /\ Stands(ex[e]) /\ ex[e] \in ExT /\ ex[e].pc = "repair"
      /\ UNCHANGED <<owner, node, agent, events, leases, mayChange, overlap, branch, changes>>
      /\ agent' \in RoleRuns /\ node' \in Statuses \ {"passed"} /\ TypeOK /\ Records
  BY OwnerFact DEF RepairSucceeds, fixed, git, Known, TypeOK, Statuses
<1>2. /\ ex[e].lease \in DOMAIN leases /\ ex[e].lease = Newest
      /\ leases[ex[e].lease].node = ex[e].of
      /\ ex[e].of # Source /\ ex[e].of = Len(results)
  BY <1>1 DEF Stands, LeaseStands
<1>3. PICK n \in DOMAIN results : n = ex[e].of
  BY <1>1, <1>2, NodeFact
<1>4. /\ results' \in Seq(ResultT') /\ leases' \in Seq(LeaseT')
      /\ Len(results') = Len(results) /\ Len(leases') = Len(leases) /\ ExT' = ExT
      /\ SameResults /\ SameLeases
  <2>1. "passed" \in RepairStatuses \ {"absent"} /\ results' = [results EXCEPT ![n].repair = "passed"]
    BY <1>3 DEF RepairSucceeds, RepairStatuses
  <2>2. \E l \in DOMAIN leases : leases[l].node = n
    BY <1>2, <1>3
  <2> QED BY <1>1, <2>1, <2>2, RepairRow
<1>5. /\ events' \in Seq(EventT) /\ \A i \in DOMAIN events' : Refers(i)'
      /\ Same
  BY <1>1, <1>4, EventsSame
<1>6. PICK x \in ExT : /\ ex' = [ex EXCEPT ![e] = x]
                       /\ x.pc = "repaired" /\ x.alias = ex[e].lease
  <2> DEFINE y == [ex[e] EXCEPT !.pc = "repaired", !.alias = ex[e].lease]
  <2>1. ex' = [ex EXCEPT ![e] = y]
    BY DEF RepairSucceeds
  <2>2. y \in ExT /\ y.pc = "repaired" /\ y.alias = ex[e].lease
    BY <1>1 DEF ExT, PCs, DurableCalls
  <2> HIDE DEF y
  <2> QED BY <2>1, <2>2
<1>7. Stands(x)'
  <2>1. Newest' = Newest /\ RepairLeases' = RepairLeases
    BY <1>1, <1>5, SameFacts
  <2>2. Newest \in RepairLeases
    BY <1>2 DEF RepairLeases
  <2>3. AliasStands(x)'
    BY <1>1, <1>2, <1>4, <1>6, <2>1, <2>2 DEF AliasStands, AliasPlaces
  <2>4. LeaseStands(x)' /\ GateStands(x)' /\ RepairStands(x)' /\ FinalStands(x)'
    BY <1>6
    DEF LeaseStands, GateStands, RepairStands, FinalStands, For, Finalizing, LeaseCalls
  <2> QED BY <2>3, <2>4 DEF Stands
<1>8. x.pc # "idle" /\ UNCHANGED owner /\ UNCHANGED <<mayChange, overlap, branch, changes>>
  BY <1>1, <1>6
<1> QED BY <1>1, <1>4, <1>5, <1>6, <1>7, <1>8, OwnerKeepsSame

LEMMA RecordFailureKeepsK == ASSUME Known, NEW e \in Executors, RecordFailure(e) PROVE Known'
<1>1. /\ owner = e /\ Stands(ex[e]) /\ ex[e] \in ExT /\ ex[e].pc = "repair-failed"
      /\ UNCHANGED <<owner, node, agent, leases, mayChange, overlap, branch, changes>>
      /\ agent' \in RoleRuns /\ node' \in Statuses \ {"passed"} /\ TypeOK /\ Records
  BY OwnerFact DEF RecordFailure, fixed, git, Known, TypeOK, Statuses
<1>2. NothingOpen /\ ex[e].of \in DOMAIN results /\ ex[e].alias = 0
  BY <1>1 DEF Stands, RepairStands, AliasStands, AliasPlaces, For, Finalizing, LeaseCalls
<1>3. PICK n \in DOMAIN results : n = ex[e].of
  BY <1>2
<1>4. /\ results' \in Seq(ResultT') /\ leases' \in Seq(LeaseT')
      /\ Len(results') = Len(results) /\ Len(leases') = Len(leases) /\ ExT' = ExT
      /\ SameResults /\ SameLeases
  <2>1. /\ "interrupted" \in RepairStatuses \ {"absent"}
        /\ results' = [results EXCEPT ![n].repair = "interrupted"]
    BY <1>3 DEF RecordFailure, RepairStatuses
  <2> QED BY <1>1, <2>1, RepairRow
<1>5. /\ events' \in Seq(EventT) /\ \A i \in DOMAIN events' : Refers(i)'
      /\ Same
  <2>1. /\ "failed" \in EventTypes /\ events' = Append(events, Event("failed", n))
        /\ UNCHANGED leases /\ DOMAIN results' = DOMAIN results
    BY <1>1, <1>3, <1>4 DEF RecordFailure, EventTypes, SameResults
  <2>2. IF "failed" \in {"intent", "failed"} THEN n \in DOMAIN results ELSE n \in DOMAIN leases
    OBVIOUS
  <2>3. events' \in Seq(EventT) /\ \A i \in DOMAIN events' : Refers(i)'
    BY <1>1, <2>1, <2>2, TypeEvents
  <2>4. SameIntents
    BY <1>1, <2>1, SameEvents
  <2> QED BY <1>4, <2>3, <2>4 DEF Same
<1>6. PICK x \in ExT : /\ ex' = [ex EXCEPT ![e] = x]
                       /\ x.pc \in {"lease", "exhausted"} /\ x.of = Source /\ x.alias = 0
  <2>1. PICK pc \in {"lease", "exhausted"} : ex' = [ex EXCEPT ![e].of = Source, ![e].pc = pc]
    BY DEF RecordFailure
  <2> DEFINE y == [ex[e] EXCEPT !.of = Source, !.pc = pc]
  <2>2. ex' = [ex EXCEPT ![e] = y]
    BY <2>1
  <2>3. Source \in 0..Len(results) /\ pc \in PCs
    BY <1>1, TypeFacts DEF PCs, DurableCalls
  <2>4. y \in ExT /\ y.pc = pc /\ y.of = Source /\ y.alias = 0
    BY <1>1, <1>2, <2>3 DEF ExT
  <2> HIDE DEF y
  <2> QED BY <2>1, <2>2, <2>4
<1>7. Stands(x)'
  <2>1. NothingOpen'
    BY <1>1, <1>2, <1>5, SameFacts
  <2>2. LeaseStands(x)'
    BY <1>6, <2>1 DEF LeaseStands
  <2>3. AliasStands(x)' /\ GateStands(x)' /\ RepairStands(x)' /\ FinalStands(x)'
    BY <1>6
    DEF AliasStands, GateStands, RepairStands, FinalStands, For, Finalizing, LeaseCalls
  <2> QED BY <2>2, <2>3 DEF Stands
<1>8. x.pc # "idle" /\ UNCHANGED owner /\ UNCHANGED <<mayChange, overlap, branch, changes>>
  BY <1>1, <1>6
<1> QED BY <1>1, <1>4, <1>5, <1>6, <1>7, <1>8, OwnerKeepsSame

LEMMA CreateLeaseKeepsK == ASSUME Known, Inv, NEW e \in Executors, CreateLease(e) PROVE Known'
<1>1. /\ owner = e /\ Stands(ex[e]) /\ ex[e] \in ExT /\ ex[e].pc = "lease"
      /\ UNCHANGED <<owner, node, agent, results, events, mayChange, overlap, branch, changes>>
      /\ agent' \in RoleRuns /\ node' \in Statuses \ {"passed"} /\ TypeOK /\ Records
  BY OwnerFact DEF CreateLease, fixed, durable, Known, TypeOK, Statuses
<1>2. /\ NothingOpen /\ ex[e].alias = 0
      /\ ex[e].of # Source =>
            Intended /\ ex[e].of = Len(results) /\ results[ex[e].of].repair # "absent"
  BY <1>1 DEF Stands, LeaseStands, AliasStands, AliasPlaces, For, Finalizing, LeaseCalls
<1>3. PICK m \in Nat : m = Len(leases) + 1
  BY <1>1, TypeFacts
<1>4. PICK q \in LeaseT : q.node = ex[e].of /\ ~q.released /\ leases' = Append(leases, q)
  <2> DEFINE y == [node |-> ex[e].of, base |-> branch, head |-> branch,
                   edits |-> {}, tree |-> TRUE, released |-> FALSE]
  <2>1. y \in LeaseT /\ y.node = ex[e].of /\ ~y.released
    <3>1. ex[e].of \in 0..Len(results) /\ branch \in SUBSET (1..changes)
      BY <1>1 DEF ExT, TypeOK
    <3> QED BY <3>1 DEF LeaseT
  <2>2. leases' = Append(leases, y)
    BY DEF CreateLease
  <2> HIDE DEF y
  <2> QED BY <2>1, <2>2
<1>5. /\ leases' \in Seq(LeaseT) /\ Len(leases') = m
      /\ DOMAIN leases = 1..Len(leases) /\ Len(leases) \in Nat
      /\ DOMAIN leases' = 1..m /\ leases'[m] = q
      /\ \A k \in DOMAIN leases : k \in DOMAIN leases' /\ leases'[k] = leases[k]
  <2> HIDE DEF LeaseT
  <2>1. leases \in Seq(LeaseT) /\ Len(leases) \in Nat /\ DOMAIN leases = 1..Len(leases)
    BY <1>1, TypeFacts
  <2> QED BY <1>3, <1>4, <2>1
<1>6. /\ m \in DOMAIN leases' /\ m \notin DOMAIN leases
      /\ DOMAIN leases' = DOMAIN leases \cup {m}
      /\ \A k \in DOMAIN leases : k < m
  BY <1>3, <1>5
<1>7. /\ Newest' = m
      /\ Open(Source)' \subseteq {m}
      /\ RepairLeases' = RepairLeases \cup (IF ex[e].of = Source THEN {} ELSE {m})
  <2>1. Newest' = m
    BY <1>5 DEF Newest
  <2>2. Open(Source)' \subseteq {m}
    BY <1>2, <1>5, <1>6 DEF NothingOpen, Open
  <2>3. RepairLeases' = RepairLeases \cup (IF ex[e].of = Source THEN {} ELSE {m})
    BY <1>4, <1>5, <1>6 DEF RepairLeases
  <2> QED BY <2>1, <2>2, <2>3
<1>8. Intents' = Intents /\ CreatedAt(Source)' = CreatedAt(Source)
  <2>1. \A i \in DOMAIN events : events[i].type = "created" => events[i].of \in DOMAIN leases
    BY <1>1, TypeFacts DEF Refers
  <2> QED BY <1>1, <1>5, <2>1 DEF Intents, CreatedAt, Source
<1>9. /\ \A i \in Intents : events[i].of \in DOMAIN results /\ events[i].of \in Nat
                            /\ i \in Nat /\ events[i].of <= Len(results)
      /\ \A l \in RepairLeases : l \in DOMAIN leases /\ leases[l].node \in DOMAIN results
      /\ Len(results) \in Nat
  <2>1. DOMAIN results = 1..Len(results) /\ Len(results) \in Nat
    BY <1>1, TypeFacts
  <2>2. /\ \A i \in Intents : events[i].of \in DOMAIN results /\ events[i].of \in Nat /\ i \in Nat
        /\ \A l \in RepairLeases : l \in DOMAIN leases /\ leases[l].node \in DOMAIN results
    BY <1>1, IntentFact, NodeFact DEF RepairLeases
  <2> QED BY <2>1, <2>2
<1>10. Records'
  <2>1. /\ \A i \in Intents' : ~results'[events'[i].of].passed
        /\ \A i, j \in Intents' : i < j => events'[i].of < events'[j].of
    BY <1>1, <1>8 DEF Records
  <2>2. ASSUME NEW l \in RepairLeases'
        PROVE  /\ results'[leases'[l].node].repair # "absent"
               /\ \E i \in Intents' : events'[i].of = leases'[l].node
    <3>1. CASE l \in RepairLeases
      BY <1>1, <1>5, <1>8, <1>9, <3>1 DEF Records
    <3>2. CASE l = m /\ ex[e].of # Source
      <4>1. leases'[l].node = Len(results)
        BY <1>2, <1>4, <1>5, <3>2
      <4> QED BY <1>1, <1>2, <1>8, <3>2, <4>1 DEF Intended
    <3> QED BY <1>7, <2>2, <3>1, <3>2
  <2>3. ASSUME NEW k \in RepairLeases', NEW l \in RepairLeases', k < l
        PROVE  leases'[k].node < leases'[l].node
    <3>1. CASE l \in RepairLeases
      <4>1. k \in RepairLeases
        <5>1. k # m
          BY <1>3, <1>5, <1>6, <1>9, <2>3, <3>1
        <5> QED BY <1>7, <2>3, <5>1
      <4> QED BY <1>1, <1>5, <1>9, <2>3, <3>1, <4>1 DEF Records
    <3>2. CASE l = m /\ ex[e].of # Source
      <4>1. k \in RepairLeases
        BY <1>3, <1>7, <2>3, <3>2
      <4> QED BY <1>2, <1>4, <1>5, <1>9, <3>2, <4>1 DEF Intended
    <3> QED BY <1>7, <2>3, <3>1, <3>2
  <2>4. \A n \in DOMAIN results' :
           results'[n].repair = "passed" => \E l \in DOMAIN leases' : leases'[l].node = n
    BY <1>1, <1>5 DEF Records
  <2>5. Open(Source)' \subseteq {Newest'} /\ (results' # <<>> => leases' # <<>>)
    BY <1>6, <1>7
  <2>6. Newest' \in RepairLeases' =>
           \A j \in Intents' :
               /\ events'[j].of = leases'[Newest'].node => \A i \in CreatedAt(Source)' : i < j
               /\ events'[j].of > leases'[Newest'].node => events'[j].of = Len(results')
    <3> SUFFICES ASSUME Newest' \in RepairLeases', NEW j \in Intents
                 PROVE  /\ events[j].of = leases'[m].node => \A i \in CreatedAt(Source) : i < j
                        /\ events[j].of > leases'[m].node => events[j].of = Len(results)
      BY <1>1, <1>7, <1>8
    <3>1. ex[e].of # Source
      BY <1>6, <1>7, <1>9
    <3>2. leases'[m].node = Len(results)
      BY <1>2, <1>4, <1>5, <3>1
    <3>3. PICK k \in Intents : events[k].of = Len(results) /\ \A i \in CreatedAt(Source) : i < k
      BY <1>2, <3>1 DEF Intended
    <3>4. events[j].of = Len(results) => j = k
      <4>1. j \in Nat /\ k \in Nat /\ (j < k \/ k < j \/ j = k)
        BY <1>9
      <4>2. j < k => events[j].of < events[k].of
        BY <1>1 DEF Records
      <4>3. k < j => events[k].of < events[j].of
        BY <1>1 DEF Records
      <4> QED BY <1>9, <3>3, <4>1, <4>2, <4>3
    <3> QED BY <1>9, <3>2, <3>3, <3>4
  <2> QED BY <2>1, <2>2, <2>3, <2>4, <2>5, <2>6 DEF Records
<1>11. 0..Len(leases) \subseteq 0..Len(leases') /\ ExT \subseteq ExT' /\ m \in 0..Len(leases')
  <2>1. 0..Len(leases) \subseteq 0..Len(leases') /\ m \in 0..Len(leases')
    BY <1>3, <1>5
  <2> QED BY <1>1, <2>1 DEF ExT
<1>12. PICK x \in ExT' : /\ ex' = [ex EXCEPT ![e] = x]
                         /\ x.pc = "record-lease" /\ x.lease = m /\ x.of = ex[e].of /\ x.alias = 0
  <2> DEFINE y == [ex[e] EXCEPT !.pc = "record-lease", !.lease = m]
  <2>1. ex' = [ex EXCEPT ![e] = y]
    BY <1>3 DEF CreateLease
  <2>2. /\ y.pc = "record-lease" /\ y.lease = m /\ y.of = ex[e].of /\ y.alias = 0 /\ y \in ExT'
    <3>1. "record-lease" \in PCs /\ ex[e] \in ExT'
      BY <1>1, <1>11 DEF PCs, DurableCalls
    <3> QED BY <1>2, <1>11, <3>1 DEF ExT
  <2> HIDE DEF y
  <2> QED BY <2>1, <2>2
<1>13. Stands(x)'
  <2>1. LeaseStands(x)'
    <3>1. /\ m \in DOMAIN leases' /\ m = Newest' /\ leases'[m].node = ex[e].of
          /\ ex[e].of # Source => ex[e].of = Len(results')
      BY <1>1, <1>2, <1>4, <1>5, <1>6, <1>7
    <3> QED BY <1>12, <3>1 DEF LeaseStands
  <2>2. AliasStands(x)' /\ GateStands(x)' /\ RepairStands(x)' /\ FinalStands(x)'
    BY <1>12
    DEF AliasStands, GateStands, RepairStands, FinalStands, For, Finalizing, LeaseCalls
  <2> QED BY <2>1, <2>2 DEF Stands
<1>14. /\ results' \in Seq(ResultT') /\ leases' \in Seq(LeaseT') /\ events' \in Seq(EventT)
       /\ \A i \in DOMAIN events' : Refers(i)'
       /\ Len(results) <= Len(results') /\ Len(leases) <= Len(leases')
  <2>1. ResultT' = ResultT /\ LeaseT' = LeaseT
    BY <1>1 DEF ResultT, LeaseT
  <2>2. \A i \in DOMAIN events' : Refers(i)'
    BY <1>1, <1>5, TypeFacts DEF Refers
  <2>3. Len(leases) <= Len(leases')
    BY <1>3, <1>5
  <2> HIDE DEF ResultT, LeaseT
  <2> QED BY <1>1, <1>5, <2>1, <2>2, <2>3, TypeFacts
<1>15. x.pc # "idle" /\ UNCHANGED owner /\ UNCHANGED <<mayChange, overlap, branch, changes>>
  BY <1>1, <1>12
<1> QED BY <1>1, <1>10, <1>12, <1>13, <1>14, <1>15, OwnerWrites

\* The node's own lease is recorded: the newest lease is of no repair.
LEMMA RecordLeaseKeepsK == ASSUME Known, NEW e \in Executors, RecordLease(e) PROVE Known'
<1>1. /\ owner = e /\ Stands(ex[e]) /\ ex[e] \in ExT /\ ex[e].pc = "record-lease"
      /\ UNCHANGED <<owner, node, agent, results, leases, mayChange, overlap, branch, changes>>
      /\ agent' \in RoleRuns /\ node' \in Statuses \ {"passed"} /\ TypeOK /\ Records
  BY OwnerFact DEF RecordLease, fixed, git, Known, TypeOK, Statuses
<1>2. /\ ex[e].lease \in DOMAIN leases /\ ex[e].lease = Newest
      /\ leases[ex[e].lease].node = ex[e].of
      /\ ex[e].of # Source => ex[e].of = Len(results)
      /\ ex[e].alias = 0
  BY <1>1 DEF Stands, LeaseStands, AliasStands, AliasPlaces, For, Finalizing, LeaseCalls
<1>3. PICK l \in DOMAIN leases : l = ex[e].lease /\ l = Newest /\ leases[l].node = ex[e].of
  BY <1>2
<1>4. "created" \in EventTypes /\ events' = Append(events, Event("created", l))
  BY <1>3 DEF RecordLease, EventTypes
<1>5. /\ events' \in Seq(EventT) /\ \A i \in DOMAIN events' : Refers(i)'
      /\ Len(events') = Len(events) + 1 /\ DOMAIN events' = 1..Len(events) + 1
      /\ events'[Len(events) + 1] = Event("created", l)
      /\ Event("created", l).type = "created"
      /\ \A i \in DOMAIN events : i \in DOMAIN events' /\ events'[i] = events[i]
  <2>1. IF "created" \in {"intent", "failed"} THEN l \in DOMAIN results ELSE l \in DOMAIN leases
    OBVIOUS
  <2>2. DOMAIN results' = DOMAIN results /\ UNCHANGED leases
    BY <1>1
  <2> QED BY <1>1, <1>4, <2>1, <2>2, TypeEvents
<1>6. PICK x \in ExT : /\ ex' = [ex EXCEPT ![e] = x] /\ x.alias = 0
                       /\ x.lease = l /\ x.of = ex[e].of
                       /\ \/ x.pc = "repair" /\ ex[e].of # Source
                          \/ x.pc \in {"repaired", "agent"} /\ ex[e].of = Source
  <2>1. PICK pc \in {"repair", "repaired", "agent"} :
           /\ ex' = [ex EXCEPT ![e].wrote = FALSE, ![e].pc = pc]
           /\ pc = "repair" <=> ex[e].of # Source
    BY DEF RecordLease
  <2> DEFINE y == [ex[e] EXCEPT !.wrote = FALSE, !.pc = pc]
  <2>2. ex' = [ex EXCEPT ![e] = y]
    BY <2>1
  <2>3. pc \in PCs
    BY DEF PCs, DurableCalls
  <2>4. y \in ExT /\ y.pc = pc /\ y.alias = 0 /\ y.lease = l /\ y.of = ex[e].of
    BY <1>1, <1>2, <1>3, <2>3 DEF ExT
  <2> HIDE DEF y
  <2> QED BY <2>1, <2>2, <2>4
<1>7. /\ results' \in Seq(ResultT') /\ leases' \in Seq(LeaseT') /\ x \in ExT'
      /\ Len(results) <= Len(results') /\ Len(leases) <= Len(leases') /\ x.pc # "idle"
      /\ UNCHANGED owner /\ UNCHANGED <<mayChange, overlap, branch, changes>>
  <2>1. ResultT' = ResultT /\ LeaseT' = LeaseT /\ ExT' = ExT
    BY <1>1 DEF ResultT, LeaseT, ExT
  <2> HIDE DEF ResultT, LeaseT, ExT
  <2> QED BY <1>1, <1>6, <2>1, TypeFacts
<1>8. Newest' = Newest /\ RepairLeases' = RepairLeases /\ Open(Source)' = Open(Source)
  BY <1>1 DEF Newest, RepairLeases, Open, Source
<1>9. Stands(x)'
  <2>1. LeaseStands(x)'
    BY <1>1, <1>2, <1>3, <1>6, <1>8 DEF LeaseStands
  <2>2. AliasStands(x)' /\ GateStands(x)' /\ RepairStands(x)' /\ FinalStands(x)'
    BY <1>6
    DEF AliasStands, GateStands, RepairStands, FinalStands, For, Finalizing, LeaseCalls
  <2> QED BY <2>1, <2>2 DEF Stands
<1>10. Records'
  <2>1. CASE ex[e].of # Source
    <3>1. "created" = "created" => leases[l].node # Source
      BY <1>3, <2>1
    <3>2. UNCHANGED leases /\ "created" # "intent"
      BY <1>1
    <3>3. SameIntents
      BY <1>1, <1>4, <3>1, <3>2, SameEvents
    <3>4. SameResults /\ SameLeases
      BY <1>1 DEF SameResults, SameLeases
    <3> QED BY <1>1, <3>3, <3>4, SameRecords DEF Same
  <2>2. CASE ex[e].of = Source
    <3>1. Newest \notin RepairLeases
      BY <1>3, <2>2 DEF RepairLeases
    <3>2. Intents' = Intents /\ \A i \in Intents : events'[i] = events[i]
      <4>1. \A i \in DOMAIN events' : i \in DOMAIN events \/ i = Len(events) + 1
        BY <1>1, <1>5, TypeFacts
      <4>2. events'[Len(events) + 1].type # "intent"
        BY <1>5
      <4> QED BY <1>5, <4>1, <4>2 DEF Intents
    <3> QED BY <1>1, <1>8, <3>1, <3>2 DEF Records
  <2> QED BY <2>1, <2>2
<1> QED BY <1>1, <1>5, <1>6, <1>7, <1>9, <1>10, OwnerWrites

-----------------------------------------------------------------------------
(* Finalization.                                                           *)

LEMMA SameLast ==
  ASSUME TypeOK, SameResults, results # <<>>
  PROVE  results' # <<>> /\ results'[Len(results')].passed = results[Len(results)].passed
<1>1. Len(results) \in DOMAIN results /\ Len(results) \in Nat /\ Len(results) # 0
  BY TypeFacts
<1> QED BY <1>1 DEF SameResults

\* A finalization goes on with its lease.
LEMMA CallStands ==
  ASSUME TypeOK, Same, UNCHANGED node, NEW y \in ExT, Stands(y), Finalizing(y),
         y.pc # "record-release", NEW x \in ExT, x.pc \in LeaseCalls,
         x.back = y.back, x.of = y.of, x.alias = y.alias, x.lease \in DOMAIN leases,
         x.back \in {"repair", "final"} => Decides(x.lease),
         x.alias # 0 => x.lease = x.alias
  PROVE  Stands(x)'
<1>1. /\ Newest' = Newest /\ RepairLeases' = RepairLeases
      /\ NothingOpen => NothingOpen'
      /\ Intended => Intended'
      /\ \A l \in DOMAIN leases : Decides(l) => Decides(l)'
      /\ DOMAIN leases' = DOMAIN leases /\ DOMAIN results' = DOMAIN results
  BY SameFacts DEF Same, SameLeases, SameResults
<1>2. AliasStands(x)'
  BY <1>1 DEF Stands, AliasStands, AliasPlaces, For, Finalizing, LeaseCalls
<1>3. LeaseStands(x)'
  BY DEF LeaseStands, LeaseCalls
<1>4. GateStands(x)'
  <2>1. x.back = "final" => node = "awaiting-gate" /\ results # <<>> /\ results[Len(results)].passed
    BY DEF Stands, GateStands, For
  <2>2. x.pc \notin {"gate", "recheck", "intent", "final"}
    BY DEF LeaseCalls
  <2> QED BY <2>1, <2>2, SameLast DEF GateStands, For, Same
<1>5. RepairStands(x)'
  <2>1. /\ x.back = "repair" => Intended /\ node = "needs-revision"
        /\ x.back = "fallback" => NothingOpen /\ x.of \in DOMAIN results
    BY DEF Stands, RepairStands, For
  <2>2. x.pc \notin {"revise", "create-repair", "repair-failed", "record-release"}
    BY DEF LeaseCalls
  <2> QED BY <1>1, <2>1, <2>2 DEF RepairStands, For
<1>6. FinalStands(x)'
  BY <1>1 DEF FinalStands, LeaseCalls
<1> QED BY <1>2, <1>3, <1>4, <1>5, <1>6 DEF Stands

\* A step that leaves the database alone, but for the leases' worktrees.
LEMMA GitMoves ==
  ASSUME Known, NEW e \in Executors, UNCHANGED <<owner, node, agent, results, events, mayChange, overlap>>,
         SameLeases, leases' \in Seq(LeaseT'), results' \in Seq(ResultT'),
         branch' \subseteq 1..changes', changes' \in 0..MaxChanges,
         NEW x \in ExT, ex' = [ex EXCEPT ![e] = x], x.pc # "idle",
         owner = e => Stands(x)'
  PROVE  Known'
<1>1. TypeOK /\ Same /\ Len(leases') = Len(leases)
  BY SameRows DEF Known, SameLeases
<1>2. TypeOK'
  <2>1. /\ owner' \in Executors \cup {Nobody} /\ overlap' \in BOOLEAN /\ node' \in Statuses
        /\ agent' \in RoleRuns
    BY <1>1 DEF TypeOK
  <2>2. /\ x \in ExT' /\ Len(results) <= Len(results') /\ Len(leases) <= Len(leases')
    BY <1>1, ExSame, TypeFacts
  <2>3. events' \in Seq(EventT) /\ \A i \in DOMAIN events' : Refers(i)'
    BY <1>1, EventsSame DEF Same
  <2> QED BY <1>1, <2>1, <2>2, <2>3, TypeGrows
<1>3. Standing'
  <2>1. node' = "passed" => owner' = Nobody /\ NothingOpen' /\ NewestReleased'
    BY <1>1, SameFacts DEF Known, Standing
  <2>2. UNCHANGED <<node, results, events>>
    OBVIOUS
  <2> QED BY <1>1, <2>1, <2>2, StandingBy DEF Known
<1> QED BY <1>1, <1>2, <1>3, SameRecords DEF Known

\* The finalization fails.
LEMMA ThrowsKeepsK ==
  ASSUME Known, NEW e \in Executors, Throws(e), Finalizing(ex[e]), ex[e].pc # "record-release",
         UNCHANGED <<node, agent, results, events, leases>>,
         UNCHANGED <<mayChange, overlap, branch, changes>>
  PROVE  Known'
<1>1. node' \in Statuses /\ agent' \in RoleRuns
  BY DEF Known, TypeOK
<1>2. CASE Ends(e)
  BY <1>1, <1>2, EndsKeeps
<1>3. CASE Go(e, "give-up") /\ UNCHANGED owner /\ ex[e].back # "agent"
  <2>1. "give-up" \in PCs /\ TypeOK
    BY DEF PCs, DurableCalls, Known
  <2>2. PICK x \in ExT : ex' = [ex EXCEPT ![e] = x] /\ x.pc = "give-up" /\ Like(x, ex[e])
    BY <1>3, <2>1, GoFact
  <2>3. owner = e => Stands(x)'
    <3> HAVE owner = e
    <3>1. Stands(ex[e])
      BY OwnerFact
    <3>2. AliasStands(x)'
      BY <2>2, <3>1, RowsFacts DEF Stands, AliasStands, AliasPlaces, Like
    <3>3. LeaseStands(x)' /\ GateStands(x)' /\ RepairStands(x)' /\ FinalStands(x)'
      BY <2>2
      DEF LeaseStands, GateStands, RepairStands, FinalStands, For, Finalizing, LeaseCalls
    <3> QED BY <3>2, <3>3 DEF Stands
  <2>4. UNCHANGED <<owner, node, agent, results, events, leases>> /\ x.pc # "idle"
    BY <1>3, <2>2
  <2> QED BY <2>2, <2>3, <2>4, AnyMoves
<1> QED BY <1>2, <1>3 DEF Throws

LEMMA FoundFact ==
  ASSUME TypeOK, NEW e \in Executors, NEW l \in Found(e)
  PROVE  l \in DOMAIN leases
<1>1. ex[e] \in ExT /\ DOMAIN leases = 1..Len(leases) /\ Len(leases) \in Nat
  BY TypeFacts
<1>2. ex[e].alias \in 0..Len(leases)
  BY <1>1 DEF ExT
<1> QED BY <1>1, <1>2 DEF Found, Active, Open

\* With nothing left to finalize, an execution whose gate passed has finalized it.
LEMMA NothingFact ==
  ASSUME Known, NEW e \in Executors, owner = e, ex[e].pc = "commit", ex[e].back = "final",
         Unambiguous(e), Found(e) = {}
  PROVE  NothingOpen /\ NewestReleased
<1>1. Stands(ex[e]) /\ ex[e] \in ExT /\ TypeOK /\ Records
  BY OwnerFact DEF Known
<1>2. node = "awaiting-gate" /\ results # <<>> /\ results[Len(results)].passed
  BY <1>1 DEF Stands, GateStands, For, Finalizing
<1>3. ex[e].alias = 0 /\ Open(ExecutionNode) = {} /\ Identified
  BY DEF Found, Finalized, Active, Unambiguous, CanLookUp
<1>4. leases # <<>> /\ Newest \in DOMAIN leases
  <2>1. leases # <<>>
    BY <1>1, <1>2 DEF Records
  <2> QED BY <1>1, <2>1, TypeFacts DEF Newest
<1>5. NothingOpen => Newest \in RepairLeases \/ NewestReleased
  BY <1>4 DEF NothingOpen, Open, RepairLeases, NewestReleased
<1>6. Intents \subseteq DOMAIN events /\ CreatedAt(Source) \subseteq DOMAIN events
  BY DEF Intents, CreatedAt
<1>7. ASSUME NothingOpen, Newest \in RepairLeases
      PROVE  /\ IntentCounts
             /\ events[Latest(Intents)].of \in DOMAIN results
             /\ events[Latest(Intents)].of >= leases[Newest].node
             /\ leases[Newest].node \in DOMAIN results
             /\ results[leases[Newest].node].repair # "absent"
             /\ \/ events[Latest(Intents)].of = leases[Newest].node
                \/ events[Latest(Intents)].of = Len(results)
             /\ ~results[events[Latest(Intents)].of].passed
  <2>1. PICK j \in Intents : events[j].of = leases[Newest].node
    BY <1>1, <1>7 DEF Records
  <2>2. \A i \in CreatedAt(Source) : i < j
    BY <1>1, <1>7, <2>1 DEF Records
  <2> DEFINE i == Latest(Intents)
  <2>3. i \in Intents /\ j <= i
    BY <1>1, <1>6, LatestIn
  <2> HIDE DEF i
  <2>4. i \in Nat /\ j \in Nat /\ events[i].of \in Nat /\ events[j].of \in Nat /\ events[i].of \in DOMAIN results
        /\ events[j].of \in DOMAIN results /\ j \in DOMAIN events
    BY <1>1, <2>3, IntentFact
  <2>5. Latest(CreatedAt(Source)) < i
    <3>1. CASE CreatedAt(Source) = {}
      <4>1. 0 < j
        BY <1>1, <2>4, TypeFacts
      <4> QED BY <2>3, <2>4, <3>1, <4>1, LatestNone
    <3>2. CASE CreatedAt(Source) # {}
      <4>1. Latest(CreatedAt(Source)) \in CreatedAt(Source)
        BY <1>1, <1>6, <3>2, LatestIn
      <4>2. Latest(CreatedAt(Source)) < j /\ Latest(CreatedAt(Source)) \in Nat
        BY <1>1, <1>6, <2>2, <4>1, LatestNat
      <4> QED BY <2>3, <2>4, <4>2
    <3> QED BY <3>1, <3>2
  <2>6. IntentCounts
    <3>1. Latest(CreatedAt(Source)) \in Nat
      BY <1>1, <1>6, LatestNat
    <3> QED BY <1>2, <1>7, <2>4, <2>5, <3>1 DEF IntentCounts, NothingOpen, i
  <2>7. events[i].of >= events[j].of
    <3>1. j < i => events[j].of < events[i].of
      BY <1>1, <2>3 DEF Records
    <3> QED BY <2>3, <2>4, <3>1
  <2>8. events[i].of = events[j].of \/ events[i].of = Len(results)
    <3>1. events[i].of > events[j].of => events[i].of = Len(results)
      BY <1>1, <1>7, <2>1, <2>3 DEF Records
    <3> QED BY <2>4, <2>7, <3>1
  <2>9. results[leases[Newest].node].repair # "absent" /\ ~results[events[i].of].passed
    BY <1>1, <1>7, <2>3 DEF Records
  <2> QED BY <2>1, <2>4, <2>6, <2>7, <2>8, <2>9 DEF i
<1>8. CASE ExecutionNode = Source
  <2>1. NothingOpen
    BY <1>3, <1>8 DEF NothingOpen
  <2>2. Newest \notin RepairLeases
    <3> SUFFICES ASSUME Newest \in RepairLeases PROVE FALSE
      OBVIOUS
    <3>1. IntendedRepair # Source
      BY <1>1, <1>7, <2>1, TypeFacts DEF IntendedRepair
    <3>2. results[IntendedRepair].repair = "absent"
      BY <1>7, <1>8, <2>1, <3>1 DEF ExecutionNode
    <3> QED BY <1>2, <1>7, <2>1, <3>2 DEF IntendedRepair
  <2> QED BY <1>5, <2>1, <2>2
<1>9. CASE ExecutionNode # Source
  <2>1. IntentCounts /\ ExecutionNode = IntendedRepair /\ results[IntendedRepair].repair = "passed"
    BY <1>3, <1>9 DEF ExecutionNode, Identified
  <2>2. NothingOpen
    BY <2>1 DEF IntentCounts, NothingOpen
  <2>3. Newest \in RepairLeases => NewestReleased
    <3> HAVE Newest \in RepairLeases
    <3> DEFINE n == events[Latest(Intents)].of
    <3>1. n \in DOMAIN results /\ n >= leases[Newest].node /\ n \in Nat /\ leases[Newest].node \in Nat
          /\ Newest \in Nat
      BY <1>1, <1>7, <2>2, TypeFacts DEF Newest
    <3>2. ExecutionNode = n /\ results[n].repair = "passed"
      BY <2>1 DEF IntendedRepair
    <3> HIDE DEF n
    <3>3. PICK l \in DOMAIN leases : leases[l].node = n
      BY <1>1, <3>1, <3>2 DEF Records
    <3>4. l \in RepairLeases
      BY <1>9, <3>2, <3>3 DEF RepairLeases
    <3>5. l \in Nat /\ l <= Newest
      BY <1>1, TypeFacts DEF Newest
    <3>6. l < Newest => n < leases[Newest].node
      BY <1>1, <3>3, <3>4 DEF Records
    <3>7. l = Newest
      BY <3>1, <3>5, <3>6
    <3> QED BY <1>3, <1>4, <3>2, <3>3, <3>7 DEF Open, NewestReleased
  <2> QED BY <1>5, <2>2, <2>3
<1> QED BY <1>8, <1>9

\* What the caller is returned to with.
Closes(x) ==
    /\ x.alias = 0
    /\ x.pc = "create-repair" => Intended /\ NothingOpen
    /\ x.pc = "repair-failed" => NothingOpen /\ x.of \in DOMAIN results
    /\ x.pc = "pass" => NothingOpen /\ NewestReleased

LEMMA ReturnStands ==
  ASSUME TypeOK, Same, NEW x \in ExT, x.pc \in {"create-repair", "repair-failed", "pass"}, Closes(x)
  PROVE  Stands(x)'
<1>1. /\ NothingOpen => NothingOpen'
      /\ NewestReleased => NewestReleased'
      /\ Intended => Intended'
      /\ DOMAIN results' = DOMAIN results
  BY SameFacts DEF Same, SameResults
<1>2. AliasStands(x)' /\ LeaseStands(x)' /\ GateStands(x)'
  BY DEF Closes, AliasStands, LeaseStands, GateStands, For, Finalizing, LeaseCalls
<1>3. RepairStands(x)' /\ FinalStands(x)'
  BY <1>1 DEF Closes, RepairStands, FinalStands, For, Finalizing, LeaseCalls
<1> QED BY <1>2, <1>3 DEF Stands

LEMMA ReturnsFact ==
  ASSUME TypeOK, NEW e \in Executors, Returns(e), ex[e].back # "agent"
  PROVE  /\ UNCHANGED owner
         /\ \E x \in ExT : /\ ex' = [ex EXCEPT ![e] = x] /\ Like(x, ex[e])
                           /\ \/ x.pc = "create-repair" /\ ex[e].back = "repair"
                              \/ x.pc = "repair-failed" /\ ex[e].back = "fallback"
                              \/ x.pc = "pass" /\ ex[e].back = "final"
<1>1. ex[e] \in ExT
  BY TypeFacts
<1>2. ex[e].back \in {"repair", "fallback", "final"}
  BY <1>1 DEF ExT, Backs
<1>3. PICK pc \in {"create-repair", "repair-failed", "pass"} :
        /\ Go(e, pc)
        /\ \/ pc = "create-repair" /\ ex[e].back = "repair"
           \/ pc = "repair-failed" /\ ex[e].back = "fallback"
           \/ pc = "pass" /\ ex[e].back = "final"
  BY <1>2 DEF Returns
<1>4. pc \in PCs
  BY DEF PCs, DurableCalls
<1>5. PICK x \in ExT : ex' = [ex EXCEPT ![e] = x] /\ x.pc = pc /\ Like(x, ex[e])
  BY <1>3, <1>4, GoFact
<1> QED BY <1>3, <1>5 DEF Returns

LEMMA CommitKeepsK == ASSUME Known, Inv, NEW e \in Executors, Commit(e) PROVE Known'
<1>1. /\ ex[e].pc = "commit" /\ ex[e] \in ExT /\ TypeOK
      /\ UNCHANGED <<node, agent, results, events, mayChange, overlap, branch, changes>>
      /\ Finalizing(ex[e]) /\ ex[e].pc # "record-release"
  BY TypeFacts DEF Commit, durable, fixed, Known, Finalizing
<1>2. ASSUME UNCHANGED owner, Unambiguous(e), NEW l \in Found(e),
             leases' = [leases EXCEPT ![l].head = @ \cup leases[l].edits, ![l].edits = {}],
             ex' = [ex EXCEPT ![e].pc = "promote", ![e].lease = l]
      PROVE  Known'
  <2>1. l \in DOMAIN leases /\ leases[l] \in LeaseT
    BY <1>1, FoundFact, TypeFacts
  <2>2. PICK q \in LeaseT : /\ leases' = [leases EXCEPT ![l] = q]
                            /\ q.node = leases[l].node /\ q.released = leases[l].released
    <3> DEFINE y == [leases[l] EXCEPT !.head = @ \cup leases[l].edits, !.edits = {}]
    <3>1. leases' = [leases EXCEPT ![l] = y]
      BY <1>2
    <3>2. y \in LeaseT /\ y.node = leases[l].node /\ y.released = leases[l].released
      BY <2>1 DEF LeaseT
    <3> HIDE DEF y
    <3> QED BY <3>1, <3>2
  <2>3. leases' \in Seq(LeaseT') /\ SameLeases /\ results' \in Seq(ResultT')
    <3>1. q \in LeaseT'
      BY <1>1 DEF LeaseT
    <3>2. changes' \in Nat /\ changes <= changes' /\ UNCHANGED <<results, events>>
      BY <1>1, TypeFacts
    <3> QED BY <1>1, <2>2, <3>1, <3>2, TypeLease
  <2>4. PICK x \in ExT : /\ ex' = [ex EXCEPT ![e] = x] /\ x.pc = "promote" /\ x.lease = l
                         /\ x.back = ex[e].back /\ x.of = ex[e].of /\ x.alias = ex[e].alias
    <3> DEFINE y == [ex[e] EXCEPT !.pc = "promote", !.lease = l]
    <3>1. ex' = [ex EXCEPT ![e] = y]
      BY <1>2
    <3>2. l \in 0..Len(leases)
      BY <1>1, <2>1, TypeFacts
    <3>3. /\ y \in ExT /\ y.pc = "promote" /\ y.lease = l
          /\ y.back = ex[e].back /\ y.of = ex[e].of /\ y.alias = ex[e].alias
      BY <1>1, <3>2 DEF ExT, PCs, GitCalls
    <3> HIDE DEF y
    <3> QED BY <3>1, <3>3
  <2>5. owner = e => Stands(x)'
    <3> HAVE owner = e
    <3>1. Stands(ex[e]) /\ Same
      BY <1>1, <2>3, OwnerFact, SameRows
    <3>2. x.back \in {"repair", "final"} => Decides(x.lease)
      <4> HAVE x.back \in {"repair", "final"}
      <4>1. Finalized(e) = Source
        BY <2>4 DEF Finalized
      <4>2. CanLookUp(e) /\ l \in Active(e)
        BY <1>2, <4>1 DEF Unambiguous, Found
      <4> QED BY <2>4, <4>2, ActiveFact
    <3>3. x.alias # 0 => x.lease = x.alias
      <4> HAVE x.alias # 0
      <4>1. ex[e].back \in {"repair", "final"}
        BY <1>1, <2>4, <3>1 DEF Stands, AliasStands, AliasPlaces, For
      <4>2. l \in Active(e)
        BY <4>1, <1>2 DEF Found, Finalized
      <4> QED BY <2>4, <4>2 DEF Active
    <3>4. x.pc \in LeaseCalls /\ x.lease \in DOMAIN leases
      BY <2>1, <2>4 DEF LeaseCalls
    <3> QED BY <1>1, <2>4, <3>1, <3>2, <3>3, <3>4, CallStands
  <2>6. /\ branch' \subseteq 1..changes' /\ changes' \in 0..MaxChanges /\ x.pc # "idle"
        /\ UNCHANGED <<owner, node, agent, results, events, mayChange, overlap>>
    BY <1>1, <1>2, <2>4 DEF TypeOK
  <2> QED BY <2>3, <2>4, <2>5, <2>6, GitMoves
<1>3. CASE Throws(e) /\ UNCHANGED leases
  BY <1>1, <1>3, ThrowsKeepsK
<1>4. CASE Unambiguous(e) /\ Found(e) = {} /\ Returns(e) /\ UNCHANGED leases
  <2>1. CASE ex[e].back = "agent"
    <3>1. Ends(e) /\ node' \in Statuses /\ agent' \in RoleRuns
      BY <1>1, <1>4, <2>1 DEF Returns, TypeOK
    <3> QED BY <1>1, <1>4, <3>1, EndsKeeps
  <2>2. CASE ex[e].back # "agent"
    <3>1. UNCHANGED owner
      BY <1>1, <1>4, <2>2, ReturnsFact
    <3>2. PICK x \in ExT : /\ ex' = [ex EXCEPT ![e] = x] /\ Like(x, ex[e])
                           /\ \/ x.pc = "create-repair" /\ ex[e].back = "repair"
                              \/ x.pc = "repair-failed" /\ ex[e].back = "fallback"
                              \/ x.pc = "pass" /\ ex[e].back = "final"
      BY <1>1, <1>4, <2>2, ReturnsFact
    <3>3. owner = e => Stands(x)'
      <4> HAVE owner = e
      <4>1. Stands(ex[e])
        BY OwnerFact
      <4>2. ex[e].alias = 0
        <5>1. ex[e].alias # 0 => ex[e].back \in {"repair", "final"}
          BY <1>1, <4>1 DEF Stands, AliasStands, AliasPlaces, For
        <5> QED BY <1>4, <5>1 DEF Found, Finalized, Active
      <4>3. ex[e].back = "repair" => Intended /\ NothingOpen
        <5> HAVE ex[e].back = "repair"
        <5>1. Intended /\ node = "needs-revision"
          BY <1>1, <4>1 DEF Stands, RepairStands, For
        <5>2. ExecutionNode = Source
          BY <5>1 DEF ExecutionNode, IntentCounts
        <5> QED BY <1>4, <4>2, <5>1, <5>2 DEF Found, Finalized, Active, NothingOpen
      <4>4. ex[e].back = "fallback" => NothingOpen /\ ex[e].of \in DOMAIN results
        BY <1>1, <4>1 DEF Stands, RepairStands, For
      <4>5. ex[e].back = "final" => NothingOpen /\ NewestReleased
        BY <1>1, <1>4, NothingFact
      <4>6. Closes(x)
        BY <3>2, <4>2, <4>3, <4>4, <4>5 DEF Closes, Like
      <4>7. Same /\ x.pc \in {"create-repair", "repair-failed", "pass"}
        BY <1>1, <1>4, <3>2, RowsFacts
      <4> QED BY <1>1, <4>6, <4>7, ReturnStands
    <3>4. UNCHANGED <<owner, node, agent, results, events, leases>> /\ x.pc # "idle"
          /\ UNCHANGED <<mayChange, overlap, branch, changes>>
      BY <1>1, <1>4, <3>1, <3>2
    <3> QED BY <3>2, <3>3, <3>4, AnyMoves
  <2> QED BY <2>1, <2>2
<1> QED BY <1>2, <1>3, <1>4 DEF Commit

\* A git call has worked, and the next of the finalization is made.
LEMMA CallMoves ==
  ASSUME Known, NEW e \in Executors, NEW pc \in LeaseCalls, Go(e, pc),
         Finalizing(ex[e]), ex[e].pc \in LeaseCalls, ex[e].pc # "record-release",
         UNCHANGED <<owner, node, agent, results, events, mayChange, overlap>>,
         SameLeases, leases' \in Seq(LeaseT'), results' \in Seq(ResultT'),
         branch' \subseteq 1..changes', UNCHANGED changes
  PROVE  Known'
<1>1. pc \in PCs /\ TypeOK
  BY DEF LeaseCalls, PCs, DurableCalls, GitCalls, Known
<1>2. PICK x \in ExT : /\ ex' = [ex EXCEPT ![e] = x]
                       /\ x.pc = pc /\ x.back = ex[e].back /\ Like(x, ex[e])
  BY <1>1, GoFact
<1>3. owner = e => Stands(x)'
  <2> HAVE owner = e
  <2>1. Stands(ex[e]) /\ ex[e] \in ExT /\ Same
    BY <1>1, OwnerFact, SameRows
  <2>2. /\ ex[e].lease \in DOMAIN leases
        /\ ex[e].back \in {"repair", "final"} => Decides(ex[e].lease)
        /\ ex[e].alias # 0 => ex[e].lease = ex[e].alias
    BY <2>1 DEF Stands, FinalStands
  <2>3. /\ x.lease = ex[e].lease /\ x.of = ex[e].of /\ x.alias = ex[e].alias
    BY <1>2 DEF Like
  <2> QED BY <1>1, <1>2, <2>1, <2>2, <2>3, CallStands
<1>4. changes' \in 0..MaxChanges /\ x.pc # "idle"
  BY <1>1, <1>2 DEF TypeOK, LeaseCalls
<1> QED BY <1>2, <1>3, <1>4, GitMoves

LEMMA PromoteKeepsK == ASSUME Known, Inv, NEW e \in Executors, Promote(e) PROVE Known'
<1>1. /\ ex[e].pc = "promote" /\ ex[e] \in ExT /\ TypeOK
      /\ UNCHANGED <<node, agent, results, events, leases, mayChange, overlap, changes>>
      /\ Finalizing(ex[e]) /\ ex[e].pc # "record-release" /\ ex[e].pc \in LeaseCalls
  BY TypeFacts DEF Promote, durable, fixed, Known, Finalizing, LeaseCalls
<1>2. CASE branch' = leases[ex[e].lease].head /\ Go(e, "record-promotion") /\ UNCHANGED owner
  <2>1. ex[e].lease \in DOMAIN leases
    <3>1. ex[e].lease \in 0..Len(leases) /\ ex[e].lease # 0 /\ Len(leases) \in Nat
      BY <1>1, TypeFacts DEF Inv, LeasesNamed, Names, Holding
    <3> QED BY <1>1, <3>1, TypeFacts
  <2>2. branch' \subseteq 1..changes'
    <3>1. leases[ex[e].lease] \in LeaseT
      BY <1>1, <2>1, TypeFacts
    <3>2. leases[ex[e].lease].head \in SUBSET (1..changes)
      BY <3>1 DEF LeaseT
    <3> QED BY <1>1, <1>2, <3>2
  <2>3. SameLeases /\ leases' \in Seq(LeaseT') /\ results' \in Seq(ResultT')
    <3>1. SameLeases /\ LeaseT' = LeaseT /\ ResultT' = ResultT
      BY <1>1 DEF SameLeases, LeaseT, ResultT
    <3> HIDE DEF LeaseT, ResultT
    <3> QED BY <1>1, <3>1, TypeFacts
  <2>4. "record-promotion" \in LeaseCalls
    BY DEF LeaseCalls
  <2> QED BY <1>1, <1>2, <2>2, <2>3, <2>4, CallMoves
<1>3. CASE Throws(e) /\ UNCHANGED branch
  BY <1>1, <1>3, ThrowsKeepsK
<1> QED BY <1>2, <1>3 DEF Promote

LEMMA RemoveWorktreeKeepsK == ASSUME Known, NEW e \in Executors, RemoveWorktree(e) PROVE Known'
<1>1. /\ ex[e].pc = "remove" /\ ex[e] \in ExT /\ TypeOK
      /\ UNCHANGED <<node, agent, results, events, mayChange, overlap, branch, changes>>
      /\ Finalizing(ex[e]) /\ ex[e].pc # "record-release" /\ ex[e].pc \in LeaseCalls
  BY TypeFacts DEF RemoveWorktree, durable, fixed, Known, Finalizing, LeaseCalls
<1>2. CASE /\ leases' = [leases EXCEPT ![ex[e].lease].tree = FALSE]
           /\ Go(e, "release") /\ UNCHANGED owner
  <2> DEFINE l == ex[e].lease
  <2> DEFINE q == [leases[l] EXCEPT !.tree = FALSE]
  <2>1. leases' = [leases EXCEPT ![l] = q]
    BY <1>2
  <2>2. l \in DOMAIN leases =>
            /\ q \in LeaseT' /\ q.node = leases[l].node
            /\ leases[l].released => q.released
    <3> HAVE l \in DOMAIN leases
    <3>1. leases[l] \in LeaseT
      BY <1>1, TypeFacts
    <3> QED BY <1>1, <3>1 DEF LeaseT
  <2>3. changes' \in Nat /\ changes <= changes' /\ UNCHANGED <<results, events>>
    BY <1>1, TypeFacts
  <2> HIDE DEF q, l
  <2>4. SameLeases /\ leases' \in Seq(LeaseT') /\ results' \in Seq(ResultT')
    BY <1>1, <2>1, <2>2, <2>3, TypeLease
  <2>5. "release" \in LeaseCalls /\ branch' \subseteq 1..changes'
    BY <1>1 DEF LeaseCalls, TypeOK
  <2> QED BY <1>1, <1>2, <2>4, <2>5, CallMoves
<1>3. CASE Throws(e) /\ UNCHANGED leases
  BY <1>1, <1>3, ThrowsKeepsK
<1> QED BY <1>2, <1>3 DEF RemoveWorktree

LEMMA GitFailsKeepsK == ASSUME Known, NEW e \in Executors, GitFails(e) PROVE Known'
<1>1. /\ Finalizing(ex[e]) /\ ex[e].pc # "record-release"
      /\ UNCHANGED <<node, agent, results, events, leases>>
      /\ UNCHANGED <<mayChange, overlap, branch, changes>> /\ Throws(e)
  BY DEF GitFails, durable, fixed, git, GitCalls, Finalizing, LeaseCalls
<1> QED BY <1>1, ThrowsKeepsK

\* What an event of a lease that is finalized adds.
LEMMA LeaseEvent ==
  ASSUME TypeOK, NEW l \in DOMAIN leases, NEW type \in {"promoted", "released"},
         events' = Append(events, Event(type, l)), UNCHANGED <<leases, results, changes>>
  PROVE  /\ events' \in Seq(EventT) /\ \A i \in DOMAIN events' : Refers(i)'
         /\ Same
         /\ results' \in Seq(ResultT') /\ leases' \in Seq(LeaseT') /\ ExT' = ExT
<1>1. type \in EventTypes /\ type # "intent" /\ type # "created" /\ type # "failed"
  BY DEF EventTypes
<1>2. events' \in Seq(EventT) /\ \A i \in DOMAIN events' : Refers(i)'
  <2>1. IF type \in {"intent", "failed"} THEN l \in DOMAIN results ELSE l \in DOMAIN leases
    BY <1>1
  <2>2. UNCHANGED leases /\ DOMAIN results' = DOMAIN results
    OBVIOUS
  <2> QED BY <1>1, <2>1, <2>2, TypeEvents
<1>3. SameIntents
  <2>1. UNCHANGED leases /\ (type = "created" => leases[l].node # Source)
    BY <1>1
  <2> QED BY <1>1, <2>1, SameEvents
<1>4. SameLeases /\ SameResults
  BY DEF SameLeases, SameResults
<1>5. ResultT' = ResultT /\ LeaseT' = LeaseT /\ ExT' = ExT
  BY DEF ResultT, LeaseT, ExT
<1> HIDE DEF ResultT, LeaseT, ExT
<1> QED BY <1>2, <1>3, <1>4, <1>5, TypeFacts DEF Same

LEMMA RecordPromotionKeepsK == ASSUME Known, NEW e \in Executors, RecordPromotion(e) PROVE Known'
<1>1. /\ owner = e /\ Stands(ex[e]) /\ ex[e] \in ExT /\ ex[e].pc = "record-promotion"
      /\ UNCHANGED <<owner, node, agent, results, leases, mayChange, overlap, branch, changes>>
      /\ agent' \in RoleRuns /\ node' \in Statuses \ {"passed"} /\ TypeOK
      /\ Finalizing(ex[e]) /\ ex[e].pc # "record-release" /\ ex[e].pc \in LeaseCalls
  BY OwnerFact
  DEF RecordPromotion, fixed, git, Known, TypeOK, Statuses, Finalizing, LeaseCalls
<1>2. PICK l \in DOMAIN leases : l = ex[e].lease
  BY <1>1 DEF Stands, FinalStands
<1>3. /\ events' \in Seq(EventT) /\ \A i \in DOMAIN events' : Refers(i)'
      /\ Same
      /\ results' \in Seq(ResultT') /\ leases' \in Seq(LeaseT') /\ ExT' = ExT
  <2>1. "promoted" \in {"promoted", "released"} /\ events' = Append(events, Event("promoted", l))
    BY <1>2 DEF RecordPromotion
  <2> QED BY <1>1, <2>1, LeaseEvent
<1>4. PICK x \in ExT : /\ ex' = [ex EXCEPT ![e] = x]
                       /\ x.pc = "remove" /\ x.back = ex[e].back /\ Like(x, ex[e])
  <2>1. Go(e, "remove") /\ "remove" \in PCs
    BY DEF RecordPromotion, PCs, GitCalls
  <2> QED BY <1>1, <2>1, GoFact
<1>5. Stands(x)'
  <2>1. /\ ex[e].lease \in DOMAIN leases
        /\ ex[e].back \in {"repair", "final"} => Decides(ex[e].lease)
        /\ ex[e].alias # 0 => ex[e].lease = ex[e].alias
    BY <1>1 DEF Stands, FinalStands
  <2>2. x.lease = ex[e].lease /\ x.of = ex[e].of /\ x.alias = ex[e].alias /\ x.pc \in LeaseCalls
    BY <1>4 DEF Like, LeaseCalls
  <2> QED BY <1>1, <1>3, <1>4, <2>1, <2>2, CallStands
<1>6. x.pc # "idle" /\ UNCHANGED owner /\ UNCHANGED <<mayChange, overlap, branch, changes>>
  BY <1>1, <1>4
<1> QED BY <1>1, <1>3, <1>4, <1>5, <1>6, OwnerKeepsSame

\* The lease is released: after the newest one, or before it and the newest is too.
LEMMA ReleaseKeepsK == ASSUME Known, NEW e \in Executors, Release(e) PROVE Known'
<1>1. /\ owner = e /\ Stands(ex[e]) /\ ex[e] \in ExT /\ ex[e].pc = "release"
      /\ UNCHANGED <<owner, node, agent, results, events, mayChange, overlap, branch, changes>>
      /\ agent' \in RoleRuns /\ node' \in Statuses \ {"passed"} /\ TypeOK
      /\ ex[e].pc \in LeaseCalls /\ Finalizing(ex[e]) /\ Open(Source) \subseteq {Newest}
  BY OwnerFact
  DEF Release, fixed, durable, Known, TypeOK, Statuses, Finalizing, LeaseCalls, Records
<1>2. /\ ex[e].lease \in DOMAIN leases
      /\ ex[e].back \in {"repair", "final"} => Decides(ex[e].lease)
      /\ ex[e].alias # 0 => ex[e].lease = ex[e].alias
  BY <1>1 DEF Stands, FinalStands
<1>3. PICK l \in DOMAIN leases : l = ex[e].lease
  BY <1>2
<1>4. /\ SameLeases /\ leases' \in Seq(LeaseT') /\ results' \in Seq(ResultT')
      /\ \A i \in DOMAIN events' : Refers(i)'
      /\ leases'[l].released /\ leases' # <<>>
  <2> DEFINE q == [leases[l] EXCEPT !.released = TRUE]
  <2>1. leases' = [leases EXCEPT ![l] = q]
    BY <1>3 DEF Release
  <2>2. q \in LeaseT' /\ q.node = leases[l].node /\ q.released
    <3>1. leases[l] \in LeaseT
      BY <1>1, TypeFacts
    <3> QED BY <1>1, <3>1 DEF LeaseT
  <2>3. changes' \in Nat /\ changes <= changes' /\ UNCHANGED <<results, events>>
    BY <1>1, TypeFacts
  <2> HIDE DEF q
  <2>4. /\ SameLeases /\ leases' \in Seq(LeaseT') /\ results' \in Seq(ResultT')
        /\ \A i \in DOMAIN events' : Refers(i)'
        /\ \A k \in DOMAIN leases : leases'[k] = IF k = l THEN q ELSE leases[k]
    BY <1>1, <2>1, <2>2, <2>3, TypeLease
  <2>5. leases' # <<>>
    <3>1. Len(leases) # 0 /\ Len(leases') = Len(leases)
      BY <1>1, <2>4, TypeFacts DEF SameLeases
    <3> QED BY <3>1
  <2> QED BY <2>2, <2>4, <2>5
<1>5. /\ Same /\ events' \in Seq(EventT)
      /\ Newest' = Newest
      /\ NothingOpen => NothingOpen'
      /\ NewestReleased => NewestReleased'
      /\ Intended => Intended'
      /\ Open(Source)' \subseteq Open(Source)
      /\ DOMAIN leases' = DOMAIN leases /\ DOMAIN results' = DOMAIN results
  <2>1. Same
    BY <1>1, <1>4, SameRows
  <2>2. events' \in Seq(EventT)
    BY <1>1, TypeFacts
  <2> QED BY <1>1, <2>1, <2>2, SameFacts DEF Same, SameLeases, SameResults
<1>6. Decides(l) => NothingOpen' /\ NewestReleased'
  <2>1. CASE l = Newest
    BY <1>1, <1>4, <1>5, <2>1 DEF NothingOpen, NewestReleased, Open
  <2>2. CASE NothingOpen /\ NewestReleased
    BY <1>5, <2>2
  <2> QED BY <2>1, <2>2 DEF Decides
<1>7. PICK x \in ExT : /\ ex' = [ex EXCEPT ![e] = x] /\ x.pc = "record-release" /\ x.alias = 0
                       /\ x.lease = ex[e].lease /\ x.of = ex[e].of /\ x.back = ex[e].back
  <2>1. PICK a \in 0..Len(leases) : /\ a = 0
                         /\ ex' = [ex EXCEPT ![e].pc = "record-release", ![e].alias = a]
    <3>1. (IF ex[e].alias = ex[e].lease THEN 0 ELSE ex[e].alias) = 0
      BY <1>2
    <3>2. ex' = [ex EXCEPT ![e].pc = "record-release",
                           ![e].alias = IF ex[e].alias = ex[e].lease THEN 0 ELSE ex[e].alias]
      BY DEF Release
    <3> QED BY <1>1, <3>1, <3>2, TypeFacts
  <2> DEFINE y == [ex[e] EXCEPT !.pc = "record-release", !.alias = a]
  <2>2. ex' = [ex EXCEPT ![e] = y]
    BY <2>1
  <2>3. /\ y \in ExT /\ y.pc = "record-release" /\ y.alias = 0
        /\ y.lease = ex[e].lease /\ y.of = ex[e].of /\ y.back = ex[e].back
    BY <1>1, <2>1 DEF ExT, PCs, DurableCalls
  <2> HIDE DEF y
  <2> QED BY <2>2, <2>3
<1>8. Stands(x)'
  <2>1. AliasStands(x)' /\ LeaseStands(x)'
    BY <1>7 DEF AliasStands, LeaseStands
  <2>2. GateStands(x)'
    <3>1. x.back = "final" => node = "awaiting-gate" /\ results # <<>> /\ results[Len(results)].passed
      BY <1>1, <1>7 DEF Stands, GateStands, For
    <3> QED BY <1>1, <1>7, <3>1 DEF GateStands, For
  <2>3. RepairStands(x)'
    <3>1. /\ x.back = "repair" => Intended /\ node = "needs-revision"
          /\ x.back = "fallback" => NothingOpen /\ x.of \in DOMAIN results
      BY <1>1, <1>7 DEF Stands, RepairStands, For
    <3> QED BY <1>1, <1>2, <1>3, <1>5, <1>6, <1>7, <3>1 DEF RepairStands, For
  <2>4. FinalStands(x)'
    BY <1>2, <1>3, <1>5, <1>6, <1>7 DEF FinalStands, LeaseCalls
  <2> QED BY <2>1, <2>2, <2>3, <2>4 DEF Stands
<1>9. x.pc # "idle" /\ UNCHANGED owner /\ UNCHANGED <<mayChange, overlap, branch, changes>>
  BY <1>1, <1>7
<1> QED BY <1>1, <1>4, <1>5, <1>7, <1>8, <1>9, OwnerKeepsSame

LEMMA RecordReleaseKeepsK == ASSUME Known, NEW e \in Executors, RecordRelease(e) PROVE Known'
<1>1. /\ owner = e /\ Stands(ex[e]) /\ ex[e] \in ExT /\ ex[e].pc = "record-release"
      /\ UNCHANGED <<node, agent, results, leases, mayChange, overlap, branch, changes>>
      /\ agent' \in RoleRuns /\ node' \in Statuses \ {"passed"} /\ TypeOK
      /\ Returns(e) /\ Finalizing(ex[e])
  BY OwnerFact DEF RecordRelease, fixed, git, Known, TypeOK, Statuses, Finalizing
<1>2. PICK l \in DOMAIN leases : l = ex[e].lease
  BY <1>1 DEF Stands, FinalStands
<1>3. /\ events' \in Seq(EventT) /\ \A i \in DOMAIN events' : Refers(i)'
      /\ Same
      /\ results' \in Seq(ResultT') /\ leases' \in Seq(LeaseT') /\ ExT' = ExT
  <2>1. "released" \in {"promoted", "released"} /\ events' = Append(events, Event("released", l))
    BY <1>2 DEF RecordRelease
  <2> QED BY <1>1, <2>1, LeaseEvent
<1>4. CASE ex[e].back = "agent"
  <2>1. Ends(e)
    BY <1>1, <1>4 DEF Returns
  <2>2. PICK x \in ExT : ex' = [ex EXCEPT ![e] = x] /\ x.pc = "done"
    <3> DEFINE y == [Fresh EXCEPT !.pc = "done"]
    <3>1. y \in ExT /\ y.pc = "done"
      <4>1. 0 \in 0..Len(leases) /\ 0 \in 0..Len(results) /\ 0 \in 0..MaxAttempts
        BY <1>1, TypeFacts, BoundsAssumption
      <4> QED BY <4>1 DEF Fresh, ExT, PCs, Backs, Source
    <3>2. ex' = [ex EXCEPT ![e] = y]
      BY <2>1 DEF Ends
    <3> HIDE DEF y
    <3> QED BY <3>1, <3>2
  <2>3. owner' = Nobody
    BY <1>1, <2>1 DEF Ends
  <2>4. TypeOK'
    <3>1. /\ owner' \in Executors \cup {Nobody} /\ overlap' \in BOOLEAN /\ node' \in Statuses
          /\ UNCHANGED mayChange /\ branch' \subseteq 1..changes' /\ changes' \in 0..MaxChanges
      BY <1>1, <2>3 DEF TypeOK
    <3>2. Len(results) <= Len(results') /\ Len(leases) <= Len(leases') /\ x \in ExT'
      BY <1>1, <1>3, TypeFacts
    <3> QED BY <1>1, <1>3, <2>2, <3>1, <3>2, TypeGrows
  <2>5. Standing'
    <3>1. node' # "passed" /\ x.pc # "idle"
      BY <1>1, <2>2
    <3> QED BY <1>1, <2>2, <2>3, <3>1, StandingBy DEF Known
  <2> QED BY <1>1, <1>3, <2>4, <2>5, SameRecords DEF Known
<1>5. CASE ex[e].back # "agent"
  <2>1. UNCHANGED owner
    BY <1>1, <1>5, ReturnsFact
  <2>2. PICK x \in ExT : /\ ex' = [ex EXCEPT ![e] = x] /\ Like(x, ex[e])
                         /\ \/ x.pc = "create-repair" /\ ex[e].back = "repair"
                            \/ x.pc = "repair-failed" /\ ex[e].back = "fallback"
                            \/ x.pc = "pass" /\ ex[e].back = "final"
    BY <1>1, <1>5, ReturnsFact
  <2>3. Closes(x)
    <3>1. ex[e].alias = 0
      BY <1>1 DEF Stands, AliasStands, AliasPlaces
    <3>2. /\ ex[e].back = "repair" => Intended /\ NothingOpen
          /\ ex[e].back = "fallback" => NothingOpen /\ ex[e].of \in DOMAIN results
          /\ ex[e].back = "final" => NothingOpen /\ NewestReleased
      BY <1>1 DEF Stands, RepairStands, FinalStands, For
    <3> QED BY <2>2, <3>1, <3>2 DEF Closes, Like
  <2>4. Stands(x)' /\ x.pc # "idle"
    BY <1>1, <1>3, <2>2, <2>3, ReturnStands
  <2>5. UNCHANGED <<mayChange, overlap, branch, changes>>
    BY <1>1
  <2> QED BY <1>1, <1>3, <2>1, <2>2, <2>4, <2>5, OwnerKeepsSame
<1> QED BY <1>4, <1>5

-----------------------------------------------------------------------------
(* Agents at work, and all steps.                                          *)

LEMMA ChangeKeepsK == ASSUME Known, Inv, NEW e \in Executors, Change(e) PROVE Known'
<1>1. /\ ex[e].pc \in {"agent", "repair"} /\ ex[e] \in ExT /\ TypeOK
      /\ UNCHANGED <<owner, node, agent, results, events, mayChange, overlap, branch>>
      /\ changes \in Nat /\ MaxChanges \in Nat /\ changes < MaxChanges /\ changes' = changes + 1
  BY TypeFacts, BoundsAssumption DEF Change, durable, fixed, Known
<1>2. PICK l \in DOMAIN leases : l = ex[e].lease
  <2>1. ex[e].lease \in 0..Len(leases) /\ ex[e].lease # 0 /\ Len(leases) \in Nat
    BY <1>1, TypeFacts DEF Inv, LeasesNamed, Names, Holding
  <2> QED BY <1>1, <2>1, TypeFacts
<1>3. SameLeases /\ leases' \in Seq(LeaseT') /\ results' \in Seq(ResultT')
  <2>1. PICK at \in {"edits", "head"} : leases' = [leases EXCEPT ![l][at] = @ \cup {changes + 1}]
    BY <1>2 DEF Change
  <2> DEFINE q == [leases[l] EXCEPT ![at] = @ \cup {changes + 1}]
  <2>2. leases' = [leases EXCEPT ![l] = q]
    BY <2>1
  <2>3. leases[l] \in LeaseT
    BY <1>1, TypeFacts
  <2>4. q \in LeaseT' /\ q.node = leases[l].node /\ q.released = leases[l].released
    <3>1. changes + 1 \in 1..changes' /\ 1..changes \subseteq 1..changes'
      BY <1>1
    <3>2. CASE at = "edits"
      <4>1. q = [leases[l] EXCEPT !.edits = @ \cup {changes + 1}]
        BY <3>2
      <4> QED BY <1>1, <2>3, <3>1, <4>1 DEF LeaseT
    <3>3. CASE at = "head"
      <4>1. q = [leases[l] EXCEPT !.head = @ \cup {changes + 1}]
        BY <3>3
      <4> QED BY <1>1, <2>3, <3>1, <4>1 DEF LeaseT
    <3> QED BY <3>2, <3>3
  <2>5. changes' \in Nat /\ changes <= changes' /\ UNCHANGED <<results, events>>
    BY <1>1
  <2> HIDE DEF q
  <2> QED BY <1>1, <2>2, <2>4, <2>5, TypeLease
<1>4. PICK x \in ExT : /\ ex' = [ex EXCEPT ![e] = x] /\ x.pc = ex[e].pc /\ x.back = ex[e].back
                       /\ x.lease = ex[e].lease /\ x.of = ex[e].of /\ x.alias = ex[e].alias
  <2> DEFINE y == [ex[e] EXCEPT !.wrote = TRUE]
  <2>1. /\ y \in ExT /\ y.pc = ex[e].pc /\ y.back = ex[e].back
        /\ y.lease = ex[e].lease /\ y.of = ex[e].of /\ y.alias = ex[e].alias
    BY <1>1 DEF ExT
  <2>2. ex' = [ex EXCEPT ![e] = y]
    BY DEF Change
  <2> HIDE DEF y
  <2> QED BY <2>1, <2>2
<1>5. owner = e => Stands(x)'
  <2> HAVE owner = e
  <2>1. Stands(ex[e])
    BY OwnerFact
  <2>2. Stands(x)
    BY <1>1, <1>4, <2>1
    DEF Stands, AliasStands, LeaseStands, GateStands, RepairStands, FinalStands,
                            For, Finalizing, LeaseCalls
  <2>3. Same /\ UNCHANGED <<node, results, events>>
    BY <1>1, <1>3, SameRows
  <2> QED BY <1>1, <2>2, <2>3, StandsStill
<1>6. /\ branch' \subseteq 1..changes' /\ changes' \in 0..MaxChanges /\ x.pc # "idle"
      /\ UNCHANGED <<owner, node, agent, results, events, mayChange, overlap>>
  <2>1. branch \subseteq 1..changes /\ 1..changes \subseteq 1..changes' /\ changes' \in 0..MaxChanges
    BY <1>1 DEF TypeOK
  <2> QED BY <1>1, <1>4, <2>1
<1> QED BY <1>3, <1>4, <1>5, <1>6, GitMoves

LEMMA LoseJobKeepsK == ASSUME Known, LoseJob PROVE Known'
<1>1. /\ UNCHANGED <<node, agent, mayChange, events, results, leases, branch, changes, overlap, ex>>
      /\ owner' = Nobody
  BY DEF LoseJob, durable, fixed, git
<1>2. TypeOK'
  BY <1>1 DEF Known, TypeOK
<1>3. Standing'
  <2>1. node' = "passed" => NothingOpen' /\ NewestReleased'
    BY <1>1, RowsFacts DEF Known, Standing
  <2>2. \A e \in Executors : ex'[e].pc = "idle" => ex'[e] = Fresh
    BY <1>1 DEF Known, Standing
  <2> QED BY <1>1, <2>1, <2>2 DEF Standing
<1> QED BY <1>1, <1>2, <1>3, RowsFacts DEF Known

LEMMA UnchangedKeepsK == ASSUME Known, UNCHANGED vars PROVE Known'
<1>1. /\ UNCHANGED <<node, agent, mayChange, events, results, leases, branch, changes, overlap, ex>>
      /\ UNCHANGED owner
  BY DEF vars
<1>2. TypeOK'
  BY <1>1 DEF Known, TypeOK
<1>3. Standing'
  <2>1. node' = "passed" => NothingOpen' /\ NewestReleased' /\ owner' = Nobody
    BY <1>1, RowsFacts DEF Known, Standing
  <2>2. \A e \in Executors : ex'[e].pc = "idle" => ex'[e] = Fresh
    BY <1>1 DEF Known, Standing
  <2>3. owner' # Nobody => Stands(ex[owner])'
    <3> HAVE owner' # Nobody
    <3>1. PICK e \in Executors : e = owner /\ e = owner'
      BY <1>1 DEF Known, TypeOK
    <3>2. PICK x \in ExT : x = ex[e] /\ x = ex'[e]
      BY <1>1, TypeFacts DEF Known
    <3>3. Same /\ Stands(x) /\ TypeOK /\ UNCHANGED <<node, results, events>>
      BY <1>1, <3>1, <3>2, RowsFacts DEF Known, Standing
    <3>4. Stands(x)'
      BY <3>3, StandsStill
    <3> QED BY <3>1, <3>2, <3>4
  <2> QED BY <2>1, <2>2, <2>3 DEF Standing
<1> QED BY <1>1, <1>2, <1>3, RowsFacts DEF Known

LEMMA InitKnown == Init => Known
<1> SUFFICES ASSUME Init PROVE Known
  OBVIOUS
<1>1. TypeOK
  <2>1. /\ 0 \in 0..Len(leases) /\ 0 \in 0..Len(results) /\ 0 \in 0..MaxAttempts /\ 0 \in 0..MaxChanges
    BY BoundsAssumption DEF Init
  <2>2. Fresh \in ExT
    BY <2>1 DEF Fresh, ExT, PCs, Backs, Source
  <2>3. ex \in [Executors -> ExT]
    BY <2>2 DEF Init
  <2>4. results \in Seq(ResultT) /\ leases \in Seq(LeaseT) /\ events \in Seq(EventT)
    <3> HIDE DEF ResultT, LeaseT, EventT
    <3> QED BY DEF Init
  <2>5. DOMAIN events = {} /\ branch \subseteq 1..changes
    BY DEF Init
  <2> QED BY <2>1, <2>3, <2>4, <2>5
          DEF Init, TypeOK, Statuses, RoleRuns, ResultT, LeaseT, EventT, ExT
<1>2. Records
  <2>1. DOMAIN leases = {} /\ DOMAIN results = {} /\ DOMAIN events = {}
    BY DEF Init
  <2> QED BY <2>1 DEF Init, Records, Intents, RepairLeases, Open
<1>3. Standing
  BY NobodyAssumption DEF Init, Standing
<1> QED BY <1>1, <1>2, <1>3 DEF Known

LEMMA NextKnown == ASSUME Known, Inv, [Next]_vars PROVE Known'
<1>1. CASE UNCHANGED vars
  BY <1>1, UnchangedKeepsK
<1>2. CASE LoseJob
  BY <1>2, LoseJobKeepsK
<1>3. ASSUME NEW e \in Executors,
        \/ Start(e) \/ Crash(e) \/ Abort(e) \/ Refused(e) \/ StandDown(e)
        \/ Enter(e) \/ CreateRoleRun(e) \/ CreateLease(e) \/ CannotLease(e) \/ RecordLease(e)
        \/ Change(e) \/ AgentSucceeds(e) \/ AgentFails(e) \/ AwaitGate(e)
        \/ SkipGate(e) \/ RunGate(e) \/ GateThrows(e) \/ Exhausted(e)
        \/ IntendRepair(e) \/ Revise(e) \/ CreateRepair(e)
        \/ RepairSucceeds(e) \/ RepairFails(e) \/ RecordFailure(e) \/ BackToGate(e)
        \/ FinalizeNode(e) \/ Commit(e) \/ Promote(e) \/ RecordPromotion(e)
        \/ RemoveWorktree(e) \/ Release(e) \/ RecordRelease(e) \/ GitFails(e) \/ GiveUp(e) \/ Pass(e)
      PROVE  Known'
  <2>1. CASE Start(e) \/ Abort(e) \/ Enter(e) \/ Change(e)
    BY <2>1, StartKeepsK, AbortKeepsK, EnterKeepsK, ChangeKeepsK
  <2>2. CASE \/ Crash(e) \/ Refused(e) \/ StandDown(e) \/ (CannotLease(e) /\ ex[e].of = Source)
             \/ GateThrows(e) \/ Exhausted(e) \/ GiveUp(e) \/ Pass(e)
    BY <2>2, EndingKeepsK
  <2>3. CASE \/ CreateRoleRun(e) \/ (CannotLease(e) /\ ex[e].of # Source) \/ AgentSucceeds(e)
             \/ AwaitGate(e) \/ SkipGate(e)
    <3>1. owner = e
      BY <2>3 DEF CreateRoleRun, CannotLease, AgentSucceeds, AwaitGate, SkipGate
    <3> QED BY <2>3, <3>1, OwnerGoes
  <2>4. CASE CreateLease(e) \/ RecordLease(e) \/ RunGate(e) \/ IntendRepair(e) \/ CreateRepair(e)
    BY <2>4, CreateLeaseKeepsK, RecordLeaseKeepsK, RunGateKeepsK, IntendRepairKeepsK,
       CreateRepairKeepsK
  <2>5. CASE RepairSucceeds(e) \/ RecordFailure(e) \/ BackToGate(e)
    BY <2>5, RepairSucceedsKeepsK, RecordFailureKeepsK, BackToGateKeepsK
  <2>6. CASE AgentFails(e) \/ Revise(e) \/ RepairFails(e) \/ FinalizeNode(e)
    BY <2>6, CommitsKeepK
  <2>7. CASE Commit(e) \/ Promote(e) \/ RecordPromotion(e) \/ RemoveWorktree(e)
    BY <2>7, CommitKeepsK, PromoteKeepsK, RecordPromotionKeepsK, RemoveWorktreeKeepsK
  <2>8. CASE Release(e) \/ RecordRelease(e) \/ GitFails(e)
    BY <2>8, ReleaseKeepsK, RecordReleaseKeepsK, GitFailsKeepsK
  <2> QED BY <1>3, <2>1, <2>2, <2>3, <2>4, <2>5, <2>6, <2>7, <2>8
<1> QED BY <1>1, <1>2, <1>3 DEF Next

-----------------------------------------------------------------------------
(* One executor at a time.                                                 *)

\* The only executor acts.
LEMMA ActsInOrder ==
  ASSUME InOrder, NEW e \in Executors, Lives(e), Still(e), Holds(ex[e])', ReleasedInBranch'
  PROVE  InOrder'
<1>1. ASSUME NEW f \in Executors \ {e} PROVE ~Lives(f) /\ ex'[f] = ex[f] /\ ~Lives(f)'
  BY <1>1 DEF InOrder, Alone, Lives, Still
<1>2. Alone'
  BY <1>1 DEF Alone
<1>3. ASSUME NEW f \in Executors PROVE Holds(ex[f])'
  <2>1. CASE f = e
    BY <2>1
  <2>2. CASE f # e
    BY <1>1, <2>2 DEF Lives, Holds, WorkPlaces, LeaseCalls
  <2> QED BY <2>1, <2>2
<1> QED BY <1>2, <1>3 DEF InOrder

\* Its leases and the branch stay as they are.
LEMMA FollowsInOrder ==
  ASSUME Inv, InOrder, NEW e \in Executors, Lives(e), Still(e), Follows(ex[e], ex'[e]),
         UNCHANGED <<leases, branch>>
  PROVE  InOrder'
<1>1. Holds(ex[e]) /\ ReleasedInBranch
  BY DEF InOrder
<1>2. ReleasedInBranch'
  BY <1>1 DEF ReleasedInBranch, InBranch
<1>3. PICK x, y : x = ex[e] /\ y = ex'[e]
  OBVIOUS
<1>4. x.pc \in {"repair"} \cup WorkPlaces => x.lease = 0 \/ ~leases[x.lease].released
  BY <1>1, <1>3 DEF Holds, WorkPlaces
<1>5. y.alias # 0 => ~leases[y.alias].released
  <2>1. y.alias # 0 => y.alias = x.alias \/ (x.pc = "repair" /\ y.alias = x.lease)
    BY <1>3 DEF Follows
  <2>2. x.alias # 0 => ~leases[x.alias].released
    BY <1>1, <1>3 DEF Holds, Lives
  <2> QED BY <1>4, <2>1, <2>2
<1>6. y.pc \in WorkPlaces /\ y.lease # 0 => ~leases[y.lease].released
  <2>1. y.pc \in WorkPlaces /\ y.lease # 0 =>
          (x.pc \in WorkPlaces /\ y.lease = x.lease) \/ y.lease \in Open(Source)
    BY <1>3 DEF Follows
  <2> QED BY <1>4, <2>1 DEF Open
<1>7. y.pc \in LeaseCalls =>
          /\ y.lease # 0
          /\ y.pc = "promote" => leases[y.lease].edits = {}
          /\ y.pc # "promote" => InBranch(y.lease)
  BY <1>1, <1>3 DEF Follows, Holds
<1>8. \A l : InBranch(l)' <=> InBranch(l)
  BY DEF InBranch
<1>9. Holds(y)'
  <2>1. y.pc = "promote" => y.pc \in LeaseCalls
    BY DEF LeaseCalls
  <2> QED BY <1>5, <1>6, <1>7, <1>8, <2>1 DEF Holds
<1>10. Holds(ex[e])'
  BY <1>3, <1>9
<1> QED BY <1>2, <1>10, ActsInOrder

\* A new executor begins when none is left, with nothing at hand, or the overlap is on record.
LEMMA StartInOrder ==
  ASSUME Known, Inv, Serial, NEW e \in Executors, Start(e)
  PROVE  Serial'
<1>1. /\ UNCHANGED <<leases, branch>> /\ ex \in [Executors -> Execution] /\ ex[e] = Fresh
      /\ ~overlap' => ~overlap /\ \A f \in Executors : ~Lives(f)
  BY DEF Start, git, Inv, Typed, Known, Standing
<1>2. /\ ex'[e].pc = "enter" /\ ex'[e].alias = 0 /\ \A f \in Executors \ {e} : ex'[f] = ex[f]
  BY <1>1 DEF Start, Go, Fresh, Execution
<1>3. SUFFICES ASSUME ~overlap', InOrder PROVE InOrder'
  BY <1>1 DEF Serial
<1>4. ReleasedInBranch'
  BY <1>1, <1>3 DEF InOrder, ReleasedInBranch, InBranch
<1>5. Alone'
  BY <1>1, <1>2, <1>3 DEF Alone, Lives
<1>6. ASSUME NEW f \in Executors PROVE Holds(ex[f])'
  <2>1. CASE f = e
    BY <1>2, <2>1 DEF Holds, WorkPlaces, LeaseCalls
  <2>2. CASE f # e
    BY <1>1, <1>2, <1>3, <2>2 DEF Lives, Holds, WorkPlaces, LeaseCalls
  <2> QED BY <2>1, <2>2
<1> QED BY <1>4, <1>5, <1>6 DEF InOrder

LEMMA CreateLeaseInOrder ==
  ASSUME Known, Inv, InOrder, NEW e \in Executors, CreateLease(e)
  PROVE  InOrder'
<1>1. /\ ex[e].pc = "lease" /\ Lives(e) /\ ex \in [Executors -> Execution] /\ ex[e] \in Execution
      /\ UNCHANGED branch /\ TypeOK /\ leases \in Seq(Lease) /\ Names(ex[e])
      /\ Len(leases) \in Nat /\ DOMAIN leases = 1..Len(leases)
  BY DEF CreateLease, Lives, Inv, Typed, Known, LeasesNamed
<1>2. /\ Still(e) /\ ex'[e].pc = "record-lease" /\ ex'[e].lease = Len(leases) + 1
      /\ ex'[e].alias = ex[e].alias
  BY <1>1 DEF CreateLease, Still, Execution
<1>3. /\ DOMAIN leases' = 1..Len(leases) + 1 /\ ~leases'[Len(leases) + 1].released
      /\ \A l \in DOMAIN leases : leases'[l] = leases[l]
  <2> DEFINE q == [node |-> ex[e].of, base |-> branch, head |-> branch,
                   edits |-> {}, tree |-> TRUE, released |-> FALSE]
  <2>1. leases' = Append(leases, q) /\ ~q.released
    BY DEF CreateLease
  <2> HIDE DEF q
  <2> QED BY <1>1, <2>1
<1>4. ReleasedInBranch'
  <2>1. \A l \in DOMAIN leases' : l \in DOMAIN leases \/ l = Len(leases) + 1
    BY <1>1, <1>3
  <2> QED BY <1>1, <1>3, <2>1 DEF InOrder, ReleasedInBranch, InBranch
<1>5. Holds(ex[e])'
  <2>1. ex[e].alias # 0 => ex[e].alias \in DOMAIN leases /\ ~leases[ex[e].alias].released
    <3>1. ex[e].alias \in 0..Len(leases)
      BY <1>1 DEF Names
    <3> QED BY <1>1, <3>1 DEF InOrder, Holds
  <2> QED BY <1>2, <1>3, <2>1 DEF Holds, LeaseCalls
<1> QED BY <1>1, <1>2, <1>4, <1>5, ActsInOrder

\* The lease that an executor has at hand changes, and no other.
LEMMA OneLease ==
  ASSUME Inv, NEW l \in DOMAIN leases, NEW q, leases' = [leases EXCEPT ![l] = q]
  PROVE  /\ DOMAIN leases' = DOMAIN leases
         /\ \A k \in DOMAIN leases : leases'[k] = IF k = l THEN q ELSE leases[k]
  BY DEF Inv, Typed

LEMMA ChangeInOrder ==
  ASSUME Known, Inv, InOrder, NEW e \in Executors, Change(e)
  PROVE  InOrder'
<1>1. /\ ex[e].pc \in {"agent", "repair"} /\ Lives(e) /\ ex \in [Executors -> Execution]
      /\ ex[e] \in Execution
      /\ UNCHANGED branch /\ TypeOK /\ leases \in Seq(Lease) /\ Names(ex[e])
      /\ Len(leases) \in Nat /\ DOMAIN leases = 1..Len(leases)
  BY DEF Change, Lives, Inv, Typed, Known, LeasesNamed
<1>2. PICK l \in DOMAIN leases : l = ex[e].lease /\ ~leases[l].released
  <2>1. ex[e].lease \in 0..Len(leases) /\ ex[e].lease # 0
    BY <1>1 DEF Names, Holding
  <2> QED BY <1>1, <2>1 DEF InOrder, Holds, WorkPlaces
<1>3. PICK q : leases' = [leases EXCEPT ![l] = q] /\ q.released = leases[l].released
  <2>1. PICK at \in {"edits", "head"} : leases' = [leases EXCEPT ![l][at] = @ \cup {changes + 1}]
    BY <1>2 DEF Change
  <2>2. leases[l] \in Lease
    BY <1>1
  <2> DEFINE y == [leases[l] EXCEPT ![at] = @ \cup {changes + 1}]
  <2>3. leases' = [leases EXCEPT ![l] = y]
    BY <2>1
  <2>4. y.released = leases[l].released
    BY <2>2 DEF Lease
  <2> HIDE DEF y
  <2> QED BY <2>3, <2>4
<1>4. /\ DOMAIN leases' = DOMAIN leases
      /\ \A k \in DOMAIN leases : leases'[k] = IF k = l THEN q ELSE leases[k]
  BY <1>3, OneLease
<1>5. ReleasedInBranch'
  BY <1>1, <1>2, <1>3, <1>4 DEF InOrder, ReleasedInBranch, InBranch
<1>6. /\ Still(e) /\ ex'[e].pc = ex[e].pc /\ ex'[e].lease = ex[e].lease
      /\ ex'[e].alias = ex[e].alias
  BY <1>1 DEF Change, Still, Execution
<1>7. Holds(ex[e])'
  <2>1. ex[e].alias # 0 => ex[e].alias \in DOMAIN leases /\ ~leases[ex[e].alias].released
    <3>1. ex[e].alias \in 0..Len(leases)
      BY <1>1 DEF Names
    <3> QED BY <1>1, <3>1 DEF InOrder, Holds
  <2> QED BY <1>1, <1>2, <1>3, <1>4, <1>6, <2>1 DEF Holds, LeaseCalls
<1> QED BY <1>1, <1>5, <1>6, <1>7, ActsInOrder

LEMMA CommitInOrder ==
  ASSUME Known, Inv, InOrder, NEW e \in Executors, Commit(e)
  PROVE  InOrder'
<1>1. /\ ex[e].pc = "commit" /\ Lives(e) /\ ex \in [Executors -> Execution] /\ ex[e] \in Execution
      /\ UNCHANGED branch /\ TypeOK /\ leases \in Seq(Lease) /\ Names(ex[e])
      /\ Len(leases) \in Nat /\ DOMAIN leases = 1..Len(leases)
  BY DEF Commit, Lives, Inv, Typed, Known, LeasesNamed
<1>2. CASE (Throws(e) \/ Returns(e)) /\ UNCHANGED leases
  BY <1>1, <1>2, ReturnsFollow, FollowsInOrder
<1>3. ASSUME NEW l \in Found(e),
             leases' = [leases EXCEPT ![l].head = @ \cup leases[l].edits, ![l].edits = {}],
             ex' = [ex EXCEPT ![e].pc = "promote", ![e].lease = l]
      PROVE  InOrder'
  <2>1. ex[e].alias # 0 => ex[e].alias \in DOMAIN leases /\ ~leases[ex[e].alias].released
    <3>1. ex[e].alias \in 0..Len(leases)
      BY <1>1 DEF Names
    <3> QED BY <1>1, <3>1 DEF InOrder, Holds
  <2>2. l \in DOMAIN leases /\ ~leases[l].released /\ l # 0
    BY <1>1, <1>3, <2>1, FoundFact DEF Found, Active, Open
  <2>3. PICK q : /\ leases' = [leases EXCEPT ![l] = q]
                 /\ q.released = leases[l].released /\ q.edits = {}
    <3> DEFINE y == [leases[l] EXCEPT !.head = @ \cup leases[l].edits, !.edits = {}]
    <3>1. leases' = [leases EXCEPT ![l] = y]
      BY <1>3
    <3>2. leases[l] \in Lease
      BY <1>1, <2>2
    <3>3. y.released = leases[l].released /\ y.edits = {}
      BY <3>2 DEF Lease
    <3> HIDE DEF y
    <3> QED BY <3>1, <3>3
  <2>4. /\ DOMAIN leases' = DOMAIN leases
        /\ \A k \in DOMAIN leases : leases'[k] = IF k = l THEN q ELSE leases[k]
    BY <2>2, <2>3, OneLease
  <2>5. ReleasedInBranch'
    BY <1>1, <2>2, <2>3, <2>4 DEF InOrder, ReleasedInBranch, InBranch
  <2>6. /\ Still(e) /\ ex'[e].pc = "promote" /\ ex'[e].lease = l
        /\ ex'[e].alias = ex[e].alias
    BY <1>1, <1>3 DEF Still, Execution
  <2>7. Holds(ex[e])'
    BY <2>1, <2>2, <2>3, <2>4, <2>6 DEF Holds, LeaseCalls, WorkPlaces
  <2> QED BY <1>1, <2>5, <2>6, <2>7, ActsInOrder
<1> QED BY <1>2, <1>3 DEF Commit

LEMMA PromoteInOrder ==
  ASSUME Known, Inv, InOrder, NEW e \in Executors, Promote(e)
  PROVE  InOrder'
<1>1. /\ ex[e].pc = "promote" /\ Lives(e) /\ ex \in [Executors -> Execution] /\ ex[e] \in Execution
      /\ UNCHANGED leases /\ branch \subseteq branch'
  BY PromoteKeeps DEF Promote, Lives, Inv, Typed
<1>2. CASE Throws(e) /\ UNCHANGED branch
  BY <1>1, <1>2, ReturnsFollow, FollowsInOrder
<1>3. CASE branch' = leases[ex[e].lease].head /\ Go(e, "record-promotion")
  <2>1. ReleasedInBranch'
    BY <1>1 DEF InOrder, ReleasedInBranch, InBranch
  <2>2. /\ Still(e) /\ ex'[e].pc = "record-promotion" /\ ex'[e].lease = ex[e].lease
        /\ ex'[e].alias = ex[e].alias
    BY <1>1, <1>3 DEF Go, Still, Execution
  <2>3. /\ ex[e].lease # 0 /\ leases[ex[e].lease].edits = {}
        /\ ex[e].alias # 0 => ~leases[ex[e].alias].released
    BY <1>1 DEF InOrder, Holds, LeaseCalls
  <2>4. Holds(ex[e])'
    BY <1>1, <1>3, <2>2, <2>3 DEF Holds, LeaseCalls, WorkPlaces, InBranch
  <2> QED BY <1>1, <2>1, <2>2, <2>4, ActsInOrder
<1> QED BY <1>2, <1>3 DEF Promote

\* The worktree is removed, or the lease released.
LEMMA ClosesInOrder ==
  ASSUME Known, Inv, InOrder, NEW e \in Executors, RemoveWorktree(e) \/ Release(e)
  PROVE  InOrder'
<1>1. /\ ex[e].pc \in {"remove", "release"} /\ Lives(e) /\ ex \in [Executors -> Execution]
      /\ ex[e] \in Execution
      /\ UNCHANGED branch /\ TypeOK /\ leases \in Seq(Lease) /\ Names(ex[e])
      /\ Len(leases) \in Nat /\ DOMAIN leases = 1..Len(leases)
  BY DEF RemoveWorktree, Release, Lives, Inv, Typed, Known, LeasesNamed
<1>2. PICK l \in DOMAIN leases : l = ex[e].lease /\ InBranch(l)
  <2>1. ex[e].lease \in 0..Len(leases) /\ ex[e].lease # 0 /\ InBranch(ex[e].lease)
    BY <1>1 DEF Names, InOrder, Holds, LeaseCalls
  <2> QED BY <1>1, <2>1
<1>3. ex[e].alias # 0 => ex[e].alias \in DOMAIN leases /\ ~leases[ex[e].alias].released
  <2>1. ex[e].alias \in 0..Len(leases)
    BY <1>1 DEF Names
  <2> QED BY <1>1, <2>1 DEF InOrder, Holds
<1>4. CASE Throws(e) /\ UNCHANGED leases
  BY <1>1, <1>4, ReturnsFollow, FollowsInOrder
<1>5. ASSUME NEW q, leases' = [leases EXCEPT ![l] = q], q.edits = leases[l].edits,
             q.head = leases[l].head,
             Still(e), ex'[e].lease = l,
             \/ /\ ex'[e].pc = "release" /\ q.released = leases[l].released
                /\ ex'[e].alias = ex[e].alias
             \/ ex'[e].pc = "record-release" /\ ex'[e].alias \in {0, ex[e].alias} \ {l}
      PROVE  InOrder'
  <2>1. /\ DOMAIN leases' = DOMAIN leases
        /\ \A k \in DOMAIN leases : leases'[k] = IF k = l THEN q ELSE leases[k]
    BY <1>5, OneLease
  <2>2. ReleasedInBranch' /\ InBranch(l)'
    BY <1>1, <1>2, <1>5, <2>1 DEF InOrder, ReleasedInBranch, InBranch
  <2>3. Holds(ex[e])'
    <3>1. ex'[e].alias # 0 => ~leases'[ex'[e].alias].released
      BY <1>3, <1>5, <2>1
    <3>2. l # 0
      BY <1>1
    <3> QED BY <1>5, <2>2, <3>1, <3>2 DEF Holds, LeaseCalls, WorkPlaces
  <2> QED BY <1>1, <1>5, <2>2, <2>3, ActsInOrder
<1>6. leases[l] \in Lease
  BY <1>1
<1>7. CASE leases' = [leases EXCEPT ![ex[e].lease].tree = FALSE] /\ Go(e, "release")
  <2> DEFINE q == [leases[l] EXCEPT !.tree = FALSE]
  <2>1. leases' = [leases EXCEPT ![l] = q]
    BY <1>2, <1>7
  <2>2. q.edits = leases[l].edits /\ q.head = leases[l].head /\ q.released = leases[l].released
    BY <1>6 DEF Lease
  <2>3. /\ Still(e) /\ ex'[e].pc = "release" /\ ex'[e].lease = l /\ ex'[e].alias = ex[e].alias
    BY <1>1, <1>2, <1>7 DEF Go, Still, Execution
  <2> HIDE DEF q
  <2> QED BY <1>5, <2>1, <2>2, <2>3
<1>8. CASE Release(e)
  <2> DEFINE q == [leases[l] EXCEPT !.released = TRUE]
  <2>1. leases' = [leases EXCEPT ![l] = q]
    BY <1>2, <1>8 DEF Release
  <2>2. q.edits = leases[l].edits /\ q.head = leases[l].head
    BY <1>6 DEF Lease
  <2>3. /\ Still(e) /\ ex'[e].pc = "record-release" /\ ex'[e].lease = l
        /\ ex'[e].alias = IF ex[e].alias = l THEN 0 ELSE ex[e].alias
    BY <1>1, <1>2, <1>8 DEF Release, Still, Execution
  <2>4. ex'[e].alias \in {0, ex[e].alias} \ {l}
    BY <1>1, <2>3
  <2> HIDE DEF q
  <2> QED BY <1>5, <2>1, <2>2, <2>3, <2>4
<1> QED BY <1>4, <1>7, <1>8 DEF RemoveWorktree

LEMMA InitSerial == Init => Serial
BY
DEF Init, Serial, InOrder, Alone, ReleasedInBranch, Holds, Lives, Fresh, WorkPlaces,
    LeaseCalls

LEMMA NextSerial == ASSUME Known, Inv, Serial, [Next]_vars PROVE Serial'
<1>1. CASE UNCHANGED vars \/ LoseJob
  BY <1>1
  DEF vars, LoseJob, durable, git, fixed, Serial, InOrder, Alone, Lives, ReleasedInBranch,
              InBranch, Holds
<1>2. ASSUME NEW e \in Executors, Start(e) PROVE Serial'
  BY <1>2, StartInOrder
<1>3. ASSUME NEW e \in Executors,
             CreateLease(e) \/ Change(e) \/ Commit(e) \/ Promote(e) \/ RemoveWorktree(e) \/ Release(e)
      PROVE  Serial'
  <2>1. UNCHANGED overlap
    BY <1>3 DEF CreateLease, Change, Commit, Promote, RemoveWorktree, Release, fixed
  <2> QED BY <1>3, <2>1, CreateLeaseInOrder, ChangeInOrder, CommitInOrder, PromoteInOrder,
             ClosesInOrder DEF Serial
<1>4. ASSUME NEW e \in Executors, Elsewhere(e) PROVE Serial'
  BY <1>4, ElsewhereFacts, ElsewhereFollows, FollowsInOrder DEF Serial
<1> QED BY <1>1, <1>2, <1>3, <1>4 DEF Next, Elsewhere

(***************************************************************************)
(* Every variable keeps its type, and every row refers to rows that exist: *)
(* the event, result and lease rows of node-executor.ts, gate-runner.ts    *)
(* and lease-service.ts, for any number of executors and retries.          *)
(***************************************************************************)
THEOREM TypeCorrect == Spec => []TypeOK
<1>1. Known => TypeOK
  BY DEF Known
<1> QED BY <1>1, InvInit, InvNext, InitKnown, NextKnown, PTL DEF Spec

(***************************************************************************)
(* finalizeExecutionLease before the node is marked passed: whatever       *)
(* crashes, gives up or takes over, and however recovery came by the lease *)
(* that it finalized, a node that has passed has no lease open, its latest *)
(* one is released, and while no two executors have run at once that       *)
(* lease's work is in the run's branch.                                    *)
(***************************************************************************)
THEOREM PassedIsFinalized == Spec => []PassedLeavesNothingBehind
<1>1. Known /\ Serial => PassedLeavesNothingBehind
  <2> SUFFICES ASSUME Known, Serial, node = "passed"
               PROVE  /\ Open(Source) = {}
                      /\ Last(leases).released
                      /\ ~overlap => Last(leases).edits = {} /\ Last(leases).head \subseteq branch
    BY DEF PassedLeavesNothingBehind
  <2>1. NothingOpen /\ NewestReleased /\ Last(leases) = leases[Newest]
    BY DEF Known, Standing, Last, Newest
  <2>2. Newest \in DOMAIN leases
    BY <2>1, TypeFacts DEF Known, Newest, NewestReleased
  <2> QED BY <2>1, <2>2 DEF NothingOpen, NewestReleased, Serial, InOrder, ReleasedInBranch, InBranch
<1> QED BY <1>1, InvInit, InvNext, InitKnown, NextKnown, InitSerial, NextSerial, PTL DEF Spec
=============================================================================
