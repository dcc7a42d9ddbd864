------------------------ MODULE TerminalWriterProofs ------------------------
(***************************************************************************)
(* For any number of calls, and however the statuses change meanwhile:     *)
(* one call at most ends the run, its completion is recorded at most once, *)
(* no pause is overwritten by passed, and every call acts as if at one     *)
(* instant (TerminalWriter implements AtomicTerminalWrite).                *)
(***************************************************************************)
EXTENDS TerminalWriter, TLAPS

\* What the locals of a call say: before its end it has answered nothing and has an
\* attempt left, what it is about to write has been judged, and it reports what it wrote.
LocalsMean ==
    \A w \in Writers :
        /\ call[w].pc = "idle" <=> call[w].to = "none"
        /\ call[w].pc \in {"idle", "read", "cas", "last"} => call[w].answer = "none"
        /\ call[w].pc \in {"idle", "read", "cas"} => call[w].left > 0
        /\ call[w].pc = "cas" => /\ call[w].from \in Open
                                 /\ Verdict(call[w].from, call[w].to) = "write"
        /\ call[w].pc = "report" => call[w].to = "passed" /\ Wrote(w)
        /\ Wrote(w) => call[w].to \in Targets
        /\ call[w].answer = "illegal" => call[w].to = "passed"

\* A completion was recorded by a call that wrote, and has nothing left to report.
Recorded ==
    /\ completions \in {0, 1}
    /\ completions = 1 => \E w \in Writers : /\ Wrote(w)
                                             /\ call[w].to = "passed"
                                             /\ call[w].pc = "done"

Inv == TypeOK /\ LocalsMean /\ OneWriterWins /\ Recorded

-----------------------------------------------------------------------------
\* What is judged writable is open, is not what is written, and is not a pause that
\* a completion would overwrite.
LEMMA VerdictWrite ==
    ASSUME NEW s, NEW to \in Targets, Verdict(s, to) = "write"
    PROVE  s \notin Terminal /\ s # to /\ (to = "passed" => s # "paused")
  BY DEF Verdict

\* Every verdict but the one to write is an answer.
LEMMA VerdictValues ==
    ASSUME NEW s, NEW to
    PROVE  Verdict(s, to) \in {"unchanged", "terminal", "illegal", "write"}
  BY DEF Verdict

\* Cancelling is legal from every status a call can meet.
LEMMA CancelVerdict ==
    ASSUME NEW s \in Terminal \cup Open
    PROVE  Verdict(s, "cancelled") # "illegal"
  BY DEF Verdict, Legal, Terminal, Open

\* A call that is over has the shape of a call.
LEMMA OverTyped ==
    ASSUME TypeOK, NEW w \in Writers, NEW pc \in {"report", "done"},
           NEW a \in {"none", "unchanged", "terminal", "illegal", "written"}
    PROVE  Over(w, pc, a) \in Calls
<1>1. call[w].to \in Targets \cup {"none"} /\ MaxAttempts \in 0..MaxAttempts
  BY DEF TypeOK, Calls, MaxAttempts
<1> QED BY <1>1 DEF Calls, Over

\* At its compare-and-set a call has a target, and what it read was judged writable.
LEMMA CasJudged ==
    ASSUME TypeOK, LocalsMean, NEW w \in Writers, call[w].pc = "cas"
    PROVE  /\ call[w].to \in Targets /\ call[w].from \in Open
           /\ Verdict(call[w].from, call[w].to) = "write"
<1>1. call[w].to \in Targets \cup {"none"}
  BY DEF TypeOK, Calls
<1> QED BY <1>1 DEF LocalsMean

LEMMA InvInit == Init => Inv
  BY DEF Init, Inv, TypeOK, LocalsMean, OneWriterWins, Recorded, NotCalled, Calls, Wrote,
         MaxAttempts, Open, Targets

LEMMA InvNext == Inv /\ [Next]_vars => Inv'
<1> SUFFICES ASSUME Inv, [Next]_vars PROVE Inv'
  OBVIOUS
<1> USE DEF Inv
<1>1. ASSUME NEW w \in Writers, NEW to \in Targets, Call(w, to) PROVE Inv'
  <2>1. TypeOK'
    BY <1>1 DEF Call, TypeOK, Calls
  <2>2. LocalsMean'
    BY <1>1 DEF Call, TypeOK, Calls, LocalsMean, Wrote, Targets
  <2>3. OneWriterWins' /\ Recorded'
    BY <1>1 DEF Call, TypeOK, Calls, LocalsMean, OneWriterWins, Recorded, Wrote
  <2> QED BY <2>1, <2>2, <2>3
<1>2. ASSUME NEW w \in Writers, Read(w) PROVE Inv'
  <2> DEFINE v == Verdict(run, call[w].to)
  <2>1. CASE v = "write"
    <3>1. call' = [call EXCEPT ![w].pc = "cas", ![w].from = run] /\ run \in Open
      BY <1>2, <2>1, VerdictWrite DEF Read, TypeOK, Calls, LocalsMean
    <3>2. TypeOK'
      BY <3>1, <1>2 DEF Read, TypeOK, Calls
    <3>3. LocalsMean'
      BY <3>1, <2>1, <1>2 DEF Read, TypeOK, Calls, LocalsMean, Wrote
    <3>4. OneWriterWins' /\ Recorded'
      BY <3>1, <1>2 DEF Read, TypeOK, Calls, LocalsMean, OneWriterWins, Recorded, Wrote
    <3> QED BY <3>2, <3>3, <3>4
  <2>2. CASE v # "write"
    <3>1. call' = [call EXCEPT ![w] = Over(w, "done", v)] /\ v \in {"unchanged", "terminal", "illegal"}
      BY <1>2, <2>2, VerdictValues DEF Read, Answer
    <3>0. v = "illegal" => call[w].to = "passed"
      BY <1>2, CancelVerdict DEF Read, TypeOK, Calls, LocalsMean, Targets
    <3> HIDE DEF v
    <3>2. TypeOK'
      BY <3>1, <1>2, OverTyped DEF Read, TypeOK
    <3>3. LocalsMean'
      BY <3>0, <3>1, <1>2 DEF Read, TypeOK, Calls, LocalsMean, Wrote, Over
    <3>4. OneWriterWins' /\ Recorded'
      BY <3>1, <1>2 DEF Read, TypeOK, Calls, LocalsMean, OneWriterWins, Recorded, Wrote, Over
    <3> QED BY <3>2, <3>3, <3>4
  <2> QED BY <2>1, <2>2
<1>3. ASSUME NEW w \in Writers, CompareAndSet(w) PROVE Inv'
  <2>0. call[w].to \in Targets /\ run \notin {"none"} /\ call[w].pc = "cas"
    BY <1>3 DEF CompareAndSet, LocalsMean, TypeOK, Calls, Open, Terminal
  <2>1. CASE run = call[w].from
    <3>1. /\ run \notin Terminal
          /\ run' = call[w].to
          /\ call' = [call EXCEPT ![w] =
                        Over(w, IF call[w].to = "passed" THEN "report" ELSE "done", "written")]
          /\ completions' = completions
      BY <1>3, <2>0, <2>1, VerdictWrite DEF CompareAndSet, Answer, Unchanged, LocalsMean
    <3>2. \A v \in Writers : ~Wrote(v)
      BY <3>1 DEF OneWriterWins, LocalsMean, Targets, Terminal
    <3>3. completions = 0
      BY <3>2 DEF Recorded
    <3>4. TypeOK'
      BY <3>1, <2>0, OverTyped DEF TypeOK, Targets, Terminal
    <3>5. LocalsMean'
      BY <3>1, <2>0 DEF TypeOK, Calls, LocalsMean, Wrote, Over, Targets
    <3>6. OneWriterWins' /\ Recorded'
      BY <3>1, <3>2, <3>3, <2>0 DEF TypeOK, Calls, OneWriterWins, Recorded, Wrote, Over
    <3> QED BY <3>4, <3>5, <3>6
  <2>2. CASE run # call[w].from
    <3>1. /\ call' = [call EXCEPT ![w].from = "none", ![w].left = call[w].left - 1,
                        ![w].pc = IF call[w].left - 1 = 0 THEN "last" ELSE "read"]
          /\ run' = run /\ completions' = completions
      BY <1>3, <2>2 DEF CompareAndSet, Unchanged, AfterLoss, Spent
    <3>2. call[w].left \in 1..MaxAttempts
      BY <2>0 DEF TypeOK, Calls, LocalsMean, MaxAttempts
    <3>3. TypeOK'
      BY <3>1, <3>2 DEF TypeOK, Calls, MaxAttempts
    <3>4. LocalsMean'
      BY <3>1, <3>2, <2>0 DEF TypeOK, Calls, LocalsMean, Wrote, MaxAttempts, Targets
    <3>5. OneWriterWins' /\ Recorded'
      BY <3>1, <2>0 DEF TypeOK, Calls, LocalsMean, OneWriterWins, Recorded, Wrote
    <3> QED BY <3>3, <3>4, <3>5
  <2> QED BY <2>1, <2>2
<1>4. ASSUME NEW w \in Writers, LastRead(w) PROVE Inv'
  <2>1. PICK a \in {"unchanged", "terminal"} : call' = [call EXCEPT ![w] = Over(w, "done", a)]
    BY <1>4 DEF LastRead, Answer
  <2>2. TypeOK'
    BY <2>1, <1>4, OverTyped DEF LastRead, TypeOK
  <2>3. LocalsMean'
    BY <2>1, <1>4 DEF LastRead, TypeOK, Calls, LocalsMean, Wrote, Over
  <2>4. OneWriterWins' /\ Recorded'
    BY <2>1, <1>4 DEF LastRead, TypeOK, Calls, LocalsMean, OneWriterWins, Recorded, Wrote, Over
  <2> QED BY <2>2, <2>3, <2>4
<1>5. ASSUME NEW w \in Writers, Report(w) PROVE Inv'
  <2>1. call[w].pc = "report" /\ call[w].to = "passed" /\ Wrote(w)
    BY <1>5 DEF Report, LocalsMean
  <2>2. completions = 0
    BY <2>1 DEF Recorded, OneWriterWins
  <2>3. call' = [call EXCEPT ![w] = Over(w, "done", "written")] /\ completions' = 1 /\ run' = run
    BY <1>5, <2>2 DEF Report, Answer
  <2>4. TypeOK'
    BY <2>1, <2>3, OverTyped DEF TypeOK
  <2>5. LocalsMean'
    BY <2>1, <2>3 DEF TypeOK, Calls, LocalsMean, Wrote, Over, Targets
  <2>6. OneWriterWins' /\ Recorded'
    BY <2>1, <2>3 DEF TypeOK, Calls, OneWriterWins, Recorded, Wrote, Over
  <2> QED BY <2>4, <2>5, <2>6
<1>6. ASSUME NEW w \in Writers, Stop(w) PROVE Inv'
  <2>1. TypeOK'
    <3>1. call[w].answer \in {"none", "unchanged", "terminal", "illegal", "written"}
      BY DEF TypeOK, Calls
    <3> QED BY <3>1, <1>6, OverTyped DEF Stop, Answer, TypeOK
  <2>2. LocalsMean'
    BY <1>6 DEF Stop, Answer, TypeOK, Calls, LocalsMean, Wrote, Over
  <2>3. OneWriterWins' /\ Recorded'
    BY <1>6 DEF Stop, Answer, TypeOK, Calls, LocalsMean, OneWriterWins, Recorded, Wrote, Over
  <2> QED BY <2>1, <2>2, <2>3
<1>7. ASSUME NEW to \in Open \cup {"failed"}, OtherWriter(to) PROVE Inv'
  <2>1. TypeOK' /\ LocalsMean' /\ Recorded'
    BY <1>7 DEF OtherWriter, IfActive, TypeOK, LocalsMean, Recorded, Wrote, Terminal
  <2>2. OneWriterWins'
    BY <1>7 DEF OtherWriter, IfActive, OneWriterWins, LocalsMean, Wrote, Targets, Terminal
  <2> QED BY <2>1, <2>2
<1>8. CASE UNCHANGED vars
  BY <1>8 DEF vars, TypeOK, LocalsMean, OneWriterWins, Recorded, Wrote
<1> QED
  BY <1>1, <1>2, <1>3, <1>4, <1>5, <1>6, <1>7, <1>8 DEF Next, Step

LEMMA Invariance == Spec => []Inv
  BY InvInit, InvNext, PTL DEF Spec

\* TypeOK, for any number of calls: the run and every call stay what writeWorkflowTerminal
\* (state-machine.ts) can make of them.
THEOREM TypeCorrect == Spec => []TypeOK
<1>1. Inv => TypeOK
  BY DEF Inv
<1> QED BY <1>1, Invariance, PTL

-----------------------------------------------------------------------------
\* state-machine.ts, Gap A, for any number of racing calls: one at most is told that
\* it ended the run, and the run stays as it left it.
THEOREM OneWriter == Spec => []OneWriterWins
<1>1. Inv => OneWriterWins
  BY DEF Inv
<1> QED BY <1>1, Invariance, PTL

\* engine.ts, duplicate executions: run.passed is recorded once at most, of a run
\* that passed.
THEOREM CompletionRecordedOnce == Spec => []CompletionOnce
<1>1. Inv => CompletionOnce
  BY DEF Inv, CompletionOnce, Recorded, OneWriterWins
<1> QED BY <1>1, Invariance, PTL

\* M2 in state-machine.ts: whoever cancels meets no illegal transition, in any race.
THEOREM CancelConverging == Spec => []CancelNeverIllegal
<1>1. Inv => CancelNeverIllegal
  BY DEF Inv, LocalsMean, CancelNeverIllegal
<1> QED BY <1>1, Invariance, PTL

\* MUST-FIX1 in state-machine.ts: no call, whatever it read before, turns a paused
\* run into a passed one, and no other writer can.
THEOREM PauseKept == Spec => PausedNeverPasses
<1>1. ASSUME Inv, [Next]_vars PROVE run = "paused" => run' # "passed"
  <2> SUFFICES ASSUME run = "paused" PROVE run' # "passed"
    OBVIOUS
  <2>1. ASSUME NEW w \in Writers, CompareAndSet(w) PROVE run' # "passed"
    <3>1. call[w].to \in Targets /\ Verdict(call[w].from, call[w].to) = "write"
      BY <1>1, <2>1, CasJudged DEF CompareAndSet, Inv
    <3>2. call[w].to = "passed" => call[w].from # "paused"
      BY <3>1, VerdictWrite
    <3> QED BY <3>2, <2>1 DEF CompareAndSet, Unchanged
  <2>2. ASSUME NEW to \in Open \cup {"failed"}, OtherWriter(to) PROVE run' # "passed"
    BY <2>2 DEF OtherWriter, IfActive, Open, Terminal
  <2> QED BY <1>1, <2>1, <2>2 DEF Next, Step, Call, Read, LastRead, Report, Stop, vars
<1>2. Inv /\ [Next]_vars => [run = "paused" => run' # "passed"]_vars
  BY <1>1
<1> QED BY <1>2, Invariance, PTL DEF Spec, PausedNeverPasses

-----------------------------------------------------------------------------
(* The refinement: a call takes effect where it declines, writes or gives   *)
(* up; reading, losing a race and stopping are stutters.                    *)

Target == [w \in Writers |-> call[w].to]
Result == [w \in Writers |-> call[w].answer]

\* Both specifications speak of the same statuses and judge them alike.
LEMMA SameStatuses == Atomic!Open = Open /\ Atomic!Terminal = Terminal /\ Atomic!Targets = Targets
  BY DEF Atomic!Open, Open, Atomic!Terminal, Terminal, Atomic!Targets, Targets

LEMMA SameVerdict == ASSUME NEW s, NEW to PROVE Atomic!Verdict(s, to) = Verdict(s, to)
<1>1. Atomic!Legal(s) = Legal(s)
  BY DEF Atomic!Legal, Legal, Atomic!Open, Open, Atomic!Terminal, Terminal
<1> QED BY <1>1, SameStatuses DEF Atomic!Verdict, Verdict

\* A call that answers keeps its target.
LEMMA OverSeen ==
    ASSUME TypeOK, NEW w \in Writers, NEW pc, NEW a, call' = [call EXCEPT ![w] = Over(w, pc, a)]
    PROVE  /\ UNCHANGED Target
           /\ Result' = [Result EXCEPT ![w] = a]
           /\ call[w].answer = a => UNCHANGED Result
<1>1. Over(w, pc, a).to = call[w].to /\ Over(w, pc, a).answer = a
  BY DEF Over
<1>2. \A x \in Writers : /\ call'[x].to = call[x].to
                         /\ call'[x].answer = IF x = w THEN a ELSE call[x].answer
  BY <1>1 DEF TypeOK
<1> QED BY <1>2 DEF Target, Result

LEMMA AtomicInit == Init => Atomic!Init
<1> SUFFICES ASSUME Init PROVE Atomic!Init
  OBVIOUS
<1>1. \A w \in Writers : call[w].to = "none" /\ call[w].answer = "none"
  BY DEF Init, NotCalled
<1> QED BY <1>1, SameStatuses DEF Init, Atomic!Init

LEMMA AtomicStep == Inv /\ [Next]_vars => [Atomic!Next]_(Atomic!vars)
<1> SUFFICES ASSUME Inv, [Next]_vars PROVE Atomic!Next \/ UNCHANGED Atomic!vars
  OBVIOUS
<1>0. TypeOK /\ LocalsMean
  BY DEF Inv
<1> USE DEF Atomic!vars
<1>1. ASSUME NEW w \in Writers, NEW to \in Targets, Call(w, to) PROVE Atomic!Call(w)
  <2>1. call' = [call EXCEPT ![w] = [call[w] EXCEPT !.pc = "read", !.to = to]]
    BY <1>1 DEF Call
  <2>2. Target' = [Target EXCEPT ![w] = to] /\ Result' = Result /\ Target[w] = "none"
    BY <1>0, <1>1 DEF Call, TypeOK, Calls, LocalsMean, Target, Result
  <2> QED BY <1>1, <2>2, SameStatuses DEF Call, Atomic!Call, Target, Result
<1>2. ASSUME NEW w \in Writers, Read(w) PROVE Atomic!Decline(w) \/ UNCHANGED Atomic!vars
  <2> DEFINE v == Verdict(run, call[w].to)
  <2>0. Target[w] # "none" /\ Result[w] = "none"
    BY <1>0, <1>2 DEF Read, LocalsMean, Target, Result
  <2>1. CASE v = "write"
    <3>1. call' = [call EXCEPT ![w].pc = "cas", ![w].from = run]
      BY <1>2, <2>1 DEF Read
    <3>2. UNCHANGED <<Target, Result>>
      BY <3>1, <1>0 DEF TypeOK, Calls, Target, Result
    <3> QED BY <3>2, <1>2 DEF Read, Target, Result
  <2>2. CASE v # "write"
    <3>1. call' = [call EXCEPT ![w] = Over(w, "done", v)]
      BY <1>2, <2>2 DEF Read, Answer
    <3> HIDE DEF v
    <3>2. UNCHANGED Target /\ Result' = [Result EXCEPT ![w] = v]
      BY <3>1, <1>0, OverSeen
    <3>3. Atomic!Verdict(run, Target[w]) = v
      BY SameVerdict DEF v, Target
    <3> QED BY <2>0, <2>2, <3>2, <3>3, <1>2 DEF Read, Atomic!Decline, Atomic!Pending, Target, Result
  <2> QED BY <2>1, <2>2
<1>3. ASSUME NEW w \in Writers, CompareAndSet(w) PROVE Atomic!Write(w) \/ UNCHANGED Atomic!vars
  <2>0. Target[w] # "none" /\ Result[w] = "none"
    BY <1>0, <1>3 DEF CompareAndSet, LocalsMean, Target, Result
  <2>1. CASE run = call[w].from
    <3>1. Atomic!Verdict(run, Target[w]) = "write"
      BY <2>1, <1>0, <1>3, CasJudged, SameVerdict DEF CompareAndSet, Target
    <3>2. call' = [call EXCEPT ![w] =
                     Over(w, IF call[w].to = "passed" THEN "report" ELSE "done", "written")]
      BY <1>3, <2>1 DEF CompareAndSet, Answer, Unchanged
    <3>3. UNCHANGED Target /\ Result' = [Result EXCEPT ![w] = "written"]
      BY <3>2, <1>0, OverSeen
    <3>4. run' = Target[w] /\ completions' = completions
      BY <1>3, <2>1 DEF CompareAndSet, Unchanged, Target
    <3> QED BY <2>0, <3>1, <3>3, <3>4 DEF Atomic!Write, Atomic!Pending, Target, Result
  <2>2. CASE run # call[w].from
    <3>1. UNCHANGED <<Target, Result, run, completions>>
      BY <1>0, <1>3, <2>2 DEF CompareAndSet, Unchanged, TypeOK, Calls, Target, Result
    <3> QED BY <3>1 DEF Target, Result
  <2> QED BY <2>1, <2>2
<1>4. ASSUME NEW w \in Writers, LastRead(w) PROVE Atomic!Decline(w) \/ Atomic!GiveUp(w)
  <2> DEFINE v == Verdict(run, call[w].to)
             a == IF v = "unchanged" THEN "unchanged" ELSE "terminal"
  <2>0. Target[w] # "none" /\ Result[w] = "none"
    BY <1>0, <1>4 DEF LastRead, LocalsMean, Target, Result
  <2>1. call' = [call EXCEPT ![w] = Over(w, "done", a)]
    BY <1>4 DEF LastRead, Answer
  <2>2. Atomic!Verdict(run, Target[w]) = v
    BY SameVerdict DEF Target
  <2>3. v \in {"unchanged", "terminal"} \/ run \in Open
    BY <1>0 DEF Verdict, TypeOK
  <2> HIDE DEF v, a
  <2>4. UNCHANGED Target /\ Result' = [Result EXCEPT ![w] = a]
    BY <2>1, <1>0, OverSeen
  <2>5. CASE v \in {"unchanged", "terminal"}
    BY <2>0, <2>2, <2>4, <2>5, <1>4 DEF LastRead, Atomic!Decline, Atomic!Pending, Target, Result, a
  <2>6. CASE v \notin {"unchanged", "terminal"}
    BY <2>0, <2>3, <2>4, <2>6, <1>4, SameStatuses
       DEF LastRead, Atomic!GiveUp, Atomic!Pending, Target, Result, a
  <2> QED BY <2>5, <2>6
<1>5. ASSUME NEW w \in Writers, Report(w) PROVE Atomic!Complete(w)
  <2>1. call[w].pc = "report" /\ call[w].to = "passed" /\ Wrote(w)
    BY <1>0, <1>5 DEF Report, LocalsMean
  <2>2. completions = 0
    BY <2>1 DEF Inv, Recorded, OneWriterWins
  <2>3. call' = [call EXCEPT ![w] = Over(w, "done", "written")]
    BY <1>5 DEF Report, Answer
  <2>4. UNCHANGED <<Target, Result>>
    BY <2>1, <2>3, <1>0, OverSeen DEF Wrote
  <2> QED BY <2>1, <2>2, <2>4, <1>5 DEF Report, Atomic!Complete, Target, Result, Wrote
<1>6. ASSUME NEW w \in Writers, Stop(w) PROVE UNCHANGED Atomic!vars
  <2>1. UNCHANGED <<Target, Result>>
    BY <1>0, <1>6, OverSeen DEF Stop, Answer
  <2> QED BY <2>1, <1>6 DEF Stop, Target, Result
<1>7. ASSUME NEW to \in Open \cup {"failed"}, OtherWriter(to)
      PROVE  Atomic!OtherWriter \/ UNCHANGED Atomic!vars
  <2>1. CASE run \in Terminal
    BY <2>1, <1>7 DEF OtherWriter, IfActive
  <2>2. CASE run \notin Terminal
    BY <2>2, <1>0, <1>7, SameStatuses DEF OtherWriter, IfActive, TypeOK, Atomic!OtherWriter
  <2> QED BY <2>1, <2>2
<1>8. CASE UNCHANGED vars
  BY <1>8 DEF vars
<1> QED
  BY <1>1, <1>2, <1>3, <1>4, <1>5, <1>6, <1>7, <1>8 DEF Next, Step, Atomic!Next

\* Each call takes effect at one instant between its first read and its return, for
\* any number of calls: what JobControl takes as one step.
THEOREM WriterIsAtomic == Spec => ActsAtomically
  BY AtomicInit, AtomicStep, Invariance, PTL DEF Spec, ActsAtomically, Atomic!Spec
=============================================================================
