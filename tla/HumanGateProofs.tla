--------------------------- MODULE HumanGateProofs ---------------------------
(***************************************************************************)
(* For any number of people deciding, failures and questions: a node with  *)
(* a human gate passes only if a person approved the question asked last.  *)
(*                                                                         *)
(* PassesOnlyApproved is about one step, of an execution that looked at    *)
(* the gate's results some steps ago.  Inv says what that look was worth:  *)
(* a result that passed was approved by whoever wrote it (ResultsDecided,  *)
(* CallsDecided), an approval is never taken back, and nothing is asked    *)
(* while an execution passes the node (StillOpen).                         *)
(***************************************************************************)
EXTENDS HumanGate, TLAPS

Verdicts == {"approved", "rejected"}
CallShape == [pc : {"idle", "decide", "result", "node", "run", "await", "resume"},
              path : {"cli", "web"}, verdict : Verdicts, of : Nat]

\* As much of TypeOK as holds for every value of the constants.
Typed == asked \in Seq(Question) /\ call \in [Deciders -> CallShape]

Newest == asked[Len(asked)]

\* A gate passed by its decision, and by nothing else.
ResultsDecided ==
    \A i \in DOMAIN asked : asked[i].result = "passed" => asked[i].decision = "approved"

\* A call speaks of a question that was asked, and once it has decided, of its decision.
CallsDecided ==
    \A c \in Deciders :
        /\ call[c].pc # "idle" => call[c].of \in DOMAIN asked
        /\ call[c].pc \in {"result", "node", "run", "await", "resume"}
           => asked[call[c].of].decision = call[c].verdict

\* What an execution does rests on the question asked last.
StillOpen ==
    /\ ex = "decide" => asked # <<>> /\ Newest = [decision |-> "none", result |-> "blocked"]
    /\ ex \in {"final", "pass", "passing"} => asked # <<>> /\ Newest.decision = "approved"

Inv == Typed /\ ResultsDecided /\ CallsDecided /\ StillOpen

-----------------------------------------------------------------------------
LEMMA InvInit == Init => Inv
  BY DEF Init, Inv, Typed, ResultsDecided, CallsDecided, StillOpen, Idle, CallShape, Verdicts,
         Question

\* What changing one question leaves of the others.
LEMMA OneChanges ==
  ASSUME NEW s \in Seq(Question), NEW d \in DOMAIN s, NEW q \in Question,
         NEW t, t = [s EXCEPT ![d] = q]
  PROVE  /\ t \in Seq(Question) /\ DOMAIN t = DOMAIN s /\ Len(t) = Len(s)
         /\ t[d] = q /\ \A i \in DOMAIN s : i # d => t[i] = s[i]
  OBVIOUS

LEMMA Shapes ==
  ASSUME NEW q \in Question
  PROVE  /\ \A v \in Verdicts \cup {"pending"} :
               /\ [q EXCEPT !.decision = v] \in Question
               /\ [q EXCEPT !.decision = v].decision = v /\ [q EXCEPT !.decision = v].result = q.result
         /\ \A r \in {"passed", "failed"} :
               /\ [q EXCEPT !.result = r] \in Question
               /\ [q EXCEPT !.result = r].result = r /\ [q EXCEPT !.result = r].decision = q.decision
  BY DEF Question, Verdicts

\* A step that asks nothing and decides nothing, and enters no place that rests on a
\* question, keeps the invariant.
LEMMA Untouched ==
  ASSUME Inv, UNCHANGED <<asked, call>>,
         ex' \in {"decide", "final", "pass", "passing"} =>
            \/ ex' = ex
            \/ ex = "final" /\ ex' = "pass"
            \/ ex = "pass" /\ ex' = "passing"
  PROVE  Inv'
  BY DEF Inv, Typed, ResultsDecided, CallsDecided, StillOpen, Newest

\* A call that only goes on.
LEMMA GoesOn ==
  ASSUME Inv, NEW c \in Deciders, UNCHANGED asked,
         ex' \in {"decide", "final", "pass", "passing"} => ex' = ex,
         \/ Done(c)
         \/ /\ call[c].pc \in {"result", "node", "run", "await"}
            /\ \E pc \in {"node", "run", "await", "resume"} : Goto(c, pc)
  PROVE  Inv'
<1>1. CASE Done(c)
  <2>1. call' \in [Deciders -> CallShape] /\ \A d \in Deciders : call'[d] = IF d = c THEN Idle ELSE call[d]
    BY <1>1 DEF Inv, Typed, Done, Idle, CallShape, Verdicts
  <2> QED BY <2>1 DEF Inv, Typed, ResultsDecided, CallsDecided, StillOpen, Newest, Idle
<1>2. CASE /\ call[c].pc \in {"result", "node", "run", "await"}
           /\ \E pc \in {"node", "run", "await", "resume"} : Goto(c, pc)
  <2>1. PICK pc \in {"node", "run", "await", "resume"} : Goto(c, pc)
    BY <1>2
  <2>2. /\ call' \in [Deciders -> CallShape]
        /\ \A d \in Deciders : d # c => call'[d] = call[d]
        /\ call'[c].of = call[c].of /\ call'[c].verdict = call[c].verdict
    BY <2>1 DEF Inv, Typed, Goto, CallShape, Verdicts
  <2>3. call[c].of \in DOMAIN asked /\ asked[call[c].of].decision = call[c].verdict
    BY <1>2 DEF Inv, CallsDecided
  <2>4. CallsDecided'
    BY <2>2, <2>3, <1>2 DEF Inv, CallsDecided
  <2> QED BY <2>2, <2>4 DEF Inv, Typed, ResultsDecided, StillOpen, Newest
<1> QED BY <1>1, <1>2

-----------------------------------------------------------------------------
LEMMA ExecutionKeeps == ASSUME Inv, Execution \/ AgentFails \/ FinalizeFails \/ Crash PROVE Inv'
<1>1. ASSUME \/ Claim \/ Enter \/ InterruptNode \/ Reopen \/ Reopened \/ Start \/ StartNode \/ Started
             \/ AgentCompletes \/ AwaitGate \/ Await \/ PauseNode \/ PauseRun \/ Settle
             \/ WritePassed \/ Finish \/ StopRun \/ AgentFails \/ FinalizeFails \/ Crash
      PROVE  Inv'
  <2>1. UNCHANGED <<asked, call>>
    BY <1>1 DEF Claim, Enter, InterruptNode, Reopen, Reopened, Start, StartNode, Started, AgentCompletes,
                AwaitGate, Await, PauseNode, PauseRun, Settle, WritePassed, Finish, StopRun,
                AgentFails, FinalizeFails, Crash, Judge
  <2>2. ex' \notin {"decide", "final", "pass", "passing"}
    BY <1>1 DEF Claim, Enter, InterruptNode, Reopen, Reopened, Start, StartNode, Started, AgentCompletes,
                AwaitGate, Await, PauseNode, PauseRun, Settle, WritePassed, Finish, StopRun,
                AgentFails, FinalizeFails, Crash, Judge, Continues, Throws, Interrupts, Ends
  <2> QED BY <2>1, <2>2, Untouched
<1>2. ASSUME Finalize \/ Pass PROVE Inv'
  BY <1>2, Untouched DEF Finalize, Pass, Judge, Continues, Throws, Ends
<1>3. ASSUME RunGate PROVE Inv'
  <2>1. CASE Opens /\ Continues("final") /\ UNCHANGED asked
    <3>1. asked # <<>> /\ Len(asked) \in DOMAIN asked /\ Newest.result = "passed"
      BY <2>1 DEF Opens, Inv, Typed, Newest
    <3>2. Newest.decision = "approved"
      BY <3>1 DEF Inv, ResultsDecided, Newest
    <3> QED BY <1>3, <2>1, <3>1, <3>2 DEF RunGate, Continues, Inv, Typed, ResultsDecided,
                                      CallsDecided, StillOpen, Newest
  <2>2. CASE /\ asked' = Append(asked, [decision |-> "none", result |-> "blocked"])
             /\ Continues("decide")
    <3> DEFINE q == [decision |-> "none", result |-> "blocked"]
    <3>1. q \in Question
      BY DEF Question
    <3>2. /\ asked' \in Seq(Question) /\ Len(asked') = Len(asked) + 1
          /\ asked'[Len(asked) + 1] = q
          /\ \A i \in DOMAIN asked : i \in DOMAIN asked' /\ asked'[i] = asked[i]
          /\ \A i \in DOMAIN asked' : i \in DOMAIN asked \/ i = Len(asked) + 1
      BY <2>2, <3>1 DEF Inv, Typed
    <3>3. UNCHANGED call /\ ex' = "decide"
      BY <1>3, <2>2 DEF RunGate, Continues
    <3>4. Typed'
      BY <3>2, <3>3 DEF Inv, Typed
    <3>5. ResultsDecided'
      BY <3>2 DEF Inv, ResultsDecided
    <3>6. CallsDecided'
      BY <3>2, <3>3 DEF Inv, CallsDecided
    <3>7. StillOpen'
      BY <3>2, <3>3 DEF StillOpen, Newest, Inv, Typed
    <3> QED BY <3>4, <3>5, <3>6, <3>7 DEF Inv
  <2>3. CASE Interrupts /\ UNCHANGED asked
    BY <1>3, <2>3, Untouched DEF RunGate, Interrupts, Continues
  <2> QED BY <1>3, <2>1, <2>2, <2>3 DEF RunGate
<1>4. ASSUME CreateDecision PROVE Inv'
  <2>1. CASE run \in Over
    BY <1>4, <2>1, Untouched DEF CreateDecision, Interrupts, Continues
  <2>2. CASE run \notin Over
    <3> DEFINE n == Len(asked)
    <3>1. n \in DOMAIN asked /\ asked[n] = [decision |-> "none", result |-> "blocked"]
      <4>1. ex = "decide"
        BY <1>4 DEF CreateDecision
      <4>2. asked # <<>> /\ Newest = [decision |-> "none", result |-> "blocked"]
        BY <4>1 DEF Inv, StillOpen
      <4> QED BY <4>2 DEF Inv, Typed, Newest
    <3>2. asked' = [asked EXCEPT ![n].decision = "pending"] /\ UNCHANGED call /\ ex' = "pause-node"
      BY <1>4, <2>2 DEF CreateDecision, Continues
    <3>3. /\ asked' \in Seq(Question) /\ DOMAIN asked' = DOMAIN asked
          /\ asked'[n].decision = "pending" /\ asked'[n].result = "blocked"
          /\ \A i \in DOMAIN asked : i # n => asked'[i] = asked[i]
      <4>1. asked \in Seq(Question) /\ asked[n] \in Question
        BY <3>1 DEF Inv, Typed
      <4> DEFINE q == [asked[n] EXCEPT !.decision = "pending"]
      <4>2. q \in Question /\ q.decision = "pending" /\ q.result = asked[n].result
        BY <4>1, <3>1, Shapes
      <4>3. asked' = [asked EXCEPT ![n] = q]
        BY <3>2
      <4> HIDE DEF q, n
      <4> QED BY <4>1, <4>2, <4>3, <3>1, OneChanges
    <3>4. \A c \in Deciders : call[c].pc \in {"result", "node", "run", "await", "resume"}
                              => call[c].of # n
      BY <3>1 DEF Inv, CallsDecided, Typed, CallShape, Verdicts
    <3>5. Typed' /\ StillOpen'
      BY <3>2, <3>3 DEF Inv, Typed, StillOpen, CallShape
    <3>6. ResultsDecided'
      BY <3>3 DEF Inv, ResultsDecided
    <3>7. CallsDecided'
      BY <3>2, <3>3, <3>4 DEF Inv, CallsDecided
    <3> QED BY <3>5, <3>6, <3>7 DEF Inv
  <2> QED BY <2>1, <2>2
<1> QED BY <1>1, <1>2, <1>3, <1>4 DEF Execution

LEMMA BeginKeeps ==
  ASSUME Inv, NEW c \in Deciders, NEW path \in {"cli", "web"}, NEW v \in Verdicts,
         NEW d \in DOMAIN asked, Begin(c, path, v, d)
  PROVE  Inv'
<1>1. /\ call' = [call EXCEPT ![c] = [pc |-> "decide", path |-> path, verdict |-> v, of |-> d]]
      /\ UNCHANGED <<asked, ex>>
  BY DEF Begin
<1>2. call' \in [Deciders -> CallShape]
  BY <1>1 DEF Inv, Typed, CallShape
<1>3. CallsDecided'
  BY <1>1 DEF Inv, CallsDecided, Typed
<1> QED BY <1>1, <1>2, <1>3 DEF Inv, Typed, ResultsDecided, StillOpen, Newest

LEMMA DecideKeeps == ASSUME Inv, NEW c \in Deciders, Decide(c) PROVE Inv'
<1>1. CASE asked[call[c].of].decision # "pending"
  BY <1>1, GoesOn DEF Decide
<1>2. CASE asked[call[c].of].decision = "pending"
  <2> DEFINE d == call[c].of
             v == call[c].verdict
  <2>1. d \in DOMAIN asked /\ v \in Verdicts /\ call[c].pc = "decide"
    BY DEF Decide, At, Inv, CallsDecided, Typed, CallShape
  <2>2. /\ asked' = [asked EXCEPT ![d].decision = v] /\ UNCHANGED ex
        /\ call' = [call EXCEPT ![c].pc = "result"]
    BY <1>2 DEF Decide, Goto
  <2>3. /\ asked' \in Seq(Question) /\ DOMAIN asked' = DOMAIN asked /\ Len(asked') = Len(asked)
        /\ asked'[d].decision = v /\ asked'[d].result = asked[d].result
        /\ \A i \in DOMAIN asked : i # d => asked'[i] = asked[i]
    <3>1. asked \in Seq(Question) /\ asked[d] \in Question
      BY <2>1 DEF Inv, Typed
    <3> DEFINE q == [asked[d] EXCEPT !.decision = v]
    <3>2. q \in Question /\ q.decision = v /\ q.result = asked[d].result
      BY <3>1, <2>1, Shapes
    <3>3. asked' = [asked EXCEPT ![d] = q]
      BY <2>2
    <3> HIDE DEF q, d, v
    <3> QED BY <3>1, <3>2, <3>3, <2>1, OneChanges
  <2>4. /\ call' \in [Deciders -> CallShape] /\ call'[c].of = d /\ call'[c].verdict = v
        /\ \A b \in Deciders : b # c => call'[b] = call[b]
    BY <2>2 DEF Inv, Typed, CallShape
  <2>5. asked[d].result # "passed"
    BY <1>2, <2>1 DEF Inv, ResultsDecided
  <2>6. \A b \in Deciders : call[b].pc \in {"result", "node", "run", "await", "resume"}
                            => call[b].of # d
    BY <1>2, <2>1 DEF Inv, CallsDecided, Typed, CallShape, Verdicts
  <2>7. ResultsDecided'
    BY <2>3, <2>5 DEF Inv, ResultsDecided
  <2>8. CallsDecided'
    BY <2>1, <2>3, <2>4, <2>6 DEF Inv, CallsDecided
  <2>9. StillOpen'
    <3>1. asked # <<>> => Len(asked) \in DOMAIN asked /\ asked' # <<>>
      BY <2>3 DEF Inv, Typed
    <3>2. Len(asked) = d => ex \notin {"decide", "final", "pass", "passing"}
      BY <1>2 DEF Inv, StillOpen, Newest
    <3> QED BY <2>2, <2>3, <3>1, <3>2 DEF Inv, StillOpen, Newest
  <2> QED BY <2>3, <2>4, <2>7, <2>8, <2>9 DEF Inv, Typed
<1> QED BY <1>1, <1>2

LEMMA WriteResultKeeps == ASSUME Inv, NEW c \in Deciders, WriteResult(c) PROVE Inv'
<1> DEFINE d == call[c].of
           r == IF Approves(c) THEN "passed" ELSE "failed"
<1>1. /\ call[c].pc = "result" /\ d \in DOMAIN asked
      /\ asked[d].decision = call[c].verdict /\ call[c].verdict \in Verdicts
  BY DEF WriteResult, At, Inv, CallsDecided, Typed, CallShape
<1>2. asked' = [asked EXCEPT ![d].result = r] /\ call' = [call EXCEPT ![c].pc = "node"] /\ UNCHANGED ex
  BY DEF WriteResult, Goto
<1>3. /\ asked' \in Seq(Question) /\ DOMAIN asked' = DOMAIN asked /\ Len(asked') = Len(asked)
      /\ asked'[d].result = r
      /\ \A i \in DOMAIN asked : asked'[i].decision = asked[i].decision /\ (i # d => asked'[i] = asked[i])
  <2>1. asked \in Seq(Question) /\ asked[d] \in Question /\ r \in {"passed", "failed"}
    BY <1>1 DEF Inv, Typed
  <2> HIDE DEF d, r
  <2> DEFINE q == [asked[d] EXCEPT !.result = r]
  <2>2. q \in Question /\ q.result = r /\ q.decision = asked[d].decision
    BY <2>1, <1>1, Shapes
  <2>3. asked' = [asked EXCEPT ![d] = q]
    BY <1>2
  <2> HIDE DEF q
  <2> QED BY <2>1, <2>2, <2>3, <1>1, OneChanges
<1>4. /\ call' \in [Deciders -> CallShape] /\ call'[c].of = d /\ call'[c].verdict = call[c].verdict
      /\ \A b \in Deciders : b # c => call'[b] = call[b]
  BY <1>2 DEF Inv, Typed, CallShape
<1>5. ResultsDecided'
  BY <1>1, <1>3 DEF Inv, ResultsDecided, Approves
<1>6. CallsDecided'
  BY <1>1, <1>3, <1>4 DEF Inv, CallsDecided
<1>7. StillOpen'
  <2>1. asked # <<>> => Len(asked) \in DOMAIN asked /\ asked' # <<>>
    BY <1>3 DEF Inv, Typed
  <2>2. Len(asked) = d => ex # "decide"
    BY <1>1 DEF Inv, StillOpen, Newest, Verdicts
  <2> QED BY <1>2, <1>3, <2>1, <2>2 DEF Inv, StillOpen, Newest
<1> QED BY <1>3, <1>4, <1>5, <1>6, <1>7 DEF Inv, Typed

LEMMA InvNext == Inv /\ [Next]_vars => Inv'
<1> SUFFICES ASSUME Inv, [Next]_vars PROVE Inv'
  OBVIOUS
<1>1. ASSUME Execution \/ AgentFails \/ FinalizeFails \/ Crash PROVE Inv'
  BY <1>1, ExecutionKeeps
<1>2. ASSUME Resume \/ Cancel PROVE Inv'
  BY <1>2, Untouched DEF Resume, Enqueue, Cancel
<1>3. ASSUME NEW c \in Deciders, NEW d \in DOMAIN asked, NEW path \in {"cli", "web"},
             Approve(c, path, d) \/ ApproveHastily(c, path, d) \/ Reject(c, path, d)
      PROVE  Inv'
  BY <1>3, BeginKeeps DEF Approve, ApproveHastily, Reject, Verdicts
<1>4. ASSUME NEW c \in Deciders, CallStep(c) PROVE Inv'
  <2>1. ASSUME WriteNode(c) PROVE Inv'
    BY <2>1, GoesOn DEF WriteNode, At
  <2>2. ASSUME WriteRun(c) PROVE Inv'
    BY <2>2, GoesOn DEF WriteRun, At
  <2>3. ASSUME WriteAwait(c) PROVE Inv'
    BY <2>3, GoesOn DEF WriteAwait, At
  <2>4. ASSUME ResumeAfter(c) PROVE Inv'
    BY <2>4, GoesOn DEF ResumeAfter, Enqueue
  <2> QED BY <1>4, <2>1, <2>2, <2>3, <2>4, DecideKeeps, WriteResultKeeps DEF CallStep
<1>5. ASSUME NEW c \in Deciders, CallEnds(c) PROVE Inv'
  BY <1>5, GoesOn DEF CallEnds
<1>6. CASE UNCHANGED vars
  BY <1>6, Untouched DEF vars
<1> QED BY <1>1, <1>2, <1>3, <1>4, <1>5, <1>6 DEF Next, Approval

LEMMA Invariance == Spec => []Inv
  BY InvInit, InvNext, PTL DEF Spec

-----------------------------------------------------------------------------
(* Types.                                                                  *)

Places == {"none", "queued", "enter", "failing", "reopen", "reopened", "start", "starting",
           "started", "agent", "await", "awaiting", "gate", "decide", "pause-node",
           "pause-run", "settle", "final", "pass", "passing", "rest", "interrupted"}
Nodes == {"pending", "running", "awaiting-gate", "passed", "blocked", "paused", "interrupted"}
Runs == {"running", "paused", "blocked", "interrupted"} \cup Over

\* What is not a question or a call.
Plain ==
    /\ run \in Runs /\ node \in Nodes /\ ex \in Places
    /\ agent \in BOOLEAN /\ lease \in BOOLEAN /\ faults \in 0..MaxFaults

\* A call that is over speaks of nothing.
Resting == \A c \in Deciders : call[c].pc = "idle" => call[c].of = 0

LEMMA FaultCounts == ASSUME Plain, Fault PROVE faults' \in 0..MaxFaults
  BY BoundsAssumption DEF Plain, Fault

LEMMA ActiveRuns == ASSUME Plain, NEW to \in Runs PROVE IfActive(to) \in Runs
  BY DEF Plain, IfActive

LEMMA ExecutionPlain ==
  ASSUME Plain, Execution \/ AgentFails \/ FinalizeFails \/ Crash
  PROVE  Plain'
<1>1. \A to \in Runs : IfActive(to) \in Runs
  BY ActiveRuns
<1>2. {"running", "interrupted", "paused", "passed"} \subseteq Runs
  BY DEF Runs, Over
<1> USE <1>1, <1>2
<1>3. ASSUME \/ Claim \/ Reopened \/ AgentCompletes \/ PauseNode \/ PauseRun \/ Settle \/ StopRun
             \/ InterruptNode \/ Reopen \/ StartNode \/ Await \/ WritePassed
      PROVE  Plain'
  BY <1>3 DEF Plain, Places, Nodes, Claim, Reopened, AgentCompletes, PauseNode, PauseRun, Settle,
              StopRun, InterruptNode, Reopen, StartNode, Await, WritePassed,
              Continues, Throws, Ends, Interrupts, work
<1>4. ASSUME Enter \/ Start \/ AwaitGate \/ Pass PROVE Plain'
  BY <1>4 DEF Plain, Places, Nodes, Enter, Start, AwaitGate, Pass, Judge, Continues, Throws, Ends,
              work
<1>5. ASSUME Started \/ RunGate \/ CreateDecision \/ Finalize \/ Finish PROVE Plain'
  BY <1>5 DEF Plain, Places, Nodes, Started, RunGate, CreateDecision, Finalize, Finish,
              Continues, Throws, Ends, Interrupts, work
<1>6. ASSUME AgentFails \/ FinalizeFails \/ Crash PROVE Plain'
  BY <1>6, FaultCounts DEF Plain, Places, Nodes, AgentFails, FinalizeFails, Crash, Ends, Interrupts,
                           Continues, work
<1> QED BY <1>3, <1>4, <1>5, <1>6 DEF Execution

LEMMA PeoplePlain ==
  ASSUME Plain, NEW c \in Deciders,
         \/ Resume \/ Cancel \/ CallStep(c) \/ CallEnds(c)
         \/ \E d \in DOMAIN asked, path \in {"cli", "web"} :
               Approve(c, path, d) \/ ApproveHastily(c, path, d) \/ Reject(c, path, d)
  PROVE  Plain'
<1>1. \A to \in Runs : IfActive(to) \in Runs
  BY ActiveRuns
<1>2. {"running", "blocked", "cancelled"} \subseteq Runs
  BY DEF Runs, Over
<1>3. ASSUME Resume \/ Cancel \/ CallEnds(c) PROVE Plain'
  BY <1>2, <1>3, FaultCounts DEF Plain, Places, Nodes, Resume, Enqueue, Cancel, CallEnds, work
<1>4. ASSUME CallStep(c) PROVE Plain'
  BY <1>1, <1>2, <1>4 DEF Plain, Places, Nodes, CallStep, Decide, WriteResult, WriteNode, WriteRun,
                          WriteAwait, ResumeAfter, Enqueue, work
<1>5. ASSUME NEW d \in DOMAIN asked, NEW path \in {"cli", "web"},
             Approve(c, path, d) \/ ApproveHastily(c, path, d) \/ Reject(c, path, d)
      PROVE  Plain'
  BY <1>5, FaultCounts DEF Plain, Approve, ApproveHastily, Reject, Begin, work
<1> QED BY <1>3, <1>4, <1>5

\* Asking is the only step that adds a question.
LEMMA AskedBounded ==
  ASSUME Inv, Len(asked) <= MaxAsked, [Next]_vars
  PROVE  Len(asked') <= MaxAsked
<1>1. \A d \in DOMAIN asked : \A q : Len([asked EXCEPT ![d] = q]) = Len(asked)
  BY DEF Inv, Typed
<1>2. ASSUME RunGate PROVE Len(asked') <= MaxAsked
  BY <1>2, BoundsAssumption DEF RunGate, Inv, Typed
<1>3. ASSUME CreateDecision PROVE Len(asked') <= MaxAsked
  BY <1>3, <1>1 DEF CreateDecision, Inv, Typed
<1>4. ASSUME NEW c \in Deciders, Decide(c) \/ WriteResult(c) PROVE Len(asked') <= MaxAsked
  BY <1>4, <1>1 DEF Decide, WriteResult, Inv, Typed
<1> QED BY <1>2, <1>3, <1>4 DEF Next, Execution, Approval, CallStep, Claim, Enter, InterruptNode, Reopen,
           Reopened, Start, StartNode, Started, AgentCompletes, AwaitGate, Await, PauseNode, PauseRun,
           Settle, Finalize, Pass, WritePassed, Finish, StopRun, Judge, AgentFails, FinalizeFails,
           Crash, Resume, Cancel, Approve, ApproveHastily, Reject, Begin, WriteNode, WriteRun,
           WriteAwait, ResumeAfter, CallEnds, vars

LEMMA RestingKept ==
  ASSUME Inv, Resting, [Next]_vars
  PROVE  Resting'
<1>1. ASSUME UNCHANGED call PROVE Resting'
  BY <1>1 DEF Resting
<1>2. ASSUME NEW c \in Deciders,
             \/ Done(c)
             \/ \E pc \in {"result", "node", "run", "await", "resume"} : Goto(c, pc)
             \/ \E d \in DOMAIN asked, path \in {"cli", "web"}, v \in Verdicts : Begin(c, path, v, d)
      PROVE  Resting'
  BY <1>2 DEF Resting, Done, Goto, Begin, Idle, Inv, Typed, CallShape
<1>3. ASSUME NEW c \in Deciders, CallStep(c) \/ CallEnds(c) PROVE Resting'
  BY <1>2, <1>3 DEF CallStep, CallEnds, Decide, WriteResult, WriteNode, WriteRun, WriteAwait,
                    ResumeAfter
<1>4. ASSUME NEW c \in Deciders, NEW d \in DOMAIN asked, NEW path \in {"cli", "web"},
             Approve(c, path, d) \/ ApproveHastily(c, path, d) \/ Reject(c, path, d)
      PROVE  Resting'
  BY <1>2, <1>4 DEF Approve, ApproveHastily, Reject, Verdicts
<1>5. ASSUME Execution \/ AgentFails \/ FinalizeFails \/ Crash \/ Resume \/ Cancel \/ UNCHANGED vars
      PROVE  Resting'
  BY <1>1, <1>5 DEF Execution, Claim, Enter, InterruptNode, Reopen, Reopened, Start, StartNode, Started,
           AgentCompletes, AwaitGate, Await, RunGate, CreateDecision, PauseNode, PauseRun, Settle,
           Finalize, Pass, WritePassed, Finish, StopRun, Judge, AgentFails, FinalizeFails, Crash,
           Resume, Cancel, vars
<1> QED BY <1>3, <1>4, <1>5 DEF Next, Approval

Bounded == Plain /\ Resting /\ Len(asked) <= MaxAsked

\* human-gate.ts and the approvals: every status that is written is one that its row may
\* have, and every decision speaks of a gate result that was written, for any number of
\* people and failures.
THEOREM TypeCorrect == Spec => []TypeOK
<1>1. Init => Bounded
  <2>1. Init => run \in Runs /\ node \in Nodes /\ ex \in Places /\ faults \in 0..MaxFaults
    BY BoundsAssumption DEF Init, Runs, Nodes, Places
  <2>2. Init => agent \in BOOLEAN /\ lease \in BOOLEAN
    BY DEF Init
  <2>3. Init => Resting /\ Len(asked) <= MaxAsked
    BY BoundsAssumption DEF Init, Resting, Idle
  <2> QED BY <2>1, <2>2, <2>3 DEF Bounded, Plain
<1>2. Inv /\ Bounded /\ [Next]_vars => Bounded'
  <2> SUFFICES ASSUME Inv, Bounded, [Next]_vars PROVE Bounded'
    OBVIOUS
  <2>1. CASE Execution \/ AgentFails \/ FinalizeFails \/ Crash
    BY <2>1, ExecutionPlain, AskedBounded, RestingKept DEF Bounded
  <2>2. CASE UNCHANGED vars
    BY <2>2, AskedBounded, RestingKept DEF Bounded, Plain, vars
  <2>3. CASE Resume \/ Cancel
    <3>1. Plain'
      BY <2>3, FaultCounts DEF Bounded, Plain, Runs, Over, Nodes, Places, Resume, Enqueue, Cancel, work
    <3> QED BY <3>1, AskedBounded, RestingKept DEF Bounded
  <2>4. ASSUME NEW c \in Deciders,
               \/ CallStep(c) \/ CallEnds(c)
               \/ \E d \in DOMAIN asked, path \in {"cli", "web"} :
                     Approve(c, path, d) \/ ApproveHastily(c, path, d) \/ Reject(c, path, d)
        PROVE  Bounded'
    BY <2>4, PeoplePlain, AskedBounded, RestingKept DEF Bounded
  <2> QED BY <2>1, <2>2, <2>3, <2>4 DEF Next, Approval
<1>3. Inv /\ Bounded => TypeOK
  <2> SUFFICES ASSUME Inv, Bounded PROVE TypeOK
    OBVIOUS
  <2> DEFINE Shape == [pc : {"idle", "decide", "result", "node", "run", "await", "resume"},
                       path : {"cli", "web"}, verdict : {"approved", "rejected"}, of : 0..MaxAsked]
  <2>1. \A c \in Deciders : call[c] \in Shape
    <3> SUFFICES ASSUME NEW c \in Deciders PROVE call[c] \in Shape
      OBVIOUS
    <3>1. call[c] \in CallShape /\ asked \in Seq(Question) /\ Len(asked) <= MaxAsked
      BY DEF Inv, Typed, Bounded
    <3>2. call[c].of \in DOMAIN asked \/ call[c].of = 0
      BY <3>1 DEF Inv, CallsDecided, Bounded, Resting
    <3>3. call[c].of \in 0..MaxAsked
      BY <3>1, <3>2, BoundsAssumption
    <3> QED BY <3>1, <3>3 DEF CallShape, Verdicts
  <2>2. call \in [Deciders -> Shape]
    BY <2>1 DEF Inv, Typed
  <2> QED BY <2>2 DEF TypeOK, Inv, Typed, Bounded, Plain, Runs, Nodes, Places
<1>4. Spec => []Bounded
  BY <1>1, <1>2, Invariance, PTL DEF Spec
<1> QED BY <1>3, <1>4, Invariance, PTL

-----------------------------------------------------------------------------
\* human-gate.ts: whatever fails between two writes, whoever decides what at the same
\* time, and however often the run is resumed in between, no node passes its human gate
\* unless the question asked last was approved.
THEOREM OnlyApproved == Spec => PassesOnlyApproved
<1>1. ASSUME Inv, [Next]_vars, node # "passed", node' = "passed"
      PROVE  asked # <<>> /\ asked[Len(asked)].decision = "approved"
  <2>1. WritePassed
    <3>1. Execution => WritePassed
      BY <1>1 DEF Execution, Claim, Enter, InterruptNode, Reopen, Reopened, Start, StartNode, Started,
                  AgentCompletes, AwaitGate, Await, RunGate, CreateDecision, PauseNode, PauseRun,
                  Settle, Finalize, Pass, Finish, StopRun, Judge, Throws, Interrupts
    <3>2. ~(AgentFails \/ FinalizeFails \/ Crash \/ Resume \/ Cancel)
      BY <1>1 DEF AgentFails, FinalizeFails, Crash, Resume, Cancel, Enqueue, Interrupts
    <3>3. \A c \in Deciders : ~CallStep(c) /\ ~CallEnds(c)
      BY <1>1 DEF CallStep, Decide, WriteResult, WriteNode, WriteRun, WriteAwait, ResumeAfter,
                  Enqueue, CallEnds
    <3>4. \A c \in Deciders, d \in DOMAIN asked, path \in {"cli", "web"} :
              ~(Approve(c, path, d) \/ ApproveHastily(c, path, d) \/ Reject(c, path, d))
      BY <1>1 DEF Approve, ApproveHastily, Reject, Begin
    <3> QED BY <1>1, <3>1, <3>2, <3>3, <3>4 DEF Next, Approval, vars
  <2> QED BY <1>1, <2>1 DEF WritePassed, Inv, StillOpen, Newest
<1>2. Inv /\ [Next]_vars
      => [node # "passed" /\ node' = "passed"
          => asked # <<>> /\ asked[Len(asked)].decision = "approved"]_vars
  BY <1>1
<1> QED BY <1>2, Invariance, PTL DEF Spec, PassesOnlyApproved
=============================================================================
