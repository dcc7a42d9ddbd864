-------------------------- MODULE DeliveryPrProofs --------------------------
(***************************************************************************)
(* Proofs about DeliveryPr, for every set of callers and preparers and any *)
(* number of calls, deaths and stray commands.                             *)
(*                                                                         *)
(* What holds whatever overlaps (Grounded): a row, and every copy of it in *)
(* a process, names a pull request only if there is one; a command is the  *)
(* one its caller waits for, and has done what it reports.  What holds as  *)
(* long as operations did not overlap (Serial): a copy that is about to be *)
(* written back is the row, whoever pushes has the approval on the row,    *)
(* and a command that nobody waits for any more was run with it.           *)
(***************************************************************************)
EXTENDS DeliveryPr, TLAPS

Places == {"idle", "status", "upsert", "probe", "push", "pushing", "mark",
           "marking", "create", "creating", "view", "viewing", "record", "fail"}
Calls == [pc : Places, approved : BOOLEAN, seen : Rows \cup {None}]
Preps == [pc : {"idle", "preparing"}, seen : Rows \cup {None}]

Typed ==
    /\ row \in Rows \cup {None}
    /\ remote \in [branch : BOOLEAN, pr : BOOLEAN]
    /\ call \in [Callers -> Calls]
    /\ prep \in [Preparers -> Preps]
    /\ announced \in BOOLEAN /\ overlap \in BOOLEAN
    /\ cmd \in [Callers -> Commands]
    /\ stray \subseteq Tools

-----------------------------------------------------------------------------
(* Whatever overlaps.                                                      *)

\* A row, or a copy of one, that says created has a URL; a URL names a pull request.
True(r) == r # None => /\ r.status = "created" => r.url
                       /\ r.url => remote.pr

RowsTrue == /\ True(row)
            /\ \A c \in Callers : True(call[c].seen)
            /\ \A p \in Preparers : True(prep[p].seen)

\* What a command that did its work has left on the host.
Done(tool) == /\ tool = "push" => remote.branch
              /\ tool \in {"create", "view"} => remote.pr

\* Its caller waits for it, and it has done what it reports.
CommandFits(c) ==
    /\ cmd[c].tool = "push" <=> call[c].pc = "pushing"
    /\ cmd[c].tool = "create" <=> call[c].pc = "creating"
    /\ cmd[c].tool = "view" <=> call[c].pc = "viewing"
    /\ cmd[c].stage = "none" <=> cmd[c].tool = "none"
    /\ cmd[c].did => Done(cmd[c].tool)
    /\ cmd[c].result = "ok" => cmd[c].did

\* A call that is past its upsert finds the row; one that records has a pull request.
CallGrounded(c) ==
    /\ call[c].pc \notin {"idle", "status", "upsert"} => row # None
    /\ call[c].pc = "marking" => call[c].seen # None
    /\ call[c].pc = "record" => remote.pr

Grounded == /\ RowsTrue
            /\ remote.pr => remote.branch
            /\ \A c \in Callers : CommandFits(c) /\ CallGrounded(c)

-----------------------------------------------------------------------------
(* As long as operations did not overlap.                                  *)

Alone ==
    /\ \A c, d \in Callers : call[c].pc # "idle" /\ call[d].pc # "idle" => c = d
    /\ \A p, q \in Preparers : prep[p].pc # "idle" /\ prep[q].pc # "idle" => p = q
    /\ \A c \in Callers, p \in Preparers : call[c].pc = "idle" \/ prep[p].pc = "idle"

\* A copy that is about to be written back is the row.
Fresh == /\ \A c \in Callers : call[c].pc \in {"upsert", "marking"} => call[c].seen = row
         /\ \A p \in Preparers : prep[p].pc = "preparing" => prep[p].seen = row

Approved == row # None /\ row.approved

Acting == {"push", "pushing", "mark", "marking", "create", "creating", "view",
           "viewing", "record"}

\* Whoever pushes, creates or looks has the approval on the row.
ActsApproved(c) ==
    call[c].pc \in Acting \/ (call[c].pc = "probe" /\ call[c].approved) => Approved

OnRecord == remote.branch \/ stray # {} => Approved

Serial == /\ Alone
          /\ Fresh
          /\ \A c \in Callers : ActsApproved(c)
          /\ OnRecord
          /\ announced => Created(row) /\ ~Busy

Inv == Typed /\ Grounded /\ (~overlap => Serial)

LEMMA Implied == Inv => TypeOK /\ EffectIsOnRecord /\ AnnouncedIsRecorded
  BY DEF Inv, Typed, Grounded, RowsTrue, True, CallGrounded, Serial, OnRecord, Approved,
         TypeOK, EffectIsOnRecord, AnnouncedIsRecorded, Calls, Places

-----------------------------------------------------------------------------
(* What a step does to one call, to its command and to the row.            *)

Goes(c, pc, seen) ==
    /\ call' \in [Callers -> Calls]
    /\ call'[c].pc = pc /\ call'[c].approved = call[c].approved /\ call'[c].seen = seen
    /\ \A d \in Callers : d # c => call'[d] = call[d]

LEMMA GotoGoes ==
  ASSUME Typed, NEW c \in Callers, NEW from, NEW to \in Places, Goto(c, from, to)
  PROVE  call[c].pc = from /\ Goes(c, to, call[c].seen)
  BY DEF Typed, Calls, Goto, Goes

LEMMA ReadGoes ==
  ASSUME Typed, NEW c \in Callers, NEW pc \in Places,
         call' = [call EXCEPT ![c] = [@ EXCEPT !.pc = pc, !.seen = row]]
  PROVE  Goes(c, pc, row)
  BY DEF Typed, Calls, Goes

\* The row is written from r, with a status.
Writes(r, status) == /\ row' \in Rows /\ row'.status = status
                     /\ row'.url = r.url /\ row'.approved = r.approved

LEMMA WriteStatus ==
  ASSUME NEW r \in Rows, NEW status \in Statuses, row' = [r EXCEPT !.status = status]
  PROVE  Writes(r, status)
  BY DEF Writes, Rows

Commanded(c, stage, tool, did, result) ==
    /\ cmd' \in [Callers -> Commands]
    /\ cmd'[c].stage = stage /\ cmd'[c].tool = tool
    /\ cmd'[c].did = did /\ cmd'[c].result = result
    /\ \A d \in Callers : d # c => cmd'[d] = cmd[d]

LEMMA Fields ==
  ASSUME Typed, NEW c \in Callers
  PROVE  /\ call[c].pc \in Places /\ call[c].approved \in BOOLEAN
         /\ call[c].seen \in Rows \cup {None}
         /\ cmd[c].stage \in {"none", "running", "terminating", "killing", "settled"}
         /\ cmd[c].tool \in Tools \cup {"none"} /\ cmd[c].did \in BOOLEAN
         /\ cmd[c].result \in {"none", "ok", "failed"}
  BY DEF Typed, Calls, Commands

LEMMA RunCommands ==
  ASSUME Typed, NEW c \in Callers, NEW tool \in Tools, Run(c, tool)
  PROVE  Commanded(c, "running", tool, FALSE, "none") /\ stray' = stray
  BY DEF Typed, Run, NoCommand, Commands, Commanded

LEMMA NoCommands ==
  ASSUME Typed, NEW c \in Callers, cmd' = [cmd EXCEPT ![c] = NoCommand]
  PROVE  Commanded(c, "none", "none", FALSE, "none")
  BY DEF Typed, NoCommand, Commands, Commanded

LEMMA StageCommands ==
  ASSUME Typed, NEW c \in Callers, NEW stage \in {"terminating", "killing"},
         cmd' = [cmd EXCEPT ![c].stage = stage]
  PROVE  Commanded(c, stage, cmd[c].tool, cmd[c].did, cmd[c].result)
  BY DEF Typed, Commands, Commanded

LEMMA SettleCommands ==
  ASSUME Typed, NEW c \in Callers, NEW result \in {"ok", "failed"}, Settle(c, result)
  PROVE  Commanded(c, "settled", cmd[c].tool, cmd[c].did, result)
  BY DEF Typed, Commands, Commanded, Settle

LEMMA WorkCommands ==
  ASSUME Typed, NEW c \in Callers, Work(c)
  PROVE  Commanded(c, cmd[c].stage, cmd[c].tool, TRUE, cmd[c].result) /\ stray' = stray
  BY DEF Typed, Commands, Commanded, Work

-----------------------------------------------------------------------------
(* The initial state, and a step of every kind.                            *)

LEMMA InitInv == Init => Inv
<1> SUFFICES ASSUME Init PROVE Inv
  OBVIOUS
<1> USE DEF Init, GatewayInit
<1>1. Typed
  BY DEF Typed, Calls, Preps, Places, Commands, NoCommand, NoCall, NoPrep
<1>2. \A c \in Callers : /\ call[c].pc = "idle" /\ call[c].seen = None
                         /\ cmd[c].tool = "none" /\ cmd[c].stage = "none"
                         /\ ~cmd[c].did /\ cmd[c].result = "none"
  BY DEF NoCommand, NoCall
<1>3. \A p \in Preparers : prep[p].pc = "idle" /\ prep[p].seen = None
  BY DEF NoPrep
<1>4. Grounded
  BY <1>2, <1>3 DEF Grounded, RowsTrue, True, CommandFits, CallGrounded, Done
<1>5. Serial
  BY <1>2, <1>3 DEF Serial, Alone, Fresh, ActsApproved, Acting, OnRecord
<1> QED BY <1>1, <1>4, <1>5 DEF Inv

LEMMA ReadStateKeeps == ASSUME Inv, NEW c \in Callers, ReadState(c) PROVE Inv'
<1>0. Typed /\ Grounded
  BY DEF Inv
<1>1. call[c].pc = "status" /\ Goes(c, "upsert", row)
  BY <1>0, ReadGoes DEF ReadState, Places
<1>2. UNCHANGED <<row, remote, prep, announced, overlap, cmd, stray>>
  BY DEF ReadState, bounds, gateway
<1>3. Typed'
  BY <1>0, <1>1, <1>2 DEF Typed, Goes
<1>4. Grounded'
  BY <1>0, <1>1, <1>2, Fields, NoneAssumption
  DEF Typed, Grounded, RowsTrue, True, CommandFits, CallGrounded, Done, Goes
<1>5. ASSUME ~overlap' PROVE Serial'
  BY <1>0, <1>1, <1>2, <1>3, <1>5, Fields, NoneAssumption
  DEF Inv, Typed, Grounded, RowsTrue, True, CommandFits, CallGrounded, Done,
      Serial, Alone, Fresh, ActsApproved, Approved, Acting, OnRecord, Created, Busy, Goes
<1> QED BY <1>3, <1>4, <1>5 DEF Inv

\* upsertDeliveryState writes what was read; an approval is added, not removed.
LEMMA UpsertWrites ==
  ASSUME Typed, NEW c \in Callers, UpsertState(c)
  PROVE  /\ call[c].pc = "upsert" /\ Goes(c, "probe", call[c].seen)
         /\ row' \in Rows /\ row'.url = Existing(call[c].seen).url
         /\ row'.status = "created" => Existing(call[c].seen).status = "created"
         /\ row'.approved = (Existing(call[c].seen).approved \/ call[c].approved)
<1> DEFINE r == Existing(call[c].seen)
           status == CASE r.status = "created" -> "created"
                       [] call[c].approved -> "creating-pr"
                       [] OTHER -> "awaiting-approval"
           approved == r.approved \/ call[c].approved
<1>1. r \in Rows /\ call[c].approved \in BOOLEAN
  BY Fields DEF Existing, NewRow, Rows, Statuses
<1>2. approved \in BOOLEAN /\ status \in Statuses /\ (status = "created" => r.status = "created")
  BY DEF Statuses
<1>3. row' = [r EXCEPT !.status = status, !.approved = approved]
  BY DEF UpsertState
<1> HIDE DEF r, status, approved
<1>4. row' \in Rows /\ row'.url = r.url /\ row'.status = status /\ row'.approved = approved
  BY <1>1, <1>2, <1>3 DEF Rows
<1>5. call[c].pc = "upsert" /\ Goes(c, "probe", call[c].seen)
  BY GotoGoes DEF UpsertState, Places
<1> QED BY <1>2, <1>4, <1>5 DEF r, approved

LEMMA UpsertStateKeeps == ASSUME Inv, NEW c \in Callers, UpsertState(c) PROVE Inv'
<1>0. Typed /\ Grounded
  BY DEF Inv
<1>1. /\ call[c].pc = "upsert" /\ Goes(c, "probe", call[c].seen)
      /\ row' \in Rows /\ row'.url = Existing(call[c].seen).url
      /\ row'.status = "created" => Existing(call[c].seen).status = "created"
      /\ row'.approved = (Existing(call[c].seen).approved \/ call[c].approved)
  BY <1>0, UpsertWrites
<1>2. UNCHANGED <<remote, prep, announced, overlap, cmd, stray>>
  BY DEF UpsertState, bounds, gateway
<1>3. Typed'
  BY <1>0, <1>1, <1>2 DEF Typed, Goes
<1>4. Grounded'
  BY <1>0, <1>1, <1>2, Fields, NoneAssumption
  DEF Typed, Grounded, RowsTrue, True, CommandFits, CallGrounded, Done, Goes, Existing,
      NewRow
<1>5. ASSUME ~overlap' PROVE Serial'
  <2>1. ~overlap /\ Serial /\ row' # None
    BY <1>1, <1>2, <1>5, NoneAssumption DEF Inv
  <2>2. call[c].seen = row /\ ~announced
    BY <1>1, <2>1 DEF Serial, Fresh, Busy
  <2>3. /\ Approved => row'.approved
        /\ call[c].approved => row'.approved
    BY <1>0, <1>1, <2>2, Fields DEF Typed, Approved, Existing
  <2>4. Alone' /\ Fresh'
    BY <1>0, <1>1, <1>2, <2>1, <2>2 DEF Typed, Serial, Alone, Fresh, Goes
  <2>5. \A d \in Callers : ActsApproved(d)'
    BY <1>1, <1>2, <2>1, <2>3 DEF Serial, Alone, ActsApproved, Approved, Acting, Goes
  <2>6. OnRecord'
    BY <1>2, <2>1, <2>3 DEF Serial, OnRecord, Approved
  <2> QED BY <1>2, <2>2, <2>4, <2>5, <2>6 DEF Serial
<1> QED BY <1>3, <1>4, <1>5 DEF Inv

LEMMA ProbeKeeps == ASSUME Inv, NEW c \in Callers, Probe(c) PROVE Inv'
<1>0. Typed /\ Grounded
  BY DEF Inv
<1>1. /\ call[c].pc = "probe"
      /\ \/ Goes(c, "fail", call[c].seen)
         \/ Goes(c, "idle", call[c].seen)
         \/ call[c].approved /\ Goes(c, "push", call[c].seen)
  BY <1>0, GotoGoes DEF Probe, Places
<1>2. UNCHANGED <<row, remote, prep, announced, overlap, cmd, stray>>
  BY DEF Probe, bounds, gateway
<1>3. Typed'
  BY <1>0, <1>1, <1>2 DEF Typed, Goes
<1>4. Grounded'
  BY <1>0, <1>1, <1>2, Fields, NoneAssumption
  DEF Typed, Grounded, RowsTrue, True, CommandFits, CallGrounded, Done, Goes
<1>5. ASSUME ~overlap' PROVE Serial'
  BY <1>0, <1>1, <1>2, <1>3, <1>5, Fields, NoneAssumption
  DEF Inv, Typed, Grounded, RowsTrue, True, CommandFits, CallGrounded, Done,
      Serial, Alone, Fresh, ActsApproved, Approved, Acting, OnRecord, Created, Busy, Goes
<1> QED BY <1>3, <1>4, <1>5 DEF Inv

LEMMA PushKeeps == ASSUME Inv, NEW c \in Callers, Push(c) PROVE Inv'
<1>0. Typed /\ Grounded
  BY DEF Inv
<1>1. /\ call[c].pc = "push"
      /\ \/ Goes(c, "pushing", call[c].seen) /\ Commanded(c, "running", "push", FALSE, "none")
         \/ Goes(c, "fail", call[c].seen) /\ cmd' = cmd
  BY <1>0, GotoGoes, RunCommands, ToolsAssumption DEF Push, Places, Remote, gateway
<1>2. UNCHANGED <<row, remote, prep, announced, overlap, stray>>
  BY DEF Push, Run, bounds, gateway
<1>3. Typed'
  BY <1>0, <1>1, <1>2 DEF Typed, Goes, Commanded
<1>4. Grounded'
  BY <1>0, <1>1, <1>2, Fields, NoneAssumption
  DEF Typed, Grounded, RowsTrue, True, CommandFits, CallGrounded, Done, Goes, Commanded
<1>5. ASSUME ~overlap' PROVE Serial'
  BY <1>0, <1>1, <1>2, <1>3, <1>5, Fields, NoneAssumption
  DEF Inv, Typed, Grounded, RowsTrue, True, CommandFits, CallGrounded, Done,
      Serial, Alone, Fresh, ActsApproved, Approved, Acting, OnRecord, Created, Busy, Goes, Commanded
<1> QED BY <1>3, <1>4, <1>5 DEF Inv

LEMMA PushedKeeps == ASSUME Inv, NEW c \in Callers, Pushed(c) PROVE Inv'
<1>0. Typed /\ Grounded
  BY DEF Inv
<1>1. /\ call[c].pc = "pushing" /\ Commanded(c, "none", "none", FALSE, "none")
      /\ \/ cmd[c].result = "ok" /\ Goes(c, "mark", call[c].seen)
         \/ Goes(c, "fail", call[c].seen)
  BY <1>0, GotoGoes, NoCommands DEF Pushed, After, Places
<1>2. UNCHANGED <<row, remote, prep, announced, overlap, stray>>
  BY DEF Pushed, After, bounds
<1>3. Typed'
  BY <1>0, <1>1, <1>2 DEF Typed, Goes, Commanded
<1>4. Grounded'
  BY <1>0, <1>1, <1>2, Fields, NoneAssumption
  DEF Typed, Grounded, RowsTrue, True, CommandFits, CallGrounded, Done, Goes, Commanded
<1>5. ASSUME ~overlap' PROVE Serial'
  BY <1>0, <1>1, <1>2, <1>3, <1>5, Fields, NoneAssumption
  DEF Inv, Typed, Grounded, RowsTrue, True, CommandFits, CallGrounded, Done,
      Serial, Alone, Fresh, ActsApproved, Approved, Acting, OnRecord, Created, Busy, Goes, Commanded
<1> QED BY <1>3, <1>4, <1>5 DEF Inv

LEMMA ReadPushedKeeps == ASSUME Inv, NEW c \in Callers, ReadPushed(c) PROVE Inv'
<1>0. Typed /\ Grounded
  BY DEF Inv
<1>1. call[c].pc = "mark" /\ Goes(c, "marking", row)
  BY <1>0, ReadGoes DEF ReadPushed, Places
<1>2. UNCHANGED <<row, remote, prep, announced, overlap, cmd, stray>>
  BY DEF ReadPushed, bounds, gateway
<1>3. Typed'
  BY <1>0, <1>1, <1>2 DEF Typed, Goes
<1>4. Grounded'
  BY <1>0, <1>1, <1>2, Fields, NoneAssumption
  DEF Typed, Grounded, RowsTrue, True, CommandFits, CallGrounded, Done, Goes
<1>5. ASSUME ~overlap' PROVE Serial'
  BY <1>0, <1>1, <1>2, <1>3, <1>5, Fields, NoneAssumption
  DEF Inv, Typed, Grounded, RowsTrue, True, CommandFits, CallGrounded, Done,
      Serial, Alone, Fresh, ActsApproved, Approved, Acting, OnRecord, Created, Busy, Goes
<1> QED BY <1>3, <1>4, <1>5 DEF Inv

LEMMA MarkWrites ==
  ASSUME Typed, Grounded, NEW c \in Callers, MarkPushed(c)
  PROVE  /\ call[c].pc = "marking" /\ Goes(c, "create", call[c].seen)
         /\ Writes(call[c].seen, "branch-pushed")
<1>1. call[c].pc = "marking" /\ Goes(c, "create", call[c].seen)
  BY GotoGoes DEF MarkPushed, Places
<1>2. call[c].seen \in Rows
  BY <1>1, Fields DEF Grounded, CallGrounded
<1>3. row' = [call[c].seen EXCEPT !.status = "branch-pushed", !.pushed = TRUE]
  BY DEF MarkPushed
<1>4. Writes(call[c].seen, "branch-pushed")
  BY <1>2, <1>3 DEF Writes, Rows, Statuses
<1> QED BY <1>1, <1>4

LEMMA MarkPushedKeeps == ASSUME Inv, NEW c \in Callers, MarkPushed(c) PROVE Inv'
<1>0. Typed /\ Grounded
  BY DEF Inv
<1>1. /\ call[c].pc = "marking" /\ Goes(c, "create", call[c].seen)
      /\ Writes(call[c].seen, "branch-pushed")
  BY <1>0, MarkWrites
<1>2. UNCHANGED <<remote, prep, announced, overlap, cmd, stray>>
  BY DEF MarkPushed, bounds, gateway
<1>3. Typed'
  BY <1>0, <1>1, <1>2 DEF Typed, Goes, Writes
<1>4. Grounded'
  BY <1>0, <1>1, <1>2, Fields, NoneAssumption
  DEF Typed, Grounded, RowsTrue, True, CommandFits, CallGrounded, Done, Goes, Writes
<1>5. ASSUME ~overlap' PROVE Serial'
  BY <1>0, <1>1, <1>2, <1>3, <1>5, Fields, NoneAssumption
  DEF Inv, Typed, Grounded, RowsTrue, True, CommandFits, CallGrounded, Done,
      Serial, Alone, Fresh, ActsApproved, Approved, Acting, OnRecord, Created, Busy, Goes, Writes
<1> QED BY <1>3, <1>4, <1>5 DEF Inv

LEMMA CreateKeeps == ASSUME Inv, NEW c \in Callers, Create(c) PROVE Inv'
<1>0. Typed /\ Grounded
  BY DEF Inv
<1>1. \/ /\ call[c].pc = "create" /\ Goes(c, "creating", call[c].seen)
         /\ Commanded(c, "running", "create", FALSE, "none")
      \/ /\ call[c].pc = "view" /\ Goes(c, "viewing", call[c].seen)
         /\ Commanded(c, "running", "view", FALSE, "none")
  BY <1>0, GotoGoes, RunCommands, ToolsAssumption DEF Create, Places, Remote
<1>2. UNCHANGED <<row, remote, prep, announced, overlap, stray>>
  BY DEF Create, Run, bounds
<1>3. Typed'
  BY <1>0, <1>1, <1>2 DEF Typed, Goes, Commanded
<1>4. Grounded'
  BY <1>0, <1>1, <1>2, Fields, NoneAssumption
  DEF Typed, Grounded, RowsTrue, True, CommandFits, CallGrounded, Done, Goes, Commanded
<1>5. ASSUME ~overlap' PROVE Serial'
  BY <1>0, <1>1, <1>2, <1>3, <1>5, Fields, NoneAssumption
  DEF Inv, Typed, Grounded, RowsTrue, True, CommandFits, CallGrounded, Done,
      Serial, Alone, Fresh, ActsApproved, Approved, Acting, OnRecord, Created, Busy, Goes, Commanded
<1> QED BY <1>3, <1>4, <1>5 DEF Inv

LEMMA CreateEndedKeeps == ASSUME Inv, NEW c \in Callers, CreateEnded(c) PROVE Inv'
<1>0. Typed /\ Grounded
  BY DEF Inv
<1>1. /\ call[c].pc = "creating" /\ Commanded(c, "none", "none", FALSE, "none")
      /\ \/ cmd[c].result = "ok" /\ Goes(c, "record", call[c].seen)
         \/ Goes(c, "view", call[c].seen)
  BY <1>0, GotoGoes, NoCommands DEF CreateEnded, After, Places
<1>2. UNCHANGED <<row, remote, prep, announced, overlap, stray>>
  BY DEF CreateEnded, After, bounds
<1>3. Typed'
  BY <1>0, <1>1, <1>2 DEF Typed, Goes, Commanded
<1>4. Grounded'
  BY <1>0, <1>1, <1>2, Fields, NoneAssumption
  DEF Typed, Grounded, RowsTrue, True, CommandFits, CallGrounded, Done, Goes, Commanded
<1>5. ASSUME ~overlap' PROVE Serial'
  BY <1>0, <1>1, <1>2, <1>3, <1>5, Fields, NoneAssumption
  DEF Inv, Typed, Grounded, RowsTrue, True, CommandFits, CallGrounded, Done,
      Serial, Alone, Fresh, ActsApproved, Approved, Acting, OnRecord, Created, Busy, Goes, Commanded
<1> QED BY <1>3, <1>4, <1>5 DEF Inv

LEMMA ViewEndedKeeps == ASSUME Inv, NEW c \in Callers, ViewEnded(c) PROVE Inv'
<1>0. Typed /\ Grounded
  BY DEF Inv
<1>1. /\ call[c].pc = "viewing" /\ Commanded(c, "none", "none", FALSE, "none")
      /\ \/ cmd[c].result = "ok" /\ Goes(c, "record", call[c].seen)
         \/ Goes(c, "fail", call[c].seen)
  BY <1>0, GotoGoes, NoCommands DEF ViewEnded, After, Places
<1>2. UNCHANGED <<row, remote, prep, announced, overlap, stray>>
  BY DEF ViewEnded, After, bounds
<1>3. Typed'
  BY <1>0, <1>1, <1>2 DEF Typed, Goes, Commanded
<1>4. Grounded'
  BY <1>0, <1>1, <1>2, Fields, NoneAssumption
  DEF Typed, Grounded, RowsTrue, True, CommandFits, CallGrounded, Done, Goes, Commanded
<1>5. ASSUME ~overlap' PROVE Serial'
  BY <1>0, <1>1, <1>2, <1>3, <1>5, Fields, NoneAssumption
  DEF Inv, Typed, Grounded, RowsTrue, True, CommandFits, CallGrounded, Done,
      Serial, Alone, Fresh, ActsApproved, Approved, Acting, OnRecord, Created, Busy, Goes, Commanded
<1> QED BY <1>3, <1>4, <1>5 DEF Inv

LEMMA RecordKeeps == ASSUME Inv, NEW c \in Callers, Record(c) PROVE Inv'
<1>0. Typed /\ Grounded
  BY DEF Inv
<1>1. /\ call[c].pc = "record" /\ Goes(c, "idle", call[c].seen)
      /\ row # None /\ announced' = TRUE
      /\ row' \in Rows /\ row'.status = "created" /\ row'.url /\ row'.approved = row.approved
  <2>1. call[c].pc = "record" /\ Goes(c, "idle", call[c].seen)
    BY <1>0, GotoGoes DEF Record, Places
  <2>2. row # None /\ row \in Rows
    BY <1>0, <2>1 DEF Typed, Grounded, CallGrounded
  <2>3. row' = [row EXCEPT !.status = "created", !.url = TRUE] /\ announced' = TRUE
    BY DEF Record
  <2>4. row' \in Rows /\ row'.status = "created" /\ row'.url /\ row'.approved = row.approved
    BY <2>2, <2>3 DEF Rows, Statuses
  <2> QED BY <2>1, <2>2, <2>3, <2>4
<1>2. UNCHANGED <<remote, prep, overlap, cmd, stray>>
  BY DEF Record, bounds, gateway
<1>3. Typed'
  BY <1>0, <1>1, <1>2 DEF Typed, Goes
<1>4. Grounded'
  BY <1>0, <1>1, <1>2, Fields, NoneAssumption
  DEF Typed, Grounded, RowsTrue, True, CommandFits, CallGrounded, Done, Goes
<1>5. ASSUME ~overlap' PROVE Serial'
  BY <1>0, <1>1, <1>2, <1>3, <1>5, Fields, NoneAssumption
  DEF Inv, Typed, Grounded, RowsTrue, True, CommandFits, CallGrounded, Done,
      Serial, Alone, Fresh, ActsApproved, Approved, Acting, OnRecord, Created, Busy, Goes
<1> QED BY <1>3, <1>4, <1>5 DEF Inv

LEMMA FailKeeps == ASSUME Inv, NEW c \in Callers, Fail(c) PROVE Inv'
<1>0. Typed /\ Grounded
  BY DEF Inv
<1>1. /\ call[c].pc = "fail" /\ Goes(c, "idle", call[c].seen)
      /\ row # None /\ Writes(row, "failed")
  <2>1. call[c].pc = "fail" /\ Goes(c, "idle", call[c].seen)
    BY <1>0, GotoGoes DEF Fail, Places
  <2>2. row # None /\ row \in Rows
    BY <1>0, <2>1 DEF Typed, Grounded, CallGrounded
  <2>3. Writes(row, "failed")
    BY <2>2, WriteStatus DEF Fail, Statuses
  <2> QED BY <2>1, <2>2, <2>3
<1>2. UNCHANGED <<remote, prep, announced, overlap, cmd, stray>>
  BY DEF Fail, bounds, gateway
<1>3. Typed'
  BY <1>0, <1>1, <1>2 DEF Typed, Goes, Writes
<1>4. Grounded'
  BY <1>0, <1>1, <1>2, Fields, NoneAssumption
  DEF Typed, Grounded, RowsTrue, True, CommandFits, CallGrounded, Done, Goes, Writes
<1>5. ASSUME ~overlap' PROVE Serial'
  BY <1>0, <1>1, <1>2, <1>3, <1>5, Fields, NoneAssumption
  DEF Inv, Typed, Grounded, RowsTrue, True, CommandFits, CallGrounded, Done,
      Serial, Alone, Fresh, ActsApproved, Approved, Acting, OnRecord, Created, Busy, Goes, Writes
<1> QED BY <1>3, <1>4, <1>5 DEF Inv

\* A tool that takes effect leaves on the host what it is for, and takes nothing away.
Taken(tool) ==
    /\ remote' \in [branch : BOOLEAN, pr : BOOLEAN]
    /\ remote.branch => remote'.branch
    /\ remote.pr => remote'.pr
    /\ (remote.pr => remote.branch) => (remote'.pr => remote'.branch)
    /\ tool = "push" => remote'.branch
    /\ tool \in {"create", "view"} => remote'.pr

LEMMA TakesFact ==
  ASSUME Typed, NEW tool \in Tools, Takes(tool)
  PROVE  Taken(tool)
<1>1. CASE tool = "push"
  BY <1>1 DEF Typed, Takes, Taken
<1>2. CASE tool = "create"
  BY <1>2 DEF Typed, Takes, Taken
<1>3. CASE tool = "view"
  BY <1>3 DEF Typed, Takes, Taken
<1> QED BY <1>1, <1>2, <1>3, ToolsAssumption DEF Remote

\* A caller that waits for a command, waits for one of the tools.
LEMMA AwaitedTool ==
  ASSUME Typed, Grounded, NEW c \in Callers, cmd[c].stage # "none"
  PROVE  cmd[c].tool \in Tools /\ call[c].pc \in {"pushing", "creating", "viewing"}
  BY Fields, ToolsAssumption DEF Grounded, CommandFits, Remote

LEMMA CommandWorksKeeps == ASSUME Inv, NEW c \in Callers, CommandWorks(c) PROVE Inv'
<1>0. Typed /\ Grounded
  BY DEF Inv
<1>1. /\ Commanded(c, cmd[c].stage, cmd[c].tool, TRUE, cmd[c].result)
      /\ cmd[c].stage # "none" /\ Taken(cmd[c].tool)
  BY <1>0, WorkCommands, TakesFact, AwaitedTool DEF CommandWorks, Work, Alive
<1>2. UNCHANGED <<row, call, prep, announced, overlap, stray>>
  BY DEF CommandWorks, Work, bounds
<1>3. Typed'
  BY <1>0, <1>1, <1>2, AwaitedTool DEF Typed, Commanded, Taken
<1>4. Grounded'
  BY <1>0, <1>1, <1>2, Fields, AwaitedTool, NoneAssumption
  DEF Typed, Grounded, RowsTrue, True, CommandFits, CallGrounded, Done, Commanded, Taken
<1>5. ASSUME ~overlap' PROVE Serial'
  BY <1>0, <1>1, <1>2, <1>3, <1>5, Fields, AwaitedTool, NoneAssumption
  DEF Inv, Typed, Grounded, RowsTrue, True, CommandFits, CallGrounded, Done,
      Serial, Alone, Fresh, ActsApproved, Approved, Acting, OnRecord, Created, Busy, Commanded, Taken
<1> QED BY <1>3, <1>4, <1>5 DEF Inv

LEMMA CommandEndsKeeps == ASSUME Inv, NEW c \in Callers, CommandEnds(c) PROVE Inv'
<1>0. Typed /\ Grounded
  BY DEF Inv
<1>1. /\ cmd[c].stage # "none"
      /\ \/ Commanded(c, "settled", cmd[c].tool, cmd[c].did, "failed")
         \/ cmd[c].did /\ Commanded(c, "settled", cmd[c].tool, cmd[c].did, "ok")
      /\ stray \subseteq stray' /\ stray' \subseteq stray \cup {cmd[c].tool}
  BY <1>0, SettleCommands, Fields DEF CommandEnds, Close, Alive, Leftovers
<1>2. UNCHANGED <<row, call, prep, announced, overlap, remote>>
  BY DEF CommandEnds, bounds
<1>3. Typed'
  BY <1>0, <1>1, <1>2, AwaitedTool DEF Typed, Commanded
<1>4. Grounded'
  BY <1>0, <1>1, <1>2, Fields, AwaitedTool, NoneAssumption
  DEF Typed, Grounded, RowsTrue, True, CommandFits, CallGrounded, Done, Commanded
<1>5. ASSUME ~overlap' PROVE Serial'
  BY <1>0, <1>1, <1>2, <1>3, <1>5, Fields, AwaitedTool, NoneAssumption
  DEF Inv, Typed, Grounded, RowsTrue, True, CommandFits, CallGrounded, Done,
      Serial, Alone, Fresh, ActsApproved, Approved, Acting, OnRecord, Created, Busy, Commanded
<1> QED BY <1>3, <1>4, <1>5 DEF Inv

LEMMA CommandTimesOutKeeps == ASSUME Inv, NEW c \in Callers, CommandTimesOut(c) PROVE Inv'
<1>0. Typed /\ Grounded
  BY DEF Inv
<1>1. /\ cmd[c].stage # "none"
      /\ Commanded(c, "terminating", cmd[c].tool, cmd[c].did, cmd[c].result)
  BY <1>0, StageCommands DEF CommandTimesOut, TimeOut
<1>2. UNCHANGED <<row, call, prep, announced, overlap, remote, stray>>
  BY DEF CommandTimesOut, TimeOut, bounds
<1>3. Typed'
  BY <1>0, <1>1, <1>2, AwaitedTool DEF Typed, Commanded
<1>4. Grounded'
  BY <1>0, <1>1, <1>2, Fields, AwaitedTool, NoneAssumption
  DEF Typed, Grounded, RowsTrue, True, CommandFits, CallGrounded, Done, Commanded
<1>5. ASSUME ~overlap' PROVE Serial'
  BY <1>0, <1>1, <1>2, <1>3, <1>5, Fields, AwaitedTool, NoneAssumption
  DEF Inv, Typed, Grounded, RowsTrue, True, CommandFits, CallGrounded, Done,
      Serial, Alone, Fresh, ActsApproved, Approved, Acting, OnRecord, Created, Busy, Commanded
<1> QED BY <1>3, <1>4, <1>5 DEF Inv

LEMMA CommandGraceKeeps == ASSUME Inv, NEW c \in Callers, CommandGrace(c) PROVE Inv'
<1>0. Typed /\ Grounded
  BY DEF Inv
<1>1. /\ cmd[c].stage # "none"
      /\ \/ Commanded(c, "killing", cmd[c].tool, cmd[c].did, cmd[c].result)
         \/ Commanded(c, "settled", cmd[c].tool, cmd[c].did, "failed")
      /\ stray \subseteq stray' /\ stray' \subseteq stray \cup {cmd[c].tool}
  BY <1>0, StageCommands, SettleCommands DEF CommandGrace, Grace, Leftovers
<1>2. UNCHANGED <<row, call, prep, announced, overlap, remote>>
  BY DEF CommandGrace, bounds
<1>3. Typed'
  BY <1>0, <1>1, <1>2, AwaitedTool DEF Typed, Commanded
<1>4. Grounded'
  BY <1>0, <1>1, <1>2, Fields, AwaitedTool, NoneAssumption
  DEF Typed, Grounded, RowsTrue, True, CommandFits, CallGrounded, Done, Commanded
<1>5. ASSUME ~overlap' PROVE Serial'
  BY <1>0, <1>1, <1>2, <1>3, <1>5, Fields, AwaitedTool, NoneAssumption
  DEF Inv, Typed, Grounded, RowsTrue, True, CommandFits, CallGrounded, Done,
      Serial, Alone, Fresh, ActsApproved, Approved, Acting, OnRecord, Created, Busy, Commanded
<1> QED BY <1>3, <1>4, <1>5 DEF Inv

LEMMA DieKeeps == ASSUME Inv, NEW c \in Callers, Die(c) PROVE Inv'
<1>0. Typed /\ Grounded
  BY DEF Inv
<1>1. /\ Commanded(c, "none", "none", FALSE, "none")
      /\ call' \in [Callers -> Calls] /\ call'[c].pc = "idle" /\ call'[c].seen = None
      /\ \A d \in Callers : d # c => call'[d] = call[d]
      /\ stray \subseteq stray'
      /\ stray' \subseteq stray \cup (IF cmd[c].stage = "none" THEN {} ELSE {cmd[c].tool})
  BY <1>0, NoCommands DEF Typed, Die, Orphan, Alive, Leftovers, NoCall, Calls, Places
<1>2. UNCHANGED <<row, remote, prep, announced, overlap>>
  BY DEF Die
<1>3. Typed'
  BY <1>0, <1>1, <1>2, AwaitedTool DEF Typed, Commanded
<1>4. Grounded'
  BY <1>0, <1>1, <1>2, Fields, AwaitedTool, NoneAssumption
  DEF Typed, Grounded, RowsTrue, True, CommandFits, CallGrounded, Done, Commanded
<1>5. ASSUME ~overlap' PROVE Serial'
  BY <1>0, <1>1, <1>2, <1>3, <1>5, Fields, AwaitedTool, NoneAssumption
  DEF Inv, Typed, Grounded, RowsTrue, True, CommandFits, CallGrounded, Done,
      Serial, Alone, Fresh, ActsApproved, Approved, Acting, OnRecord, Created, Busy, Commanded
<1> QED BY <1>3, <1>4, <1>5 DEF Inv

LEMMA BeginKeeps ==
  ASSUME Inv, NEW c \in Callers, NEW approved \in BOOLEAN, Begin(c, approved) PROVE Inv'
<1>0. Typed /\ Grounded
  BY DEF Inv
<1>1. UNCHANGED <<row, remote, prep, cmd, stray>> /\ overlap' = (overlap \/ Busy)
  BY DEF Begin, gateway
<1>2. CASE Created(row) /\ announced' = TRUE /\ UNCHANGED call
  <2>1. Typed' /\ Grounded'
    BY <1>0, <1>1, <1>2, NoneAssumption
    DEF Typed, Grounded, RowsTrue, True, CommandFits, CallGrounded, Done, Busy
  <2>2. ASSUME ~overlap' PROVE Serial'
    BY <1>0, <1>1, <1>2, <2>2
    DEF Inv, Serial, Alone, Fresh, ActsApproved, Approved, OnRecord,
                                  Created, Busy
  <2> QED BY <2>1, <2>2 DEF Inv
<1>3. CASE /\ ~Created(row) /\ UNCHANGED announced
           /\ call' = [call EXCEPT ![c] = [NoCall EXCEPT !.pc = "status", !.approved = approved]]
  <2>1. /\ call' \in [Callers -> Calls] /\ call'[c].pc = "status" /\ call'[c].seen = None
        /\ \A d \in Callers : d # c => call'[d] = call[d]
    BY <1>0, <1>3 DEF Typed, NoCall, Calls, Places
  <2>2. call[c].pc = "idle"
    BY DEF Begin
  <2>3. Typed' /\ Grounded'
    BY <1>0, <1>1, <1>3, <2>1, <2>2, NoneAssumption
    DEF Typed, Grounded, RowsTrue, True, CommandFits, CallGrounded, Done, Busy
  <2>4. ASSUME ~overlap' PROVE Serial'
    BY <1>0, <1>1, <1>3, <2>1, <2>4
    DEF Inv, Serial, Alone, Fresh, ActsApproved, Approved, Acting,
                                        OnRecord, Created, Busy
  <2> QED BY <2>3, <2>4 DEF Inv
<1> QED BY <1>2, <1>3 DEF Begin

LEMMA BeginPrepareKeeps == ASSUME Inv, NEW p \in Preparers, BeginPrepare(p) PROVE Inv'
<1>0. Typed /\ Grounded
  BY DEF Inv
<1>1. /\ UNCHANGED <<row, remote, call, announced, cmd, stray>>
      /\ overlap' = (overlap \/ Busy)
      /\ row # None => row.status = "failed"
  BY DEF BeginPrepare, gateway
<1>2. /\ prep' \in [Preparers -> Preps] /\ prep'[p].pc = "preparing" /\ prep'[p].seen = row
      /\ \A q \in Preparers : q # p => prep'[q] = prep[q]
  BY <1>0 DEF Typed, BeginPrepare, Preps
<1>3. Typed' /\ Grounded'
  BY <1>0, <1>1, <1>2, NoneAssumption
  DEF Typed, Grounded, RowsTrue, True, CommandFits, CallGrounded, Done, Busy
<1>4. ASSUME ~overlap' PROVE Serial'
  BY <1>0, <1>1, <1>2, <1>4 DEF Inv, Serial, Alone, Fresh, ActsApproved, Approved, OnRecord,
                                Created, Busy
<1> QED BY <1>3, <1>4 DEF Inv

\* A preparation, or its process, ends.
PrepEnds(p) ==
    /\ prep' \in [Preparers -> Preps] /\ prep'[p].pc = "idle" /\ prep'[p].seen = None
    /\ \A q \in Preparers : q # p => prep'[q] = prep[q]

LEMMA PrepEndsFact ==
  ASSUME Typed, NEW p \in Preparers, prep' = [prep EXCEPT ![p] = NoPrep] PROVE PrepEnds(p)
  BY DEF Typed, PrepEnds, NoPrep, Preps

LEMMA PrepareKeeps == ASSUME Inv, NEW p \in Preparers, Prepare(p) PROVE Inv'
<1>0. Typed /\ Grounded
  BY DEF Inv
<1>1. /\ UNCHANGED <<remote, call, announced, overlap, cmd, stray>>
      /\ prep[p].pc = "preparing" /\ PrepEnds(p)
  BY <1>0, PrepEndsFact DEF Prepare, bounds, gateway
<1>2. CASE row' = [Existing(prep[p].seen) EXCEPT !.status = "prepared"]
  <2>1. prep[p].seen \in Rows \cup {None}
    BY <1>0 DEF Typed, Preps
  <2>2. Existing(prep[p].seen) \in Rows
    BY <2>1 DEF Existing, NewRow, Rows, Statuses
  <2>3. Writes(Existing(prep[p].seen), "prepared")
    BY <1>2, <2>2, WriteStatus DEF Statuses
  <2>4. Typed' /\ Grounded'
    BY <1>0, <1>1, <2>1, <2>3, NoneAssumption
    DEF Typed, Grounded, RowsTrue, True, CommandFits, CallGrounded, Done, PrepEnds, Writes,
        Existing, NewRow
  <2>5. ASSUME ~overlap' PROVE Serial'
    BY <1>0, <1>1, <2>3, <2>5, NoneAssumption
    DEF Inv, Typed, Serial, Alone, Fresh, ActsApproved, Approved, OnRecord, Busy,
        PrepEnds, Writes, Existing, Acting
  <2> QED BY <2>4, <2>5 DEF Inv
<1>3. CASE UNCHANGED row
  <2>1. Typed' /\ Grounded'
    BY <1>0, <1>1, <1>3, NoneAssumption
    DEF Typed, Grounded, RowsTrue, True, CommandFits, CallGrounded, Done, PrepEnds
  <2>2. ASSUME ~overlap' PROVE Serial'
    BY <1>1, <1>3, <2>2
    DEF Inv, Serial, Alone, Fresh, ActsApproved, Approved, OnRecord, Created, Busy, PrepEnds
  <2> QED BY <2>1, <2>2 DEF Inv
<1> QED BY <1>2, <1>3 DEF Prepare

LEMMA JobDiesKeeps == ASSUME Inv, NEW p \in Preparers, JobDies(p) PROVE Inv'
<1>0. Typed /\ Grounded
  BY DEF Inv
<1>1. UNCHANGED <<row, remote, call, announced, overlap, cmd, stray>> /\ PrepEnds(p)
  BY <1>0, PrepEndsFact DEF JobDies, gateway
<1>2. Typed' /\ Grounded'
  BY <1>0, <1>1, NoneAssumption
  DEF Typed, Grounded, RowsTrue, True, CommandFits, CallGrounded, Done, PrepEnds
<1>3. ASSUME ~overlap' PROVE Serial'
  BY <1>1, <1>3
  DEF Inv, Serial, Alone, Fresh, ActsApproved, Approved, OnRecord, Created, Busy, PrepEnds
<1> QED BY <1>2, <1>3 DEF Inv

\* A command that nobody waits for was run with the approval on the row.
LEMMA StrayWorksKeeps == ASSUME Inv, NEW tool \in Tools, StrayWorks(tool) PROVE Inv'
<1>0. Typed /\ Grounded
  BY DEF Inv
<1>1. /\ UNCHANGED <<row, call, prep, announced, overlap, cmd>>
      /\ tool \in stray /\ stray' \subseteq stray
  BY DEF StrayWorks, bounds
<1>2. /\ remote' \in [branch : BOOLEAN, pr : BOOLEAN]
      /\ remote.branch => remote'.branch
      /\ remote.pr => remote'.pr
      /\ remote'.pr => remote'.branch
  BY <1>0, TakesFact DEF StrayWorks, Typed, Grounded, Taken
<1>3. Typed' /\ Grounded'
  BY <1>0, <1>1, <1>2 DEF Typed, Grounded, RowsTrue, True, CommandFits, CallGrounded, Done
<1>4. ASSUME ~overlap' PROVE Serial'
  BY <1>1, <1>4
  DEF Inv, Serial, Alone, Fresh, ActsApproved, Approved, OnRecord, Created, Busy
<1> QED BY <1>3, <1>4 DEF Inv

LEMMA NextInv == Inv /\ [Next]_vars => Inv'
<1> SUFFICES ASSUME Inv, [Next]_vars PROVE Inv'
  OBVIOUS
<1>1. ASSUME NEW c \in Callers, NEW approved \in BOOLEAN, Begin(c, approved) PROVE Inv'
  BY <1>1, BeginKeeps
<1>2. ASSUME NEW c \in Callers, CallStep(c) PROVE Inv'
  BY <1>2, ReadStateKeeps, UpsertStateKeeps, ProbeKeeps, PushKeeps, PushedKeeps,
     ReadPushedKeeps, MarkPushedKeeps, CreateKeeps, CreateEndedKeeps, ViewEndedKeeps,
     RecordKeeps, FailKeeps DEF CallStep
<1>3. ASSUME NEW c \in Callers,
             CommandWorks(c) \/ CommandEnds(c) \/ CommandTimesOut(c) \/ CommandGrace(c) \/ Die(c)
      PROVE  Inv'
  BY <1>3, CommandWorksKeeps, CommandEndsKeeps, CommandTimesOutKeeps, CommandGraceKeeps,
     DieKeeps
<1>4. ASSUME NEW p \in Preparers, BeginPrepare(p) \/ Prepare(p) \/ JobDies(p) PROVE Inv'
  BY <1>4, BeginPrepareKeeps, PrepareKeeps, JobDiesKeeps
<1>5. ASSUME NEW tool \in Tools, StrayWorks(tool) PROVE Inv'
  BY <1>5, StrayWorksKeeps
<1>6. CASE UNCHANGED vars
  BY <1>6 DEF vars, Inv, Typed, Grounded, RowsTrue, True, CommandFits, CallGrounded, Done,
              Serial, Alone, Fresh, ActsApproved, Approved, OnRecord, Created, Busy
<1> QED BY <1>1, <1>2, <1>3, <1>4, <1>5, <1>6 DEF Next

LEMMA Invariance == Spec => []Inv
  BY InitInv, NextInv, PTL DEF Spec

-----------------------------------------------------------------------------
(* Theorems.                                                               *)

\* The rows, calls and commands are what they should be, and a row or URL never
\* speaks of a pull request that is not there, for every number of callers and deaths.
THEOREM TypeCorrect == Spec => []TypeOK
  BY Invariance, Implied, PTL

\* No branch and no pull request reaches the host without the approval on the row,
\* also by a command that was given up or that outlived its caller.
THEOREM EffectRecorded == Spec => []EffectIsOnRecord
  BY Invariance, Implied, PTL

\* An announced pull request stays recorded, through every later call, failure, crash
\* and preparation that does not overlap another.
THEOREM AnnouncementRecorded == Spec => []AnnouncedIsRecorded
  BY Invariance, Implied, PTL
=============================================================================
