--------------------------- MODULE AdmissionProofs ---------------------------
(***************************************************************************)
(* For any number of calls, request ids, intents and processes: no         *)
(* execution begins without its directory, and admission implements        *)
(* AdmitOnce.                                                              *)
(*                                                                         *)
(* A call acts on a row it has read some steps ago.  That is sound because *)
(* a row, once inserted, keeps its run and its intent, and a row that says *)
(* ready has its directory and says so for ever (RowsKept); what a call    *)
(* remembers of its row (Means) is therefore never out of date.            *)
(***************************************************************************)
EXTENDS Admission, TLAPS

Recovering == {"read", "mkdir", "update", "reread"}
Active(a) == at[a].pc \notin {"idle", "done"}

\* The call has had its row in hand.
Named(a)  == at[a].attempt \in {"found", "known"}
HasRow(a) == at[a].pc \in Recovering \/ Named(a)

\* What the place of a call or of a repair says of the rows and of the call.
Means(a) ==
    /\ HasRow(a) => at[a].request \in Requests /\ My(a) # None
    /\ Named(a) => a \in Calls /\ Active(a)
    /\ at[a].made => at[a].pc = "update" /\ My(a).run \in dirs
    /\ a \in Scanners /\ Active(a) => at[a].pc \in Recovering /\ at[a].attempt = "repair"
    /\ a \in Calls => at[a].attempt # "repair"
    /\ a \in Calls /\ Active(a) =>
          /\ sent[a] # None /\ answer[a] = None
          /\ at[a].request = sent[a].request
          /\ at[a].pc = "admit" => at[a].attempt = "first"
          /\ HasRow(a) => My(a).intent = sent[a].intent

PlacesMean == \A a \in Actors : Means(a)

ReadyHasDirectory ==
    \A r \in Requests : row[r] # None /\ row[r].files = "ready" => row[r].run \in dirs
UnsentUnanswered == \A c \in Calls : sent[c] = None => answer[c] = None

Inv == TypeOK /\ PlacesMean /\ ReadyHasDirectory /\ BegunHasDirectory /\ UnsentUnanswered

-----------------------------------------------------------------------------
LEMMA IdlePlace == /\ Idle \in Places /\ Idle.pc = "idle" /\ Idle.attempt = "first"
                   /\ Idle.made = FALSE
  BY DEF Idle, Places

LEMMA InvInit == Init => Inv
<1> SUFFICES ASSUME Init PROVE Inv
  OBVIOUS
<1>1. TypeOK
  BY IdlePlace DEF Init, TypeOK
<1>2. PlacesMean
  BY IdlePlace DEF Init, PlacesMean, Means, Active, Recovering, Actors, HasRow, Named
<1> QED BY <1>1, <1>2 DEF Init, Inv, ReadyHasDirectory, BegunHasDirectory, UnsentUnanswered

-----------------------------------------------------------------------------
(* What the ways to move an actor do to it, field by field.                *)

Others(a) == \A b \in Actors : b # a => at'[b] = at[b]

LEMMA PlaceFields ==
  ASSUME TypeOK, NEW a \in Actors
  PROVE  /\ at[a] \in Places
         /\ at[a].pc \in {"idle", "lookup", "admit", "read", "mkdir", "update", "reread", "done"}
         /\ at[a].attempt \in {"first", "found", "again", "known", "repair"}
         /\ at[a].request \in Requests \cup {None}
         /\ at[a].made \in BOOLEAN
  BY DEF TypeOK, Places

LEMMA Gone ==
  ASSUME TypeOK, NEW a \in Actors,
         NEW pc \in {"idle", "lookup", "admit", "read", "mkdir", "update", "reread", "done"}, Goto(a, pc)
  PROVE  /\ at' \in [Actors -> Places] /\ Others(a)
         /\ at'[a].pc = pc /\ at'[a].attempt = at[a].attempt
         /\ at'[a].request = at[a].request /\ at'[a].made = at[a].made
<1> DEFINE x == [at[a] EXCEPT !.pc = pc]
<1>1. at[a] \in Places
  BY PlaceFields
<1>2. x \in Places /\ x.pc = pc /\ x.attempt = at[a].attempt /\ x.request = at[a].request /\ x.made = at[a].made
  BY <1>1 DEF Places
<1>3. at' = [at EXCEPT ![a] = x] /\ at \in [Actors -> Places]
  BY DEF Goto, TypeOK
<1> HIDE DEF x
<1> QED BY <1>2, <1>3 DEF Others

LEMMA Thrown ==
  ASSUME TypeOK, NEW a \in Actors, Throw(a)
  PROVE  /\ at' \in [Actors -> Places] /\ Others(a)
         /\ at'[a].pc = "lookup" /\ at'[a].attempt \in {"again", "known"}
         /\ at'[a].attempt = "known" => at[a].attempt = "found"
         /\ at'[a].request = at[a].request /\ at'[a].made = FALSE
<1> DEFINE next == IF at[a].attempt = "found" THEN "known" ELSE "again"
<1> DEFINE x == [Idle EXCEPT !.pc = "lookup", !.request = at[a].request, !.attempt = next]
<1>1. at[a].request \in Requests \cup {None}
  BY PlaceFields
<1>2. x \in Places /\ x.pc = "lookup" /\ x.attempt = next /\ x.request = at[a].request /\ x.made = FALSE
  BY <1>1, IdlePlace DEF Places
<1>3. at' = [at EXCEPT ![a] = x] /\ at \in [Actors -> Places]
  BY DEF Throw, TypeOK
<1>4. next \in {"again", "known"} /\ (next = "known" => at[a].attempt = "found")
  OBVIOUS
<1> HIDE DEF x, next
<1> QED BY <1>2, <1>3, <1>4 DEF Others

\* The call goes on to recover the run it has found.
LEMMA Recovers ==
  ASSUME TypeOK, NEW c \in Actors, Recover(c)
  PROVE  /\ at' \in [Actors -> Places] /\ Others(c)
         /\ at'[c].pc = "read" /\ at'[c].attempt \in {at[c].attempt, "found"}
         /\ at'[c].request = at[c].request /\ at'[c].made = at[c].made
<1> DEFINE next == IF at[c].attempt = "first" THEN "found" ELSE at[c].attempt
<1> DEFINE x == [at[c] EXCEPT !.pc = "read", !.attempt = next]
<1>1. at[c] \in Places /\ at[c].attempt \in {"first", "found", "again", "known", "repair"}
  BY PlaceFields
<1>2. next \in {at[c].attempt, "found"} /\ next \in {"first", "found", "again", "known", "repair"}
  BY <1>1
<1>3. at' = [at EXCEPT ![c] = x] /\ at \in [Actors -> Places]
  BY DEF Recover, TypeOK
<1> HIDE DEF next
<1>4. x \in Places /\ x.pc = "read" /\ x.attempt = next /\ x.request = at[c].request /\ x.made = at[c].made
  BY <1>1, <1>2 DEF Places
<1> HIDE DEF x
<1> QED BY <1>2, <1>3, <1>4 DEF Others

LEMMA Returned ==
  ASSUME TypeOK, NEW a \in Actors, NEW state, NEW run, Return(a, state, run)
  PROVE  /\ at' \in [Actors -> Places] /\ Others(a)
         /\ at'[a].pc = (IF a \in Calls THEN "done" ELSE "idle") /\ at'[a].attempt = "first"
         /\ at'[a].made = FALSE
<1> DEFINE x == IF a \in Calls THEN [Idle EXCEPT !.pc = "done"] ELSE Idle
<1>1. x \in Places /\ x.pc = (IF a \in Calls THEN "done" ELSE "idle") /\ x.attempt = "first"
      /\ x.made = FALSE
  <2>1. CASE a \in Calls
    BY <2>1, IdlePlace DEF Places
  <2>2. CASE a \notin Calls
    BY <2>2, IdlePlace
  <2> QED BY <2>1, <2>2
<1>2. at' = [at EXCEPT ![a] = x] /\ at \in [Actors -> Places]
  BY DEF Return, TypeOK
<1> HIDE DEF x
<1> QED BY <1>1, <1>2 DEF Others

-----------------------------------------------------------------------------
\* Rows are never removed, and never say less; directories stay.
RowsKept ==
    /\ row' \in [Requests -> Rows \cup {None}]
    /\ \A r \in Requests : row[r] # None =>
          /\ row'[r] # None /\ row'[r].run = row[r].run /\ row'[r].intent = row[r].intent
          /\ row[r].files = "ready" => row'[r].files = "ready"
    /\ dirs \subseteq dirs' /\ dirs' \subseteq Calls

\* One actor moves.
LEMMA Moves ==
  ASSUME Inv, NEW a \in Actors, at' \in [Actors -> Places], Others(a), Means(a)',
         RowsKept, ReadyHasDirectory', UnsentUnanswered', begun' = begun, disk' = disk,
         sent' \in [Calls -> Sent \cup {None}], answer' \in [Calls -> Answers \cup {None}],
         \A c \in Calls \ {a} : sent'[c] = sent[c] /\ answer'[c] = answer[c]
  PROVE  Inv'
<1>1. TypeOK'
  BY DEF Inv, TypeOK, RowsKept
<1>2. PlacesMean'
  <2> SUFFICES ASSUME NEW b \in Actors PROVE Means(b)'
    BY DEF PlacesMean
  <2>1. CASE b = a
    BY <2>1
  <2>2. CASE b # a
    <3>1. at'[b] = at[b] /\ Means(b) /\ (b \in Calls => sent'[b] = sent[b] /\ answer'[b] = answer[b])
      BY <2>2 DEF Inv, PlacesMean, Others
    <3> QED BY <3>1 DEF Means, RowsKept, My, Recovering, Active, HasRow, Named
  <2> QED BY <2>1, <2>2
<1>3. BegunHasDirectory'
  BY DEF Inv, BegunHasDirectory, RowsKept
<1> QED BY <1>1, <1>2, <1>3 DEF Inv

LEMMA SameRows ==
  ASSUME Inv, UNCHANGED <<row, dirs>>
  PROVE  RowsKept /\ ReadyHasDirectory'
BY DEF Inv, TypeOK, RowsKept, ReadyHasDirectory

-----------------------------------------------------------------------------
(* The steps.                                                              *)

\* A return, of a call or of a repair.
LEMMA Returns ==
  ASSUME Inv, NEW a \in Actors, NEW state, NEW run, Active(a), Return(a, state, run),
         a \in Calls => [state |-> state, run |-> run] \in Answers,
         UNCHANGED <<row, dirs, begun, disk, sent>>
  PROVE  Inv'
<1>1. TypeOK /\ Means(a) /\ UnsentUnanswered
  BY DEF Inv, PlacesMean
<1>2. /\ at' \in [Actors -> Places] /\ Others(a)
      /\ at'[a].pc = (IF a \in Calls THEN "done" ELSE "idle") /\ at'[a].attempt = "first"
      /\ at'[a].made = FALSE
  BY <1>1, Returned
<1>3. Means(a)'
  BY <1>2 DEF Means, Active, Recovering, HasRow, Named
<1> DEFINE v == [state |-> state, run |-> run]
<1>4. answer' = (IF a \in Calls THEN [answer EXCEPT ![a] = v] ELSE answer) /\ (a \in Calls => v \in Answers)
  BY DEF Return
<1> HIDE DEF v
<1>5. /\ answer' \in [Calls -> Answers \cup {None}]
      /\ \A c \in Calls \ {a} : answer'[c] = answer[c]
  BY <1>1, <1>4 DEF TypeOK
<1>6. UnsentUnanswered'
  <2>1. a \in Calls => sent[a] # None
    BY <1>1 DEF Means
  <2> QED BY <1>1, <1>5, <2>1 DEF UnsentUnanswered
<1>7. RowsKept /\ ReadyHasDirectory' /\ sent' \in [Calls -> Sent \cup {None}]
  BY <1>1, SameRows DEF TypeOK
<1> QED BY <1>2, <1>3, <1>5, <1>6, <1>7, Moves

\* A throw, of the first attempt of a call.
LEMMA Throws ==
  ASSUME Inv, NEW c \in Calls, Active(c), Throw(c), UNCHANGED <<row, dirs, begun, disk, sent, answer>>
  PROVE  Inv'
<1>1. TypeOK /\ Means(c) /\ UnsentUnanswered /\ c \in Actors
  BY DEF Inv, PlacesMean, Actors
<1>2. /\ at' \in [Actors -> Places] /\ Others(c)
      /\ at'[c].pc = "lookup" /\ at'[c].attempt \in {"again", "known"}
      /\ at'[c].attempt = "known" => at[c].attempt = "found"
      /\ at'[c].request = at[c].request /\ at'[c].made = FALSE
  BY <1>1, Thrown
<1>3. c \notin Scanners /\ My(c)' = My(c)
  BY <1>2, ActorsAssumption DEF My
<1>4. Means(c)'
  BY <1>1, <1>2, <1>3 DEF Means, Active, Recovering, HasRow, Named
<1>5. /\ RowsKept /\ ReadyHasDirectory' /\ UnsentUnanswered'
      /\ sent' \in [Calls -> Sent \cup {None}] /\ answer' \in [Calls -> Answers \cup {None}]
  BY <1>1, SameRows DEF TypeOK, UnsentUnanswered
<1> QED BY <1>1, <1>2, <1>4, <1>5, Moves

\* An actor goes on, while rows and directories are kept.
LEMMA Goes ==
  ASSUME Inv, NEW a \in Actors, NEW pc \in {"admit"} \cup Recovering,
         at' \in [Actors -> Places], Others(a), at'[a].pc = pc,
         at'[a].attempt = at[a].attempt \/ (at'[a].attempt = "found" /\ pc # "admit" /\ a \in Calls),
         at'[a].request = at[a].request, Active(a),
         pc = "admit" => a \in Calls /\ at[a].attempt = "first",
         pc \in Recovering => /\ at[a].request \in Requests /\ My(a)' # None
                              /\ a \in Calls => My(a)'.intent = sent[a].intent,
         at'[a].made => pc = "update" /\ My(a)'.run \in dirs',
         RowsKept, ReadyHasDirectory', UNCHANGED <<begun, disk, sent, answer>>
  PROVE  Inv'
<1>1. TypeOK /\ Means(a) /\ UnsentUnanswered
  BY DEF Inv, PlacesMean
<1>2. a \in Scanners => a \notin Calls
  BY ActorsAssumption
<1>3. Means(a)'
  BY <1>1, <1>2 DEF Means, Active, Recovering, HasRow, Named
<1>4. /\ UnsentUnanswered'
      /\ sent' \in [Calls -> Sent \cup {None}] /\ answer' \in [Calls -> Answers \cup {None}]
  BY <1>1 DEF TypeOK, UnsentUnanswered
<1> QED BY <1>3, <1>4, Moves
LEMMA StartKeeps ==
  ASSUME Inv, NEW c \in Calls, NEW r \in Requests, NEW i \in Intents, Start(c, r, i)
  PROVE  Inv'
<1>1. TypeOK /\ UnsentUnanswered /\ c \in Actors /\ c \notin Scanners
  BY ActorsAssumption DEF Inv, Actors
<1> DEFINE x == [Idle EXCEPT !.pc = "lookup", !.request = r]
<1> DEFINE v == [request |-> r, intent |-> i]
<1>2. x \in Places /\ x.pc = "lookup" /\ x.attempt = "first" /\ x.request = r /\ x.made = FALSE
  BY IdlePlace DEF Places
<1>3. v \in Sent /\ v # None /\ v.request = r
  BY NoneAssumption DEF Sent
<1>4. at' = [at EXCEPT ![c] = x] /\ sent' = [sent EXCEPT ![c] = v] /\ sent[c] = None
  BY DEF Start
<1> HIDE DEF x, v
<1>5. /\ at' \in [Actors -> Places] /\ Others(c) /\ at'[c] = x
      /\ sent' \in [Calls -> Sent \cup {None}] /\ sent'[c] = v
      /\ \A d \in Calls \ {c} : sent'[d] = sent[d]
  BY <1>1, <1>2, <1>3, <1>4 DEF TypeOK, Others
<1>6. UNCHANGED <<row, dirs, begun, disk, answer>>
  BY DEF Start
<1>7. answer[c] = None
  BY <1>1, <1>4 DEF UnsentUnanswered
<1>8. Means(c)'
  BY <1>1, <1>2, <1>3, <1>5, <1>6, <1>7 DEF Means, Active, Recovering, HasRow, Named
<1>9. UnsentUnanswered' /\ answer' \in [Calls -> Answers \cup {None}]
  BY <1>1, <1>5, <1>6, <1>7 DEF UnsentUnanswered, TypeOK
<1> QED BY <1>1, <1>5, <1>6, <1>8, <1>9, SameRows, Moves

\* A row that is there is a record of a run and an intent.
LEMMA RowThere ==
  ASSUME TypeOK, NEW a \in Actors, at[a].request \in Requests, My(a) # None
  PROVE  My(a) \in Rows /\ My(a).run \in Calls /\ My(a).intent \in Intents /\ My(a).files \in FilesStates
<1>1. My(a) \in Rows
  BY DEF TypeOK, My
<1> QED BY <1>1 DEF Rows

\* An actor that only goes to another place, with its row in hand.
LEMMA GotoKeeps ==
  ASSUME Inv, NEW a \in Actors, NEW pc \in {"admit", "read", "mkdir"}, Goto(a, pc), Active(a), ~at[a].made,
         pc = "admit" => a \in Calls /\ at[a].attempt = "first",
         pc # "admit" => /\ at[a].request \in Requests /\ My(a) # None
                         /\ a \in Calls => My(a).intent = sent[a].intent,
         UNCHANGED <<row, dirs, begun, disk, sent, answer>>
  PROVE  Inv'
<1>1. TypeOK
  BY DEF Inv
<1>2. /\ at' \in [Actors -> Places] /\ Others(a)
      /\ at'[a].pc = pc /\ at'[a].attempt = at[a].attempt /\ at'[a].request = at[a].request
      /\ ~at'[a].made
  BY <1>1, Gone
<1>3. My(a)' = My(a)
  BY <1>2 DEF My
<1>4. RowsKept /\ ReadyHasDirectory'
  BY SameRows
<1> QED BY <1>2, <1>3, <1>4, Goes DEF Recovering

LEMMA LookupKeeps ==
  ASSUME Inv, NEW c \in Calls, Lookup(c)
  PROVE  Inv'
<1>1. /\ TypeOK /\ Means(c) /\ c \in Actors /\ at[c].pc = "lookup" /\ Active(c) /\ ~at[c].made
      /\ UNCHANGED <<row, dirs, begun, disk, sent>>
  BY DEF Inv, PlacesMean, Actors, Lookup, Active, Means
<1>2. at[c].request \in Requests
  <2>1. sent[c] \in Sent /\ at[c].request = sent[c].request
    BY <1>1 DEF Means, TypeOK
  <2> QED BY <2>1 DEF Sent
<1>3. CASE /\ at[c].attempt = "first" /\ Goto(c, "admit") /\ UNCHANGED answer
  BY <1>1, <1>3, GotoKeeps
<1>4. CASE My(c) # None /\ SameIntent(c) /\ Recover(c) /\ UNCHANGED answer
  <2>1. /\ at' \in [Actors -> Places] /\ Others(c)
        /\ at'[c].pc = "read" /\ at'[c].attempt \in {at[c].attempt, "found"}
        /\ at'[c].request = at[c].request /\ ~at'[c].made
    BY <1>1, <1>4, Recovers
  <2>2. My(c)' = My(c)
    BY <1>1, <2>1 DEF My
  <2> QED BY <1>1, <1>2, <1>4, <2>1, <2>2, SameRows, Goes DEF SameIntent, Recovering
<1>5. CASE Throw(c) /\ UNCHANGED answer
  BY <1>1, <1>5, Throws
<1>6. CASE \E state \in {"unknown", "conflict"} : Return(c, state, None)
  <2>1. \A state \in {"unknown", "conflict"} : [state |-> state, run |-> None] \in Answers
    BY DEF Answers
  <2> QED BY <1>1, <1>6, <2>1, Returns
<1>7. CASE My(c) # None /\ Receipt(c, My(c))
  <2> DEFINE state == IF My(c).files = "ready" THEN "accepted" ELSE "recovery-required"
  <2>1. [state |-> state, run |-> My(c).run] \in Answers
    BY <1>1, <1>2, <1>7, RowThere DEF Answers
  <2>2. Return(c, state, My(c).run)
    BY <1>7 DEF Receipt
  <2> QED BY <1>1, <2>1, <2>2, Returns
<1> QED BY <1>3, <1>4, <1>5, <1>6, <1>7 DEF Lookup

LEMMA AdmitKeeps ==
  ASSUME Inv, NEW c \in Calls, Admit(c)
  PROVE  Inv'
<1>1. /\ TypeOK /\ Means(c) /\ c \in Actors /\ at[c].pc = "admit" /\ Active(c) /\ ReadyHasDirectory
      /\ ~at[c].made /\ UNCHANGED <<dirs, begun, disk, sent, answer>>
  BY DEF Inv, PlacesMean, Actors, Admit, Active, Means
<1>2. sent[c] \in Sent /\ at[c].request = sent[c].request
  BY <1>1 DEF Means, TypeOK
<1>3. at[c].request \in Requests /\ sent[c].intent \in Intents
  BY <1>2 DEF Sent
<1>4. CASE Taken(c)
  <2>1. UNCHANGED row /\ ((SameIntent(c) /\ Goto(c, "read")) \/ Throw(c))
    BY <1>4 DEF Admit
  <2> QED BY <1>1, <1>3, <1>4, <2>1, GotoKeeps, Throws DEF SameIntent, Taken
<1>5. CASE ~Taken(c)
  <2> DEFINE q == [intent |-> sent[c].intent, run |-> c, files |-> "pending"]
  <2> DEFINE r == at[c].request
  <2>1. q \in Rows /\ q # None /\ q.intent = sent[c].intent /\ q.files # "ready"
    BY <1>3, NoneAssumption DEF Rows, FilesStates
  <2>2. row' = [row EXCEPT ![r] = q] /\ Goto(c, "read") /\ row[r] = None
    BY <1>5 DEF Admit, Taken, My
  <2> HIDE DEF q, r
  <2>3. r \in Requests
    BY <1>3 DEF r
  <2>4. /\ row' \in [Requests -> Rows \cup {None}] /\ row'[r] = q
        /\ \A s \in Requests \ {r} : row'[s] = row[s]
    BY <1>1, <2>1, <2>2, <2>3 DEF TypeOK
  <2>5. RowsKept /\ ReadyHasDirectory'
    BY <1>1, <2>1, <2>2, <2>4 DEF RowsKept, ReadyHasDirectory, TypeOK
  <2>6. /\ at' \in [Actors -> Places] /\ Others(c)
        /\ at'[c].pc = "read" /\ at'[c].attempt = at[c].attempt /\ at'[c].request = at[c].request
        /\ ~at'[c].made
    BY <1>1, <2>2, Gone
  <2>7. My(c)' = q
    BY <2>4, <2>6 DEF My, r
  <2> QED BY <1>1, <1>3, <2>1, <2>5, <2>6, <2>7, Goes DEF Recovering
<1> QED BY <1>4, <1>5
-----------------------------------------------------------------------------
\* An actor that recovers has its row in hand.
LEMMA InHand ==
  ASSUME Inv, NEW a \in Actors, at[a].pc \in Recovering \/ HasRow(a)
  PROVE  /\ TypeOK /\ Active(a) /\ Means(a) /\ at[a].request \in Requests /\ My(a) # None
         /\ My(a) \in Rows /\ My(a).run \in Calls /\ My(a).files \in FilesStates
         /\ a \in Calls => /\ My(a).intent = sent[a].intent /\ at[a].request = sent[a].request
                           /\ sent[a] # None /\ answer[a] = None
<1>1. TypeOK /\ Means(a) /\ Active(a)
  BY DEF Inv, PlacesMean, Active, Recovering, HasRow, Means
<1> QED BY <1>1, RowThere DEF Means, HasRow

LEMMA ReceiptKeeps ==
  ASSUME Inv, NEW a \in Actors, at[a].pc \in Recovering, Receipt(a, My(a)),
         UNCHANGED <<row, dirs, begun, disk, sent>>
  PROVE  Inv'
<1> DEFINE state == IF My(a).files = "ready" THEN "accepted" ELSE "recovery-required"
<1>1. [state |-> state, run |-> My(a).run] \in Answers
  BY InHand DEF Answers
<1>2. Return(a, state, My(a).run)
  BY DEF Receipt
<1> QED BY <1>1, <1>2, InHand, Returns

LEMMA ReadingKeeps ==
  ASSUME Inv, NEW a \in Actors, ReadRow(a) \/ Reread(a)
  PROVE  Inv'
<1>1. at[a].pc \in Recovering /\ UNCHANGED <<row, dirs, begun, disk, sent>>
  BY DEF ReadRow, Reread, Recovering
<1>2. CASE Receipt(a, My(a))
  BY <1>1, <1>2, ReceiptKeeps
<1>3. CASE Goto(a, "mkdir") /\ UNCHANGED answer /\ at[a].pc = "read"
  <2>1. ~at[a].made
    BY <1>1, <1>3, InHand DEF Means, HasRow
  <2> QED BY <1>1, <1>3, <2>1, InHand, GotoKeeps
<1> QED BY <1>2, <1>3 DEF ReadRow, Reread

LEMMA PrepareKeeps ==
  ASSUME Inv, NEW a \in Actors, PrepareDirectory(a)
  PROVE  Inv'
<1>1. at[a].pc = "mkdir" /\ at[a].pc \in Recovering /\ UNCHANGED <<row, begun, disk, sent, answer>>
  BY DEF PrepareDirectory, Recovering
<1>2. /\ TypeOK /\ Active(a) /\ ~at[a].made /\ at[a].request \in Requests /\ My(a) # None
      /\ My(a).run \in Calls /\ (a \in Calls => My(a).intent = sent[a].intent)
  BY <1>1, InHand DEF Means, HasRow
<1>3. /\ at' \in [Actors -> Places] /\ Others(a)
      /\ at'[a].pc = "update" /\ at'[a].attempt = at[a].attempt /\ at'[a].request = at[a].request
      /\ dirs \subseteq dirs' /\ dirs' \subseteq Calls
      /\ at'[a].made => My(a).run \in dirs'
  <2>1. CASE Goto(a, "update") /\ UNCHANGED dirs
    BY <1>2, <2>1, Gone DEF TypeOK
  <2>2. CASE /\ dirs' = dirs \cup {My(a).run}
             /\ at' = [at EXCEPT ![a].pc = "update", ![a].made = TRUE]
    <3> DEFINE x == [at[a] EXCEPT !.pc = "update", !.made = TRUE]
    <3>1. at[a] \in Places
      BY <1>2, PlaceFields
    <3>2. x \in Places /\ x.pc = "update" /\ x.attempt = at[a].attempt /\ x.request = at[a].request
      BY <3>1 DEF Places
    <3>3. at' = [at EXCEPT ![a] = x]
      BY <2>2
    <3> HIDE DEF x
    <3> QED BY <1>2, <2>2, <3>2, <3>3 DEF TypeOK, Others
  <2> QED BY <2>1, <2>2 DEF PrepareDirectory
<1>4. My(a)' = My(a)
  BY <1>1, <1>3 DEF My
<1>5. RowsKept /\ ReadyHasDirectory'
  BY <1>1, <1>2, <1>3 DEF RowsKept, ReadyHasDirectory, TypeOK, Inv
<1> QED BY <1>1, <1>2, <1>3, <1>4, <1>5, Goes DEF Recovering

\* What is recorded of a row: ready only if it has its directory, and ready for ever.
LEMMA UpdateRow ==
  ASSUME Inv, NEW a \in Actors, UpdateFiles(a)
  PROVE  /\ RowsKept
         /\ \A r \in Requests \ {at[a].request} : row'[r] = row[r]
         /\ row'[at[a].request].files = Recorded(a)
         /\ Recorded(a) = "ready" => My(a).run \in dirs
<1>1. /\ TypeOK /\ Means(a) /\ at[a].request \in Requests /\ My(a) # None /\ My(a) \in Rows
      /\ ReadyHasDirectory
  BY InHand DEF UpdateFiles, Recovering, Inv
<1> DEFINE r == at[a].request
<1> DEFINE f == Recorded(a)
<1> DEFINE q == [My(a) EXCEPT !.files = f]
<1>2. row' = [row EXCEPT ![r] = q] /\ UNCHANGED dirs
  BY DEF UpdateFiles, My
<1>3. f \in FilesStates /\ (My(a).files = "ready" => f = "ready") /\ (f = "ready" => My(a).run \in dirs)
  BY <1>1 DEF Recorded, FilesStates, Means, ReadyHasDirectory, My
<1> HIDE DEF f
<1>4. q \in Rows /\ q # None /\ q.run = My(a).run /\ q.intent = My(a).intent /\ q.files = f
  BY <1>1, <1>3, NoneAssumption DEF Rows
<1> HIDE DEF q, r
<1>5. r \in Requests /\ My(a) = row[r]
  BY <1>1 DEF r, My
<1>6. /\ row' \in [Requests -> Rows \cup {None}] /\ row'[r] = q
      /\ \A s \in Requests \ {r} : row'[s] = row[s]
  BY <1>1, <1>2, <1>4, <1>5 DEF TypeOK
<1>7. RowsKept
  BY <1>1, <1>2, <1>3, <1>4, <1>5, <1>6 DEF RowsKept, TypeOK
<1> QED BY <1>3, <1>4, <1>6, <1>7 DEF r, f

LEMMA UpdateKeeps ==
  ASSUME Inv, NEW a \in Actors, UpdateFiles(a)
  PROVE  Inv'
<1>1. at[a].pc \in Recovering /\ UNCHANGED <<dirs, begun, disk, sent, answer>>
  BY DEF UpdateFiles, Recovering
<1>2. /\ TypeOK /\ Active(a) /\ at[a].request \in Requests /\ My(a) # None
      /\ (a \in Calls => My(a).intent = sent[a].intent) /\ ReadyHasDirectory
  BY <1>1, InHand DEF Inv
<1> DEFINE x == [at[a] EXCEPT !.pc = "reread", !.made = FALSE]
<1>3. x \in Places /\ x.pc = "reread" /\ x.attempt = at[a].attempt /\ x.request = at[a].request
      /\ x.made = FALSE
  BY <1>2, PlaceFields DEF Places
<1>4. at' = [at EXCEPT ![a] = x]
  BY DEF UpdateFiles
<1> HIDE DEF x
<1>5. at' \in [Actors -> Places] /\ Others(a) /\ at'[a] = x
  BY <1>2, <1>3, <1>4 DEF TypeOK, Others
<1>6. RowsKept /\ ReadyHasDirectory'
  <2> SUFFICES ASSUME NEW r \in Requests, row'[r] # None, row'[r].files = "ready"
               PROVE  row'[r].run \in dirs
    BY <1>1, UpdateRow DEF ReadyHasDirectory
  <2>1. CASE r = at[a].request
    BY <1>2, <2>1, UpdateRow DEF RowsKept, My
  <2>2. CASE r # at[a].request
    BY <1>2, <2>2, UpdateRow DEF ReadyHasDirectory
  <2> QED BY <2>1, <2>2
<1>7. My(a)' # None /\ My(a)'.intent = My(a).intent
  BY <1>2, <1>3, <1>5, <1>6 DEF My, RowsKept
<1> QED BY <1>1, <1>2, <1>3, <1>5, <1>6, <1>7, Goes DEF Recovering

LEMMA RepairKeeps ==
  ASSUME Inv, NEW s \in Scanners, NEW r \in Requests, Repair(s, r)
  PROVE  Inv'
<1>1. TypeOK /\ s \in Actors /\ s \notin Calls /\ row[r] # None
  BY ActorsAssumption DEF Inv, Actors, Repair
<1> DEFINE x == [Idle EXCEPT !.pc = "read", !.attempt = "repair", !.request = r]
<1>2. x \in Places /\ x.pc = "read" /\ x.attempt = "repair" /\ x.request = r /\ x.made = FALSE
  BY IdlePlace DEF Places
<1>3. at' = [at EXCEPT ![s] = x] /\ UNCHANGED <<row, dirs, begun, disk, sent, answer>>
  BY DEF Repair
<1> HIDE DEF x
<1>4. at' \in [Actors -> Places] /\ Others(s) /\ at'[s] = x
  BY <1>1, <1>2, <1>3 DEF TypeOK, Others
<1>5. Means(s)'
  BY <1>1, <1>2, <1>3, <1>4 DEF Means, My, Recovering, Active, HasRow, Named
<1>6. UnsentUnanswered' /\ sent' \in [Calls -> Sent \cup {None}] /\ answer' \in [Calls -> Answers \cup {None}]
  BY <1>3 DEF Inv, UnsentUnanswered, TypeOK
<1> QED BY <1>1, <1>3, <1>4, <1>5, <1>6, SameRows, Moves

\* What a failure comes to, by what was under way.
LEMMA Failing ==
  ASSUME Inv, NEW a \in Actors, Fail(a)
  PROVE  \/ a \in Calls /\ Throw(a) /\ UNCHANGED answer
         \/ Return(a, "unknown", None)
         \/ HasRow(a) /\ a \in Calls /\ Return(a, "recovery-required", My(a).run)
<1>1. TypeOK /\ Means(a) /\ Active(a) /\ at[a].pc \in {"lookup", "admit"} \cup Recovering
  BY DEF Inv, PlacesMean, Fail, Active, Recovering
<1>2. at[a].attempt \in {"first", "found", "again", "known", "repair"}
  BY <1>1, PlaceFields
<1>3. a \in Scanners => at[a].attempt = "repair"
  BY <1>1 DEF Means
<1>4. a \in Calls \/ a \in Scanners
  BY DEF Actors
<1>5. CASE at[a].attempt \in {"first", "found"}
  BY <1>3, <1>4, <1>5 DEF Fail
<1>6. CASE at[a].attempt = "repair" \/ Unnamed(a)
  BY <1>6 DEF Fail, Unnamed
<1>7. CASE at[a].attempt \in {"again", "known"} /\ ~Unnamed(a)
  <2>1. a \in Calls /\ Return(a, "recovery-required", My(a).run)
    BY <1>3, <1>4, <1>7 DEF Fail
  <2>2. HasRow(a)
    BY <1>1, <1>7, <2>1 DEF Means, Unnamed, HasRow, Named
  <2> QED BY <2>1, <2>2
<1> QED BY <1>2, <1>5, <1>6, <1>7

LEMMA UnknownAnswer == [state |-> "unknown", run |-> None] \in Answers
  BY DEF Answers

LEMMA FailKeeps ==
  ASSUME Inv, NEW a \in Actors, Fail(a) \/ Die(a)
  PROVE  Inv'
<1>1. Active(a) /\ UNCHANGED <<row, dirs, begun, disk, sent>>
  BY DEF Fail, Die, Active
<1>2. CASE Return(a, "unknown", None)
  BY <1>1, <1>2, UnknownAnswer, Returns
<1>3. CASE a \in Calls /\ Throw(a) /\ UNCHANGED answer
  BY <1>1, <1>3, Throws
<1>4. CASE HasRow(a) /\ Return(a, "recovery-required", My(a).run)
  <2>1. [state |-> "recovery-required", run |-> My(a).run] \in Answers
    BY <1>4, InHand DEF Answers
  <2> QED BY <1>1, <1>4, <2>1, Returns
<1> QED BY <1>2, <1>3, <1>4, Failing DEF Die

LEMMA ClaimKeeps ==
  ASSUME Inv, (\E r \in Requests : Claim(r)) \/ DiskChanges
  PROVE  Inv'
<1>1. UNCHANGED <<row, dirs, at, sent, answer>>
  BY DEF Claim, DiskChanges
<1>2. begun' \subseteq dirs /\ dirs \subseteq Calls
  BY DEF Inv, TypeOK, BegunHasDirectory, ReadyHasDirectory, Claim, Claimable, DiskChanges
<1>3. disk' \in {"sound", "faulty"}
  BY DEF Inv, TypeOK, Claim, DiskChanges
<1>4. TypeOK'
  BY <1>1, <1>2, <1>3 DEF Inv, TypeOK
<1>5. PlacesMean'
  BY <1>1 DEF Inv, PlacesMean, Means, My, Active, HasRow, Named
<1> QED BY <1>1, <1>2, <1>4, <1>5 DEF Inv, BegunHasDirectory, ReadyHasDirectory, UnsentUnanswered

LEMMA InvNext == Inv /\ [Next]_vars => Inv'
<1> SUFFICES ASSUME Inv, [Next]_vars PROVE Inv'
  OBVIOUS
<1>1. CASE UNCHANGED vars
  BY <1>1 DEF vars, Inv, TypeOK, PlacesMean, Means, My, Active, HasRow, Named, BegunHasDirectory, ReadyHasDirectory,
     UnsentUnanswered
<1>2. ASSUME NEW c \in Calls, (\E r \in Requests, i \in Intents : Start(c, r, i)) \/ Lookup(c) \/ Admit(c)
      PROVE  Inv'
  BY <1>2, StartKeeps, LookupKeeps, AdmitKeeps
<1>3. ASSUME NEW a \in Actors, Recovery(a) \/ Fail(a) \/ Die(a)
      PROVE  Inv'
  BY <1>3, ReadingKeeps, PrepareKeeps, UpdateKeeps, FailKeeps DEF Recovery
<1>4. ASSUME NEW s \in Scanners, Repairs(s) PROVE Inv'
  BY <1>4, RepairKeeps DEF Repairs
<1>5. CASE (\E r \in Requests : Claim(r)) \/ DiskChanges
  BY <1>5, ClaimKeeps
<1> QED BY <1>1, <1>2, <1>3, <1>4, <1>5 DEF Next

LEMMA Invariance == Spec => []Inv
BY InvInit, InvNext, PTL DEF Spec

\* Rows, places, rows in hand and answers keep the shapes of the schema (admission-store.ts)
\* and of the results of startRun, for any number of calls and processes.
THEOREM TypeCorrect == Spec => []TypeOK
<1>1. Inv => TypeOK
  BY DEF Inv
<1> QED BY <1>1, Invariance, PTL

\* claimNext (session-store.ts): no execution begins before its directory exists, since a
\* row says ready only after its directory was made, and is never made to say so again.
THEOREM DirectoryFirst == Spec => []BegunHasDirectory
<1>1. Inv => BegunHasDirectory
  BY DEF Inv
<1> QED BY <1>1, Invariance, PTL

-----------------------------------------------------------------------------
(* Admission implements AdmitOnce.                                         *)

Ready == {r \in Requests : row[r] # None /\ row[r].files = "ready"}

LEMMA OnceInit == Init => Once!Init
  BY DEF Init, Once!Init, Found, Ready

LEMMA SameAnswers == Once!Answers = Answers
  BY DEF Once!Answers, Answers

\* A step that changes neither what is admitted nor what is ready.
LEMMA SameFound ==
  ASSUME UNCHANGED row
  PROVE  Found' = Found /\ Ready' = Ready
  BY DEF Found, Ready

\* A return of a call is an answer, if what it says is true.
LEMMA ReturnAnswers ==
  ASSUME Inv, NEW a \in Actors, NEW state, NEW run, Active(a), Return(a, state, run),
         UNCHANGED <<row, sent>>,
         a \in Calls => /\ [state |-> state, run |-> run] \in Answers
                        /\ Once!Truthful(sent[a], [state |-> state, run |-> run])
  PROVE  [Once!Next]_(Once!vars)
<1>1. Found' = Found /\ Ready' = Ready
  BY SameFound
<1>2. CASE a \in Calls
  <2> DEFINE v == [state |-> state, run |-> run]
  <2>1. sent[a] # None /\ answer[a] = None
    BY <1>2 DEF Inv, PlacesMean, Means
  <2>2. v \in Once!Answers /\ Once!Truthful(sent[a], v) /\ answer' = [answer EXCEPT ![a] = v]
    BY <1>2, SameAnswers DEF Return
  <2> HIDE DEF v
  <2>3. Once!Answer(a)
    BY <1>1, <2>1, <2>2 DEF Once!Answer, Once!Pending, Ready
  <2> QED BY <1>2, <2>3 DEF Once!Next
<1>3. CASE a \notin Calls
  BY <1>1, <1>3 DEF Return, Once!vars, Ready
<1> QED BY <1>2, <1>3

\* What is told of a row in hand is true.
LEMMA ReceiptTruthful ==
  ASSUME Inv, NEW c \in Calls, at[c].request \in Requests, My(c) # None,
         My(c).intent = sent[c].intent, at[c].request = sent[c].request,
         NEW state \in {"accepted", "recovery-required"},
         state = "accepted" => My(c).files = "ready"
  PROVE  /\ [state |-> state, run |-> My(c).run] \in Answers
         /\ Once!Truthful(sent[c], [state |-> state, run |-> My(c).run])
<1>1. c \in Actors /\ TypeOK
  BY DEF Actors, Inv
<1>2. My(c).run \in Calls
  BY <1>1, RowThere
<1>3. Found[sent[c].request] = [intent |-> sent[c].intent, run |-> My(c).run]
  BY DEF Found, My
<1>4. state = "accepted" => sent[c].request \in Ready
  BY DEF Ready, My
<1> QED BY <1>2, <1>3, <1>4 DEF Answers, Once!Truthful, Ready

LEMMA UnknownTruthful ==
  ASSUME NEW s
  PROVE  Once!Truthful(s, [state |-> "unknown", run |-> None])
  BY DEF Once!Truthful

\* A step of an actor that neither returns nor writes.
LEMMA Silent ==
  ASSUME UNCHANGED <<row, sent, answer>>
  PROVE  [Once!Next]_(Once!vars)
  BY SameFound DEF Once!vars, Ready

LEMMA ReceiptAnswers ==
  ASSUME Inv, NEW a \in Actors, Active(a), UNCHANGED <<row, sent>>,
         at[a].request \in Requests, My(a) # None,
         a \in Calls => My(a).intent = sent[a].intent /\ at[a].request = sent[a].request,
         NEW state \in {"accepted", "recovery-required"},
         state = "accepted" => My(a).files = "ready",
         Return(a, state, My(a).run)
  PROVE  [Once!Next]_(Once!vars)
  BY ReceiptTruthful, ReturnAnswers

LEMMA LookupStep ==
  ASSUME Inv, NEW c \in Calls, Lookup(c)
  PROVE  [Once!Next]_(Once!vars)
<1>1. /\ TypeOK /\ Means(c) /\ c \in Actors /\ Active(c) /\ UNCHANGED <<row, sent>>
  BY DEF Inv, PlacesMean, Actors, Lookup, Active
<1>2. sent[c] \in Sent /\ at[c].request = sent[c].request
  BY <1>1 DEF Means, TypeOK
<1>3. at[c].request \in Requests
  BY <1>2 DEF Sent
<1>4. CASE UNCHANGED answer
  BY <1>1, <1>4, Silent
<1>5. CASE Return(c, "unknown", None)
  BY <1>1, <1>5, UnknownAnswer, UnknownTruthful, ReturnAnswers
<1>6. CASE My(c) # None /\ ~SameIntent(c) /\ Return(c, "conflict", None)
  <2>1. Once!Truthful(sent[c], [state |-> "conflict", run |-> None])
    <3>1. Found[sent[c].request] = [intent |-> My(c).intent, run |-> My(c).run]
      BY <1>2, <1>3, <1>6 DEF Found, My
    <3>2. Found[sent[c].request] # None
      <4>1. My(c).intent \in Intents /\ My(c).run \in Calls
        BY <1>1, <1>3, <1>6, RowThere
      <4> QED BY <3>1, <4>1, NoneAssumption
    <3> QED BY <1>6, <3>1, <3>2 DEF Once!Truthful, SameIntent
  <2>2. [state |-> "conflict", run |-> None] \in Answers
    BY DEF Answers
  <2> QED BY <1>1, <1>6, <2>1, <2>2, ReturnAnswers
<1>7. CASE My(c) # None /\ SameIntent(c) /\ My(c).files = "ready" /\ Receipt(c, My(c))
  <2>1. Return(c, "accepted", My(c).run)
    BY <1>7 DEF Receipt
  <2> QED BY <1>1, <1>2, <1>3, <1>7, <2>1, ReceiptAnswers DEF SameIntent
<1> QED BY <1>4, <1>5, <1>6, <1>7 DEF Lookup

LEMMA AdmitStep ==
  ASSUME Inv, NEW c \in Calls, Admit(c)
  PROVE  [Once!Next]_(Once!vars)
<1>1. /\ TypeOK /\ Means(c) /\ c \in Actors /\ Active(c) /\ UNCHANGED <<sent, answer>>
  BY DEF Inv, PlacesMean, Actors, Admit, Active
<1>2. sent[c] \in Sent /\ at[c].request = sent[c].request /\ answer[c] = None /\ sent[c] # None
  BY <1>1 DEF Means, TypeOK
<1>3. sent[c].request \in Requests
  BY <1>2 DEF Sent
<1>4. CASE UNCHANGED row
  BY <1>1, <1>4, Silent
<1>5. CASE ~Taken(c)
  <2> DEFINE r == sent[c].request
  <2> DEFINE q == [intent |-> sent[c].intent, run |-> c, files |-> "pending"]
  <2>1. q # None /\ q.files # "ready" /\ q.intent = sent[c].intent /\ q.run = c
    BY <1>2, NoneAssumption DEF Rows, FilesStates, Sent
  <2>2. row' = [row EXCEPT ![r] = q] /\ row[r] = None
    BY <1>2, <1>5 DEF Admit, Taken, My
  <2> HIDE DEF q
  <2>3. row'[r] = q /\ \A s \in Requests \ {r} : row'[s] = row[s]
    BY <1>1, <1>3, <2>2 DEF TypeOK
  <2>4. Ready' = Ready
    BY <2>1, <2>2, <2>3 DEF Ready
  <2>5. Found[r] = None /\ Found' = [Found EXCEPT ![r] = [intent |-> sent[c].intent, run |-> c]]
    BY <1>3, <2>1, <2>2, <2>3 DEF Found
  <2>6. Once!Admit(c)
    BY <1>1, <1>2, <2>4, <2>5 DEF Once!Admit, Once!Pending, Ready
  <2> QED BY <2>6 DEF Once!Next
<1> QED BY <1>4, <1>5 DEF Admit

\* A recorded directory makes its row ready, or changes nothing that is promised.
LEMMA UpdateStep ==
  ASSUME Inv, NEW a \in Actors, UpdateFiles(a)
  PROVE  [Once!Next]_(Once!vars)
<1> DEFINE r == at[a].request
<1>1. at[a].pc \in Recovering /\ UNCHANGED <<sent, answer>>
  BY DEF UpdateFiles, Recovering
<1>2. r \in Requests /\ row[r] # None
  BY <1>1, InHand DEF My
<1>3. RowsKept /\ (\A s \in Requests \ {r} : row'[s] = row[s])
  BY UpdateRow
<1> HIDE DEF r
<1>4. Found' = Found /\ Found[r] # None
  <2>1. \A s \in Requests : Found'[s] = Found[s]
    BY <1>2, <1>3 DEF Found, RowsKept
  <2>2. Found[r] = [intent |-> row[r].intent, run |-> row[r].run]
    BY <1>2 DEF Found
  <2>3. row[r].intent \in Intents /\ row[r].run \in Calls
    BY <1>2 DEF Inv, TypeOK, Rows
  <2>4. Found[r] # None
    BY <2>2, <2>3, NoneAssumption
  <2>5. Found' = Found
    BY <2>1 DEF Found
  <2> QED BY <2>4, <2>5
<1>5. Ready' = Ready \/ Ready' = Ready \cup {r}
  BY <1>2, <1>3 DEF Ready, RowsKept
<1>6. CASE Ready' = Ready
  BY <1>1, <1>4, <1>6 DEF Once!vars, Ready
<1>7. CASE Ready' = Ready \cup {r}
  <2>1. PICK s \in Requests : s = r
    BY <1>2
  <2>2. Once!MakeReady(s)
    BY <1>1, <1>4, <1>7, <2>1 DEF Once!MakeReady, Ready
  <2> QED BY <2>2 DEF Once!Next
<1> QED BY <1>5, <1>6, <1>7

LEMMA StartStep ==
  ASSUME Inv, NEW c \in Calls, NEW r \in Requests, NEW i \in Intents, Start(c, r, i)
  PROVE  [Once!Next]_(Once!vars)
<1>1. Found' = Found /\ Ready' = Ready
  BY SameFound DEF Start
<1>2. Once!Send(c)
  BY <1>1 DEF Start, Once!Send, Ready
<1> QED BY <1>2 DEF Once!Next

LEMMA RecoveryStep ==
  ASSUME Inv, NEW a \in Actors, ReadRow(a) \/ Reread(a) \/ Fail(a) \/ Die(a)
  PROVE  [Once!Next]_(Once!vars)
<1>1. Active(a) /\ UNCHANGED <<row, sent>>
  BY DEF ReadRow, Reread, Fail, Die, Active
<1>2. CASE UNCHANGED answer
  BY <1>1, <1>2, Silent
<1>3. CASE Return(a, "unknown", None)
  BY <1>1, <1>3, UnknownAnswer, UnknownTruthful, ReturnAnswers
<1>4. CASE at[a].pc \in Recovering /\ Receipt(a, My(a))
  <2> DEFINE state == IF My(a).files = "ready" THEN "accepted" ELSE "recovery-required"
  <2>1. Return(a, state, My(a).run)
    BY <1>4 DEF Receipt
  <2>2. state \in {"accepted", "recovery-required"} /\ (state = "accepted" => My(a).files = "ready")
    OBVIOUS
  <2> HIDE DEF state
  <2> QED BY <1>1, <1>4, <2>1, <2>2, InHand, ReceiptAnswers
<1>5. CASE HasRow(a) /\ Return(a, "recovery-required", My(a).run)
  BY <1>1, <1>5, InHand, ReceiptAnswers
<1> QED BY <1>2, <1>3, <1>4, <1>5, Failing DEF ReadRow, Reread, Die, Recovering

LEMMA OnceStep == Inv /\ [Next]_vars => [Once!Next]_(Once!vars)
<1> SUFFICES ASSUME Inv, [Next]_vars PROVE [Once!Next]_(Once!vars)
  OBVIOUS
<1>1. CASE UNCHANGED vars
  BY <1>1, Silent DEF vars
<1>2. ASSUME NEW c \in Calls, (\E r \in Requests, i \in Intents : Start(c, r, i)) \/ Lookup(c) \/ Admit(c)
      PROVE  [Once!Next]_(Once!vars)
  BY <1>2, StartStep, LookupStep, AdmitStep
<1>3. ASSUME NEW a \in Actors, Recovery(a) \/ Fail(a) \/ Die(a)
      PROVE  [Once!Next]_(Once!vars)
  <2>1. CASE PrepareDirectory(a)
    BY <2>1, Silent DEF PrepareDirectory
  <2> QED BY <1>3, <2>1, RecoveryStep, UpdateStep DEF Recovery
<1>4. CASE \/ \E s \in Scanners : Repairs(s)
           \/ \E r \in Requests : Claim(r)
           \/ DiskChanges
  <2>1. UNCHANGED <<row, sent, answer>>
    BY <1>4 DEF Repairs, Repair, Claim, DiskChanges
  <2> QED BY <2>1, Silent
<1> QED BY <1>1, <1>2, <1>3, <1>4 DEF Next

(***************************************************************************)
(* session-service.ts, "Never return a loser ID": for any number of calls  *)
(* that race, fail, die and are sent again, one run is admitted under a    *)
(* request id, and every answer but "unknown" is true of it.               *)
(***************************************************************************)
THEOREM AdmissionIsOnce == Spec => AdmitsOnce
BY OnceInit, OnceStep, Invariance, PTL DEF Spec, AdmitsOnce, Once!Spec
=============================================================================
