------------------------ MODULE AdmissionClientProofs ------------------------
(***************************************************************************)
(* Proofs about AdmissionClient, for any number of requests, intents and   *)
(* calls, and ledgers of any length.                                       *)
(*                                                                         *)
(* Told: the server's promises, as far as the page relies on them.  Bound: *)
(* the identity of the form is on record or was sent, for the intent of    *)
(* the form, and one identity is never held for two intents; this is why a *)
(* record found in the ledger speaks of every call of its request.  With   *)
(* DoubtIsRemembered, an intent without a record is one whose calls are    *)
(* all known to be accepted.                                               *)
(***************************************************************************)
EXTENDS AdmissionClient, FiniteSetTheorems, WellFoundedInduction, TLAPS

-----------------------------------------------------------------------------
(* Natural numbers: the least element, induction and the greatest element, *)
(* for sets, from the well-foundedness of inclusion of finite sets.        *)

LEMMA LeastElement ==
  ASSUME NEW S \in SUBSET Nat, S # {}
  PROVE  \E m \in S : \A n \in S : m <= n
<1> DEFINE T == {0..n : n \in S}
<1>1. T \subseteq FiniteSubsetsOf(Nat) /\ T # {}
  <2>1. ASSUME NEW n \in S PROVE 0..n \in FiniteSubsetsOf(Nat)
    <3>1. IsFiniteSet(0..n)
      BY FS_Interval
    <3> QED BY <3>1 DEF FiniteSubsetsOf
  <2> QED BY <2>1
<1>2. PICK x \in T : \A y \in T : <<y, x>> \notin StrictSubsetOrdering(Nat)
  <2> HIDE DEF T
  <2> QED BY <1>1, FS_StrictSubsetOrderingWellFounded, WFMin
<1>3. PICK m \in S : x = 0..m
  OBVIOUS
<1>4. ASSUME NEW n \in S, ~(m <= n) PROVE FALSE
  <2>1. 0..n \in T /\ 0..n \subseteq 0..m /\ 0..n # 0..m
    BY <1>4
  <2>2. <<0..n, x>> \in StrictSubsetOrdering(Nat)
    BY <2>1, <1>3 DEF StrictSubsetOrdering
  <2> QED BY <2>1, <2>2, <1>2
<1> QED BY <1>4

LEMMA Induction ==
  ASSUME NEW S \in SUBSET Nat, 0 \in S, \A n \in S : n + 1 \in S
  PROVE  S = Nat
<1> SUFFICES ASSUME Nat \ S # {} PROVE FALSE
  OBVIOUS
<1>1. PICK m \in Nat \ S : \A n \in Nat \ S : m <= n
  <2>1. Nat \ S \in SUBSET Nat
    OBVIOUS
  <2> QED BY <2>1, LeastElement
<1>2. m - 1 \in S /\ (m - 1) + 1 = m
  BY <1>1
<1> QED BY <1>1, <1>2

LEMMA GreatestElement ==
  ASSUME NEW b \in Nat, NEW S \in SUBSET (0..b), S # {}
  PROVE  \E m \in S : \A n \in S : n <= m
<1> DEFINE B == {n \in Nat : \A k \in S : k <= n}
<1>1. PICK m \in B : \A n \in B : m <= n
  <2>1. B \in SUBSET Nat /\ b \in B
    OBVIOUS
  <2> HIDE DEF B
  <2> QED BY <2>1, LeastElement
<1>2. m \in S
  <2> SUFFICES ASSUME m \notin S PROVE FALSE
    OBVIOUS
  <2>1. \A k \in S : k \in Nat /\ k <= m /\ k # m
    OBVIOUS
  <2>2. m \in Nat /\ m # 0 /\ m - 1 \in Nat
    <3>1. PICK k \in S : TRUE
      OBVIOUS
    <3>2. m \in Nat /\ k \in Nat /\ k <= m /\ k # m
      BY <2>1
    <3> QED BY <3>2
  <2>3. \A k \in S : k <= m - 1
    BY <2>1, <2>2
  <2>4. m - 1 \in B
    BY <2>2, <2>3
  <2> QED BY <1>1, <2>4
<1> QED BY <1>2

-----------------------------------------------------------------------------
(* The ledger.                                                             *)

\* What filter leaves of the first n records, as a recursive function.
Filters(f, r) ==
    f = [n \in 0..Len(ledger) |->
            IF n = 0 THEN <<>>
            ELSE IF ledger[n].request = r THEN f[n - 1]
            ELSE Append(f[n - 1], ledger[n])]

\* There is such a function, for a ledger of every length.
LEMMA FilterExists == ASSUME ledger \in Seq(Record), NEW r PROVE \E f : Filters(f, r)
<1> DEFINE Step(f, n) == IF n = 0 THEN <<>>
                         ELSE IF ledger[n].request = r THEN f[n - 1]
                         ELSE Append(f[n - 1], ledger[n])
           S == {m \in Nat : \E f : f = [n \in 0..m |-> Step(f, n)]}
<1>1. 0 \in S
  <2> DEFINE f == [n \in 0..0 |-> <<>>]
  <2>1. f = [n \in 0..0 |-> Step(f, n)]
    OBVIOUS
  <2> QED BY <2>1
<1>2. ASSUME NEW m \in S PROVE m + 1 \in S
  <2>1. m \in Nat
    OBVIOUS
  <2>2. PICK f : f = [n \in 0..m |-> Step(f, n)]
    OBVIOUS
  <2> DEFINE g == [n \in 0..m + 1 |-> IF n <= m THEN f[n] ELSE Step(f, m + 1)]
  <2>3. ASSUME NEW n \in 0..m PROVE g[n] = f[n] /\ f[n] = Step(f, n)
    <3>1. n \in 0..m + 1 /\ n <= m
      BY <2>1
    <3>2. g[n] = f[n]
      BY <3>1
    <3> HIDE DEF g, Step
    <3> QED BY <2>2, <3>2
  <2>4. g[m + 1] = Step(f, m + 1)
    BY <2>1
  <2>5. ASSUME NEW n \in 0..m + 1 PROVE g[n] = Step(g, n)
    <3> HIDE DEF g
    <3>1. n # 0 => n - 1 \in 0..m
      BY <2>1
    <3>2. Step(f, n) = Step(g, n)
      BY <2>3, <3>1
    <3>3. n \in 0..m \/ n = m + 1
      BY <2>1
    <3> HIDE DEF Step
    <3> QED BY <2>3, <2>4, <3>2, <3>3
  <2>6. g = [n \in 0..m + 1 |-> Step(g, n)]
    <3>1. g = [n \in 0..m + 1 |-> g[n]]
      OBVIOUS
    <3> HIDE DEF g, Step
    <3> QED BY <2>5, <3>1
  <2> HIDE DEF g, Step
  <2> QED BY <2>1, <2>6
<1>3. S = Nat
  <2>1. S \in SUBSET Nat
    OBVIOUS
  <2> HIDE DEF S
  <2> QED BY <1>1, <1>2, <2>1, Induction
<1>4. Len(ledger) \in S
  <2> HIDE DEF S
  <2> QED BY <1>3
<1> QED BY <1>4 DEF Filters

\* What is left are the records of the other requests, all of them and no others.
LEMMA WithoutFact ==
  ASSUME ledger \in Seq(Record), NEW r
  PROVE  /\ Without(r) \in Seq(Record)
         /\ \A k \in DOMAIN Without(r) :
               Without(r)[k].request # r /\ \E l \in DOMAIN ledger : ledger[l] = Without(r)[k]
         /\ \A l \in DOMAIN ledger : ledger[l].request # r =>
               \E k \in DOMAIN Without(r) : Without(r)[k] = ledger[l]
<1> DEFINE kept == CHOOSE f : Filters(f, r)
<1>1. Without(r) = kept[Len(ledger)]
  BY DEF Without, Filters
<1>2. Filters(kept, r)
  BY FilterExists
<1> HIDE DEF kept
<1>3. kept[0] = <<>>
  BY <1>2 DEF Filters
<1>4. ASSUME NEW n \in Nat, n + 1 <= Len(ledger)
      PROVE  kept[n + 1] = IF ledger[n + 1].request = r THEN kept[n]
                           ELSE Append(kept[n], ledger[n + 1])
  <2>1. n + 1 \in 0..Len(ledger) /\ n + 1 # 0 /\ (n + 1) - 1 = n
    BY <1>4
  <2> QED BY <1>2, <2>1 DEF Filters
<1> DEFINE Good(n) ==
      /\ kept[n] \in Seq(Record)
      /\ \A k \in DOMAIN kept[n] :
            kept[n][k].request # r /\ \E l \in 1..n : ledger[l] = kept[n][k]
      /\ \A l \in 1..n : ledger[l].request # r => \E k \in DOMAIN kept[n] : kept[n][k] = ledger[l]
           S == {n \in Nat : n <= Len(ledger) => Good(n)}
<1>5. 0 \in S
  <2>1. kept[0] \in Seq(Record) /\ DOMAIN kept[0] = {}
    BY <1>3
  <2> QED BY <2>1
<1>6. ASSUME NEW n \in S PROVE n + 1 \in S
  <2> SUFFICES ASSUME n + 1 <= Len(ledger) PROVE Good(n + 1)
    OBVIOUS
  <2>1. n \in Nat /\ Good(n) /\ n + 1 \in DOMAIN ledger /\ ledger[n + 1] \in Record
    OBVIOUS
  <2>2. CASE ledger[n + 1].request = r
    <3>1. kept[n + 1] = kept[n]
      BY <1>4, <2>1, <2>2
    <3>2. \A l \in 1..n + 1 : l \in 1..n \/ l = n + 1
      BY <2>1
    <3>3. \A l \in 1..n : l \in 1..n + 1
      BY <2>1
    <3> HIDE DEF S
    <3> QED BY <2>1, <2>2, <3>1, <3>2, <3>3
  <2>3. CASE ledger[n + 1].request # r
    <3>1. kept[n + 1] = Append(kept[n], ledger[n + 1])
      BY <1>4, <2>1, <2>3
    <3>2. /\ kept[n + 1] \in Seq(Record) /\ Len(kept[n + 1]) = Len(kept[n]) + 1
          /\ \A k \in 1..Len(kept[n]) : kept[n + 1][k] = kept[n][k]
          /\ kept[n + 1][Len(kept[n]) + 1] = ledger[n + 1]
      BY <2>1, <3>1
    <3>3. ASSUME NEW k \in DOMAIN kept[n + 1]
          PROVE  kept[n + 1][k].request # r /\ \E l \in 1..n + 1 : ledger[l] = kept[n + 1][k]
      <4>1. CASE k \in 1..Len(kept[n])
        BY <2>1, <3>2, <4>1
      <4>2. CASE k = Len(kept[n]) + 1
        BY <2>1, <2>3, <3>2, <4>2
      <4> QED BY <2>1, <3>2, <4>1, <4>2
    <3>4. ASSUME NEW l \in 1..n + 1, ledger[l].request # r
          PROVE  \E k \in DOMAIN kept[n + 1] : kept[n + 1][k] = ledger[l]
      <4>1. CASE l \in 1..n
        <5>1. PICK k \in DOMAIN kept[n] : kept[n][k] = ledger[l]
          BY <2>1, <3>4, <4>1
        <5>2. k \in 1..Len(kept[n]) /\ k \in DOMAIN kept[n + 1]
          BY <2>1, <3>2, <5>1
        <5> QED BY <3>2, <5>1, <5>2
      <4>2. CASE l = n + 1
        BY <2>1, <3>2, <4>2
      <4> QED BY <2>1, <4>1, <4>2
    <3> QED BY <3>2, <3>3, <3>4
  <2> QED BY <2>2, <2>3
<1>7. S = Nat
  <2>1. S \in SUBSET Nat
    OBVIOUS
  <2> HIDE DEF S
  <2> QED BY <1>5, <1>6, <2>1, Induction
<1>8. Good(Len(ledger))
  BY <1>7
<1> QED BY <1>1, <1>8

-----------------------------------------------------------------------------
(* The inductive invariant.                                                *)

Admission == [intent : Intents, run : Calls]
SentCall  == [request : Requests, intent : Intents]

ServerTyped ==
    /\ admitted \in [Requests -> Admission \cup {None}]
    /\ ready \subseteq Requests
    /\ sent \in [Calls -> SentCall \cup {None}]
    /\ answer \in [Calls -> Server!Answers \cup {None}]

\* A receipt of a request is so.
TrueOf(r, receipt) ==
    /\ admitted[r] # None
    /\ admitted[r].run = receipt.run
    /\ receipt.state = "accepted" => r \in ready

\* What the server told, and what it read for the lookup, is so and stays so; it knows
\* of no request that was not sent.
Told ==
    /\ \A c \in Calls : answer[c] # None =>
          /\ sent[c] # None
          /\ answer[c].state \in {"accepted", "recovery-required"} =>
                TrueOf(sent[c].request, answer[c])
    /\ \A r \in Requests : admitted[r] # None => Sent(r)
    /\ checking.served => checking.request # None
    /\ checking.found # None => checking.served /\ TrueOf(checking.request, checking.found)
    /\ \A r \in Requests : confirmed[r] # None => TrueOf(r, confirmed[r])

\* The request was sent for this intent; it was, or is on record for it.
SentFor(r, i) == \E c \in Calls : sent[c] = [request |-> r, intent |-> i]
Held(r, i) ==
    SentFor(r, i) \/ \E k \in DOMAIN ledger : ledger[k] = [request |-> r, intent |-> i]

\* An identity is held for one intent.
OneIntent == \A r \in Requests, i, j \in Intents : Held(r, i) /\ Held(r, j) => i = j

\* What is sent and what the form is bound to is held for the intent of the form.
Bound ==
    /\ task.pc # "idle" => task.intent = payload
    /\ task.pc = "post" => /\ task.post \in Calls /\ task.request \in Requests
                           /\ sent[task.post] = [request |-> task.request, intent |-> payload]
    /\ current # None => Held(current, payload)

Inv == TypeOK /\ ServerTyped /\ Told /\ OneIntent /\ Bound /\ DoubtIsRemembered

-----------------------------------------------------------------------------
(* What an upsert, a removal and a published receipt do.                   *)

\* The records are those that were there, or the one of r and i; those of the other
\* requests all stay.
RecordsFrom(r, i) ==
    /\ ledger' \in Seq(Record)
    /\ \A k \in DOMAIN ledger' :
          \/ ledger'[k] = [request |-> r, intent |-> i]
          \/ \E l \in DOMAIN ledger : ledger[l] = ledger'[k]
    /\ \A l \in DOMAIN ledger : ledger[l].request # r =>
          \E k \in DOMAIN ledger' : ledger'[k] = ledger[l]

LEMMA UpsertFact ==
  ASSUME ledger \in Seq(Record), NEW r \in Requests, NEW i \in Intents, Upsert(r, i)
  PROVE  /\ RecordsFrom(r, i)
         /\ InLedger(r)'
         /\ \E k \in DOMAIN ledger' : ledger'[k] = [request |-> r, intent |-> i]
         /\ \A q \in Requests : InLedger(q) => InLedger(q)'
<1> DEFINE W == Without(r)
           e == [request |-> r, intent |-> i]
<1>1. /\ W \in Seq(Record)
      /\ \A k \in DOMAIN W : \E l \in DOMAIN ledger : ledger[l] = W[k]
      /\ \A l \in DOMAIN ledger : ledger[l].request # r => \E k \in DOMAIN W : W[k] = ledger[l]
  BY WithoutFact
<1>2. ledger' = Append(W, e)
  BY DEF Upsert
<1>3. e \in Record /\ e.request = r
  BY DEF Record
<1> HIDE DEF W, e
<1>4. /\ ledger' \in Seq(Record) /\ DOMAIN ledger' = 1..Len(W) + 1 /\ DOMAIN W = 1..Len(W)
      /\ \A k \in DOMAIN W : k \in DOMAIN ledger' /\ ledger'[k] = W[k]
      /\ ledger'[Len(W) + 1] = e /\ Len(W) \in Nat
  BY <1>1, <1>2, <1>3
<1>5. \A k \in DOMAIN ledger' : k \in DOMAIN W \/ k = Len(W) + 1
  BY <1>4
<1>6. Len(W) + 1 \in DOMAIN ledger'
  BY <1>4
<1>7. RecordsFrom(r, i)
  BY <1>1, <1>4, <1>5 DEF RecordsFrom, e
<1>8. InLedger(r)'
  BY <1>3, <1>4, <1>6 DEF InLedger
<1>9. ASSUME NEW q \in Requests, InLedger(q) PROVE InLedger(q)'
  <2>1. PICK l \in DOMAIN ledger : ledger[l].request = q
    BY <1>9 DEF InLedger
  <2>2. CASE q # r
    <3>1. PICK k \in DOMAIN W : W[k] = ledger[l]
      BY <1>1, <2>1, <2>2
    <3> QED BY <1>4, <2>1, <3>1 DEF InLedger
  <2> QED BY <1>8, <2>2
<1>10. \E k \in DOMAIN ledger' : ledger'[k] = [request |-> r, intent |-> i]
  BY <1>4, <1>6 DEF e
<1> QED BY <1>7, <1>8, <1>9, <1>10

LEMMA RemoveFact ==
  ASSUME ledger \in Seq(Record), NEW r \in Requests, NEW i \in Intents, Remove(r)
  PROVE  /\ RecordsFrom(r, i)
         /\ \A q \in Requests : q # r /\ InLedger(q) => InLedger(q)'
  BY WithoutFact DEF Remove, RecordsFrom, InLedger

LEMMA PublishFact ==
  ASSUME TypeOK, NEW r \in Requests, NEW i \in Intents, NEW receipt \in Receipt,
         Publish(r, i, receipt)
  PROVE  /\ RecordsFrom(r, i)
         /\ confirmed' \in [Requests -> Receipt \cup {None}]
         /\ \A q \in Requests : confirmed'[q] = IF q = r THEN receipt ELSE confirmed[q]
         /\ seen' \subseteq Requests
         /\ \A q \in Requests : InLedger(q) \/ q \in seen => InLedger(q)' \/ q \in seen'
<1>1. /\ confirmed' = [confirmed EXCEPT ![r] = receipt]
      /\ seen' = IF receipt.state = "accepted" THEN seen \cup {r} ELSE seen
  BY DEF Publish
<1>2. /\ confirmed' \in [Requests -> Receipt \cup {None}]
      /\ \A q \in Requests : confirmed'[q] = IF q = r THEN receipt ELSE confirmed[q]
      /\ seen' \subseteq Requests
  BY <1>1 DEF TypeOK
<1>3. CASE receipt.state = "accepted" /\ Remove(r)
  BY <1>1, <1>2, <1>3, RemoveFact DEF TypeOK
<1>4. CASE receipt.state # "accepted" /\ Upsert(r, i)
  BY <1>1, <1>2, <1>4, UpsertFact DEF TypeOK
<1>5. CASE UNCHANGED ledger
  BY <1>1, <1>2, <1>5 DEF TypeOK, RecordsFrom, InLedger
<1> QED BY <1>3, <1>4, <1>5 DEF Publish, Settle

-----------------------------------------------------------------------------
(* The initial state, and a step of every kind.                            *)

LEMMA EmptyFact ==
  /\ Nothing \in Task /\ Nothing.pc = "idle"
  /\ NoCheck \in Lookups /\ NoCheck.request = None /\ ~NoCheck.served /\ NoCheck.found = None
  BY DEF Nothing, Task, NoCheck, Lookups

LEMMA InitInv == Init => Inv
<1> SUFFICES ASSUME Init PROVE Inv
  OBVIOUS
<1>1. TypeOK
  <2>1. ledger \in Seq(Record)
    BY DEF Init
  <2>2. confirmed \in [Requests -> Receipt \cup {None}]
    BY DEF Init
  <2> QED BY <2>1, <2>2, EmptyFact DEF Init, TypeOK
<1>2. ServerTyped /\ \A c \in Calls : sent[c] = None /\ answer[c] = None
  BY DEF Init, Server!Init, ServerTyped
<1>3. Told
  BY <1>2, EmptyFact DEF Init, Server!Init, Told
<1>4. \A r \in Requests, i \in Intents : ~Held(r, i)
  BY <1>2, NoneAssumption DEF Init, Held, SentFor, Record
<1>5. OneIntent /\ DoubtIsRemembered
  BY <1>2, <1>4 DEF OneIntent, DoubtIsRemembered, Sent
<1>6. Bound
  BY EmptyFact DEF Init, Bound
<1> QED BY <1>1, <1>2, <1>3, <1>5, <1>6 DEF Inv

\* What the user does, and a submission or a lookup that comes to nothing: the server,
\* the ledger and what was seen are left, a submission or a lookup is given up or stays,
\* or a submission of the intent in the form begins.
LocalStep ==
    /\ UNCHANGED <<server, ledger, seen>>
    /\ payload' \in Intents /\ forceNew' \in BOOLEAN
    /\ current' = None \/ UNCHANGED <<current, payload>>
    /\ \/ task' = Nothing
       \/ UNCHANGED <<task, payload>>
       \/ /\ task' \in Task /\ task'.pc = "intent" /\ task'.intent = payload
          /\ payload' = payload
    /\ checking' = NoCheck \/ UNCHANGED checking
    /\ confirmed' = [r \in Requests |-> None] \/ UNCHANGED confirmed

LEMMA LocalKeeps == ASSUME Inv, LocalStep PROVE Inv'
<1>1. TypeOK'
  BY EmptyFact DEF Inv, TypeOK, LocalStep
<1>2. ServerTyped' /\ OneIntent' /\ DoubtIsRemembered'
  BY DEF LocalStep, server, Inv, ServerTyped, OneIntent, Held, SentFor, DoubtIsRemembered,
         Sent, InLedger
<1>3. Told'
  BY EmptyFact DEF LocalStep, server, Inv, Told, TrueOf, Sent
<1>4. Bound'
  BY EmptyFact DEF LocalStep, server, Inv, Bound, Held, SentFor
<1> QED BY <1>1, <1>2, <1>3, <1>4 DEF Inv

LEMMA LocalSteps ==
  ASSUME TypeOK,
         \/ \E i \in Intents : Edit(i)
         \/ BeginNew \/ Reload \/ Submit \/ NotDispatched \/ PostLost \/ LookupLost
  PROVE  LocalStep
<1>1. CASE Submit
  <2>1. task' = [pc |-> "intent", intent |-> payload, request |-> None, post |-> None]
    BY <1>1 DEF Submit, Nothing
  <2>2. task' \in Task /\ task'.pc = "intent" /\ task'.intent = payload
    BY <2>1 DEF TypeOK, Task
  <2> QED BY <1>1, <2>2 DEF Submit, LocalStep, TypeOK
<1>2. CASE (\E i \in Intents : Edit(i)) \/ BeginNew \/ Reload
  BY <1>2 DEF Edit, BeginNew, Reload, LocalStep, TypeOK
<1>3. CASE NotDispatched \/ PostLost \/ LookupLost
  BY <1>3 DEF NotDispatched, PostLost, LookupLost, LocalStep, TypeOK
<1> QED BY <1>1, <1>2, <1>3

\* The server: what it has told stays so, since what is admitted and ready stays.
Keeps(r) == /\ admitted[r] # None => admitted'[r] = admitted[r]
            /\ r \in ready => r \in ready'

LEMMA ServerKeeps == ASSUME Inv, ServerStep PROVE Inv'
<1>1. UNCHANGED page /\ UNCHANGED sent
  BY DEF ServerStep, Server!Admit, Server!Answer, Server!MakeReady
<1>2. TypeOK' /\ OneIntent' /\ Bound' /\ DoubtIsRemembered'
  BY <1>1
  DEF page, Inv, TypeOK, OneIntent, Bound, DoubtIsRemembered, Held, SentFor, Sent, InLedger
<1>3. SUFFICES /\ ServerTyped'
               /\ \A r \in Requests : admitted'[r] # None => Sent(r)
               /\ \A r \in Requests : Keeps(r)
               /\ \A c \in Calls : answer'[c] # None /\ answer'[c] # answer[c] =>
                     /\ sent[c] # None
                     /\ answer'[c].state \in {"accepted", "recovery-required"} =>
                           TrueOf(sent[c].request, answer[c])'
  <2>1. \A r \in Requests : \A t : TrueOf(r, t) => TrueOf(r, t)'
    BY <1>3 DEF TrueOf, Keeps
  <2>2. checking.request # None => checking.request \in Requests
    BY DEF Inv, TypeOK, Lookups
  <2>3. \A c \in Calls : sent[c] # None => sent[c].request \in Requests
    BY DEF Inv, ServerTyped, SentCall
  <2>4. \A r \in Requests : Sent(r) => Sent(r)'
    BY <1>1 DEF Sent
  <2>5. Told'
    BY <1>1, <1>3, <2>1, <2>2, <2>3, <2>4 DEF page, Inv, Told
  <2> QED BY <1>2, <1>3, <2>5 DEF Inv
<1>4. ASSUME NEW c \in Calls, Server!Admit(c)
      PROVE  /\ ServerTyped' /\ UNCHANGED answer
             /\ \A r \in Requests : Keeps(r) /\ (admitted'[r] # None => Sent(r))
  <2>1. sent[c] # None /\ sent[c].request \in Requests /\ sent[c].intent \in Intents
    BY <1>4 DEF Server!Admit, Server!Pending, Inv, ServerTyped, SentCall
  <2>2. /\ admitted[sent[c].request] = None /\ UNCHANGED <<ready, sent, answer>>
        /\ admitted' = [admitted EXCEPT ![sent[c].request] =
                           [intent |-> sent[c].intent, run |-> c]]
    BY <1>4 DEF Server!Admit
  <2>3. Sent(sent[c].request)
    BY <2>1 DEF Sent
  <2> QED BY <2>1, <2>2, <2>3 DEF Inv, Told, ServerTyped, Admission, Keeps
<1>5. ASSUME NEW r \in Requests, Server!MakeReady(r)
      PROVE  /\ ServerTyped' /\ UNCHANGED answer
             /\ \A q \in Requests : Keeps(q) /\ (admitted'[q] # None => Sent(q))
  BY <1>5 DEF Server!MakeReady, Inv, Told, ServerTyped, Keeps
<1>6. ASSUME NEW c \in Calls, Server!Answer(c)
      PROVE  /\ ServerTyped'
             /\ \A r \in Requests : Keeps(r) /\ (admitted'[r] # None => Sent(r))
             /\ \A d \in Calls : answer'[d] # None /\ answer'[d] # answer[d] =>
                     /\ sent[d] # None
                     /\ answer'[d].state \in {"accepted", "recovery-required"} =>
                           TrueOf(sent[d].request, answer[d])'
  <2>1. PICK a \in Server!Answers :
           Server!Truthful(sent[c], a) /\ answer' = [answer EXCEPT ![c] = a]
    BY <1>6 DEF Server!Answer
  <2>2. sent[c] # None /\ UNCHANGED <<admitted, ready, sent>>
    BY <1>6 DEF Server!Answer, Server!Pending
  <2>3. ServerTyped' /\ answer'[c] = a /\ \A d \in Calls : d # c => answer'[d] = answer[d]
    BY <2>1, <2>2 DEF Inv, ServerTyped
  <2>4. sent[c].request \in Requests
    BY <2>2 DEF Inv, ServerTyped, SentCall
  <2>5. a.state \in {"accepted", "recovery-required"} => TrueOf(sent[c].request, a)'
    <3> HAVE a.state \in {"accepted", "recovery-required"}
    <3>1. /\ admitted[sent[c].request] = [intent |-> sent[c].intent, run |-> a.run]
          /\ a.state = "accepted" => sent[c].request \in ready
      BY <2>1 DEF Server!Truthful
    <3>2. a.run \in Calls /\ sent[c].intent \in Intents
      BY <2>1, <2>2 DEF Server!Answers, Inv, ServerTyped, SentCall
    <3>3. [intent |-> sent[c].intent, run |-> a.run] \in Admission
      BY <3>2 DEF Admission
    <3> QED BY <2>2, <3>1, <3>3, NoneAssumption DEF TrueOf, Admission
  <2> QED BY <2>1, <2>2, <2>3, <2>5 DEF Keeps, Inv, Told
<1> QED BY <1>4, <1>5, <1>6 DEF ServerStep

-----------------------------------------------------------------------------
(* Lookups.                                                                *)

LEMMA LookupKeeps == ASSUME Inv, NEW r \in Requests, Lookup(r) PROVE Inv'
<1>1. /\ UNCHANGED <<server, ledger, payload, current, forceNew, task, confirmed, seen>>
      /\ checking' = [request |-> r, served |-> FALSE, found |-> None, overtaken |-> FALSE]
  BY DEF Lookup, NoCheck
<1>2. /\ checking' \in Lookups /\ checking'.request = r /\ ~checking'.served
      /\ checking'.found = None
  BY <1>1 DEF Lookups
<1>3. TypeOK' /\ ServerTyped'
  BY <1>1, <1>2 DEF server, Inv, TypeOK, ServerTyped
<1>4. OneIntent' /\ DoubtIsRemembered'
  BY <1>1 DEF server, Inv, OneIntent, Held, SentFor, DoubtIsRemembered, Sent, InLedger
<1>5. Told'
  BY <1>1, <1>2 DEF server, Inv, Told, TrueOf, Sent
<1>6. Bound'
  BY <1>1, <1>2 DEF server, Inv, Bound, Held, SentFor
<1> QED BY <1>3, <1>4, <1>5, <1>6 DEF Inv

LEMMA LookupServedKeeps == ASSUME Inv, LookupServed PROVE Inv'
<1> DEFINE r == checking.request
           found == IF admitted[r] = None THEN None
                    ELSE [state |-> IF r \in ready THEN "accepted" ELSE "recovery-required",
                          run |-> admitted[r].run]
<1>1. /\ UNCHANGED <<server, ledger, payload, current, forceNew, task, confirmed, seen>>
      /\ checking' = [checking EXCEPT !.served = TRUE, !.found = found]
      /\ r # None
  BY DEF LookupServed
<1>2. r \in Requests /\ checking \in Lookups
  BY <1>1 DEF Inv, TypeOK, Lookups
<1>3. found \in Receipt \cup {None} /\ (found # None => TrueOf(r, found))
  BY <1>2 DEF Inv, ServerTyped, Admission, Receipt, TrueOf
<1> HIDE DEF found
<1>4. checking' \in Lookups /\ checking'.request = r /\ checking'.served /\ checking'.found = found
  BY <1>1, <1>2, <1>3 DEF Lookups
<1>5. TypeOK' /\ ServerTyped' /\ OneIntent' /\ DoubtIsRemembered'
  BY <1>1, <1>4 DEF server, Inv, TypeOK, ServerTyped, OneIntent, Held, SentFor,
                    DoubtIsRemembered, Sent, InLedger
<1>6. Told'
  BY <1>1, <1>3, <1>4 DEF server, Inv, Told, TrueOf, Sent
<1>7. Bound'
  BY <1>1, <1>4 DEF server, Inv, Bound, Held, SentFor
<1> QED BY <1>5, <1>6, <1>7 DEF Inv

-----------------------------------------------------------------------------
(* Receipts.                                                               *)

\* A step that puts r on record or sends it for the one intent that it is held for leaves
\* what is held, for one intent each.
LEMMA HeldKeeps ==
  ASSUME TypeOK, OneIntent, NEW r \in Requests, NEW i \in Intents, RecordsFrom(r, i),
         Held(r, i)',
         \A j \in Intents : Held(r, j) => j = i,
         \A q \in Requests, j \in Intents :
            /\ SentFor(q, j) => SentFor(q, j)'
            /\ SentFor(q, j)' => SentFor(q, j) \/ (q = r /\ j = i)
  PROVE  /\ OneIntent'
         /\ \A q \in Requests, j \in Intents : Held(q, j) => Held(q, j)'
<1>1. ASSUME NEW q \in Requests, NEW j \in Intents, Held(q, j)' PROVE Held(q, j) \/ (q = r /\ j = i)
  <2>1. CASE SentFor(q, j)'
    BY <2>1 DEF Held
  <2>2. ASSUME NEW k \in DOMAIN ledger', ledger'[k] = [request |-> q, intent |-> j]
        PROVE  Held(q, j) \/ (q = r /\ j = i)
    BY <2>2 DEF RecordsFrom, Held
  <2> QED BY <1>1, <2>1, <2>2 DEF Held
<1>2. ASSUME NEW q \in Requests, NEW j \in Intents, Held(q, j) PROVE Held(q, j)'
  <2>1. CASE q = r
    BY <1>2, <2>1
  <2>2. CASE SentFor(q, j)
    BY <2>2 DEF Held
  <2>3. ASSUME q # r, NEW l \in DOMAIN ledger, ledger[l] = [request |-> q, intent |-> j]
        PROVE  Held(q, j)'
    <3>1. ledger[l].request # r
      BY <2>3
    <3>2. \E k \in DOMAIN ledger' : ledger'[k] = [request |-> q, intent |-> j]
      BY <2>3, <3>1 DEF RecordsFrom
    <3> QED BY <3>2 DEF Held
  <2> QED BY <1>2, <2>1, <2>2, <2>3 DEF Held
<1>3. OneIntent'
  <2> SUFFICES ASSUME NEW q \in Requests, NEW j \in Intents, NEW k \in Intents,
                      Held(q, j)', Held(q, k)'
               PROVE  j = k
    BY DEF OneIntent
  <2> QED BY <1>1 DEF OneIntent
<1> QED BY <1>2, <1>3

\* The lookup under way is the same, or overtaken, or over.
SameCheck == \/ checking' = NoCheck
             \/ /\ checking' \in Lookups
                /\ checking'.request = checking.request
                /\ checking'.served = checking.served
                /\ checking'.found = checking.found

LEMMA PublishKeeps ==
  ASSUME Inv, NEW r \in Requests, NEW i \in Intents, NEW receipt \in Receipt,
         Publish(r, i, receipt), SentFor(r, i), TrueOf(r, receipt),
         UNCHANGED <<server, payload, current, forceNew>>,
         task' = Nothing \/ UNCHANGED task,
         SameCheck
  PROVE  Inv'
<1>1. /\ RecordsFrom(r, i)
      /\ confirmed' \in [Requests -> Receipt \cup {None}]
      /\ \A q \in Requests : confirmed'[q] = IF q = r THEN receipt ELSE confirmed[q]
      /\ seen' \subseteq Requests
      /\ \A q \in Requests : InLedger(q) \/ q \in seen => InLedger(q)' \/ q \in seen'
  BY PublishFact DEF Inv
<1>2. TypeOK'
  BY <1>1, EmptyFact DEF Inv, TypeOK, RecordsFrom, SameCheck
<1>3. ServerTyped' /\ DoubtIsRemembered'
  BY <1>1 DEF server, Inv, ServerTyped, DoubtIsRemembered, Sent
<1>4. Told'
  BY <1>1, EmptyFact DEF server, Inv, Told, TrueOf, SameCheck, Sent
<1>5. /\ OneIntent'
      /\ \A q \in Requests, j \in Intents : Held(q, j) => Held(q, j)'
  <2>1. \A q, j : SentFor(q, j)' <=> SentFor(q, j)
    BY DEF server, SentFor
  <2>2. Held(r, i)' /\ \A j \in Intents : Held(r, j) => j = i
    BY <2>1 DEF Inv, OneIntent, Held
  <2> QED BY <1>1, <2>1, <2>2, HeldKeeps DEF Inv
<1>6. Bound'
  <2>1. payload \in Intents /\ current \in Requests \cup {None}
    BY DEF Inv, TypeOK
  <2>2. current # None => Held(current, payload)'
    <3>1. PICK q, i0 : q = current /\ i0 = payload
      OBVIOUS
    <3>2. q # None => Held(q, i0)'
      BY <1>5, <2>1, <3>1 DEF Inv, Bound
    <3> QED BY <3>1, <3>2 DEF Held, SentFor
  <2> QED BY <2>2, EmptyFact DEF server, Inv, Bound, Held, SentFor
<1> QED BY <1>2, <1>3, <1>4, <1>5, <1>6 DEF Inv

\* A step that publishes nothing and ends a submission or a lookup.
LEMMA IgnoredKeeps ==
  ASSUME Inv, UNCHANGED <<server, ledger, payload, current, forceNew, confirmed, seen>>,
         task' = Nothing \/ UNCHANGED task,
         checking' = NoCheck \/ UNCHANGED checking
  PROVE  Inv'
  BY LocalKeeps DEF LocalStep, Inv, TypeOK

LEMMA IntentOfFact ==
  ASSUME ServerTyped, NEW r \in Requests, Sent(r)
  PROVE  IntentOf(r) \in Intents /\ SentFor(r, IntentOf(r))
<1> DEFINE c == CHOOSE d \in Calls : sent[d] # None /\ sent[d].request = r
<1>1. c \in Calls /\ sent[c] # None /\ sent[c].request = r
  BY DEF Sent
<1>2. IntentOf(r) = sent[c].intent
  BY DEF IntentOf
<1> HIDE DEF c
<1>3. sent[c] \in SentCall
  BY <1>1 DEF ServerTyped
<1>4. sent[c] = [request |-> r, intent |-> IntentOf(r)] /\ IntentOf(r) \in Intents
  BY <1>1, <1>2, <1>3 DEF SentCall
<1> QED BY <1>1, <1>4 DEF SentFor

LEMMA LookupPublishes ==
  ASSUME Inv, LookupReturns, ~Ignored(checking.request, checking.found)
  PROVE  /\ checking.request \in Requests /\ checking.found \in Receipt
         /\ Publish(checking.request, IntentOf(checking.request), checking.found)
         /\ Sent(checking.request) /\ TrueOf(checking.request, checking.found)
<1>1. Publish(checking.request, IntentOf(checking.request), checking.found) /\ checking.served
  BY DEF LookupReturns
<1>2. checking.request \in Requests /\ checking.found \in Receipt
  BY <1>1 DEF Ignored, Inv, TypeOK, Lookups, Told
<1>3. TrueOf(checking.request, checking.found)
  BY DEF Ignored, Inv, Told
<1>4. Sent(checking.request)
  BY <1>2, <1>3 DEF Inv, Told, TrueOf
<1> QED BY <1>1, <1>2, <1>3, <1>4

LEMMA LookupReturnsKeeps == ASSUME Inv, LookupReturns PROVE Inv'
<1>1. /\ checking' = NoCheck /\ UNCHANGED <<server, payload, current, forceNew, task>>
      /\ checking.served
  BY DEF LookupReturns
<1>2. CASE Ignored(checking.request, checking.found)
  BY <1>1, <1>2, IgnoredKeeps DEF LookupReturns
<1>3. CASE ~Ignored(checking.request, checking.found)
  <2>1. /\ checking.request \in Requests /\ checking.found \in Receipt
        /\ Publish(checking.request, IntentOf(checking.request), checking.found)
        /\ Sent(checking.request) /\ TrueOf(checking.request, checking.found)
    BY <1>3, LookupPublishes
  <2>2. /\ IntentOf(checking.request) \in Intents
        /\ SentFor(checking.request, IntentOf(checking.request))
    BY <2>1, IntentOfFact DEF Inv
  <2> QED BY <1>1, <2>1, <2>2, PublishKeeps DEF SameCheck
<1> QED BY <1>2, <1>3

LEMMA PostPublishes ==
  ASSUME Inv, NEW c \in Calls, PostReturns(c), ~(Failed(c) \/ Accepted(task.request))
  PROVE  /\ task.request \in Requests /\ task.intent \in Intents /\ answer[c] \in Receipt
         /\ Publish(task.request, task.intent, answer[c]) /\ Overtake(task.request)
         /\ Sent(task.request) /\ SentFor(task.request, task.intent)
         /\ TrueOf(task.request, answer[c])
<1>1. task.pc = "post" /\ task.post = c /\ answer[c] # None
  BY DEF PostReturns, Awaited
<1>2. Publish(task.request, task.intent, answer[c]) /\ Overtake(task.request)
  BY DEF PostReturns
<1>3. /\ task.request \in Requests /\ task.intent \in Intents
      /\ sent[c] = [request |-> task.request, intent |-> task.intent]
  BY <1>1 DEF Inv, TypeOK, Bound
<1>4. answer[c] \in Receipt
  BY <1>1 DEF Failed, Inv, ServerTyped, Server!Answers, Receipt
<1>5. TrueOf(task.request, answer[c])
  BY <1>1, <1>3, <1>4 DEF Inv, Told, Receipt
<1>6. sent[c] # None
  BY <1>1 DEF Inv, Told
<1>7. Sent(task.request) /\ SentFor(task.request, task.intent)
  BY <1>3, <1>6 DEF Sent, SentFor
<1> QED BY <1>2, <1>3, <1>4, <1>5, <1>7

LEMMA PostReturnsKeeps == ASSUME Inv, NEW c \in Calls, PostReturns(c) PROVE Inv'
<1>1. /\ task' = Nothing /\ UNCHANGED <<server, payload, current, forceNew>>
  BY DEF PostReturns
<1>2. CASE Failed(c) \/ Accepted(task.request)
  BY <1>1, <1>2, IgnoredKeeps DEF PostReturns
<1>3. CASE ~(Failed(c) \/ Accepted(task.request))
  <2>1. /\ task.request \in Requests /\ task.intent \in Intents /\ answer[c] \in Receipt
        /\ Publish(task.request, task.intent, answer[c]) /\ Overtake(task.request)
        /\ SentFor(task.request, task.intent)
        /\ TrueOf(task.request, answer[c])
    BY <1>3, PostPublishes
  <2>2. SameCheck
    <3>1. checking \in Lookups
      BY DEF Inv, TypeOK
    <3>2. checking' = [checking EXCEPT !.overtaken = checking.overtaken
                                                     \/ checking.request = task.request]
      BY <2>1 DEF Overtake
    <3> DEFINE b == checking.overtaken \/ checking.request = task.request
    <3>3. b \in BOOLEAN
      BY <3>1 DEF Lookups
    <3> HIDE DEF b
    <3>4. checking' = [checking EXCEPT !.overtaken = b]
      BY <3>2 DEF b
    <3> QED BY <3>1, <3>3, <3>4 DEF SameCheck, Lookups
  <2> QED BY <1>1, <2>1, <2>2, PublishKeeps
<1> QED BY <1>2, <1>3

-----------------------------------------------------------------------------
(* A submission.                                                           *)

\* Without a record to go on with, and no new run wanted, the ledger has none of the intent.
LEMMA NoRecordFact ==
  ASSUME TypeOK, NEW i, Existing(i) = {}, ~forceNew
  PROVE  current = None /\ OfIntent(i) = {}
<1>1. current = None
  BY DEF Existing
<1>2. OfIntent(i) = {}
  <2> SUFFICES ASSUME OfIntent(i) # {} PROVE FALSE
    OBVIOUS
  <2>1. Len(ledger) \in Nat /\ OfIntent(i) \in SUBSET (0..Len(ledger))
    BY DEF TypeOK, OfIntent
  <2>2. PICK k \in OfIntent(i) : \A m \in OfIntent(i) : m <= k
    BY <2>1, GreatestElement
  <2>3. ledger[k].request \in Existing(i)
    BY <1>1, <2>2 DEF Existing
  <2> QED BY <2>3
<1> QED BY <1>1, <1>2

\* The identity is the one offered, or one held for this intent.
LEMMA IdentityFact ==
  ASSUME TypeOK, NEW offered \in Requests,
         current # None => Held(current, task.intent)
  PROVE  /\ Identity(task.intent, offered) \in Requests
         /\ \/ Identity(task.intent, offered) = offered /\ Existing(task.intent) = {}
            \/ Held(Identity(task.intent, offered), task.intent)
<1> DEFINE E == Existing(task.intent)
           r == Identity(task.intent, offered)
<1>1. CASE E = {}
  BY <1>1 DEF Identity
<1>2. CASE E # {}
  <2>1. r \in E
    BY <1>2 DEF Identity
  <2> HIDE DEF r
  <2>2. ASSUME current # None PROVE r \in Requests /\ Held(r, task.intent)
    BY <2>1, <2>2 DEF Existing, TypeOK
  <2>3. ASSUME current = None PROVE r \in Requests /\ Held(r, task.intent)
    <3>1. PICK k \in OfIntent(task.intent) : r = ledger[k].request
      BY <2>1, <2>3 DEF Existing
    <3>2. k \in DOMAIN ledger /\ ledger[k].intent = task.intent /\ ledger[k] \in Record
      BY <3>1 DEF OfIntent, TypeOK
    <3>3. ledger[k] = [request |-> r, intent |-> task.intent]
      BY <3>1, <3>2 DEF Record
    <3> QED BY <3>1, <3>2, <3>3 DEF Record, Held
  <2> QED BY <2>2, <2>3 DEF r
<1> QED BY <1>1, <1>2

\* An identity that was not taken up is held for no intent.
LEMMA FreshFact ==
  ASSUME NEW r \in Requests, NEW i \in Intents, Held(r, i) PROVE Taken(r)
<1>1. [request |-> r, intent |-> i] # None
  BY NoneAssumption DEF Record
<1>2. CASE SentFor(r, i)
  BY <1>1, <1>2 DEF SentFor, Taken, Sent
<1>3. CASE \E k \in DOMAIN ledger : ledger[k] = [request |-> r, intent |-> i]
  BY <1>3 DEF Taken, InLedger
<1> QED BY <1>2, <1>3 DEF Held

\* A submission binds the identity offered, or one held for this intent.
Binds(offered, r) ==
    /\ (r = offered /\ Existing(payload) = {}) \/ Held(r, payload)
    /\ Upsert(r, payload)
    /\ current' = r /\ forceNew' = FALSE

LEMMA BindFact ==
  ASSUME Inv, NEW offered \in Requests, task.pc = "intent",
         Bind(Identity(task.intent, offered))
  PROVE  \E r \in Requests : r = Identity(task.intent, offered) /\ Binds(offered, r)
<1> DEFINE r == Identity(task.intent, offered)
<1>1. Upsert(r, task.intent) /\ current' = r /\ forceNew' = FALSE
  BY DEF Bind, Register
<1>2. task.intent = payload
  BY DEF Inv, Bound
<1>3. /\ r \in Requests
      /\ (r = offered /\ Existing(payload) = {}) \/ Held(r, payload)
  BY <1>2, IdentityFact DEF Inv, Bound
<1> HIDE DEF r
<1>4. Binds(offered, r)
  BY <1>1, <1>2, <1>3 DEF Binds
<1> QED BY <1>3, <1>4 DEF r

\* A submission sends the identity it binds.
Dispatches(c, r) ==
    /\ task' \in Task /\ task'.pc = "post" /\ task'.intent = payload
    /\ task'.request = r /\ task'.post = c
    /\ sent' \in [Calls -> SentCall \cup {None}]
    /\ sent[c] = None /\ sent'[c] = [request |-> r, intent |-> payload]
    /\ sent'[c] # None
    /\ \A d \in Calls : d # c => sent'[d] = sent[d]

LEMMA DispatchFact ==
  ASSUME Inv, NEW c \in Calls, NEW offered \in Requests, Dispatch(c, offered)
  PROVE  \E r \in Requests : Binds(offered, r) /\ Dispatches(c, r)
<1>1. PICK r \in Requests : r = Identity(task.intent, offered) /\ Binds(offered, r)
  BY BindFact DEF Dispatch
<1>2. /\ task.pc = "intent" /\ sent[c] = None
      /\ task' = [task EXCEPT !.pc = "post", !.request = r, !.post = c]
      /\ sent' = [sent EXCEPT ![c] = [request |-> r, intent |-> task.intent]]
  BY <1>1 DEF Dispatch
<1>3. task.intent = payload /\ payload \in Intents /\ task \in Task
  BY <1>2 DEF Inv, Bound, TypeOK
<1>4. task' \in Task /\ task'.pc = "post" /\ task'.intent = payload
      /\ task'.request = r /\ task'.post = c
  BY <1>2, <1>3 DEF Task
<1>5. [request |-> r, intent |-> payload] \in Record
  BY <1>3 DEF Record
<1>6. [request |-> r, intent |-> payload] # None
  BY <1>5, NoneAssumption
<1>7. /\ sent' \in [Calls -> SentCall \cup {None}]
      /\ sent'[c] = [request |-> r, intent |-> payload]
      /\ \A d \in Calls : d # c => sent'[d] = sent[d]
  BY <1>2, <1>3, <1>5 DEF Inv, ServerTyped, SentCall, Record
<1> QED BY <1>1, <1>2, <1>4, <1>6, <1>7 DEF Dispatches

\* What a submission binds is on record and held for the intent of the form only,
\* whether it is sent or not.
LEMMA BindKeeps ==
  ASSUME Inv, NEW offered \in Requests, ~Taken(offered), NEW r \in Requests,
         Binds(offered, r), UNCHANGED <<payload, checking, confirmed, seen>>,
         \A q \in Requests, j \in Intents :
            /\ SentFor(q, j) => SentFor(q, j)'
            /\ SentFor(q, j)' => SentFor(q, j) \/ (q = r /\ j = payload)
  PROVE  /\ ledger' \in Seq(Record) /\ InLedger(r)'
         /\ \A q \in Requests : InLedger(q) => InLedger(q)'
         /\ OneIntent'
         /\ current' = r /\ forceNew' = FALSE /\ Held(current, payload)'
<1>1. PICK i \in Intents : i = payload
  BY DEF Inv, TypeOK
<1>2. /\ (r = offered /\ Existing(i) = {}) \/ Held(r, i)
      /\ Upsert(r, i) /\ current' = r /\ forceNew' = FALSE
  BY <1>1 DEF Binds
<1>3. /\ RecordsFrom(r, i) /\ InLedger(r)'
      /\ \E k \in DOMAIN ledger' : ledger'[k] = [request |-> r, intent |-> i]
      /\ \A q \in Requests : InLedger(q) => InLedger(q)'
  BY <1>2, UpsertFact DEF Inv, TypeOK
<1>4. Held(r, i)'
  BY <1>3 DEF Held
<1>5. \A j \in Intents : Held(r, j) => j = i
  BY <1>2, FreshFact DEF Inv, OneIntent
<1>6. OneIntent'
  BY <1>1, <1>3, <1>4, <1>5, HeldKeeps DEF Inv
<1>7. Held(current, payload)'
  BY <1>1, <1>2, <1>4 DEF Held, SentFor
<1> QED BY <1>2, <1>3, <1>6, <1>7 DEF RecordsFrom

LEMMA DispatchKeeps ==
  ASSUME Inv, NEW c \in Calls, NEW offered \in Requests, Dispatch(c, offered)
  PROVE  Inv'
<1>0. PICK r \in Requests : Binds(offered, r) /\ Dispatches(c, r)
  BY DispatchFact
<1>1. /\ task' \in Task /\ task'.pc = "post" /\ task'.intent = payload
      /\ task'.request = r /\ task'.post = c
      /\ sent' \in [Calls -> SentCall \cup {None}]
      /\ sent[c] = None /\ sent'[c] = [request |-> r, intent |-> payload]
      /\ sent'[c] # None
      /\ \A d \in Calls : d # c => sent'[d] = sent[d]
  BY <1>0 DEF Dispatches
<1>2. ~Taken(offered) /\ UNCHANGED <<admitted, ready, answer, payload, checking, confirmed, seen>>
  BY DEF Dispatch
<1>3. ASSUME NEW q \in Requests, NEW j \in Intents, SentFor(q, j) PROVE SentFor(q, j)'
  BY <1>1, <1>3, NoneAssumption DEF SentFor, Record
<1>4. ASSUME NEW q \in Requests, NEW j \in Intents, SentFor(q, j)'
      PROVE  SentFor(q, j) \/ (q = r /\ j = payload)
  <2>1. PICK d \in Calls : sent'[d] = [request |-> q, intent |-> j]
    BY <1>4 DEF SentFor
  <2>2. CASE d = c
    BY <1>1, <2>1, <2>2
  <2>3. CASE d # c
    BY <1>1, <2>1, <2>3 DEF SentFor
  <2> QED BY <2>2, <2>3
<1>5. /\ ledger' \in Seq(Record) /\ InLedger(r)'
      /\ \A q \in Requests : InLedger(q) => InLedger(q)'
      /\ OneIntent'
      /\ current' = r /\ forceNew' = FALSE /\ Held(current, payload)'
  BY <1>0, <1>2, <1>3, <1>4, BindKeeps
<1>6. TypeOK' /\ ServerTyped'
  BY <1>1, <1>2, <1>5 DEF Inv, TypeOK, ServerTyped
<1>7. \A q \in Requests : (Sent(q)' => Sent(q) \/ q = r) /\ (Sent(q) => Sent(q)')
  BY <1>1 DEF Sent
<1>8. Told'
  BY <1>1, <1>2, <1>7 DEF Inv, Told, TrueOf
<1>9. DoubtIsRemembered'
  BY <1>2, <1>5, <1>7 DEF Inv, DoubtIsRemembered
<1>10. Bound'
  BY <1>1, <1>2, <1>5 DEF Bound
<1> QED BY <1>5, <1>6, <1>8, <1>9, <1>10 DEF Inv

LEMMA NotReadBackKeeps ==
  ASSUME Inv, NEW offered \in Requests, NotReadBack(offered) PROVE Inv'
<1>1. PICK r \in Requests : Binds(offered, r)
  BY BindFact DEF NotReadBack
<1>2. /\ ~Taken(offered) /\ task' = Nothing
      /\ UNCHANGED <<server, payload, checking, confirmed, seen>>
  BY DEF NotReadBack
<1>3. \A q, j : SentFor(q, j)' <=> SentFor(q, j)
  BY <1>2 DEF server, SentFor
<1>4. /\ ledger' \in Seq(Record) /\ InLedger(r)'
      /\ \A q \in Requests : InLedger(q) => InLedger(q)'
      /\ OneIntent'
      /\ current' = r /\ forceNew' = FALSE /\ Held(current, payload)'
  BY <1>1, <1>2, <1>3, BindKeeps
<1>5. TypeOK' /\ ServerTyped'
  BY <1>2, <1>4, EmptyFact DEF server, Inv, TypeOK, ServerTyped
<1>6. Told' /\ DoubtIsRemembered'
  BY <1>2, <1>4 DEF server, Inv, Told, TrueOf, Sent, DoubtIsRemembered
<1>7. Bound'
  BY <1>2, <1>4, EmptyFact DEF Bound
<1> QED BY <1>4, <1>5, <1>6, <1>7 DEF Inv

-----------------------------------------------------------------------------
(* The theorems.                                                           *)

LEMMA NextInv == Inv /\ [Next]_vars => Inv'
<1> SUFFICES ASSUME Inv, [Next]_vars PROVE Inv'
  OBVIOUS
<1>1. CASE \/ \E i \in Intents : Edit(i)
           \/ BeginNew \/ Reload \/ Submit \/ NotDispatched \/ PostLost \/ LookupLost
  BY <1>1, LocalSteps, LocalKeeps DEF Inv
<1>2. CASE \E c \in Calls, r \in Requests : Dispatch(c, r)
  BY <1>2, DispatchKeeps
<1>3. CASE \E r \in Requests : NotReadBack(r)
  BY <1>3, NotReadBackKeeps
<1>4. CASE \E c \in Calls : PostReturns(c)
  BY <1>4, PostReturnsKeeps
<1>5. CASE \E r \in Requests : Lookup(r)
  BY <1>5, LookupKeeps
<1>6. CASE LookupServed
  BY <1>6, LookupServedKeeps
<1>7. CASE LookupReturns
  BY <1>7, LookupReturnsKeeps
<1>8. CASE ServerStep
  BY <1>8, ServerKeeps
<1>9. CASE UNCHANGED vars
  BY <1>9, IgnoredKeeps DEF vars, server
<1> QED BY <1>1, <1>2, <1>3, <1>4, <1>5, <1>6, <1>7, <1>8, <1>9 DEF Next

LEMMA Invariance == Spec => []Inv
  BY InitInv, NextInv, PTL DEF Spec

\* The page's state keeps its shapes: the ledger is a sequence of records.
THEOREM TypeCorrect == Spec => []TypeOK
  BY Invariance, PTL DEF Inv

\* What the page shows of a request is so, however late the answers came in: the run it
\* names was admitted for this request, and accepted means that its files are ready.
THEOREM ReceiptsTrue == Spec => []ReceiptsAreTrue
<1>1. Inv => ReceiptsAreTrue
  BY DEF Inv, Told, TrueOf, ReceiptsAreTrue
<1> QED BY <1>1, Invariance, PTL

\* Whatever was sent stays in the ledger, over reloads, edits and refused writes, until
\* the server has said that it is accepted.
THEOREM DoubtRemembered == Spec => []DoubtIsRemembered
  BY Invariance, PTL DEF Inv

\* An intent without a record has no identity in doubt.
LEMMA NoneInDoubt ==
  ASSUME Inv, NEW i \in Intents, OfIntent(i) = {} PROVE Open(i) = {}
<1> SUFFICES ASSUME NEW r \in Requests \ seen, NEW c \in Calls,
                    sent[c] # None, sent[c].request = r, sent[c].intent = i
             PROVE  FALSE
  BY DEF Open
<1>1. sent[c] \in SentCall
  BY DEF Inv, ServerTyped
<1>2. Sent(r) /\ SentFor(r, i)
  BY <1>1 DEF SentCall, Sent, SentFor
<1>3. PICK k \in DOMAIN ledger : ledger[k].request = r
  BY <1>2 DEF Inv, DoubtIsRemembered, InLedger
<1>4. ledger[k] \in Record
  BY <1>3 DEF Inv, TypeOK
<1>5. ledger[k] = [request |-> r, intent |-> ledger[k].intent] /\ ledger[k].intent \in Intents
  BY <1>3, <1>4 DEF Record
<1>6. Held(r, i) /\ Held(r, ledger[k].intent)
  BY <1>2, <1>3, <1>5 DEF Held
<1>7. ledger[k].intent = i
  BY <1>5, <1>6 DEF Inv, OneIntent
<1> QED BY <1>3, <1>7 DEF OfIntent

\* A submission takes up an identity only with a new run wanted or no record of the intent.
LEMMA TakenUp ==
  ASSUME Inv, task.pc = "intent", NEW offered \in Requests, NEW r \in Requests,
         Binds(offered, r), ~Taken(r), ~forceNew
  PROVE  Open(task.intent) = {}
<1>1. payload \in Intents /\ task.intent = payload
  BY DEF Inv, TypeOK, Bound
<1>2. ~Held(r, payload)
  BY <1>1, FreshFact
<1>3. OfIntent(payload) = {}
  BY <1>2, NoRecordFact DEF Binds, Inv
<1> QED BY <1>1, <1>3, NoneInDoubt

\* Of the other requests a submission puts none on record.
LEMMA OnlyBound ==
  ASSUME Inv, NEW offered \in Requests, NEW r \in Requests, Binds(offered, r),
         NEW q \in Requests, InLedger(q)'
  PROVE  q = r \/ InLedger(q)
<1>1. PICK i \in Intents : i = payload
  BY DEF Inv, TypeOK
<1>2. RecordsFrom(r, i)
  BY <1>1, UpsertFact DEF Binds, Inv, TypeOK
<1>3. PICK k \in DOMAIN ledger' : ledger'[k].request = q
  BY DEF InLedger
<1>4. CASE ledger'[k] = [request |-> r, intent |-> i]
  BY <1>3, <1>4
<1>5. ASSUME NEW l \in DOMAIN ledger, ledger[l] = ledger'[k] PROVE InLedger(q)
  BY <1>3, <1>5 DEF InLedger
<1> QED BY <1>2, <1>3, <1>4, <1>5 DEF RecordsFrom

\* A receipt puts nothing on record but what was sent.
LEMMA PublishedIsSent ==
  ASSUME Inv, NEW q \in Requests, InLedger(q)',
         LookupReturns \/ \E c \in Calls : PostReturns(c)
  PROVE  InLedger(q) \/ Sent(q)
<1>1. ASSUME NEW r \in Requests, NEW i \in Intents, NEW t \in Receipt, Publish(r, i, t), Sent(r)
      PROVE  InLedger(q) \/ Sent(q)
  <2>1. RecordsFrom(r, i)
    BY <1>1, PublishFact DEF Inv
  <2>2. PICK k \in DOMAIN ledger' : ledger'[k].request = q
    BY DEF InLedger
  <2>3. CASE ledger'[k] = [request |-> r, intent |-> i]
    BY <1>1, <2>2, <2>3
  <2>4. ASSUME NEW l \in DOMAIN ledger, ledger[l] = ledger'[k] PROVE InLedger(q)
    BY <2>2, <2>4 DEF InLedger
  <2> QED BY <2>1, <2>2, <2>3, <2>4 DEF RecordsFrom
<1>2. CASE UNCHANGED ledger
  BY <1>2 DEF InLedger
<1>3. CASE LookupReturns /\ ~UNCHANGED ledger
  <2>1. LookupReturns /\ ~Ignored(checking.request, checking.found)
    BY <1>3 DEF LookupReturns
  <2>2. PICK r, t : r = checking.request /\ t = checking.found
    OBVIOUS
  <2>3. r \in Requests /\ t \in Receipt /\ Sent(r) /\ Publish(r, IntentOf(r), t)
    BY <2>1, <2>2, LookupPublishes
  <2>4. IntentOf(r) \in Intents
    BY <2>3, IntentOfFact DEF Inv
  <2> QED BY <1>1, <2>3, <2>4
<1>4. ASSUME NEW c \in Calls, PostReturns(c), ~UNCHANGED ledger PROVE InLedger(q) \/ Sent(q)
  <2>1. ~(Failed(c) \/ Accepted(task.request))
    BY <1>4 DEF PostReturns
  <2>2. PICK r, i, t : r = task.request /\ i = task.intent /\ t = answer[c]
    OBVIOUS
  <2>3. r \in Requests /\ i \in Intents /\ t \in Receipt /\ Sent(r) /\ Publish(r, i, t)
    BY <1>4, <2>1, <2>2, PostPublishes
  <2> QED BY <1>1, <2>3
<1> QED BY <1>2, <1>3, <1>4

\* A second identity for an intent is taken up only when the fate of every earlier one is
\* known, or the user has asked for a new run.
THEOREM DoubtNotRepeated == Spec => DoubtIsNotRepeated
<1> DEFINE A == \A r \in Requests :
                  Taken(r)' /\ ~Taken(r) => forceNew \/ Open(task.intent) = {}
<1>1. Inv /\ [Next]_vars => [A]_vars
  <2> SUFFICES ASSUME Inv, Next, NEW q \in Requests, Taken(q)', ~Taken(q), ~forceNew
               PROVE  Open(task.intent) = {}
    OBVIOUS
  <2>1. ASSUME NEW c \in Calls, NEW offered \in Requests, Dispatch(c, offered)
        PROVE  Open(task.intent) = {}
    <3>1. PICK r \in Requests : Binds(offered, r) /\ Dispatches(c, r)
      BY <2>1, DispatchFact
    <3>2. Sent(q)' => Sent(q) \/ q = r
      BY <3>1 DEF Dispatches, Sent
    <3>3. q = r
      BY <3>1, <3>2, OnlyBound DEF Taken
    <3> QED BY <2>1, <3>1, <3>3, TakenUp DEF Dispatch
  <2>2. ASSUME NEW offered \in Requests, NotReadBack(offered)
        PROVE  Open(task.intent) = {}
    <3>1. PICK r \in Requests : Binds(offered, r)
      BY <2>2, BindFact DEF NotReadBack
    <3>2. Sent(q)' => Sent(q)
      BY <2>2 DEF NotReadBack, server, Sent
    <3>3. q = r
      BY <3>1, <3>2, OnlyBound DEF Taken
    <3> QED BY <2>2, <3>1, <3>3, TakenUp DEF NotReadBack
  <2>3. CASE LookupReturns \/ \E c \in Calls : PostReturns(c)
    <3>1. UNCHANGED sent
      BY <2>3 DEF LookupReturns, PostReturns, server
    <3>2. Sent(q)' => Sent(q)
      BY <3>1 DEF Sent
    <3> QED BY <2>3, <3>2, PublishedIsSent DEF Taken
  <2>4. CASE \/ \E i \in Intents : Edit(i)
             \/ BeginNew \/ Reload \/ Submit \/ NotDispatched \/ PostLost
             \/ \E r \in Requests : Lookup(r)
             \/ LookupServed \/ LookupLost \/ ServerStep
    <3>1. UNCHANGED <<sent, ledger>>
      BY <2>4
      DEF Edit, BeginNew, Reload, Submit, NotDispatched, PostLost,
          Lookup, LookupServed, LookupLost, ServerStep, server, page,
          Server!Admit, Server!Answer, Server!MakeReady
    <3> QED BY <3>1 DEF Taken, InLedger, Sent
  <2> QED BY <2>1, <2>2, <2>3, <2>4 DEF Next
<1>2. Spec => [][A]_vars
  BY <1>1, Invariance, PTL DEF Spec
<1> QED BY <1>2 DEF DoubtIsNotRepeated
==============================================================================
