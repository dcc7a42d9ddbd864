--------------------------- MODULE AdmissionClient ---------------------------
(***************************************************************************)
(* The page that starts runs (packages/web/src/client/hooks/               *)
(* use-run-admission.ts, lib/admission-ledger.ts) and a server that admits *)
(* as AdmitOnce promises.  Before a request is sent its identity goes into *)
(* a ledger in sessionStorage, which outlives the page; it is removed when *)
(* the server has said that the run is accepted.  Answers get lost or come *)
(* late, the user edits, submits again, asks what became of a request,     *)
(* begins anew, reloads, and the storage may refuse a read or a write.     *)
(*                                                                         *)
(* Grain: what the page does between two awaits; the server's steps and    *)
(* the loss of an answer go on meanwhile.  An answer that the code ignores *)
(* because its submission was revoked is not awaited by anybody here.      *)
(***************************************************************************)
EXTENDS Naturals, FiniteSets, Sequences

CONSTANTS Requests, Intents, Calls, None    \* as in AdmitOnce; Calls: the POSTs

VARIABLES
    admitted, ready, sent, answer,    \* the server, and the calls on the wire
    ledger,      \* the records in sessionStorage, oldest first
    payload,     \* the intent now in the form
    current,     \* the request bound to the form since it was last edited
    forceNew,    \* the user asked for a new run
    task,        \* the submission under way
    checking,    \* the lookup under way
    confirmed,   \* receipts of this page, by request
    seen         \* history: requests this browser was told are accepted

server == <<admitted, ready, sent, answer>>
page   == <<ledger, payload, current, forceNew, task, checking, confirmed, seen>>
vars   == <<admitted, ready, sent, answer, ledger, payload, current, forceNew, task,
            checking, confirmed, seen>>

Server == INSTANCE AdmitOnce

Record  == [request : Requests, intent : Intents]
Receipt == [state : {"accepted", "recovery-required"}, run : Calls]
Task    == [pc : {"idle", "intent", "post"}, intent : Intents \cup {None},
            request : Requests \cup {None}, post : Calls \cup {None}]
Nothing == [pc |-> "idle", intent |-> None, request |-> None, post |-> None]
Lookups == [request : Requests \cup {None}, served : BOOLEAN,
            found : Receipt \cup {None}, overtaken : BOOLEAN]
NoCheck == [request |-> None, served |-> FALSE, found |-> None, overtaken |-> FALSE]

\* None is no identity, no intent, no call and no record of them.
ASSUME NoneAssumption ==
    None \notin Requests \cup Intents \cup Calls \cup Record \cup Receipt
              \cup Server!Answers \cup [intent : Intents, run : Calls]

Init ==
    /\ Server!Init
    /\ ledger = <<>>
    /\ payload \in Intents
    /\ current = None /\ forceNew = FALSE
    /\ task = Nothing /\ checking = NoCheck
    /\ confirmed = [r \in Requests |-> None]
    /\ seen = {}

-----------------------------------------------------------------------------
(* The ledger, and what the page knows.                                    *)

\* records.filter((entry) => entry.requestId !== requestId)
Without(r) ==
    LET kept[n \in 0..Len(ledger)] ==
            IF n = 0 THEN <<>>
            ELSE IF ledger[n].request = r THEN kept[n - 1]
            ELSE Append(kept[n - 1], ledger[n])
    IN  kept[Len(ledger)]
Upsert(r, i) == ledger' = Append(Without(r), [request |-> r, intent |-> i])
Remove(r)    == ledger' = Without(r)

InLedger(r) == \E k \in DOMAIN ledger : ledger[k].request = r
Accepted(r) == confirmed[r] # None /\ confirmed[r].state = "accepted"
Sent(r)     == \E c \in Calls : sent[c] # None /\ sent[c].request = r
Taken(r)    == InLedger(r) \/ Sent(r)

\* A receipt is published first, and the ledger follows, unless the storage refuses.
Settle(r, i, receipt) == IF receipt.state = "accepted" THEN Remove(r) ELSE Upsert(r, i)

Publish(r, i, receipt) ==
    /\ confirmed' = [confirmed EXCEPT ![r] = receipt]
    /\ seen' = IF receipt.state = "accepted" THEN seen \cup {r} ELSE seen
    /\ \/ Settle(r, i, receipt)
       \/ UNCHANGED ledger

-----------------------------------------------------------------------------
(* What the user does.                                                     *)

\* An edit, and the refresh of an expired plan, disown the submission under way.
Edit(i) ==
    /\ payload' = i
    /\ current' = None /\ task' = Nothing
    /\ UNCHANGED <<server, ledger, forceNew, checking, confirmed, seen>>

BeginNew ==
    /\ current' = None /\ task' = Nothing
    /\ forceNew' = TRUE
    /\ UNCHANGED <<server, ledger, payload, checking, confirmed, seen>>

\* The page is reloaded or left: its memory is gone, sessionStorage is not.
Reload ==
    /\ current' = None /\ forceNew' = FALSE
    /\ task' = Nothing /\ checking' = NoCheck
    /\ confirmed' = [r \in Requests |-> None]
    /\ UNCHANGED <<server, ledger, payload, seen>>

Submit ==
    /\ task.pc = "idle"
    /\ task' = [Nothing EXCEPT !.pc = "intent", !.intent = payload]
    /\ UNCHANGED <<server, ledger, payload, current, forceNew, checking, confirmed, seen>>

-----------------------------------------------------------------------------
(* A submission: the server has named its intent and offers an identity.   *)

OfIntent(i) == {k \in DOMAIN ledger : ledger[k].intent = i}

\* The request bound to the form; else, unless a new run is wanted, the newest record
\* of the intent; else the identity that the server offers.
Existing_CurrentOnly(i) == {current} \ {None}
Existing(i) ==
    IF current # None THEN {current}
    ELSE IF forceNew THEN {}
    ELSE {ledger[k].request : k \in {l \in OfIntent(i) : \A m \in OfIntent(i) : m <= l}}

Identity(i, offered) ==
    IF Existing(i) = {} THEN offered ELSE CHOOSE r \in Existing(i) : TRUE

\* The record is written before the request is sent.
Register(r, i) == Upsert(r, i)

Bind(r) ==
    /\ ~Accepted(r)
    /\ Register(r, task.intent)
    /\ current' = r /\ forceNew' = FALSE

Dispatch(c, offered) ==
    /\ task.pc = "intent"
    /\ sent[c] = None
    /\ ~Taken(offered)
    /\ LET r == Identity(task.intent, offered)
       IN /\ Bind(r)
          /\ task' = [task EXCEPT !.pc = "post", !.request = r, !.post = c]
          /\ sent' = [sent EXCEPT ![c] = [request |-> r, intent |-> task.intent]]
    /\ UNCHANGED <<admitted, ready, answer, payload, checking, confirmed, seen>>

\* The record is written, but the ledger cannot be read back: nothing is sent, and the
\* form is bound to an identity that the server has not heard of.
NotReadBack(offered) ==
    /\ task.pc = "intent"
    /\ ~Taken(offered)
    /\ Bind(Identity(task.intent, offered))
    /\ task' = Nothing
    /\ UNCHANGED <<server, payload, checking, confirmed, seen>>

\* The page knows the run is accepted, the intent cannot be had, or the ledger cannot
\* be read or the record not be written: nothing is bound and nothing is sent.
NotDispatched ==
    /\ task.pc = "intent"
    /\ task' = Nothing
    /\ UNCHANGED <<server, ledger, payload, current, forceNew, checking, confirmed, seen>>

\* An answer without the identity of a run.
Failed_OnConflict(c) == answer[c].state = "conflict"
Failed(c) == answer[c].state \in {"conflict", "unknown"}

Awaited_Any(c) == task.pc = "post"
Awaited(c) == task.pc = "post" /\ task.post = c

\* A lookup of the same request that is still under way is older than this receipt.
Overtake(r) == checking' = [checking EXCEPT !.overtaken = @ \/ checking.request = r]

PostReturns(c) ==
    /\ Awaited(c)
    /\ answer[c] # None
    /\ task' = Nothing
    /\ IF Failed(c) \/ Accepted(task.request)
       THEN UNCHANGED <<ledger, checking, confirmed, seen>>
       ELSE Publish(task.request, task.intent, answer[c]) /\ Overtake(task.request)
    /\ UNCHANGED <<server, payload, current, forceNew>>

\* The connection fails; the server goes on with the call all the same.
PostLost ==
    /\ task.pc = "post"
    /\ task' = Nothing
    /\ UNCHANGED <<server, ledger, payload, current, forceNew, checking, confirmed, seen>>

-----------------------------------------------------------------------------
(* A lookup, of a request the page shows.                                  *)

Lookup(r) ==
    /\ checking.request = None
    /\ InLedger(r) \/ confirmed[r] # None
    /\ checking' = [NoCheck EXCEPT !.request = r]
    /\ UNCHANGED <<server, ledger, payload, current, forceNew, task, confirmed, seen>>

\* The server reads the row of the request; routers/project.ts, admission.
LookupServed ==
    /\ checking.request # None /\ ~checking.served
    /\ LET r == checking.request
       IN checking' =
            [checking EXCEPT !.served = TRUE,
                             !.found = IF admitted[r] = None THEN None
                                       ELSE [state |-> IF r \in ready THEN "accepted"
                                                       ELSE "recovery-required",
                                             run |-> admitted[r].run]]
    /\ UNCHANGED <<server, ledger, payload, current, forceNew, task, confirmed, seen>>

\* Accepted is final; nothing found says nothing; a receipt of a POST that has come in
\* meanwhile wins over a result that is not accepted.
Ignored(r, found) ==
    \/ Accepted(r)
    \/ found = None
    \/ found.state # "accepted" /\ confirmed[r] # None /\ checking.overtaken

IntentOf(r) == LET c == CHOOSE d \in Calls : sent[d] # None /\ sent[d].request = r
               IN sent[c].intent

LookupReturns ==
    /\ checking.served
    /\ LET r == checking.request
       IN IF Ignored(r, checking.found)
          THEN UNCHANGED <<ledger, confirmed, seen>>
          ELSE Publish(r, IntentOf(r), checking.found)
    /\ checking' = NoCheck
    /\ UNCHANGED <<server, payload, current, forceNew, task>>

LookupLost ==
    /\ checking.request # None
    /\ checking' = NoCheck
    /\ UNCHANGED <<server, ledger, payload, current, forceNew, task, confirmed, seen>>

-----------------------------------------------------------------------------
ServerStep ==
    /\ \/ \E c \in Calls : Server!Admit(c) \/ Server!Answer(c)
       \/ \E r \in Requests \ ready : Server!MakeReady(r)
    /\ UNCHANGED page

Next ==
    \/ \E i \in Intents : Edit(i)
    \/ BeginNew \/ Reload \/ Submit
    \/ \E c \in Calls, r \in Requests : Dispatch(c, r)
    \/ \E r \in Requests : NotReadBack(r)
    \/ \E c \in Calls : PostReturns(c)
    \/ NotDispatched \/ PostLost
    \/ \E r \in Requests : Lookup(r)
    \/ LookupServed \/ LookupReturns \/ LookupLost
    \/ ServerStep

Spec == Init /\ [][Next]_vars

-----------------------------------------------------------------------------
(* Properties.                                                             *)

\* The page's state has the shapes the controller and the ledger give it.
TypeOK ==
    /\ ledger \in Seq(Record)
    /\ payload \in Intents
    /\ current \in Requests \cup {None} /\ forceNew \in BOOLEAN
    /\ task \in Task /\ checking \in Lookups
    /\ confirmed \in [Requests -> Receipt \cup {None}]
    /\ seen \subseteq Requests

\* admission-ledger.ts: "do not clear request records still to be confirmed".  Whatever
\* was sent is on record, over reloads and refused writes, until it is known accepted.
DoubtIsRemembered == \A r \in Requests : Sent(r) => InLedger(r) \/ r \in seen

\* The identities taken up for an intent that are not known to be accepted.
Open(i) ==
    {r \in Requests \ seen :
        \/ \E k \in OfIntent(i) : ledger[k].request = r
        \/ \E c \in Calls : sent[c] # None /\ sent[c].request = r /\ sent[c].intent = i}

\* A second identity for one intent is never taken up, to be put on record or sent,
\* while the fate of the first is open, unless the user has asked for a new run: nobody
\* pays for two runs by retrying.
DoubtIsNotRepeated ==
    [][\A r \in Requests :
         Taken(r)' /\ ~Taken(r) => forceNew \/ Open(task.intent) = {}]_vars

\* What the page shows of a request is so: the run it names is the one admitted for it,
\* accepted means that its files are ready, however late the answers were.
ReceiptsAreTrue ==
    \A r \in Requests : confirmed[r] # None =>
        /\ admitted[r] # None
        /\ admitted[r].run = confirmed[r].run
        /\ confirmed[r].state = "accepted" => r \in ready
=============================================================================
