------------------------------ MODULE AdmitOnce ------------------------------
(***************************************************************************)
(* What starting a run promises its callers (packages/core/src/session/    *)
(* session-service.ts, startRun): a request id admits one run, for one     *)
(* intent, for ever; whoever sends that intent under that id, however      *)
(* often and from wherever, is told of that run and of no other, and that  *)
(* it is accepted only once its directory is ready.                        *)
(***************************************************************************)
CONSTANTS Requests,    \* request identities, chosen by the clients
          Intents,     \* what is asked for: the hash of the request's envelope
          Calls,       \* the calls; each prepares a run of its own, named after it
          None

\* What has been admitted under a request id, whether its files are ready; the
\* request and the answer of a call.
VARIABLES admitted, ready, sent, answer

vars == <<admitted, ready, sent, answer>>

Answers == [state : {"accepted", "recovery-required"}, run : Calls]
           \cup [state : {"conflict", "unknown"}, run : {None}]

Init ==
    /\ admitted = [r \in Requests |-> None]
    /\ ready = {}
    /\ sent = [c \in Calls |-> None]
    /\ answer = [c \in Calls |-> None]

Pending(c) == sent[c] # None /\ answer[c] = None

\* What may be told of request s: that it is not known what became of it, always.
Truthful(s, a) ==
    \/ a.state = "unknown"
    \/ /\ a.state = "conflict"
       /\ admitted[s.request] # None
       /\ admitted[s.request].intent # s.intent
    \/ /\ a.state \in {"accepted", "recovery-required"}
       /\ admitted[s.request] = [intent |-> s.intent, run |-> a.run]
       /\ a.state = "accepted" => s.request \in ready

Send(c) ==
    /\ sent[c] = None
    /\ \E r \in Requests, i \in Intents : sent' = [sent EXCEPT ![c] = [request |-> r, intent |-> i]]
    /\ UNCHANGED <<admitted, ready, answer>>

Admit(c) ==
    /\ Pending(c)
    /\ admitted[sent[c].request] = None
    /\ admitted' = [admitted EXCEPT ![sent[c].request] = [intent |-> sent[c].intent, run |-> c]]
    /\ UNCHANGED <<ready, sent, answer>>

MakeReady(r) ==
    /\ admitted[r] # None
    /\ ready' = ready \cup {r}
    /\ UNCHANGED <<admitted, sent, answer>>

Answer(c) ==
    /\ Pending(c)
    /\ \E a \in Answers : Truthful(sent[c], a) /\ answer' = [answer EXCEPT ![c] = a]
    /\ UNCHANGED <<admitted, ready, sent>>

Next ==
    \/ \E c \in Calls : Send(c) \/ Admit(c) \/ Answer(c)
    \/ \E r \in Requests : MakeReady(r)

Spec == Init /\ [][Next]_vars
=============================================================================
