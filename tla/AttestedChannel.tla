-------------------------- MODULE AttestedChannel --------------------------
(***************************************************************************)
(* What attested TLS promises the user of a client, without keys,          *)
(* certificates, reports or processes: a prompt goes to one reader, once,  *)
(* and the reader is among those that the client would have at that        *)
(* moment; an answer comes only from where the prompt went.                *)
(***************************************************************************)
CONSTANTS Hosts, Clients, Machines, None

VARIABLES
  machine,  \* the hardware and image of every host
  phase,    \* how far every client is
  want,     \* the readers it would have: machines, and None for a reader that
            \* is not a gateway
  reader    \* the one that read its prompt

vars == <<machine, phase, want, reader>>

Readers == Machines \cup {None}

Init ==
  /\ machine \in [Hosts -> Machines]
  /\ phase = [c \in Clients |-> "idle"]
  /\ want = [c \in Clients |-> {}]
  /\ reader = [c \in Clients |-> None]

Ask(c) ==
  /\ phase[c] = "idle"
  /\ phase' = [phase EXCEPT ![c] = "trying"]
  /\ \E w \in SUBSET Readers : want' = [want EXCEPT ![c] = w]
  /\ UNCHANGED <<machine, reader>>

\* The prompt is read, by a machine as it is at this moment.
Deliver(c) ==
  /\ phase[c] = "trying"
  /\ \E m \in want[c] :
       /\ m = None \/ \E h \in Hosts : machine[h] = m
       /\ reader' = [reader EXCEPT ![c] = m]
  /\ phase' = [phase EXCEPT ![c] = "delivered"]
  /\ UNCHANGED <<machine, want>>

Answer(c) ==
  /\ phase[c] = "delivered"
  /\ phase' = [phase EXCEPT ![c] = "answered"]
  /\ UNCHANGED <<machine, want, reader>>

\* At any point before the answer, and for good.
GiveUp(c) ==
  /\ phase[c] \in {"idle", "trying", "delivered"}
  /\ phase' = [phase EXCEPT ![c] = "failed"]
  /\ UNCHANGED <<machine, want, reader>>

Redeploy(h) ==
  /\ \E m \in Machines : machine' = [machine EXCEPT ![h] = m]
  /\ UNCHANGED <<phase, want, reader>>

Next ==
  \/ \E c \in Clients : Ask(c) \/ Deliver(c) \/ Answer(c) \/ GiveUp(c)
  \/ \E h \in Hosts : Redeploy(h)

Spec == Init /\ [][Next]_vars
=============================================================================
