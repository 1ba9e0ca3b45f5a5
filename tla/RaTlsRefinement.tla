-------------------------- MODULE RaTlsRefinement --------------------------
(***************************************************************************)
(* The composition of clients and gateways implements AttestedChannel.     *)
(***************************************************************************)
EXTENDS RaTls

\* The absence of a reader is not a reader.
ASSUME ReaderAssumption == None \notin Receiver

\* The client named an image of the gateway under --amd, and the chain that it
\* was shown ends at AMD's root (which the client does not check).
Strict(r) ==
  /\ r.cfg.amd
  /\ r.cfg.expected_measurement \in GatewayImages \ {ZeroMeasurement}
  /\ r.cert.ext # None /\ r.cert.ext.json # None
  /\ AmdRooted(r.cert)

\* The readers that the options of a run ask for: without an image, in mock
\* mode or under another root there is no promise about the reader.  None of
\* the options bears on the GPU's mode at the time of the delivery.
Wanted(r) ==
  IF r.peer = None THEN {}
  ELSE IF Strict(r)
  THEN {m \in Machines : m.image = r.cfg.expected_measurement}
  ELSE Machines \cup {None}

Phase(r) ==
  CASE r.pc = "idle" -> "idle"
    [] r.pc \in {"connecting", "established", "sent"} -> "trying"
    [] r.pc \in {"forwarded", "answered"} -> "delivered"
    [] r.pc = "printed" -> "answered"
    [] r.pc = "failed" -> "failed"

Reader(r) == IF r.receiver = None THEN None ELSE r.receiver.machine

phaseBar  == [c \in Clients |-> Phase(run[c])]
wantBar   == [c \in Clients |-> Wanted(run[c])]
readerBar == [c \in Clients |-> Reader(run[c])]

Channel == INSTANCE AttestedChannel
             WITH phase <- phaseBar, want <- wantBar, reader <- readerBar

\* Every behaviour of clients, gateways and the stranger is one of the channel:
\* through crashes, restarts and redeployments a prompt is read once, by a
\* reader its client asked for, and nothing is sent again after a failure
\* (request.rs and proxy.rs, one attempt each).
ImplementsChannel == Channel!Spec
=============================================================================
