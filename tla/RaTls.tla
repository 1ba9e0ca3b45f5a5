------------------------------- MODULE RaTls -------------------------------
(***************************************************************************)
(* Clients (sifir-client) against gateways (ServerSetup): one run of the   *)
(* client program connects, checks the certificate inside the TLS          *)
(* handshake, sends one prompt and prints one answer.  The address it was  *)
(* given may be answered by a gateway or by another endpoint, the          *)
(* stranger, which can present any certificate it has seen.                *)
(*                                                                         *)
(* run[c] holds both ends of the connection of client c: the client's own  *)
(* progress and, once the request is delivered, the handler of proxy.rs.   *)
(***************************************************************************)
EXTENDS ServerSetup

CONSTANTS
  Clients,         \* runs of the client program
  ClientConfigs,   \* their options: amd, gpu_cc, expected_measurement
  Stranger,        \* an endpoint that is not a gateway
  ForeignCerts,    \* certificates of its own making that it may present
  AmdArk, AmdAsk   \* AMD's root and intermediate keys

ASSUME ClientAssumption ==
  /\ ClientConfigs \subseteq [amd : BOOLEAN, gpu_cc : BOOLEAN,
                              expected_measurement : Measurements]
  /\ Stranger \notin Hosts
  /\ None \notin Hosts \cup {Stranger} \cup Verdict
  /\ ForeignCerts \subseteq TlsCert
  /\ {AmdArk, AmdAsk} \subseteq P384 \cup RsaKeys

\* Private keys held by AMD and by its processors.
AmdKeys == {AmdArk, AmdAsk} \cup {VcekOf[chip] : chip \in Chips}

\* Images that run the gateway, which attests no key but its own.
GatewayImages == {m.image : m \in Machines}

\* What the stranger cannot make: a certificate signed by AMD for a key that
\* is not AMD's, and a processor's report that binds the stranger's key to an
\* image of the gateway.  It may own such a processor, with another image.
ASSUME PkiAssumption ==
  \A cert \in ForeignCerts :
    cert.ext # None /\ cert.ext.json # None =>
      LET chain  == cert.ext.json.vcek_chain_b64
          report == report_bytes(cert.ext.json)
      IN
      /\ \A i \in DOMAIN chain :
           chain[i].b64 # None /\ chain[i].b64.signer \in AmdKeys
             => chain[i].b64.pk \in AmdKeys
      /\ /\ report # None /\ report.sig # None
         /\ report.sig.by \in AmdKeys
         /\ report.sig.over = signed_region(report)
         => report.measurement \notin GatewayImages

VARIABLE run

vars == <<proc, machine, nextKey, published, run>>

\* "forwarded": the gateway's handler awaits the inference backend.
ClientPC == {"idle", "connecting", "established", "sent", "forwarded",
             "answered", "printed", "failed"}

\* What a gateway or the stranger answers, and who read the prompt: the machine
\* at that moment, and the mode of its GPU when the gateway's token was issued.
Response == [status : {200, 422, 500, 502}, body : {"complete", "empty", "text"}]
Receiver == [endpoint : Hosts \cup {Stranger}, key : TlsKey,
             machine : Machines \cup {None}, cc : CcModes \cup {None}]
KdsAnswers == [vcek : Cert \cup {None}, pem_certs : Seq(Cert) \cup {None}]

Run == [pc       : ClientPC,
        cfg      : ClientConfigs \cup {None},
        peer     : Hosts \cup {Stranger, None},
        peerKey  : TlsKey \cup {None},    \* the TLS key that the peer holds
        cert     : TlsCert \cup {None},   \* the certificate it presented
        kds      : KdsAnswers \cup {None}, \* history: the KDS's answers to it
        verdict  : Verdict \cup {None},   \* result of the handshake's checks
        response : Response \cup {None},
        receiver : Receiver \cup {None}]

Idle == [pc |-> "idle", cfg |-> None, peer |-> None, peerKey |-> None,
         cert |-> None, kds |-> None, verdict |-> None, response |-> None,
         receiver |-> None]

Init == ServerInit /\ run = [c \in Clients |-> Idle]

-----------------------------------------------------------------------------
(* Helpers.                                                                *)

SetRun(c, r) ==
  /\ run' = [run EXCEPT ![c] = r]
  /\ UNCHANGED serverVars

\* main returns an error: the client exits with code 1.
Fail(c) == SetRun(c, [run[c] EXCEPT !.pc = "failed"])

\* Mutant: a request is retried on a new connection that is not checked again.
Alive_any_process(c) ==
  \/ run[c].peer = Stranger
  \/ run[c].peer \in Hosts /\ proc[run[c].peer].pc = "listening"

\* The process at the other end is still the one c connected to.
Alive(c) ==
  \/ run[c].peer = Stranger
  \/ /\ run[c].peer \in Hosts
     /\ proc[run[c].peer].pc = "listening"
     /\ proc[run[c].peer].key = run[c].peerKey

\* Certificates the stranger can present: those it has seen, their
\* extensions under a key of its own, and its own.
StrangerCerts ==
  published \cup {[spki |-> k, ext |-> x.ext] : k \in ForeignKeys, x \in published}
            \cup ForeignCerts

\* Both checks that rustls asks of the verifier, in its order.
HandshakeVerdict(cfg, cert, endpointKey) ==
  IF verify_server_cert(cfg, cert) # "Ok" THEN verify_server_cert(cfg, cert)
  ELSE IF ~verify_tls_signature(cert, endpointKey) THEN "HandshakeSignature"
  ELSE "Ok"

-----------------------------------------------------------------------------
(* Actions.                                                                *)

\* The client parses its arguments, builds the verifier and connects to the
\* gateway of h.  The accept loop serves each connection in a task of its own.
ConnectGateway(c, cfg, h) ==
  /\ run[c].pc = "idle"
  /\ proc[h].pc = "listening"
  /\ SetRun(c, [Idle EXCEPT !.pc = "connecting", !.cfg = cfg, !.peer = h,
                            !.peerKey = proc[h].key, !.cert = proc[h].cert,
                            !.kds = [vcek |-> proc[h].vcek,
                                     pem_certs |-> proc[h].pem_certs]])

\* The address leads to the stranger.
ConnectStranger(c, cfg) ==
  /\ run[c].pc = "idle"
  /\ \E k \in ForeignKeys, cert \in StrangerCerts :
       SetRun(c, [Idle EXCEPT !.pc = "connecting", !.cfg = cfg,
                              !.peer = Stranger, !.peerKey = k, !.cert = cert])

\* Nothing listens, or --expected-measurement is no 48-byte hex string: the
\* program ends before a handshake.
FailsToConnect(c) ==
  /\ run[c].pc = "idle"
  /\ Fail(c)

\* The server's flight arrives; rustls calls the verifier, and an error of
\* the verifier aborts the handshake.
Handshake(c) ==
  LET verdict == HandshakeVerdict(run[c].cfg, run[c].cert, run[c].peerKey)
  IN
  /\ run[c].pc = "connecting"
  /\ SetRun(c, [run[c] EXCEPT
       !.pc = IF verdict = "Ok" THEN "established" ELSE "failed",
       !.verdict = verdict])

\* request::generate posts the prompt.
SendPrompt(c) ==
  /\ run[c].pc = "established"
  /\ SetRun(c, [run[c] EXCEPT !.pc = "sent"])

\* The gateway's handler gets the request: without a backend it answers at
\* once with an echo, else it forwards the body.
HandleGenerate(c) ==
  LET h == run[c].peer
      got == [endpoint |-> h, key |-> proc[h].key, machine |-> machine[h],
              cc |-> proc[h].cc]
  IN
  /\ run[c].pc = "sent"
  /\ h \in Hosts
  /\ Alive(c)
  /\ \/ /\ ~proc[h].args.backend
        /\ SetRun(c, [run[c] EXCEPT !.pc = "answered", !.receiver = got,
             !.response = [status |-> 200, body |-> "complete"]])
     \/ /\ proc[h].args.backend
        /\ SetRun(c, [run[c] EXCEPT !.pc = "forwarded", !.receiver = got])

\* Mutant: the handler starts over when the backend cannot be reached.
BackendUnavailable_resends(c) ==
  /\ run[c].pc = "forwarded"
  /\ Alive(c)
  /\ SetRun(c, [run[c] EXCEPT !.pc = "sent"])

\* req.send() fails: 502 with a text.
BackendUnavailable(c) ==
  /\ run[c].pc = "forwarded"
  /\ Alive(c)
  /\ SetRun(c, [run[c] EXCEPT !.pc = "answered",
                  !.response = [status |-> 502, body |-> "text"]])

\* The backend answers: its status is passed on with its body, and with an
\* empty body if reading it fails (unwrap_or_default).
BackendAnswers(c) ==
  /\ run[c].pc = "forwarded"
  /\ Alive(c)
  /\ \E answer \in {<<200, "complete">>, <<422, "text">>, <<500, "text">>} :
     \E read \in BOOLEAN :
       SetRun(c, [run[c] EXCEPT !.pc = "answered",
         !.response = [status |-> answer[1],
                       body |-> IF read THEN answer[2] ELSE "empty"]])

\* The stranger reads the prompt and answers what it likes.
StrangerAnswers(c) ==
  /\ run[c].pc = "sent"
  /\ run[c].peer = Stranger
  /\ SetRun(c, [run[c] EXCEPT !.pc = "answered",
       !.receiver = [endpoint |-> Stranger, key |-> run[c].peerKey,
                     machine |-> None, cc |-> None],
       !.response = [status |-> 200, body |-> "complete"]])

\* error_for_status, then json::<GenerateResponse>, then the answer is printed.
\* What arrived before the peer's process ended can still be read.
ReceiveResponse(c) ==
  LET resp == run[c].response IN
  /\ run[c].pc = "answered"
  /\ SetRun(c, [run[c] EXCEPT
       !.pc = IF resp.status < 400 /\ resp.body = "complete"
              THEN "printed" ELSE "failed"])

\* Mutant: the client does not watch the connection while the backend works.
ConnectionLost_unnoticed(c) ==
  /\ run[c].pc \in {"connecting", "established", "sent", "answered"}
  /\ ~Alive(c)
  /\ Fail(c)

\* The peer's process is gone: the connection is reset, the client gives up.
ConnectionLost(c) ==
  /\ run[c].pc \in {"connecting", "established", "sent", "forwarded", "answered"}
  /\ ~Alive(c)
  /\ Fail(c)

ConnectAny(c) ==
  \/ \E cfg \in ClientConfigs, h \in Hosts : ConnectGateway(c, cfg, h)
  \/ \E cfg \in ClientConfigs : ConnectStranger(c, cfg)
  \/ FailsToConnect(c)

\* Steps the two runtimes take by themselves once they are possible.
ConnectionStep(c) ==
  \/ Handshake(c)
  \/ SendPrompt(c)
  \/ HandleGenerate(c)
  \/ ReceiveResponse(c)
  \/ ConnectionLost(c)

BackendStep(c) == BackendUnavailable(c) \/ BackendAnswers(c)

Next ==
  \/ \E h \in Hosts : ServerStep(h) /\ UNCHANGED run
  \/ \E h \in Hosts : ServerEnvironment(h) /\ UNCHANGED run
  \/ \E c \in Clients : ConnectAny(c)
  \/ \E c \in Clients : ConnectionStep(c)
  \/ \E c \in Clients : BackendStep(c)
  \/ \E c \in Clients : StrangerAnswers(c)

Spec == Init /\ [][Next]_vars

\* tokio polls a task that can make progress, and TCP reports the end of the
\* other process.  A KDS request ends within its 10 s timeout.  Nothing bounds
\* gpu_attest.py or the backend: their steps, and the stranger's, are not fair.
FairSpec ==
  /\ Spec
  /\ \A c \in Clients : WF_vars(ConnectionStep(c))
  /\ \A h \in Hosts :
       WF_vars(proc[h].pc # "gpu" /\ ServerStep(h) /\ UNCHANGED run)

-----------------------------------------------------------------------------
(* Properties.                                                             *)

\* Every variable keeps its type, down to the encodings inside certificates.
TypeOK ==
  /\ ServerTypeOK
  /\ run \in [Clients -> Run]

\* The root of the chain in a certificate is AMD's.
AmdRooted(cert) ==
  LET chain == cert.ext.json.vcek_chain_b64
  IN  Len(chain) >= 3 /\ chain[3].b64 # None /\ chain[3].b64.pk = AmdArk

\* Whoever reads a prompt, in mock mode too, passed the client's checks and
\* holds the TLS key that the accepted report binds (verifier.rs runs inside
\* the handshake, before request.rs sends anything).
BoundReceiver ==
  \A c \in Clients : run[c].receiver # None =>
    /\ run[c].verdict = "Ok"
    /\ report_bytes(run[c].cert.ext.json).report_data[1]
         = Sha256(run[c].receiver.key)

\* A prompt of an --amd client that names the image it expects, sent under a
\* chain that ends at AMD's root, is read only by a gateway whose machine runs
\* that image at that moment and, under --gpu-cc, had a GPU with confidential
\* computing on when this process asked for its token (the GPU's mode may have
\* changed since): no restart, redeployment, replayed certificate or other
\* endpoint slips in between the check and the delivery.
AttestedReceiver ==
  \A c \in Clients :
    LET r == run[c] IN
    /\ r.receiver # None
    /\ r.cfg.amd
    /\ r.cfg.expected_measurement \in GatewayImages \ {ZeroMeasurement}
    /\ AmdRooted(r.cert)
    => /\ r.receiver.endpoint \in Hosts
       /\ r.receiver.machine.image = r.cfg.expected_measurement
       /\ r.cfg.gpu_cc => to_lowercase(r.receiver.cc) = "on"

\* After the handshake, client and gateway were started in the same mode: the
\* gateway's own statement of its mode cannot bring an --amd client to accept
\* a mock report, nor the reverse (the mode match of verify_server_cert).
SameMode ==
  \A c \in Clients :
    /\ run[c].pc \in {"established", "sent", "forwarded"}
    /\ run[c].peer \in Hosts
    /\ Alive(c)
    => proc[run[c].peer].args.amd = run[c].cfg.amd

\* The KDS's answers for a chip of a product whose keys are P-384: the VCEK by
\* the intermediate key, then a bundle with ASK first and ARK second ("per AMD
\* documentation", fetch_vcek_chain).  Milan, the default product, has RSA keys
\* above the VCEK; its chain is refused.
GenuineAnswers(kds, chip) ==
  /\ {AmdArk, AmdAsk} \subseteq P384
  /\ kds.vcek = [pk |-> VcekOf[chip], signer |-> AmdAsk]
  /\ Len(kds.pem_certs) >= 2
  /\ kds.pem_certs[1] = [pk |-> AmdAsk, signer |-> AmdArk]
  /\ kds.pem_certs[2] = [pk |-> AmdArk, signer |-> AmdArk]

\* A gateway that fulfils what the client's options ask for: it was started in
\* the same mode, the KDS gave it the genuine certificates of its chip, and it
\* has the expected image and a complete token that says "on".
Fulfils(cfg, cert, kds) ==
  LET ext    == cert.ext.json
      report == report_bytes(ext)
      claims == ext.gpu_jwt.claims
  IN
  /\ ext.mode = VerifierMode(cfg)
  /\ cfg.amd => GenuineAnswers(kds, report.chip_id)
  /\ cfg.expected_measurement \in {ZeroMeasurement, report.measurement}
  /\ cfg.gpu_cc => /\ ext.gpu_jwt # None
                   /\ claims # None
                   /\ claims.cc_mode \in {"on", "ON"}
                   /\ claims.gpu_model # None

\* What the gateway makes of the KDS's answers, of its key and of the token
\* (order of the chain, encodings, nonce) is what the client's checks look for:
\* a client does not refuse a gateway that fulfils what it asks for, whatever
\* the history of keys and restarts.
HonestGatewayAccepted ==
  \A c \in Clients :
    /\ run[c].peer \in Hosts
    /\ run[c].verdict # None
    /\ Fulfils(run[c].cfg, run[c].cert, run[c].kds)
    => run[c].verdict = "Ok"

\* A client connected to a gateway ends, or waits for ever on the inference
\* backend behind a gateway that lives: neither a handshake, nor a crash of the
\* gateway at any point, nor an error answer leaves it hanging (proxy.rs and
\* request.rs set no timeout).
OnlyBackendDelays ==
  \A c \in Clients :
    run[c].pc = "connecting" /\ run[c].peer \in Hosts
      ~> [](\/ run[c].pc \in {"printed", "failed"}
            \/ run[c].pc = "forwarded" /\ Alive(c))

\* A gateway that starts comes to listen or exits, unless gpu_attest.py never
\* returns (the KDS requests have a timeout, the subprocess has none).
SetupResolves ==
  \A h \in Hosts :
    Running(h) ~> proc[h].pc \in {"listening", "down", "gpu"}

-----------------------------------------------------------------------------
(* Statements of the documents that the code does not fulfil.              *)

\* poc/PLAN.md: "Verify the AMD ARK is the expected key (hardcoded constant".
AcceptedChainIsAmdRooted ==
  \A c \in Clients :
    run[c].verdict = "Ok" /\ run[c].cfg.amd => AmdRooted(run[c].cert)

\* sifir-server --help: --gpu-cc "Append NVIDIA GPU CC attestation JWT to the
\* TLS cert extension. Requires --amd".
GpuFlagHonoured ==
  \A h \in Hosts :
    proc[h].pc = "listening" /\ proc[h].args.gpu_cc
      => proc[h].cert.ext.json.gpu_jwt # None

\* docs/threat-model.md, T6: "Clients will refuse to connect after a hardware
\* swap": two clients with the same expectation accept reports of one chip.
HardwareSwapRefused ==
  \A c, d \in Clients :
    /\ run[c].verdict = "Ok"
    /\ run[d].verdict = "Ok"
    /\ run[c].cfg = run[d].cfg
    /\ run[c].cfg.amd
    => report_bytes(run[c].cert.ext.json).chip_id
         = report_bytes(run[d].cert.ext.json).chip_id
=============================================================================
