----------------------- MODULE RaTlsRefinementProofs -----------------------
(***************************************************************************)
(* Clients and gateways implement AttestedChannel, for every value of the  *)
(* constants: the delivery of a prompt is the step that needs the          *)
(* invariant of RaTlsProofs, all others follow from the client's progress. *)
(***************************************************************************)
EXTENDS RaTlsRefinement, RaTlsProofs

\* A step of one client changes the abstract state at this client only.
LEMMA ClientMoves ==
  ASSUME IInv, NEW c \in Clients, NEW r, SetRun(c, r)
  PROVE  /\ machine' = machine
         /\ phaseBar' = [phaseBar EXCEPT ![c] = Phase(r)]
         /\ wantBar' = [wantBar EXCEPT ![c] = Wanted(r)]
         /\ readerBar' = [readerBar EXCEPT ![c] = Reader(r)]
         /\ phaseBar[c] = Phase(run[c])
         /\ wantBar[c] = Wanted(run[c])
         /\ readerBar[c] = Reader(run[c])
         /\ phaseBar = [phaseBar EXCEPT ![c] = phaseBar[c]]
         /\ wantBar = [wantBar EXCEPT ![c] = wantBar[c]]
         /\ readerBar = [readerBar EXCEPT ![c] = readerBar[c]]
<1>1. machine' = machine /\ run' = [run EXCEPT ![c] = r]
  BY DEF SetRun, serverVars
<1>2. run \in [Clients -> Run]
  BY DEF IInv, TypeOK
<1>3. \A d \in Clients : run'[d] = IF d = c THEN r ELSE run[d]
  BY <1>1, <1>2
<1>4. phaseBar' = [phaseBar EXCEPT ![c] = Phase(r)]
  BY <1>3 DEF phaseBar
<1>5. wantBar' = [wantBar EXCEPT ![c] = Wanted(r)]
  BY <1>3 DEF wantBar
<1>6. readerBar' = [readerBar EXCEPT ![c] = Reader(r)]
  BY <1>3 DEF readerBar
<1> QED
  BY <1>1, <1>4, <1>5, <1>6 DEF phaseBar, wantBar, readerBar

\* What a client wants is settled when it connects.
LEMMA WantedKept ==
  ASSUME NEW q, NEW r, r.cfg = q.cfg, r.cert = q.cert, r.peer = q.peer
  PROVE  Wanted(r) = Wanted(q)
BY DEF Wanted, Strict

\* The names of the phases.
LEMMA Phases ==
  ASSUME NEW r
  PROVE  /\ r.pc = "idle" => Phase(r) = "idle"
         /\ r.pc \in {"connecting", "established", "sent"} => Phase(r) = "trying"
         /\ r.pc \in {"forwarded", "answered"} => Phase(r) = "delivered"
         /\ r.pc = "printed" => Phase(r) = "answered"
         /\ r.pc = "failed" => Phase(r) = "failed"
BY DEF Phase

\* A step after the connection that reads no prompt stutters, answers or gives
\* up.
LEMMA KeepsReader ==
  ASSUME IInv, NEW c \in Clients, NEW r, SetRun(c, r),
         r.cfg = run[c].cfg, r.cert = run[c].cert, r.peer = run[c].peer,
         r.receiver = run[c].receiver,
         \/ Phase(r) = Phase(run[c])
         \/ Phase(run[c]) = "delivered" /\ Phase(r) = "answered"
         \/ Phase(run[c]) \in {"idle", "trying", "delivered"} /\ Phase(r) = "failed"
  PROVE  [Channel!Next]_(Channel!vars)
<1>1. Wanted(r) = Wanted(run[c]) /\ Reader(r) = Reader(run[c])
  BY WantedKept DEF Reader
<1>2. wantBar' = wantBar /\ readerBar' = readerBar /\ machine' = machine
  BY <1>1, ClientMoves
<1>3. phaseBar' = [phaseBar EXCEPT ![c] = Phase(r)] /\ phaseBar[c] = Phase(run[c])
  BY ClientMoves
<1>4. CASE Phase(r) = Phase(run[c])
  <2>1. phaseBar' = phaseBar
    BY <1>4, ClientMoves
  <2> QED
    BY <1>2, <2>1 DEF Channel!vars
<1>5. CASE Phase(run[c]) = "delivered" /\ Phase(r) = "answered"
  BY <1>2, <1>3, <1>5 DEF Channel!Next, Channel!Answer
<1>6. CASE Phase(run[c]) \in {"idle", "trying", "delivered"} /\ Phase(r) = "failed"
  BY <1>2, <1>3, <1>6 DEF Channel!Next, Channel!GiveUp
<1> QED
  BY <1>4, <1>5, <1>6

\* A connection is the abstract question.
LEMMA Asks ==
  ASSUME IInv, NEW c \in Clients, NEW r, SetRun(c, r), run[c].pc = "idle",
         r.pc = "connecting", r.receiver = None
  PROVE  [Channel!Next]_(Channel!vars)
<1>1. run[c].receiver = None
  BY ClientFacts DEF ConnOK, Idle
<1>2. readerBar' = readerBar /\ machine' = machine
  BY <1>1, ClientMoves DEF Reader
<1>3. phaseBar[c] = "idle" /\ phaseBar' = [phaseBar EXCEPT ![c] = "trying"]
  BY ClientMoves, Phases
<1>4. Wanted(r) \in SUBSET Channel!Readers
  BY DEF Wanted, Channel!Readers
<1>5. wantBar' = [wantBar EXCEPT ![c] = Wanted(r)]
  BY ClientMoves
<1> QED
  BY <1>2, <1>3, <1>4, <1>5 DEF Channel!Next, Channel!Ask

\* A prompt is read: the reader is one of those that the client wants, by what
\* an accepted certificate means after the step.
LEMMA Delivers ==
  ASSUME IInv, AttestedReceiver', NEW c \in Clients, NEW r \in Run, SetRun(c, r),
         run[c].pc = "sent", r.pc \in {"forwarded", "answered"},
         r.cfg = run[c].cfg, r.cert = run[c].cert, r.peer = run[c].peer,
         r.receiver # None,
         \/ r.receiver.endpoint = Stranger /\ r.receiver.machine = None
         \/ \E h \in Hosts : r.receiver.machine = machine[h]
  PROVE  [Channel!Next]_(Channel!vars)
<1> DEFINE m == r.receiver.machine
<1>1. /\ phaseBar[c] = "trying" /\ phaseBar' = [phaseBar EXCEPT ![c] = "delivered"]
      /\ machine' = machine
  BY ClientMoves, Phases
<1>2. wantBar' = wantBar /\ wantBar[c] = Wanted(r)
  BY ClientMoves, WantedKept
<1>3. readerBar' = [readerBar EXCEPT ![c] = m]
  BY ClientMoves DEF Reader
<1>4. r.peer # None
  BY ClientFacts, ClientAssumption DEF ConnOK
<1>5. m \in Machines \cup {None}
  BY DEF Run, Receiver
<1>6. m \in Wanted(r)
  <2>1. CASE ~Strict(r)
    BY <1>4, <1>5, <2>1 DEF Wanted
  <2>2. CASE Strict(r)
    <3>1. run'[c] = r
      BY DEF SetRun, IInv, TypeOK
    <3>3. /\ r.receiver.endpoint \in Hosts
          /\ m.image = r.cfg.expected_measurement
      BY <2>2, <3>1 DEF AttestedReceiver, Strict
    <3>4. m \in Machines
      BY <3>3, ClientAssumption DEF IInv, TypeOK, ServerTypeOK
    <3> QED
      BY <1>4, <2>2, <3>3, <3>4 DEF Wanted
  <2> QED
    BY <2>1, <2>2
<1>7. m = None \/ \E h \in Hosts : machine[h] = m
  <2>1. CASE \E h \in Hosts : m = machine[h]
    BY <2>1
  <2>2. CASE r.receiver.endpoint = Stranger /\ r.receiver.machine = None
    BY <2>2
  <2> QED
    BY <2>1, <2>2
<1> QED
  BY <1>1, <1>2, <1>3, <1>6, <1>7 DEF Channel!Next, Channel!Deliver

-----------------------------------------------------------------------------
(* The steps.                                                              *)

\* Steps of gateways are invisible, but for a redeployment.
LEMMA GatewayMoves ==
  ASSUME IInv, NEW h \in Hosts, ServerStep(h) \/ ServerEnvironment(h), run' = run
  PROVE  [Channel!Next]_(Channel!vars)
<1>1. phaseBar' = phaseBar /\ wantBar' = wantBar /\ readerBar' = readerBar
  BY DEF phaseBar, wantBar, readerBar
<1>2. CASE machine' = machine
  BY <1>1, <1>2 DEF Channel!vars
<1>3. CASE \E m \in Machines : machine' = [machine EXCEPT ![h] = m]
  BY <1>1, <1>3 DEF Channel!Next, Channel!Redeploy
<1>4. CASE \E m \in Machines : Reprovision(h, m)
  BY <1>3, <1>4 DEF Reprovision
<1>7. CASE \E cc \in CcModes : ChangeCcMode(h, cc)
  <2>1. PICK cc \in CcModes : ChangeCcMode(h, cc)
    BY <1>7
  <2> DEFINE m == [machine[h] EXCEPT !.cc = cc]
  <2>2. m \in Machines /\ machine' = [machine EXCEPT ![h] = m]
    BY <2>1 DEF ChangeCcMode
  <2> HIDE DEF m
  <2> QED
    BY <1>3, <2>2
<1>5. CASE ServerStep(h)
  BY <1>2, <1>5 DEF ServerStep, BuildMockSetup, GenerateKeypair, GetSnpReport,
     FetchVcek, FetchCertChain, GetGpuJwt, BuildAmdCert, SetupFails, Bind,
     SetProc, Exit
<1>6. CASE (\E args \in ServerArgs : Launch(h, args)) \/ AcceptError(h) \/ Crash(h)
  BY <1>2, <1>6 DEF Launch, AcceptError, Crash, Exit, SetProc
<1> QED
  BY <1>4, <1>5, <1>6, <1>7 DEF ServerEnvironment

\* A client gives up.
LEMMA FailMoves ==
  ASSUME IInv, NEW c \in Clients, Fail(c),
         Phase(run[c]) \in {"idle", "trying", "delivered"}
  PROVE  [Channel!Next]_(Channel!vars)
<1> DEFINE r == [run[c] EXCEPT !.pc = "failed"]
<1>1. /\ r.pc = "failed" /\ SetRun(c, r)
      /\ r.cfg = run[c].cfg /\ r.peer = run[c].peer
      /\ r.cert = run[c].cert /\ r.receiver = run[c].receiver
  BY ClientFacts DEF Run, Fail
<1> HIDE DEF r
<1>2. Phase(r) = "failed"
  BY <1>1, Phases
<1> QED
  BY <1>1, <1>2, KeepsReader

\* A client connects or fails to.
LEMMA ConnectMoves ==
  ASSUME IInv, NEW c \in Clients, ConnectAny(c)
  PROVE  [Channel!Next]_(Channel!vars)
<1>0. run[c].pc = "idle"
  BY DEF ConnectAny, ConnectGateway, ConnectStranger, FailsToConnect
<1>1. CASE FailsToConnect(c)
  BY <1>0, <1>1, FailMoves, Phases DEF FailsToConnect
<1>2. ASSUME NEW cfg \in ClientConfigs, NEW p \in Hosts,
             NEW k, NEW cert, NEW kds,
             SetRun(c, [Idle EXCEPT !.pc = "connecting", !.cfg = cfg,
                                    !.peer = p, !.peerKey = k, !.cert = cert,
                                    !.kds = kds])
      PROVE  [Channel!Next]_(Channel!vars)
  <2> DEFINE r == [Idle EXCEPT !.pc = "connecting", !.cfg = cfg,
                               !.peer = p, !.peerKey = k, !.cert = cert,
                               !.kds = kds]
  <2>1. r.pc = "connecting" /\ r.receiver = None
    BY DEF Idle
  <2>2. SetRun(c, r)
    BY <1>2
  <2> HIDE DEF r
  <2> QED
    BY <1>0, <2>1, <2>2, Asks
<1>3. ASSUME NEW cfg \in ClientConfigs, NEW k, NEW cert,
             SetRun(c, [Idle EXCEPT !.pc = "connecting", !.cfg = cfg,
                                    !.peer = Stranger, !.peerKey = k, !.cert = cert])
      PROVE  [Channel!Next]_(Channel!vars)
  <2> DEFINE r == [Idle EXCEPT !.pc = "connecting", !.cfg = cfg,
                               !.peer = Stranger, !.peerKey = k, !.cert = cert]
  <2>1. r.pc = "connecting" /\ r.receiver = None /\ SetRun(c, r)
    BY <1>3 DEF Idle
  <2> HIDE DEF r
  <2> QED
    BY <1>0, <2>1, Asks
<1>4. ASSUME NEW cfg \in ClientConfigs, NEW h \in Hosts, ConnectGateway(c, cfg, h)
      PROVE  [Channel!Next]_(Channel!vars)
  BY <1>2, <1>4 DEF ConnectGateway
<1>5. ASSUME NEW cfg \in ClientConfigs, ConnectStranger(c, cfg)
      PROVE  [Channel!Next]_(Channel!vars)
  BY <1>3, <1>5 DEF ConnectStranger
<1> QED
  BY <1>1, <1>4, <1>5 DEF ConnectAny

\* The steps that change a client's progress and its response only.
LEMMA ProgressMoves ==
  ASSUME IInv, NEW c \in Clients,
         Handshake(c) \/ SendPrompt(c) \/ BackendUnavailable(c)
           \/ BackendAnswers(c) \/ ReceiveResponse(c)
  PROVE  [Channel!Next]_(Channel!vars)
<1>1. PICK pc, verdict, response :
        /\ SetRun(c, [run[c] EXCEPT !.pc = pc, !.verdict = verdict,
                                    !.response = response])
        /\ \/ /\ run[c].pc \in {"connecting", "established"}
              /\ pc \in {"established", "sent", "failed"}
           \/ /\ run[c].pc \in {"forwarded", "answered"}
              /\ pc \in {"answered", "printed", "failed"}
  <2>0. run[c] \in Run
    BY ClientFacts
  <2>1. ASSUME NEW pc, SetRun(c, [run[c] EXCEPT !.pc = pc])
        PROVE  SetRun(c, [run[c] EXCEPT !.pc = pc, !.verdict = run[c].verdict,
                                        !.response = run[c].response])
    <3>1. [run[c] EXCEPT !.pc = pc]
            = [run[c] EXCEPT !.pc = pc, !.verdict = run[c].verdict,
                             !.response = run[c].response]
      BY <2>0 DEF Run
    <3> QED
      BY <2>1, <3>1
  <2>2. ASSUME NEW pc, NEW v, SetRun(c, [run[c] EXCEPT !.pc = pc, !.verdict = v])
        PROVE  SetRun(c, [run[c] EXCEPT !.pc = pc, !.verdict = v,
                                        !.response = run[c].response])
    <3>1. [run[c] EXCEPT !.pc = pc, !.verdict = v]
            = [run[c] EXCEPT !.pc = pc, !.verdict = v,
                             !.response = run[c].response]
      BY <2>0 DEF Run
    <3> QED
      BY <2>2, <3>1
  <2>3. ASSUME NEW pc, NEW x, SetRun(c, [run[c] EXCEPT !.pc = pc, !.response = x])
        PROVE  SetRun(c, [run[c] EXCEPT !.pc = pc, !.verdict = run[c].verdict,
                                        !.response = x])
    <3>1. [run[c] EXCEPT !.pc = pc, !.response = x]
            = [run[c] EXCEPT !.pc = pc, !.verdict = run[c].verdict,
                             !.response = x]
      BY <2>0 DEF Run
    <3> QED
      BY <2>3, <3>1
  <2>4. CASE Handshake(c)
    <3> DEFINE v == HandshakeVerdict(run[c].cfg, run[c].cert, run[c].peerKey)
               p == IF v = "Ok" THEN "established" ELSE "failed"
    <3>1. /\ SetRun(c, [run[c] EXCEPT !.pc = p, !.verdict = v])
          /\ run[c].pc = "connecting" /\ p \in {"established", "failed"}
      BY <2>4 DEF Handshake
    <3> HIDE DEF v, p
    <3>2. SetRun(c, [run[c] EXCEPT !.pc = p, !.verdict = v,
                                   !.response = run[c].response])
      BY <2>2, <3>1
    <3> QED
      BY <3>1, <3>2
  <2>5. CASE SendPrompt(c)
    BY <2>1, <2>5 DEF SendPrompt
  <2>6. CASE BackendUnavailable(c) \/ BackendAnswers(c)
    <3>1. PICK x : /\ SetRun(c, [run[c] EXCEPT !.pc = "answered", !.response = x])
                   /\ run[c].pc = "forwarded"
      BY <2>6 DEF BackendUnavailable, BackendAnswers
    <3>2. SetRun(c, [run[c] EXCEPT !.pc = "answered", !.verdict = run[c].verdict,
                                   !.response = x])
      BY <2>3, <3>1
    <3> QED
      BY <3>1, <3>2
  <2>7. CASE ReceiveResponse(c)
    <3>1. PICK p \in {"printed", "failed"} :
            SetRun(c, [run[c] EXCEPT !.pc = p]) /\ run[c].pc = "answered"
      BY <2>7 DEF ReceiveResponse
    <3>2. SetRun(c, [run[c] EXCEPT !.pc = p, !.verdict = run[c].verdict,
                                   !.response = run[c].response])
      BY <2>1, <3>1
    <3> QED
      BY <3>1, <3>2
  <2> QED
    BY <2>4, <2>5, <2>6, <2>7
<1> DEFINE r == [run[c] EXCEPT !.pc = pc, !.verdict = verdict, !.response = response]
<1>2. /\ r.pc = pc /\ SetRun(c, r)
      /\ r.cfg = run[c].cfg /\ r.peer = run[c].peer
      /\ r.cert = run[c].cert /\ r.receiver = run[c].receiver
  BY <1>1, ClientFacts DEF Run
<1> HIDE DEF r
<1>3. \/ Phase(r) = Phase(run[c])
      \/ Phase(run[c]) = "delivered" /\ Phase(r) = "answered"
      \/ Phase(run[c]) \in {"trying", "delivered"} /\ Phase(r) = "failed"
  BY <1>1, <1>2, Phases
<1> QED
  BY <1>2, <1>3, KeepsReader

\* The steps in which a prompt is read.
LEMMA ReadMoves ==
  ASSUME IInv, AttestedReceiver', NEW c \in Clients,
         HandleGenerate(c) \/ StrangerAnswers(c)
  PROVE  [Channel!Next]_(Channel!vars)
<1> DEFINE h == run[c].peer
           got == [endpoint |-> h, key |-> proc[h].key, machine |-> machine[h],
                   cc |-> proc[h].cc]
           other == [endpoint |-> Stranger, key |-> run[c].peerKey, machine |-> None,
                     cc |-> None]
           echo == [status |-> 200, body |-> "complete"]
           r1 == [run[c] EXCEPT !.pc = "answered", !.receiver = got, !.response = echo]
           r2 == [run[c] EXCEPT !.pc = "forwarded", !.receiver = got]
           r3 == [run[c] EXCEPT !.pc = "answered", !.receiver = other,
                                !.response = echo]
<1>0. run[c].pc = "sent" /\ run[c] \in Run
  BY ClientFacts DEF HandleGenerate, StrangerAnswers
<1>1. CASE HandleGenerate(c)
  <2>1. PICK r \in {r1, r2} : SetRun(c, r)
    BY <1>1 DEF HandleGenerate
  <2>2. h \in Hosts /\ machine[h] \in Machines
    BY <1>1 DEF HandleGenerate, IInv, TypeOK, ServerTypeOK
  <2>3. got.machine = machine[h]
    OBVIOUS
  <2>4. got \in Receiver
    <3>1. proc[h].pc = "listening" /\ proc[h].cc \in CcModes \cup {None}
      BY <1>1, <2>2, ClientAssumption
      DEF HandleGenerate, Alive, IInv, TypeOK, ServerTypeOK, Process
    <3> QED
      BY <2>2, <3>1 DEF Receiver, IInv, SetupOK, TlsKey
  <2>5. /\ r \in Run /\ r.pc \in {"answered", "forwarded"}
        /\ r.cfg = run[c].cfg /\ r.peer = run[c].peer
        /\ r.cert = run[c].cert /\ r.receiver = got
    <3>1. echo \in Response
      BY DEF Response
    <3> HIDE DEF got, h, echo
    <3>2. CASE r = r1
      BY <1>0, <2>4, <3>1, <3>2 DEF Run, ClientPC
    <3>3. CASE r = r2
      BY <1>0, <2>4, <3>3 DEF Run, ClientPC
    <3> QED BY <3>2, <3>3
  <2> HIDE DEF r1, r2, got
  <2>6. r.receiver # None
    BY <2>4, <2>5, ReaderAssumption
  <2> QED
    BY <1>0, <2>1, <2>2, <2>3, <2>5, <2>6, Delivers
<1>2. CASE StrangerAnswers(c)
  <2>1. SetRun(c, r3)
    BY <1>2 DEF StrangerAnswers
  <2>2. other \in Receiver /\ echo \in Response
    BY <1>0, ClientFacts DEF Receiver, Response, ConnOK
  <2>3. other.machine = None /\ other.endpoint = Stranger
    OBVIOUS
  <2> HIDE DEF other, echo
  <2>4. /\ r3 \in Run /\ r3.pc = "answered"
        /\ r3.cfg = run[c].cfg /\ r3.peer = run[c].peer
        /\ r3.cert = run[c].cert /\ r3.receiver = other
    BY <1>0, <2>2 DEF Run, ClientPC
  <2> HIDE DEF r3
  <2>5. r3.receiver # None
    BY <2>2, <2>4, ReaderAssumption
  <2> QED
    BY <1>0, <2>1, <2>3, <2>4, <2>5, Delivers
<1> QED
  BY <1>1, <1>2

-----------------------------------------------------------------------------
(* The theorem.                                                            *)

\* The initial states map to initial states.
LEMMA InitMaps == Init => Channel!Init
<1> SUFFICES ASSUME Init PROVE Channel!Init
  OBVIOUS
<1>1. \A c \in Clients : run[c] = Idle
  BY DEF Init
<1>2. Phase(Idle) = "idle"
  BY Phases DEF Idle
<1>3. Wanted(Idle) = {} /\ Reader(Idle) = None
  BY DEF Wanted, Reader, Idle
<1>4. machine \in [Hosts -> Machines]
  BY DEF Init, ServerInit
<1> QED
  BY <1>1, <1>2, <1>3, <1>4 DEF Channel!Init, phaseBar, wantBar, readerBar

\* Every step maps to a step or to none.
LEMMA StepMaps ==
  ASSUME IInv, AttestedReceiver', [Next]_vars
  PROVE  [Channel!Next]_(Channel!vars)
<1>1. CASE \E h \in Hosts : \/ ServerStep(h) /\ UNCHANGED run
                            \/ ServerEnvironment(h) /\ UNCHANGED run
  BY <1>1, GatewayMoves
<1>2. CASE \E c \in Clients : ConnectAny(c)
  BY <1>2, ConnectMoves
<1>3. CASE \E c \in Clients : ConnectionStep(c)
  <2>1. PICK c \in Clients : ConnectionStep(c)
    BY <1>3
  <2>2. CASE ConnectionLost(c)
    BY <2>2, FailMoves, Phases DEF ConnectionLost
  <2> QED
    BY <2>1, <2>2, ProgressMoves, ReadMoves DEF ConnectionStep
<1>4. CASE \E c \in Clients : BackendStep(c) \/ StrangerAnswers(c)
  BY <1>4, ProgressMoves, ReadMoves DEF BackendStep
<1>5. CASE UNCHANGED vars
  BY <1>5 DEF vars, Channel!vars, phaseBar, wantBar, readerBar
<1> QED
  BY <1>1, <1>2, <1>3, <1>4, <1>5 DEF Next

\* Clients, gateways and the stranger together implement the channel: a prompt
\* is read once, by a reader that its client asked for, at the moment of the
\* delivery, for any number of hosts, clients, keys and certificates.
THEOREM ChannelIsImplemented == Spec => ImplementsChannel
<1>1. IInv /\ AttestedReceiver' /\ [Next]_vars => [Channel!Next]_(Channel!vars)
  BY StepMaps
<1> QED
  BY <1>1, InitMaps, SpecInv, ReceiverIsAttested, PTL
  DEF Spec, ImplementsChannel, Channel!Spec
=============================================================================
