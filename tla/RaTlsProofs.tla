---------------------------- MODULE RaTlsProofs ----------------------------
(***************************************************************************)
(* Proofs about RaTls, for any hosts, clients, keys, machines, answers of  *)
(* the KDS and certificates of the stranger that satisfy the assumptions.  *)
(*                                                                         *)
(* None of the invariants is inductive by itself.  The strengthening IInv  *)
(* says which locals of a gateway exist at each step (SetupOK) and that    *)
(* they tell the truth about its machine (TruthOK), that keys are fresh    *)
(* and belong to one process (KeysOK, PeerOK), and what a run of the       *)
(* client has established (ConnOK).                                        *)
(***************************************************************************)
EXTENDS RaTls, SequenceTheorems, TLAPS

-----------------------------------------------------------------------------
(* The inductive invariant.                                                *)

\* The mode that a gateway was started in.
ModeOf(args) == IF args.amd THEN "AmdSevSnp" ELSE "Mock"

\* Which locals of a process p have been computed, and in which mode.
SetupOK(p) ==
  /\ p.pc # "down" => p.args \in ServerArgs
  /\ p.pc \in {"ioctl", "vcek", "chain", "gpu", "cert", "bind", "listening"}
       => p.key \in Nat
  /\ p.pc \in {"vcek", "chain", "gpu", "cert"} => p.report \in Report
  /\ p.pc = "chain" => p.vcek \in Cert
  /\ p.pc \in {"gpu", "cert"} => p.chain \in Seq(Cert)
  /\ p.pc = "cert" /\ p.args.gpu_cc => p.jwt \in GpuJwt
  /\ p.pc \in {"bind", "listening"} => p.cert \in TlsCert
  /\ p.pc = "mock" => ModeOf(p.args) = "Mock"
  /\ p.pc \in {"keygen", "ioctl", "vcek", "chain", "gpu", "cert"}
       => ModeOf(p.args) = "AmdSevSnp"
  /\ p.pc \in {"bind", "listening"} => p.cert.ext.json.mode = ModeOf(p.args)

\* A certificate binds a key of a gateway.
BindsGateway(cert) ==
  \E n \in Nat : report_bytes(cert.ext.json).report_data[1] = Sha256(n)

\* A token about a GPU in mode cc, if it can be read and has the claim.
TokenTrue(jwt, cc) ==
  jwt # None /\ jwt.claims # None => jwt.claims.cc_mode \in {cc, None}

\* A certificate in AMD mode tells the truth about the image of machine m and
\* about the mode cc that the GPU was in when the token was issued.
CertTrue(cert, m, cc) ==
  cert.ext.json.mode = "AmdSevSnp" =>
    /\ report_bytes(cert.ext.json).measurement = m.image
    /\ TokenTrue(cert.ext.json.gpu_jwt, cc)

\* What a process p computed binds its key and describes its machine m.
TruthOK(p, m) ==
  /\ p.pc \in {"vcek", "chain", "gpu", "cert"} =>
       /\ p.report.report_data[1] = Sha256(p.key)
       /\ p.report.measurement = m.image
  /\ p.pc = "cert" /\ p.args.gpu_cc => TokenTrue(p.jwt, p.cc)
  /\ p.pc \in {"bind", "listening"} =>
       BindsGateway(p.cert) /\ CertTrue(p.cert, m, p.cc)

\* The keys of processes have been generated.
KeysOK == \A h \in Hosts : proc[h].key \in Nat => proc[h].key < nextKey

\* The stranger has seen nothing but certificates that bind a gateway's key.
PublishedOK == \A x \in published : BindsGateway(x)

\* No process but the one that r connected to has or will have its key.
PeerOK(r) ==
  r.peer \in Hosts =>
    /\ r.peerKey \in Nat
    /\ r.peerKey < nextKey
    /\ proc[r.peer].key = r.peerKey
         => /\ proc[r.peer].pc = "listening"
            /\ proc[r.peer].cert = r.cert

\* What a run r of the client has established.
ConnOK(r) ==
  /\ r.pc = "idle" => r = Idle
  /\ r.pc = "connecting" => r.receiver = None /\ r.verdict = None
  /\ r.pc \in {"connecting", "established", "sent", "forwarded", "answered"}
       => /\ r.cfg \in ClientConfigs
          /\ r.peer \in Hosts \cup {Stranger}
          /\ r.peerKey \in TlsKey
          /\ r.cert \in TlsCert
  /\ r.pc \in {"established", "sent", "forwarded", "answered", "printed"}
       => r.verdict = "Ok"
  /\ r.verdict = "Ok" => HandshakeVerdict(r.cfg, r.cert, r.peerKey) = "Ok"
  /\ r.peer = Stranger =>
       /\ r.peerKey \in ForeignKeys
       /\ r.cert \in ForeignCerts \/ BindsGateway(r.cert)
  /\ r.receiver # None =>
       /\ r.verdict = "Ok"
       /\ r.receiver.endpoint = r.peer
       /\ r.receiver.key = r.peerKey
       /\ r.peer \in Hosts =>
            CertTrue(r.cert, r.receiver.machine, r.receiver.cc)

IInv ==
  /\ TypeOK
  /\ \A h \in Hosts : SetupOK(proc[h]) /\ TruthOK(proc[h], machine[h])
  /\ KeysOK
  /\ PublishedOK
  /\ \A c \in Clients : PeerOK(run[c]) /\ ConnOK(run[c])

-----------------------------------------------------------------------------
(* Lemmas: the two ways a step changes the state.                          *)

\* A step that replaces the process of h by p preserves the invariant if p is
\* well-formed and has its old key and role, no key, or a new key.
LEMMA ProcStep ==
  ASSUME IInv, NEW h \in Hosts, NEW p \in Process,
         proc' = [proc EXCEPT ![h] = p],
         UNCHANGED <<machine, run>>,
         nextKey' \in Nat, nextKey <= nextKey',
         published' \subseteq TlsCert, PublishedOK',
         SetupOK(p), TruthOK(p, machine[h]),
         p.key \in Nat => p.key < nextKey',
         \/ p.key = None
         \/ p.key = nextKey
         \/ /\ p.key = proc[h].key
            /\ proc[h].pc # "listening"
  PROVE  IInv'
<1>1. TypeOK'
  BY DEF IInv, TypeOK, ServerTypeOK
<1>2. \A g \in Hosts : SetupOK(proc'[g]) /\ TruthOK(proc'[g], machine'[g])
  BY DEF IInv, TypeOK, ServerTypeOK
<1>3. KeysOK'
  BY DEF IInv, TypeOK, ServerTypeOK, KeysOK
<1>4. ASSUME NEW c \in Clients PROVE PeerOK(run[c])'
  <2>1. PeerOK(run[c]) /\ None \notin Nat
    BY DataAssumption DEF IInv
  <2>2. nextKey \in Nat
    BY DEF IInv, TypeOK, ServerTypeOK
  <2>3. CASE run[c].peer = h
    BY <2>1, <2>2, <2>3 DEF PeerOK, IInv, TypeOK, ServerTypeOK
  <2>4. CASE run[c].peer # h
    BY <2>1, <2>2, <2>4 DEF PeerOK, IInv, TypeOK, ServerTypeOK
  <2> QED BY <2>3, <2>4
<1>5. \A c \in Clients : ConnOK(run'[c])
  BY DEF IInv
<1> QED BY <1>1, <1>2, <1>3, <1>4, <1>5 DEF IInv

\* A step that replaces the run of c by r.
LEMMA RunStep ==
  ASSUME IInv, NEW c \in Clients, NEW r \in Run, SetRun(c, r),
         PeerOK(r), ConnOK(r)
  PROVE  IInv'
<1>1. TypeOK'
  BY DEF IInv, TypeOK, ServerTypeOK, SetRun, serverVars, Process
<1>2. \A h \in Hosts : SetupOK(proc'[h]) /\ TruthOK(proc'[h], machine'[h])
  BY DEF IInv, SetRun, serverVars
<1>3. KeysOK' /\ PublishedOK'
  BY DEF IInv, SetRun, serverVars, KeysOK, PublishedOK
<1>4. \A d \in Clients : PeerOK(run[d])'
  BY DEF IInv, TypeOK, SetRun, serverVars, PeerOK
<1>5. \A d \in Clients : ConnOK(run'[d])
  BY DEF IInv, TypeOK, SetRun
<1> QED BY <1>1, <1>2, <1>3, <1>4, <1>5 DEF IInv

-----------------------------------------------------------------------------
(* The steps of a gateway.                                                 *)

\* A process that ends leaves nothing behind.
LEMMA ExitStep ==
  ASSUME IInv, NEW h \in Hosts, Exit(h), UNCHANGED run
  PROVE  IInv'
<1>1. Down \in Process
  BY DEF Down, Process, ServerPC
<1>2. SetupOK(Down) /\ TruthOK(Down, machine[h]) /\ Down.key = None
  BY DEF Down, SetupOK, TruthOK
<1>3. None \notin Nat
  BY DataAssumption
<1>4. /\ nextKey' = nextKey /\ nextKey \in Nat
      /\ published' = published /\ published \subseteq TlsCert
      /\ PublishedOK'
  BY DEF Exit, SetProc, IInv, TypeOK, ServerTypeOK, PublishedOK
<1>5. nextKey <= nextKey'
  BY <1>4
<1> QED BY <1>1, <1>2, <1>3, <1>4, <1>5, ProcStep DEF Exit, SetProc

\* A step that keeps the key of the process, or gives it the next one.
LEMMA AdvanceStep ==
  ASSUME IInv, NEW h \in Hosts, NEW p \in Process, SetProc(h, p),
         UNCHANGED run,
         SetupOK(p), TruthOK(p, machine[h]),
         \/ /\ p.key = proc[h].key
            /\ nextKey' = nextKey
         \/ /\ p.key = nextKey
            /\ nextKey' = nextKey + 1,
         proc[h].pc # "listening"
  PROVE  IInv'
<1>1. nextKey \in Nat /\ published' = published /\ published \subseteq TlsCert
  BY DEF SetProc, IInv, TypeOK, ServerTypeOK
<1>2. PublishedOK'
  BY <1>1 DEF IInv, PublishedOK
<1>3. nextKey' \in Nat /\ nextKey <= nextKey'
  BY <1>1
<1>4. p.key \in Nat => p.key < nextKey'
  BY <1>1 DEF IInv, KeysOK
<1>5. proc' = [proc EXCEPT ![h] = p] /\ UNCHANGED <<machine, run>>
  BY DEF SetProc
<1> QED BY <1>1, <1>2, <1>3, <1>4, <1>5, ProcStep

\* The report of a key has its type and its fields.
LEMMA SignedReport ==
  ASSUME NEW k \in TlsKey, NEW key \in P384, NEW m \in Measurements,
         NEW chip \in Chips \cup {None}
  PROVE  LET r == signed_report(key, user_data(Sha256(k)), m, chip) IN
         /\ r \in Report
         /\ r.report_data[1] = Sha256(k)
         /\ r.measurement = m
         /\ r.chip_id = chip
         /\ r.sig = Sign(key, signed_region(r))
<1>1. user_data(Sha256(k)) \in ReportData
  BY DEF user_data, Sha256, ReportData
<1>2. user_data(Sha256(k))[1] = Sha256(k)
  BY DEF user_data
<1> QED
  BY <1>1, <1>2
  DEF signed_report, signed_region, Report, Signature, SignedRegion, Sign

\* The extension of an AMD gateway holds its report, in AMD mode, no token yet.
LEMMA AmdExtension ==
  ASSUME NEW report \in Report, NEW chain \in Seq(Cert)
  PROVE  LET ext == new_amd(report, chain) IN
         /\ ext \in AttestationExtension
         /\ ext.report_b64 = B64(report)
         /\ ext.mode = "AmdSevSnp"
         /\ ext.gpu_jwt = None
<1>1. [i \in DOMAIN chain |-> B64(chain[i])] \in Seq([b64 : Cert \cup {None}])
  <2> DEFINE T == [b64 : Cert \cup {None}]
  <2>1. /\ Len(chain) \in Nat /\ DOMAIN chain = 1..Len(chain)
        /\ \A i \in DOMAIN chain : B64(chain[i]) \in T
    BY DEF B64
  <2>2. [i \in DOMAIN chain |-> B64(chain[i])] \in [1..Len(chain) -> T]
    BY <2>1
  <2> HIDE DEF T
  <2>3. [1..Len(chain) -> T] \subseteq Seq(T)
    BY <2>1, SeqDef
  <2> QED BY <2>2, <2>3 DEF T
<1>2. B64(report) \in [b64 : Report \cup {None}]
  BY DEF B64
<1> QED BY <1>1, <1>2 DEF new_amd, AttestationExtension

LEMMA MachineTypes ==
  ASSUME IInv, NEW h \in Hosts
  PROVE  /\ machine[h] \in Machines
         /\ machine[h].image \in Measurements
         /\ machine[h].chip \in Chips
         /\ machine[h].cc \in CcModes
         /\ VcekOf[machine[h].chip] \in P384
BY SetupAssumption DEF IInv, TypeOK, ServerTypeOK

LEMMA BuildMockSetupStep ==
  ASSUME IInv, NEW h \in Hosts, BuildMockSetup(h), UNCHANGED run
  PROVE  IInv'
<1> DEFINE rep == sign_mock_report(pubkey_hash(nextKey), ZeroMeasurement)
           cert == build_server_cert(nextKey, new_mock(rep))
           p == [proc[h] EXCEPT !.pc = "bind", !.key = nextKey, !.cert = cert]
<1>1. nextKey \in Nat /\ nextKey \in TlsKey /\ proc[h] \in Process
  BY DEF IInv, TypeOK, ServerTypeOK, TlsKey
<1>2. rep \in Report /\ rep.report_data[1] = Sha256(nextKey)
  BY <1>1, SignedReport, DataAssumption DEF sign_mock_report, pubkey_hash
<1>3. cert \in TlsCert
  <2>1. new_mock(rep) \in AttestationExtension
    BY <1>2 DEF new_mock, AttestationExtension, B64
  <2> QED BY <1>1, <2>1 DEF build_server_cert, TlsCert, Json
<1>4. /\ report_bytes(cert.ext.json) = rep
      /\ cert.ext.json.mode = "Mock"
  BY DEF build_server_cert, Json, new_mock, report_bytes, B64
<1> HIDE DEF rep, cert
<1>5. /\ p \in Process /\ p.key = nextKey /\ p.cert = cert /\ p.pc = "bind"
      /\ p.args = proc[h].args
  BY <1>1, <1>3 DEF Process, ServerPC
<1>6. proc[h].pc = "mock" /\ SetProc(h, p) /\ nextKey' = nextKey + 1
  BY DEF BuildMockSetup, rep, cert
<1> HIDE DEF p
<1>7. SetupOK(p)
  BY <1>1, <1>3, <1>4, <1>5, <1>6 DEF SetupOK, IInv
<1>8. TruthOK(p, machine[h])
  BY <1>1, <1>2, <1>4, <1>5 DEF TruthOK, BindsGateway, CertTrue
<1> QED BY <1>5, <1>6, <1>7, <1>8, AdvanceStep

LEMMA GenerateKeypairStep ==
  ASSUME IInv, NEW h \in Hosts, GenerateKeypair(h), UNCHANGED run
  PROVE  IInv'
<1> DEFINE p == [proc[h] EXCEPT !.pc = "ioctl", !.key = nextKey]
<1>1. nextKey \in Nat /\ proc[h] \in Process
  BY DEF IInv, TypeOK, ServerTypeOK
<1>2. /\ p \in Process /\ p.key = nextKey /\ p.pc = "ioctl"
      /\ p.args = proc[h].args
  BY <1>1 DEF Process, ServerPC
<1>3. proc[h].pc = "keygen" /\ SetProc(h, p) /\ nextKey' = nextKey + 1
  BY DEF GenerateKeypair
<1> HIDE DEF p
<1>4. SetupOK(p) /\ TruthOK(p, machine[h])
  BY <1>1, <1>2, <1>3 DEF SetupOK, TruthOK, IInv
<1> QED BY <1>2, <1>3, <1>4, AdvanceStep

LEMMA GetSnpReportStep ==
  ASSUME IInv, NEW h \in Hosts, GetSnpReport(h), UNCHANGED run
  PROVE  IInv'
<1> DEFINE rep == SnpReport(machine[h], user_data(pubkey_hash(proc[h].key)))
           p == [proc[h] EXCEPT !.pc = "vcek", !.report = rep]
<1>1. /\ proc[h].pc = "ioctl" /\ SetProc(h, p) /\ nextKey' = nextKey
      /\ proc[h] \in Process
  BY DEF GetSnpReport, IInv, TypeOK, ServerTypeOK
<1>2. /\ proc[h].key \in Nat /\ proc[h].key \in TlsKey
      /\ proc[h].args \in ServerArgs /\ ModeOf(proc[h].args) = "AmdSevSnp"
  BY <1>1 DEF IInv, SetupOK, TlsKey
<1>3. /\ rep \in Report
      /\ rep.report_data[1] = Sha256(proc[h].key)
      /\ rep.measurement = machine[h].image
  BY <1>2, MachineTypes, SignedReport DEF SnpReport, pubkey_hash
<1> HIDE DEF rep
<1>4. /\ p \in Process /\ p.pc = "vcek" /\ p.key = proc[h].key
      /\ p.args = proc[h].args /\ p.report = rep
  BY <1>1, <1>3 DEF Process, ServerPC
<1> HIDE DEF p
<1>5. SetupOK(p) /\ TruthOK(p, machine[h])
  BY <1>2, <1>3, <1>4 DEF SetupOK, TruthOK
<1> QED BY <1>1, <1>4, <1>5, AdvanceStep

LEMMA FetchVcekStep ==
  ASSUME IInv, NEW h \in Hosts, FetchVcek(h), UNCHANGED run
  PROVE  IInv'
<1>1. PICK body \in KdsVceks :
        SetProc(h, [proc[h] EXCEPT !.pc = "chain", !.vcek = body])
  BY DEF FetchVcek
<1> DEFINE p == [proc[h] EXCEPT !.pc = "chain", !.vcek = body]
<1>2. /\ proc[h].pc = "vcek" /\ nextKey' = nextKey /\ SetProc(h, p)
      /\ proc[h] \in Process /\ body \in Cert
  BY <1>1, SetupAssumption DEF FetchVcek, IInv, TypeOK, ServerTypeOK
<1>3. /\ p \in Process /\ p.pc = "chain" /\ p.vcek = body
      /\ p.key = proc[h].key /\ p.args = proc[h].args
      /\ p.report = proc[h].report
  BY <1>2 DEF Process, ServerPC
<1> HIDE DEF p
<1>4. SetupOK(p) /\ TruthOK(p, machine[h])
  BY <1>2, <1>3 DEF SetupOK, TruthOK, IInv
<1> QED BY <1>2, <1>3, <1>4, AdvanceStep

LEMMA FetchCertChainStep ==
  ASSUME IInv, NEW h \in Hosts, FetchCertChain(h), UNCHANGED run
  PROVE  IInv'
<1>1. PICK b \in KdsBundles :
        /\ Len(b) >= 2
        /\ SetProc(h, [proc[h] EXCEPT
             !.pc = IF proc[h].args.gpu_cc THEN "gpu" ELSE "cert",
             !.pem_certs = b,
             !.chain = <<proc[h].vcek, b[1], b[2]>>])
  BY DEF FetchCertChain
<1> DEFINE ch == <<proc[h].vcek, b[1], b[2]>>
           next == IF proc[h].args.gpu_cc THEN "gpu" ELSE "cert"
           p == [proc[h] EXCEPT !.pc = next, !.pem_certs = b, !.chain = ch]
<1>2. /\ proc[h].pc = "chain" /\ nextKey' = nextKey /\ SetProc(h, p)
      /\ proc[h] \in Process
  BY <1>1 DEF FetchCertChain, IInv, TypeOK, ServerTypeOK
<1>3. ch \in Seq(Cert) /\ b \in Seq(Cert)
  <2>1. b \in Seq(Cert)
    BY SetupAssumption
  <2>2. b[1] \in Cert /\ b[2] \in Cert
    BY <1>1, <2>1
  <2>3. proc[h].vcek \in Cert
    BY <1>2 DEF IInv, SetupOK
  <2> QED BY <2>1, <2>2, <2>3
<1> HIDE DEF ch
<1>4. /\ p \in Process /\ p.pc = next /\ p.chain = ch
      /\ p.key = proc[h].key /\ p.args = proc[h].args
      /\ p.report = proc[h].report
  <2> DEFINE S == Seq(Cert) \cup {None}
  <2>1. b \in S /\ ch \in S /\ next \in ServerPC
    BY <1>3 DEF ServerPC
  <2> HIDE DEF S, next
  <2> QED BY <1>2, <2>1 DEF Process, S
<1> HIDE DEF p
<1>5. SetupOK(p) /\ TruthOK(p, machine[h])
  BY <1>2, <1>3, <1>4 DEF SetupOK, TruthOK, IInv
<1> QED BY <1>2, <1>4, <1>5, AdvanceStep

LEMMA GetGpuJwtStep ==
  ASSUME IInv, NEW h \in Hosts, GetGpuJwt(h), UNCHANGED run
  PROVE  IInv'
<1>1. PICK jwt \in NrasTokens(Hex(pubkey_hash(proc[h].key)), machine[h].cc) :
        SetProc(h, [proc[h] EXCEPT !.pc = "cert", !.jwt = jwt,
                                   !.cc = machine[h].cc])
  BY DEF GetGpuJwt
<1> DEFINE p == [proc[h] EXCEPT !.pc = "cert", !.jwt = jwt,
                                !.cc = machine[h].cc]
<1>2. /\ proc[h].pc = "gpu" /\ nextKey' = nextKey /\ SetProc(h, p)
      /\ proc[h] \in Process
  BY <1>1 DEF GetGpuJwt, IInv, TypeOK, ServerTypeOK
<1>3. proc[h].key \in TlsKey
  BY <1>2 DEF IInv, SetupOK, TlsKey
<1>4. jwt \in GpuJwt /\ TokenTrue(jwt, machine[h].cc)
  <2>1. Hex(pubkey_hash(proc[h].key)) \in [hex : [sha256 : TlsKey]]
    BY <1>3 DEF Hex, pubkey_hash, Sha256
  <2> QED
    BY <2>1, MachineTypes DEF NrasTokens, GpuJwt, GpuClaims, TokenTrue
<1>5. /\ p \in Process /\ p.pc = "cert" /\ p.jwt = jwt
      /\ p.cc = machine[h].cc
      /\ p.key = proc[h].key /\ p.args = proc[h].args
      /\ p.report = proc[h].report /\ p.chain = proc[h].chain
  BY <1>2, <1>4, MachineTypes DEF Process, ServerPC
<1> HIDE DEF p
<1>6. SetupOK(p) /\ TruthOK(p, machine[h])
  BY <1>2, <1>4, <1>5 DEF SetupOK, TruthOK, IInv
<1> QED BY <1>2, <1>5, <1>6, AdvanceStep

LEMMA BuildAmdCertStep ==
  ASSUME IInv, NEW h \in Hosts, BuildAmdCert(h), UNCHANGED run
  PROVE  IInv'
<1> DEFINE base == new_amd(proc[h].report, proc[h].chain)
           ext  == IF proc[h].args.gpu_cc THEN with_gpu_jwt(base, proc[h].jwt)
                   ELSE base
           cert == build_server_cert(proc[h].key, ext)
           p    == [proc[h] EXCEPT !.pc = "bind", !.cert = cert]
<1>1. /\ proc[h].pc = "cert" /\ nextKey' = nextKey /\ SetProc(h, p)
      /\ proc[h] \in Process
  BY DEF BuildAmdCert, IInv, TypeOK, ServerTypeOK
<1>2. /\ proc[h].report \in Report /\ proc[h].chain \in Seq(Cert)
      /\ proc[h].key \in Nat /\ proc[h].args \in ServerArgs
      /\ proc[h].args.gpu_cc => proc[h].jwt \in GpuJwt
      /\ ModeOf(proc[h].args) = "AmdSevSnp"
  BY <1>1 DEF IInv, SetupOK
<1>3. /\ proc[h].report.report_data[1] = Sha256(proc[h].key)
      /\ proc[h].report.measurement = machine[h].image
      /\ proc[h].args.gpu_cc => TokenTrue(proc[h].jwt, proc[h].cc)
  BY <1>1 DEF IInv, TruthOK
<1>4. /\ ext \in AttestationExtension
      /\ report_bytes(ext) = proc[h].report
      /\ TokenTrue(ext.gpu_jwt, proc[h].cc)
      /\ ext.mode = "AmdSevSnp"
  <2>1. /\ base \in AttestationExtension /\ base.gpu_jwt = None
        /\ base.report_b64 = B64(proc[h].report) /\ base.mode = "AmdSevSnp"
    BY <1>2, AmdExtension
  <2>2. /\ ext \in AttestationExtension /\ ext.report_b64 = base.report_b64
        /\ ext.mode = base.mode
        /\ IF proc[h].args.gpu_cc THEN ext.gpu_jwt = proc[h].jwt
           ELSE ext.gpu_jwt = None
    BY <1>2, <2>1 DEF with_gpu_jwt, AttestationExtension
  <2> QED BY <1>3, <2>1, <2>2 DEF report_bytes, B64, TokenTrue
<1> HIDE DEF ext
<1>5. cert \in TlsCert /\ cert.ext.json = ext
  BY <1>2, <1>4 DEF build_server_cert, TlsCert, Json, TlsKey
<1> HIDE DEF cert
<1>6. /\ p \in Process /\ p.pc = "bind" /\ p.cert = cert
      /\ p.key = proc[h].key /\ p.args = proc[h].args /\ p.cc = proc[h].cc
  BY <1>1, <1>5 DEF Process, ServerPC
<1> HIDE DEF p
<1>7. SetupOK(p)
  BY <1>2, <1>4, <1>5, <1>6 DEF SetupOK
<1>8. BindsGateway(cert) /\ CertTrue(cert, machine[h], proc[h].cc)
  BY <1>2, <1>3, <1>4, <1>5 DEF BindsGateway, CertTrue
<1>9. TruthOK(p, machine[h])
  BY <1>6, <1>8 DEF TruthOK
<1> QED BY <1>1, <1>6, <1>7, <1>9, AdvanceStep

LEMMA BindStep ==
  ASSUME IInv, NEW h \in Hosts, Bind(h), UNCHANGED run
  PROVE  IInv'
<1> DEFINE p == [Down EXCEPT !.pc = "listening", !.args = proc[h].args,
                             !.key = proc[h].key, !.cert = proc[h].cert,
                             !.vcek = proc[h].vcek,
                             !.pem_certs = proc[h].pem_certs, !.cc = proc[h].cc]
<1>1. /\ proc[h].pc = "bind" /\ proc[h] \in Process
      /\ proc' = [proc EXCEPT ![h] = p] /\ UNCHANGED <<machine, run>>
      /\ published' = published \cup {proc[h].cert} /\ nextKey' = nextKey
  BY DEF Bind, IInv, TypeOK, ServerTypeOK
<1>2. /\ p \in Process /\ p.pc = "listening" /\ p.cert = proc[h].cert
      /\ p.key = proc[h].key /\ p.args = proc[h].args /\ p.cc = proc[h].cc
  BY <1>1 DEF Process, ServerPC, Down
<1> HIDE DEF p
<1>3. /\ proc[h].cert \in TlsCert /\ BindsGateway(proc[h].cert)
      /\ CertTrue(proc[h].cert, machine[h], proc[h].cc)
      /\ proc[h].key \in Nat /\ proc[h].args \in ServerArgs
      /\ proc[h].cert.ext.json.mode = ModeOf(proc[h].args)
  BY <1>1 DEF IInv, SetupOK, TruthOK
<1>4. SetupOK(p) /\ TruthOK(p, machine[h])
  BY <1>2, <1>3 DEF SetupOK, TruthOK
<1>5. published' \subseteq TlsCert /\ PublishedOK'
  BY <1>1, <1>3 DEF IInv, TypeOK, ServerTypeOK, PublishedOK
<1>6. nextKey \in Nat /\ nextKey <= nextKey' /\ p.key < nextKey'
  BY <1>1, <1>2, <1>3 DEF IInv, TypeOK, ServerTypeOK, KeysOK
<1> QED BY <1>1, <1>2, <1>4, <1>5, <1>6, ProcStep

LEMMA LaunchStep ==
  ASSUME IInv, NEW h \in Hosts, NEW args \in ServerArgs, Launch(h, args),
         UNCHANGED run
  PROVE  IInv'
<1> DEFINE p == [Down EXCEPT !.pc = SetupPath(args), !.args = args]
<1>1. /\ proc' = [proc EXCEPT ![h] = p] /\ UNCHANGED <<machine, run>>
      /\ published' = published /\ nextKey' = nextKey
  BY DEF Launch, SetProc
<1>2. /\ SetupPath(args) \in {"mock", "keygen"}
      /\ SetupPath(args) = "mock" => ModeOf(args) = "Mock"
      /\ SetupPath(args) = "keygen" => ModeOf(args) = "AmdSevSnp"
  BY DEF Launch, SetupPath, ModeOf
<1>3. /\ p \in Process /\ p.pc \in {"mock", "keygen"} /\ p.key = None
      /\ p.args = args /\ p.pc = SetupPath(args)
  BY <1>2 DEF Process, ServerPC, Down
<1> HIDE DEF p
<1>4. SetupOK(p) /\ TruthOK(p, machine[h])
  BY <1>2, <1>3 DEF SetupOK, TruthOK
<1>5. /\ published' \subseteq TlsCert /\ PublishedOK'
      /\ nextKey \in Nat /\ nextKey <= nextKey'
  BY <1>1 DEF IInv, TypeOK, ServerTypeOK, PublishedOK
<1>6. None \notin Nat
  BY DataAssumption
<1> QED BY <1>1, <1>3, <1>4, <1>5, <1>6, ProcStep

LEMMA ReprovisionStep ==
  ASSUME IInv, NEW h \in Hosts, NEW m \in Machines, Reprovision(h, m),
         UNCHANGED run
  PROVE  IInv'
<1>1. /\ machine' = [machine EXCEPT ![h] = m] /\ proc[h].pc = "down"
      /\ UNCHANGED <<proc, nextKey, published, run>>
  BY DEF Reprovision, Running
<1>2. TypeOK'
  BY <1>1 DEF IInv, TypeOK, ServerTypeOK
<1>3. ASSUME NEW g \in Hosts PROVE SetupOK(proc'[g]) /\ TruthOK(proc'[g], machine'[g])
  <2>1. CASE g = h
    BY <1>1, <2>1 DEF IInv, TruthOK
  <2>2. CASE g # h
    BY <1>1, <2>2 DEF IInv, TypeOK, ServerTypeOK
  <2> QED BY <2>1, <2>2
<1>4. KeysOK' /\ PublishedOK'
  BY <1>1 DEF IInv, KeysOK, PublishedOK
<1>5. \A c \in Clients : PeerOK(run[c])' /\ ConnOK(run'[c])
  BY <1>1 DEF IInv, PeerOK
<1> QED BY <1>2, <1>3, <1>4, <1>5 DEF IInv

\* No certificate speaks of the present mode of the GPU.
LEMMA ChangeCcModeStep ==
  ASSUME IInv, NEW h \in Hosts, NEW cc, ChangeCcMode(h, cc), UNCHANGED run
  PROVE  IInv'
<1> DEFINE m == [machine[h] EXCEPT !.cc = cc]
<1>1. /\ machine[h] \in Machines /\ m \in Machines
      /\ machine' = [machine EXCEPT ![h] = m]
      /\ UNCHANGED <<proc, nextKey, published, run>>
  BY DEF ChangeCcMode, IInv, TypeOK, ServerTypeOK
<1>2. m.image = machine[h].image
  BY <1>1, SetupAssumption
<1> HIDE DEF m
<1>3. TypeOK'
  BY <1>1 DEF IInv, TypeOK, ServerTypeOK
<1>4. ASSUME NEW g \in Hosts PROVE SetupOK(proc'[g]) /\ TruthOK(proc'[g], machine'[g])
  <2>1. CASE g = h
    <3>1. machine'[h] = m
      BY <1>1 DEF IInv, TypeOK, ServerTypeOK
    <3> QED BY <1>1, <1>2, <2>1, <3>1 DEF IInv, TruthOK, CertTrue
  <2>2. CASE g # h
    BY <1>1, <2>2 DEF IInv, TypeOK, ServerTypeOK
  <2> QED BY <2>1, <2>2
<1>5. KeysOK' /\ PublishedOK'
  BY <1>1 DEF IInv, KeysOK, PublishedOK
<1>6. \A c \in Clients : PeerOK(run[c])' /\ ConnOK(run'[c])
  BY <1>1 DEF IInv, PeerOK
<1> QED BY <1>3, <1>4, <1>5, <1>6 DEF IInv

\* Every step of a gateway and of its environment.
LEMMA GatewayStep ==
  ASSUME IInv, NEW h \in Hosts, ServerStep(h) \/ ServerEnvironment(h),
         UNCHANGED run
  PROVE  IInv'
<1>1. CASE BuildMockSetup(h)  BY <1>1, BuildMockSetupStep
<1>2. CASE GenerateKeypair(h) BY <1>2, GenerateKeypairStep
<1>3. CASE GetSnpReport(h)    BY <1>3, GetSnpReportStep
<1>4. CASE FetchVcek(h)       BY <1>4, FetchVcekStep
<1>5. CASE FetchCertChain(h)  BY <1>5, FetchCertChainStep
<1>6. CASE GetGpuJwt(h)       BY <1>6, GetGpuJwtStep
<1>7. CASE BuildAmdCert(h)    BY <1>7, BuildAmdCertStep
<1>8. CASE Bind(h)            BY <1>8, BindStep
<1>9. CASE SetupFails(h) \/ AcceptError(h) \/ Crash(h)
  BY <1>9, ExitStep DEF SetupFails, AcceptError, Crash
<1>10. CASE \E args \in ServerArgs : Launch(h, args)
  BY <1>10, LaunchStep
<1>11. CASE \E m \in Machines : Reprovision(h, m)
  BY <1>11, ReprovisionStep
<1>12. CASE \E cc \in CcModes : ChangeCcMode(h, cc)
  BY <1>12, ChangeCcModeStep
<1> QED
  BY <1>1, <1>2, <1>3, <1>4, <1>5, <1>6, <1>7, <1>8, <1>9, <1>10, <1>11, <1>12
  DEF ServerStep, ServerEnvironment

-----------------------------------------------------------------------------
(* The steps of a connection.                                              *)

LEMMA ClientFacts ==
  ASSUME IInv, NEW c \in Clients
  PROVE  /\ run[c] \in Run
         /\ PeerOK(run[c])
         /\ ConnOK(run[c])
BY DEF IInv, TypeOK

\* A step that changes nothing of a run but its place and its response, and
\* goes on only from a place after the handshake.
LEMMA ProgressStep ==
  ASSUME IInv, NEW c \in Clients, NEW r \in Run, SetRun(c, r),
         r.cfg = run[c].cfg, r.peer = run[c].peer,
         r.peerKey = run[c].peerKey, r.cert = run[c].cert,
         r.verdict = run[c].verdict, r.receiver = run[c].receiver,
         \/ r.pc = "failed"
         \/ /\ run[c].pc \in {"established", "sent", "forwarded", "answered"}
            /\ r.pc \in {"sent", "answered", "printed"}
  PROVE  IInv'
<1>1. PeerOK(r)
  BY ClientFacts DEF PeerOK
<1>2. ConnOK(r)
  BY ClientFacts DEF ConnOK
<1> QED BY <1>1, <1>2, RunStep

LEMMA FailStep ==
  ASSUME IInv, NEW c \in Clients, Fail(c)
  PROVE  IInv'
<1> DEFINE r == [run[c] EXCEPT !.pc = "failed"]
<1>1. /\ r \in Run /\ r.pc = "failed" /\ SetRun(c, r)
      /\ r.cfg = run[c].cfg /\ r.peer = run[c].peer
      /\ r.peerKey = run[c].peerKey /\ r.cert = run[c].cert
      /\ r.verdict = run[c].verdict /\ r.receiver = run[c].receiver
  BY ClientFacts DEF Run, ClientPC, Fail
<1> QED BY <1>1, ProgressStep

\* No verdict yet is not a positive one.
LEMMA NoneNotOk == None # "Ok"
BY ClientAssumption DEF Verdict

LEMMA ConnectGatewayStep ==
  ASSUME IInv, NEW c \in Clients, NEW cfg \in ClientConfigs, NEW h \in Hosts,
         ConnectGateway(c, cfg, h)
  PROVE  IInv'
<1> DEFINE kds == [vcek |-> proc[h].vcek, pem_certs |-> proc[h].pem_certs]
           r == [Idle EXCEPT !.pc = "connecting", !.cfg = cfg, !.peer = h,
                             !.peerKey = proc[h].key, !.cert = proc[h].cert,
                             !.kds = kds]
<1>1. proc[h].pc = "listening" /\ SetRun(c, r) /\ kds \in KdsAnswers
  BY DEF ConnectGateway, IInv, TypeOK, ServerTypeOK, Process, KdsAnswers
<1> HIDE DEF kds
<1>2. /\ proc[h].key \in Nat /\ proc[h].key < nextKey
      /\ proc[h].cert \in TlsCert /\ proc[h].key \in TlsKey
  BY <1>1 DEF IInv, SetupOK, KeysOK, TlsKey
<1>3. /\ r \in Run /\ r.pc = "connecting" /\ r.cfg = cfg /\ r.peer = h
      /\ r.peerKey = proc[h].key /\ r.cert = proc[h].cert
      /\ r.verdict = None /\ r.receiver = None
  <2>1. r \in Run
    BY <1>1, <1>2 DEF Idle, Run, ClientPC
  <2> QED BY <2>1 DEF Idle
<1> HIDE DEF r
<1>4. PeerOK(r)
  BY <1>1, <1>2, <1>3 DEF PeerOK
<1>5. ConnOK(r)
  BY <1>2, <1>3, NoneNotOk, ClientAssumption DEF ConnOK
<1> QED BY <1>1, <1>3, <1>4, <1>5, RunStep

LEMMA ConnectStrangerStep ==
  ASSUME IInv, NEW c \in Clients, NEW cfg \in ClientConfigs,
         ConnectStranger(c, cfg)
  PROVE  IInv'
<1>1. PICK k \in ForeignKeys, cert \in StrangerCerts :
        SetRun(c, [Idle EXCEPT !.pc = "connecting", !.cfg = cfg,
                               !.peer = Stranger, !.peerKey = k, !.cert = cert])
  BY DEF ConnectStranger
<1> DEFINE r == [Idle EXCEPT !.pc = "connecting", !.cfg = cfg,
                             !.peer = Stranger, !.peerKey = k, !.cert = cert]
<1>2. cert \in TlsCert /\ (cert \in ForeignCerts \/ BindsGateway(cert))
  <2>1. published \subseteq TlsCert /\ \A x \in published : BindsGateway(x)
    BY DEF IInv, TypeOK, ServerTypeOK, PublishedOK
  <2>2. CASE cert \in published
    BY <2>1, <2>2
  <2>3. CASE cert \in ForeignCerts
    BY <2>3, ClientAssumption
  <2>4. ASSUME NEW j \in ForeignKeys, NEW x \in published,
               cert = [spki |-> j, ext |-> x.ext]
        PROVE  cert \in TlsCert /\ BindsGateway(cert)
    BY <2>1, <2>4 DEF TlsCert, TlsKey, BindsGateway
  <2> QED BY <2>2, <2>3, <2>4 DEF StrangerCerts
<1>3. /\ r \in Run /\ r.pc = "connecting" /\ r.cfg = cfg /\ r.peer = Stranger
      /\ r.peerKey = k /\ r.cert = cert
      /\ r.verdict = None /\ r.receiver = None
  <2>1. k \in TlsKey
    BY DEF TlsKey
  <2>2. r \in Run
    BY <1>2, <2>1 DEF Idle, Run, ClientPC
  <2> QED BY <2>2 DEF Idle
<1> HIDE DEF r
<1>4. PeerOK(r)
  BY <1>3, ClientAssumption DEF PeerOK
<1>5. ConnOK(r)
  BY <1>2, <1>3, NoneNotOk DEF ConnOK, TlsKey
<1> QED BY <1>1, <1>3, <1>4, <1>5, RunStep DEF r

\* The checks return one of the verdicts.
LEMMA VerdictType ==
  ASSUME NEW cfg, NEW cert, NEW k
  PROVE  HandshakeVerdict(cfg, cert, k) \in Verdict
<1>1. ASSUME NEW r, NEW ch, NEW e, NEW spki
      PROVE  verify(r, ch, e, spki) \in VerifyError \cup {"Ok"}
  <2>1. verify_key_binding(r, spki) \in VerifyError \cup {"Ok"}
    BY DEF verify_key_binding, VerifyError
  <2>2. verify_signature(r, ch) \in VerifyError \cup {"Ok"}
    BY DEF verify_signature, VerifyError
  <2>3. verify_measurement(r, e) \in VerifyError \cup {"Ok"}
    BY DEF verify_measurement, VerifyError
  <2> QED BY <2>1, <2>2, <2>3 DEF verify
<1>2. ASSUME NEW j, NEW spki
      PROVE  verify_gpu_jwt(j, spki) \in GpuVerifyError \cup {"Ok"}
  BY DEF verify_gpu_jwt, GpuVerifyError
<1>3. ASSUME NEW ext, NEW spki
      PROVE  verify_extension(cfg, ext, spki) \in Verdict
  BY <1>1, <1>2 DEF verify_extension, Verdict
<1>4. verify_server_cert(cfg, cert) \in Verdict
  BY <1>3 DEF verify_server_cert, Verdict
<1> QED BY <1>4 DEF HandshakeVerdict, Verdict

LEMMA HandshakeStep ==
  ASSUME IInv, NEW c \in Clients, Handshake(c)
  PROVE  IInv'
<1> DEFINE v == HandshakeVerdict(run[c].cfg, run[c].cert, run[c].peerKey)
           next == IF v = "Ok" THEN "established" ELSE "failed"
           r == [run[c] EXCEPT !.pc = next, !.verdict = v]
<1>1. v \in Verdict
  BY VerdictType
<1>2. run[c].pc = "connecting" /\ SetRun(c, r)
  BY DEF Handshake
<1> HIDE DEF v
<1>3. /\ r \in Run /\ r.pc = next /\ r.cfg = run[c].cfg
      /\ r.peer = run[c].peer /\ r.peerKey = run[c].peerKey
      /\ r.cert = run[c].cert /\ r.verdict = v
      /\ r.receiver = run[c].receiver
  BY <1>1, ClientFacts DEF Run, ClientPC
<1> HIDE DEF r
<1>4. PeerOK(r)
  BY <1>3, ClientFacts DEF PeerOK
<1>5. ConnOK(r)
  BY <1>2, <1>3, ClientFacts DEF ConnOK, v
<1> QED BY <1>2, <1>3, <1>4, <1>5, RunStep

LEMMA SendPromptStep ==
  ASSUME IInv, NEW c \in Clients, SendPrompt(c)
  PROVE  IInv'
<1> DEFINE r == [run[c] EXCEPT !.pc = "sent"]
<1>1. /\ r \in Run /\ r.pc = "sent" /\ run[c].pc = "established" /\ SetRun(c, r)
      /\ r.cfg = run[c].cfg /\ r.peer = run[c].peer
      /\ r.peerKey = run[c].peerKey /\ r.cert = run[c].cert
      /\ r.verdict = run[c].verdict /\ r.receiver = run[c].receiver
  BY ClientFacts DEF Run, ClientPC, SendPrompt
<1> QED BY <1>1, ProgressStep

\* A response arrives at a place before the answer.
LEMMA AnswerStep ==
  ASSUME IInv, NEW c \in Clients, NEW resp \in Response,
         run[c].pc \in {"sent", "forwarded"},
         SetRun(c, [run[c] EXCEPT !.pc = "answered", !.response = resp])
  PROVE  IInv'
<1> DEFINE r == [run[c] EXCEPT !.pc = "answered", !.response = resp]
<1>1. /\ r \in Run /\ r.pc = "answered"
      /\ r.cfg = run[c].cfg /\ r.peer = run[c].peer
      /\ r.peerKey = run[c].peerKey /\ r.cert = run[c].cert
      /\ r.verdict = run[c].verdict /\ r.receiver = run[c].receiver
  BY ClientFacts DEF Run, ClientPC
<1> QED BY <1>1, ProgressStep

LEMMA BackendUnavailableStep ==
  ASSUME IInv, NEW c \in Clients, BackendUnavailable(c)
  PROVE  IInv'
<1>1. [status |-> 502, body |-> "text"] \in Response
  BY DEF Response
<1> QED BY <1>1, AnswerStep DEF BackendUnavailable

LEMMA BackendAnswersStep ==
  ASSUME IInv, NEW c \in Clients, BackendAnswers(c)
  PROVE  IInv'
<1>1. PICK a \in {<<200, "complete">>, <<422, "text">>, <<500, "text">>} :
      \E read \in BOOLEAN :
        SetRun(c, [run[c] EXCEPT !.pc = "answered",
          !.response = [status |-> a[1],
                        body |-> IF read THEN a[2] ELSE "empty"]])
  BY DEF BackendAnswers
<1>2. PICK read \in BOOLEAN :
        SetRun(c, [run[c] EXCEPT !.pc = "answered",
          !.response = [status |-> a[1],
                        body |-> IF read THEN a[2] ELSE "empty"]])
  BY <1>1
<1> DEFINE resp == [status |-> a[1], body |-> IF read THEN a[2] ELSE "empty"]
<1>3. a[1] \in {200, 422, 500} /\ a[2] \in {"complete", "text"}
  OBVIOUS
<1>4. resp \in Response
  BY <1>3 DEF Response
<1>5. run[c].pc = "forwarded"
  BY DEF BackendAnswers
<1> QED BY <1>2, <1>4, <1>5, AnswerStep

LEMMA ReceiveResponseStep ==
  ASSUME IInv, NEW c \in Clients, ReceiveResponse(c)
  PROVE  IInv'
<1> DEFINE next == IF /\ run[c].response.status < 400
                      /\ run[c].response.body = "complete"
                   THEN "printed" ELSE "failed"
           r == [run[c] EXCEPT !.pc = next]
<1>1. /\ run[c].pc = "answered" /\ SetRun(c, r)
      /\ next \in {"printed", "failed"}
  BY DEF ReceiveResponse
<1> HIDE DEF next
<1>2. /\ r \in Run /\ r.pc = next
      /\ r.cfg = run[c].cfg /\ r.peer = run[c].peer
      /\ r.peerKey = run[c].peerKey /\ r.cert = run[c].cert
      /\ r.verdict = run[c].verdict /\ r.receiver = run[c].receiver
  BY <1>1, ClientFacts DEF Run, ClientPC
<1> QED BY <1>1, <1>2, ProgressStep

\* The prompt is delivered: the process that reads it is the one whose
\* certificate was checked, so that its machine is what the certificate says.
LEMMA HandleGenerateStep ==
  ASSUME IInv, NEW c \in Clients, HandleGenerate(c)
  PROVE  IInv'
<1> DEFINE h   == run[c].peer
           got == [endpoint |-> h, key |-> proc[h].key, machine |-> machine[h],
                   cc |-> proc[h].cc]
           echo == [status |-> 200, body |-> "complete"]
           r1 == [run[c] EXCEPT !.pc = "answered", !.receiver = got,
                                !.response = echo]
           r2 == [run[c] EXCEPT !.pc = "forwarded", !.receiver = got]
<1>1. PICK r \in {r1, r2} : SetRun(c, r)
  BY DEF HandleGenerate
<1>2. run[c].pc = "sent" /\ h \in Hosts /\ Alive(c)
  BY DEF HandleGenerate
<1>3. /\ proc[h].pc = "listening"
      /\ proc[h].key = run[c].peerKey
  BY <1>2, ClientAssumption DEF Alive
<1>4. /\ proc[h].cert = run[c].cert
      /\ CertTrue(run[c].cert, machine[h], proc[h].cc)
  BY <1>2, <1>3 DEF IInv, PeerOK, TruthOK
<1>5. got \in Receiver
  BY <1>2, <1>3 DEF Receiver, IInv, TypeOK, ServerTypeOK, SetupOK, TlsKey, Process
<1>6. /\ r \in Run /\ r.pc \in {"answered", "forwarded"}
      /\ r.cfg = run[c].cfg /\ r.peer = run[c].peer
      /\ r.peerKey = run[c].peerKey /\ r.cert = run[c].cert
      /\ r.verdict = run[c].verdict /\ r.receiver = got
  <2>1. run[c] \in Run /\ echo \in Response
    BY ClientFacts DEF Response
  <2> HIDE DEF got, h, echo
  <2>2. CASE r = r1
    BY <1>5, <2>1, <2>2 DEF Run, ClientPC
  <2>3. CASE r = r2
    BY <1>5, <2>1, <2>3 DEF Run, ClientPC
  <2> QED BY <2>2, <2>3
<1>7. /\ got.endpoint = run[c].peer /\ got.key = run[c].peerKey
      /\ got.machine = machine[h] /\ got.cc = proc[h].cc
  BY <1>3
<1> HIDE DEF got, r1, r2, h
<1>8. PeerOK(r)
  BY <1>6, ClientFacts DEF PeerOK
<1>9. ConnOK(r)
  BY <1>2, <1>4, <1>6, <1>7, ClientFacts, ClientAssumption DEF ConnOK
<1> QED BY <1>1, <1>6, <1>8, <1>9, RunStep

LEMMA StrangerAnswersStep ==
  ASSUME IInv, NEW c \in Clients, StrangerAnswers(c)
  PROVE  IInv'
<1> DEFINE got == [endpoint |-> Stranger, key |-> run[c].peerKey,
                   machine |-> None, cc |-> None]
           resp == [status |-> 200, body |-> "complete"]
           r == [run[c] EXCEPT !.pc = "answered", !.receiver = got,
                               !.response = resp]
<1>1. run[c].pc = "sent" /\ run[c].peer = Stranger /\ SetRun(c, r)
  BY DEF StrangerAnswers
<1>2. got \in Receiver /\ resp \in Response
  BY <1>1, ClientFacts DEF Receiver, Response, ConnOK
<1>3. got.endpoint = run[c].peer /\ got.key = run[c].peerKey
  BY <1>1
<1> HIDE DEF got, resp
<1>4. /\ r \in Run /\ r.pc = "answered"
      /\ r.cfg = run[c].cfg /\ r.peer = run[c].peer
      /\ r.peerKey = run[c].peerKey /\ r.cert = run[c].cert
      /\ r.verdict = run[c].verdict /\ r.receiver = got
  BY <1>2, ClientFacts DEF Run, ClientPC
<1> HIDE DEF r
<1>5. PeerOK(r)
  BY <1>4, ClientFacts DEF PeerOK
<1>6. ConnOK(r)
  BY <1>1, <1>3, <1>4, ClientFacts, ClientAssumption DEF ConnOK
<1> QED BY <1>1, <1>4, <1>5, <1>6, RunStep

-----------------------------------------------------------------------------
(* The invariant is inductive.                                             *)

LEMMA InitInv == Init => IInv
<1> SUFFICES ASSUME Init PROVE IInv
  OBVIOUS
<1>1. Down \in Process /\ Idle \in Run
  BY DEF Down, Process, ServerPC, Idle, Run, ClientPC
<1>2. \A h \in Hosts : proc[h] = Down
  BY DEF Init, ServerInit
<1>3. \A c \in Clients : run[c] = Idle
  BY DEF Init
<1>4. TypeOK
  BY <1>1 DEF Init, ServerInit, TypeOK, ServerTypeOK
<1>5. \A h \in Hosts : SetupOK(proc[h]) /\ TruthOK(proc[h], machine[h])
  BY <1>2 DEF Down, SetupOK, TruthOK
<1>6. KeysOK /\ PublishedOK
  BY <1>2, DataAssumption DEF Init, ServerInit, Down, KeysOK, PublishedOK
<1>7. \A c \in Clients : PeerOK(run[c]) /\ ConnOK(run[c])
  BY <1>3, NoneNotOk, ClientAssumption DEF Idle, PeerOK, ConnOK
<1> QED BY <1>4, <1>5, <1>6, <1>7 DEF IInv

LEMMA NextInv == IInv /\ [Next]_vars => IInv'
<1> SUFFICES ASSUME IInv, [Next]_vars PROVE IInv'
  OBVIOUS
<1>1. CASE \E h \in Hosts : \/ ServerStep(h) /\ UNCHANGED run
                            \/ ServerEnvironment(h) /\ UNCHANGED run
  BY <1>1, GatewayStep
<1>2. CASE \E c \in Clients : ConnectAny(c)
  BY <1>2, ConnectGatewayStep, ConnectStrangerStep, FailStep
  DEF ConnectAny, FailsToConnect
<1>3. CASE \E c \in Clients : ConnectionStep(c)
  BY <1>3, HandshakeStep, SendPromptStep, HandleGenerateStep,
     ReceiveResponseStep, FailStep
  DEF ConnectionStep, ConnectionLost
<1>4. CASE \E c \in Clients : BackendStep(c) \/ StrangerAnswers(c)
  BY <1>4, BackendUnavailableStep, BackendAnswersStep, StrangerAnswersStep
  DEF BackendStep
<1>5. CASE UNCHANGED vars
  BY <1>5 DEF vars, IInv, TypeOK, ServerTypeOK, KeysOK, PublishedOK, PeerOK
<1> QED BY <1>1, <1>2, <1>3, <1>4, <1>5 DEF Next

LEMMA SpecInv == Spec => []IInv
BY InitInv, NextInv, PTL DEF Spec

-----------------------------------------------------------------------------
(* What an accepted certificate means.                                     *)

\* A certificate that passes the handshake's checks: the report binds the key
\* that the endpoint holds, and each check of the client's options was made.
LEMMA AcceptedCert ==
  ASSUME NEW cfg, NEW cert, NEW k, HandshakeVerdict(cfg, cert, k) = "Ok"
  PROVE  LET ext    == cert.ext.json
             report == report_bytes(ext)
         IN
         /\ cert.spki = k
         /\ cert.ext # None /\ ext # None /\ report # None
         /\ ext.mode = VerifierMode(cfg)
         /\ report.report_data[1] = Sha256(k)
         /\ \/ cfg.expected_measurement = ZeroMeasurement
            \/ report.measurement = cfg.expected_measurement
         /\ cfg.amd =>
              /\ vcek_chain_der(ext) # None
              /\ vcek_verifying_key(vcek_chain_der(ext)) # None
              /\ report.sig # None
              /\ report.sig = Sign(vcek_verifying_key(vcek_chain_der(ext)),
                                   signed_region(report))
         /\ cfg.gpu_cc => /\ ext.gpu_jwt # None
                          /\ ext.gpu_jwt.claims # None
                          /\ ext.gpu_jwt.claims.cc_mode # None
                          /\ to_lowercase(ext.gpu_jwt.claims.cc_mode) = "on"
<1> DEFINE ext    == cert.ext.json
           report == report_bytes(ext)
           chain  == IF cfg.amd THEN vcek_chain_der(ext) ELSE None
           core   == verify(report, chain, cfg.expected_measurement, cert.spki)
<1>1. verify_server_cert(cfg, cert) = "Ok" /\ cert.spki = k
  BY DEF HandshakeVerdict, verify_tls_signature
<1>2. cert.ext # None /\ ext # None /\ verify_extension(cfg, ext, k) = "Ok"
  BY <1>1 DEF verify_server_cert
<1>3. /\ report # None
      /\ ext.mode = VerifierMode(cfg)
      /\ ~(cfg.amd /\ chain = None)
      /\ core = "Ok"
      /\ cfg.gpu_cc => ext.gpu_jwt # None /\ verify_gpu_jwt(ext.gpu_jwt, k) = "Ok"
  <2> HIDE DEF ext
  <2> QED BY <1>1, <1>2 DEF verify_extension
<1>4. /\ verify_key_binding(report, k) = "Ok"
      /\ verify_signature(report, chain) = "Ok"
      /\ verify_measurement(report, cfg.expected_measurement) = "Ok"
  <2> HIDE DEF report, chain
  <2> QED BY <1>1, <1>3 DEF verify
<1> HIDE DEF report, chain, ext, core
<1>5. report.report_data[1] = Sha256(k)
  BY <1>4 DEF verify_key_binding
<1>6. \/ cfg.expected_measurement = ZeroMeasurement
      \/ report.measurement = cfg.expected_measurement
  BY <1>4 DEF verify_measurement
<1>7. ASSUME cfg.amd
      PROVE  /\ chain # None /\ chain = vcek_chain_der(ext)
             /\ vcek_verifying_key(chain) # None
             /\ report.sig # None
             /\ report.sig = Sign(vcek_verifying_key(chain), signed_region(report))
  BY <1>3, <1>4, <1>7 DEF chain, verify_signature, verifying_key
<1>8. ASSUME cfg.gpu_cc
      PROVE  /\ ext.gpu_jwt # None
             /\ ext.gpu_jwt.claims # None
             /\ ext.gpu_jwt.claims.cc_mode # None
             /\ to_lowercase(ext.gpu_jwt.claims.cc_mode) = "on"
  BY <1>3, <1>8 DEF verify_gpu_jwt
<1> QED BY <1>1, <1>2, <1>3, <1>5, <1>6, <1>7, <1>8 DEF ext, report

\* A foreign certificate whose chain is rooted at AMD's key carries a report of
\* a processor, which by PkiAssumption is about another image.
LEMMA ForeignReportImage ==
  ASSUME NEW cfg, NEW cert \in ForeignCerts, NEW k,
         HandshakeVerdict(cfg, cert, k) = "Ok", cfg.amd, AmdRooted(cert)
  PROVE  report_bytes(cert.ext.json).measurement \notin GatewayImages
<1> DEFINE ext    == cert.ext.json
           report == report_bytes(ext)
           b64s   == ext.vcek_chain_b64
           chain  == vcek_chain_der(ext)
<1>1. /\ cert.ext # None /\ ext # None /\ report # None
      /\ chain # None /\ vcek_verifying_key(chain) # None
      /\ report.sig # None
      /\ report.sig = Sign(vcek_verifying_key(chain), signed_region(report))
  BY AcceptedCert
<1>2. ext \in AttestationExtension
  BY <1>1, ClientAssumption DEF TlsCert
<1>3. b64s \in Seq([b64 : Cert \cup {None}]) /\ Len(b64s) >= 3
  BY <1>2 DEF AttestationExtension, AmdRooted
<1>4. {1, 2, 3} \subseteq DOMAIN b64s
  BY <1>3
<1>5. /\ \A i \in DOMAIN b64s : b64s[i].b64 # None
      /\ \A i \in DOMAIN b64s : chain[i] = b64s[i].b64
  BY <1>1 DEF vcek_chain_der
<1>6. chain[3].pk = AmdArk
  BY <1>4, <1>5 DEF AmdRooted
<1>7. \A i \in {1, 2, 3} : chain[i].signer \in AmdKeys => chain[i].pk \in AmdKeys
  BY <1>1, <1>4, <1>5, PkiAssumption
<1> HIDE DEF chain, report, ext, b64s
<1>8. None \notin P384 /\ AmdArk \in AmdKeys
  BY DataAssumption DEF AmdKeys
<1>9. /\ chain[2].signer = extract_p384_key(chain[3])
      /\ chain[1].signer = extract_p384_key(chain[2])
      /\ vcek_verifying_key(chain) = extract_p384_key(chain[1])
      /\ extract_p384_key(chain[3]) # None /\ extract_p384_key(chain[2]) # None
      /\ extract_p384_key(chain[1]) # None
  BY <1>1 DEF vcek_verifying_key, verify_cert_signature
<1>10. chain[2].pk \in AmdKeys
  BY <1>6, <1>7, <1>8, <1>9 DEF extract_p384_key
<1>11. chain[1].pk \in AmdKeys
  BY <1>7, <1>8, <1>9, <1>10 DEF extract_p384_key
<1>12. vcek_verifying_key(chain) \in AmdKeys
  BY <1>9, <1>11 DEF extract_p384_key
<1>13. report.sig.by \in AmdKeys /\ report.sig.over = signed_region(report)
  BY <1>1, <1>12 DEF Sign
<1> QED BY <1>1, <1>13, PkiAssumption DEF ext, report

-----------------------------------------------------------------------------
(* Theorems.                                                               *)

\* Type correctness of the whole system: gateways, their certificates and the
\* runs of clients keep their types in every reachable state.
THEOREM TypeCorrect == Spec => []TypeOK
BY SpecInv, PTL DEF IInv

LEMMA InvBound == IInv => BoundReceiver
<1> SUFFICES ASSUME IInv, NEW c \in Clients, run[c].receiver # None
             PROVE  /\ run[c].verdict = "Ok"
                    /\ report_bytes(run[c].cert.ext.json).report_data[1]
                         = Sha256(run[c].receiver.key)
  BY DEF BoundReceiver
<1>1. /\ run[c].verdict = "Ok" /\ run[c].receiver.key = run[c].peerKey
      /\ HandshakeVerdict(run[c].cfg, run[c].cert, run[c].peerKey) = "Ok"
  BY ClientFacts DEF ConnOK
<1> QED BY <1>1, AcceptedCert

\* A prompt is read only by an endpoint that holds the key which the accepted
\* report binds: verifier.rs inside the handshake, for any number of gateways,
\* clients, restarts and replayed certificates.
THEOREM ReceiverIsBound == Spec => []BoundReceiver
BY SpecInv, InvBound, PTL

LEMMA InvAttested == IInv => AttestedReceiver
<1> SUFFICES ASSUME IInv, NEW c \in Clients,
                    run[c].receiver # None, run[c].cfg.amd,
                    run[c].cfg.expected_measurement
                      \in GatewayImages \ {ZeroMeasurement},
                    AmdRooted(run[c].cert)
             PROVE  /\ run[c].receiver.endpoint \in Hosts
                    /\ run[c].receiver.machine.image
                         = run[c].cfg.expected_measurement
                    /\ run[c].cfg.gpu_cc =>
                         to_lowercase(run[c].receiver.cc) = "on"
  BY DEF AttestedReceiver
<1> DEFINE r      == run[c]
           ext    == r.cert.ext.json
           report == report_bytes(ext)
<1>1. /\ r.receiver.endpoint = r.peer
      /\ HandshakeVerdict(r.cfg, r.cert, r.peerKey) = "Ok"
      /\ r.peer \in Hosts =>
           CertTrue(r.cert, r.receiver.machine, r.receiver.cc)
      /\ r.peer = Stranger => /\ r.peerKey \in ForeignKeys
                              /\ r.cert \in ForeignCerts \/ BindsGateway(r.cert)
  BY ClientFacts DEF ConnOK
<1>2. /\ report.measurement = r.cfg.expected_measurement
      /\ ext.mode = "AmdSevSnp"
      /\ report.report_data[1] = Sha256(r.peerKey)
      /\ r.cfg.gpu_cc => /\ ext.gpu_jwt # None
                         /\ ext.gpu_jwt.claims # None
                         /\ ext.gpu_jwt.claims.cc_mode # None
                         /\ to_lowercase(ext.gpu_jwt.claims.cc_mode) = "on"
  BY <1>1, AcceptedCert DEF VerifierMode
<1>3. r.peer # Stranger
  <2> SUFFICES ASSUME r.peer = Stranger PROVE FALSE
    OBVIOUS
  <2>1. CASE r.cert \in ForeignCerts
    BY <1>1, <1>2, <2>1, ForeignReportImage
  <2>2. CASE BindsGateway(r.cert)
    <3>1. PICK n \in Nat : report.report_data[1] = Sha256(n)
      BY <2>2 DEF BindsGateway
    <3>2. n = r.peerKey
      BY <1>2, <3>1 DEF Sha256
    <3> QED BY <1>1, <3>2, DataAssumption
  <2> QED BY <1>1, <2>1, <2>2
<1>4. r.receiver.endpoint \in Hosts
  <2>1. r \in Run
    BY ClientFacts
  <2>2. r.receiver \in Receiver
    BY <2>1 DEF Run
  <2> QED BY <1>1, <1>3, <2>2 DEF Receiver
<1>5. CertTrue(r.cert, r.receiver.machine, r.receiver.cc)
  BY <1>1, <1>4
<1>6. r.receiver.machine.image = r.cfg.expected_measurement
  BY <1>2, <1>5 DEF CertTrue
<1>7. ASSUME r.cfg.gpu_cc PROVE to_lowercase(r.receiver.cc) = "on"
  BY <1>2, <1>5, <1>7 DEF CertTrue, TokenTrue
<1> QED BY <1>4, <1>6, <1>7

\* SameMode: the mode that the certificate states is the gateway's own, and the
\* client accepted no other than its own.
LEMMA InvSameMode == IInv => SameMode
<1> SUFFICES ASSUME IInv, NEW c \in Clients,
                    run[c].pc \in {"established", "sent", "forwarded"},
                    run[c].peer \in Hosts, Alive(c)
             PROVE  proc[run[c].peer].args.amd = run[c].cfg.amd
  BY DEF SameMode
<1> DEFINE r == run[c]  p == proc[r.peer]
<1>1. /\ HandshakeVerdict(r.cfg, r.cert, r.peerKey) = "Ok"
      /\ r.cfg \in ClientConfigs
  BY ClientFacts DEF ConnOK
<1>2. /\ p.pc = "listening" /\ p.key = r.peerKey
  BY ClientAssumption DEF Alive
<1>3. p.cert = r.cert
  BY <1>2 DEF IInv, PeerOK
<1>4. r.cert.ext.json.mode = ModeOf(p.args) /\ p.args \in ServerArgs
  BY <1>2, <1>3 DEF IInv, SetupOK
<1>5. r.cert.ext.json.mode = VerifierMode(r.cfg)
  BY <1>1, AcceptedCert
<1>6. ModeOf(p.args) = VerifierMode(r.cfg)
  BY <1>4, <1>5
<1>7. p.args.amd \in BOOLEAN /\ r.cfg.amd \in BOOLEAN
  BY <1>1, <1>4, SetupAssumption, ClientAssumption
<1> HIDE DEF p, r
<1>8. p.args.amd = r.cfg.amd
  BY <1>6, <1>7 DEF ModeOf, VerifierMode
<1> QED BY <1>8 DEF p, r

\* Past the handshake, a client and the gateway that it is connected to were
\* started in the same mode, whatever the extension states.
THEOREM ModesMatch == Spec => []SameMode
BY SpecInv, InvSameMode, PTL

\* A prompt of an --amd client that names a gateway image, under a chain rooted
\* at AMD's key, is read only by a gateway that runs this image at that moment
\* and, under --gpu-cc, had a GPU in confidential mode when it got its token.
THEOREM ReceiverIsAttested == Spec => []AttestedReceiver
BY SpecInv, InvAttested, PTL
=============================================================================
