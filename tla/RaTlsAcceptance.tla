--------------------------- MODULE RaTlsAcceptance ---------------------------
(***************************************************************************)
(* Completeness of the attestation: a client accepts every gateway that    *)
(* does what it asks for.  RaTlsProofs shows that what a client accepts is *)
(* right; here the argument goes from the gateway's computations to the    *)
(* checks of the client, which have to agree on keys, encodings, nonces    *)
(* and the order of the chain.                                             *)
(***************************************************************************)
EXTENDS RaTlsProofs

\* The report binds a TLS key and is signed by key.
SignedBy(report, key, tlsKey) ==
  /\ report \in Report
  /\ report.report_data[1] = Sha256(tlsKey)
  /\ report.sig = Sign(key, signed_region(report))

\* It is signed by the chip that it names.
ChipSigned(report, tlsKey) ==
  /\ report.chip_id \in Chips
  /\ SignedBy(report, VcekOf[report.chip_id], tlsKey)

\* The token, if it can be read, has the nonce of the TLS key.
TokenFor(jwt, tlsKey) ==
  jwt # None /\ jwt.claims # None => jwt.claims.nonce = Hex(Sha256(tlsKey))

\* A certificate that a gateway with this TLS key has built.
HonestCert(cert, tlsKey) ==
  /\ cert.spki = tlsKey
  /\ cert.ext \in [json : AttestationExtension]
  /\ IF cert.ext.json.mode = "AmdSevSnp"
     THEN ChipSigned(report_bytes(cert.ext.json), tlsKey)
     ELSE SignedBy(report_bytes(cert.ext.json), MockKey, tlsKey)
  /\ TokenFor(cert.ext.json.gpu_jwt, tlsKey)

\* The chain for the client that a gateway makes of the KDS's answers.
ChainOf(vcek, pem_certs) == <<vcek, pem_certs[1], pem_certs[2]>>

\* An AMD certificate shows the chain made of the KDS's answers.
ShowsChain(cert, vcek, pem_certs) ==
  cert.ext.json.mode = "AmdSevSnp" =>
    cert.ext.json.vcek_chain_b64 = new_amd(None, ChainOf(vcek, pem_certs)).vcek_chain_b64

\* What a process has computed so far will make an honest certificate.
HonestProc(p) ==
  /\ p.pc \in {"vcek", "chain", "gpu", "cert"} => ChipSigned(p.report, p.key)
  /\ p.pc \in {"gpu", "cert"} => p.chain = ChainOf(p.vcek, p.pem_certs)
  /\ p.pc = "cert" /\ p.args.gpu_cc => TokenFor(p.jwt, p.key)
  /\ p.pc \in {"bind", "listening"} =>
       HonestCert(p.cert, p.key) /\ ShowsChain(p.cert, p.vcek, p.pem_certs)

\* A run holds the verdict on what its peer has shown, and a gateway has shown
\* an honest certificate of its own key.
HonestRun(r) ==
  /\ r.verdict # None => r.verdict = HandshakeVerdict(r.cfg, r.cert, r.peerKey)
  /\ r.peer \in Hosts =>
       /\ r.cfg \in ClientConfigs
       /\ HonestCert(r.cert, r.peerKey)
       /\ ShowsChain(r.cert, r.kds.vcek, r.kds.pem_certs)

HonestInv ==
  /\ \A h \in Hosts : HonestProc(proc[h])
  /\ \A c \in Clients : HonestRun(run[c])

-----------------------------------------------------------------------------
(* The checks of the client.                                               *)

\* The converse of AcceptedCert: a certificate that meets every check passes.
LEMMA PassingCert ==
  ASSUME NEW cfg \in ClientConfigs, NEW cert, NEW k,
         NEW ext, NEW report, NEW chain, NEW key,
         cert.spki = k, cert.ext # None, cert.ext.json = ext, ext # None,
         report = report_bytes(ext), report # None, report.sig # None,
         ext.mode = VerifierMode(cfg),
         cfg.amd => chain = vcek_chain_der(ext) /\ chain # None,
         ~cfg.amd => chain = None,
         key = verifying_key(chain), key # None,
         report.report_data[1] = Sha256(k),
         report.sig = Sign(key, signed_region(report)),
         cfg.expected_measurement \in {ZeroMeasurement, report.measurement},
         cfg.gpu_cc => ext.gpu_jwt # None /\ verify_gpu_jwt(ext.gpu_jwt, k) = "Ok"
  PROVE  HandshakeVerdict(cfg, cert, k) = "Ok"
<1>0. cfg.amd \in BOOLEAN /\ cfg.gpu_cc \in BOOLEAN
  BY ClientAssumption
<1>1. verify_key_binding(report, k) = "Ok"
  BY DEF verify_key_binding
<1>2. verify_signature(report, chain) = "Ok"
  BY DEF verify_signature
<1>3. verify_measurement(report, cfg.expected_measurement) = "Ok"
  BY DEF verify_measurement
<1>4. verify(report, chain, cfg.expected_measurement, k) = "Ok"
  BY <1>1, <1>2, <1>3 DEF verify
<1>5. (IF cfg.amd THEN vcek_chain_der(ext) ELSE None) = chain
  BY <1>0
<1>6. verify_extension(cfg, ext, k) = "Ok"
  BY <1>0, <1>4, <1>5 DEF verify_extension
<1>7. verify_server_cert(cfg, cert) = "Ok"
  BY <1>6 DEF verify_server_cert
<1> QED
  BY <1>7 DEF HandshakeVerdict, verify_tls_signature

\* The chain made of the genuine answers for a chip decodes and verifies to the
\* chip's key.
LEMMA GenuineChainVerifies ==
  ASSUME NEW chip \in Chips, NEW kds, GenuineAnswers(kds, chip), NEW ext,
         ext.vcek_chain_b64
           = new_amd(None, ChainOf(kds.vcek, kds.pem_certs)).vcek_chain_b64
  PROVE  /\ vcek_chain_der(ext) # None
         /\ verifying_key(vcek_chain_der(ext)) = VcekOf[chip]
         /\ VcekOf[chip] # None
<1> DEFINE vcek  == [pk |-> VcekOf[chip], signer |-> AmdAsk]
           ask   == [pk |-> AmdAsk, signer |-> AmdArk]
           ark   == [pk |-> AmdArk, signer |-> AmdArk]
           certs == <<vcek, ask, ark>>
           b64s  == ext.vcek_chain_b64
<1>1. /\ VcekOf[chip] \in P384 /\ AmdAsk \in P384 /\ AmdArk \in P384
      /\ None \notin P384
  BY SetupAssumption, DataAssumption DEF GenuineAnswers
<1>2. /\ vcek \in Cert /\ ask \in Cert /\ ark \in Cert
      /\ vcek # None /\ ask # None /\ ark # None
  BY <1>1, NoneAssumption DEF Cert
<1>3. certs \in Seq(Cert) /\ certs # None
  <2>1. certs \in Seq(Cert)
    <3> HIDE DEF vcek, ask, ark
    <3> QED BY <1>2
  <2> QED BY <2>1, NoneAssumption
<1>4. b64s = [i \in DOMAIN certs |-> B64(certs[i])]
  <2>1. kds.vcek = vcek /\ kds.pem_certs[1] = ask /\ kds.pem_certs[2] = ark
    BY DEF GenuineAnswers
  <2> HIDE DEF vcek, ask, ark
  <2>2. ChainOf(kds.vcek, kds.pem_certs) = certs
    BY <2>1 DEF ChainOf
  <2> HIDE DEF certs
  <2> QED BY <2>2 DEF new_amd
<1> HIDE DEF b64s
<1>5. DOMAIN b64s = 1..3 /\ \A i \in 1..3 : b64s[i].b64 = certs[i]
  <2>1. DOMAIN certs = 1..3
    <3> HIDE DEF vcek, ask, ark
    <3> QED OBVIOUS
  <2> HIDE DEF certs
  <2> QED BY <1>4, <2>1 DEF B64
<1>6. \A i \in 1..3 : certs[i] # None
  <2> HIDE DEF vcek, ask, ark
  <2> QED BY <1>2
<1>7. [i \in DOMAIN b64s |-> b64s[i].b64] = certs
  <2>1. [i \in DOMAIN b64s |-> b64s[i].b64] = [i \in 1..3 |-> certs[i]]
    <3> HIDE DEF certs
    <3> QED BY <1>5
  <2>2. certs = [i \in 1..3 |-> certs[i]]
    <3> HIDE DEF vcek, ask, ark
    <3> QED OBVIOUS
  <2> QED BY <2>1, <2>2
<1>8. vcek_chain_der(ext) = certs
  <2> HIDE DEF certs
  <2> QED BY <1>5, <1>6, <1>7 DEF vcek_chain_der, b64s
<1>9. vcek_verifying_key(certs) = VcekOf[chip]
  <2>1. Len(certs) = 3 /\ certs[1] = vcek /\ certs[2] = ask /\ certs[3] = ark
    <3> HIDE DEF vcek, ask, ark
    <3> QED OBVIOUS
  <2> HIDE DEF certs
  <2> QED
    BY <1>1, <2>1
    DEF vcek_verifying_key, verify_cert_signature, extract_p384_key
<1> QED
  BY <1>1, <1>3, <1>8, <1>9 DEF verifying_key

\* An honest certificate that fulfils what a client asks for is accepted.
LEMMA HonestPasses ==
  ASSUME NEW cfg \in ClientConfigs, NEW cert, NEW k \in TlsKey, NEW kds,
         HonestCert(cert, k), ShowsChain(cert, kds.vcek, kds.pem_certs),
         Fulfils(cfg, cert, kds)
  PROVE  HandshakeVerdict(cfg, cert, k) = "Ok"
<1> DEFINE ext    == cert.ext.json
           report == report_bytes(ext)
           claims == ext.gpu_jwt.claims
           amd    == ext.mode = "AmdSevSnp"
           chain  == IF cfg.amd THEN vcek_chain_der(ext) ELSE None
           key    == IF amd THEN VcekOf[report.chip_id] ELSE MockKey
<1>1. cfg.amd \in BOOLEAN /\ cfg.gpu_cc \in BOOLEAN
  BY ClientAssumption
<1>2. /\ cert.spki = k /\ cert.ext # None /\ ext # None
      /\ ext \in AttestationExtension
  BY NoneAssumption DEF HonestCert
<1>3. /\ SignedBy(report, key, k)
      /\ amd => report.chip_id \in Chips
      /\ TokenFor(ext.gpu_jwt, k)
  BY DEF HonestCert, ChipSigned
<1>4. /\ ext.mode = VerifierMode(cfg)
      /\ cfg.amd => GenuineAnswers(kds, report.chip_id)
      /\ amd => ext.vcek_chain_b64
                  = new_amd(None, ChainOf(kds.vcek, kds.pem_certs)).vcek_chain_b64
      /\ cfg.expected_measurement \in {ZeroMeasurement, report.measurement}
      /\ cfg.gpu_cc => /\ ext.gpu_jwt # None /\ claims # None
                       /\ claims.cc_mode \in {"on", "ON"}
                       /\ claims.gpu_model # None
  BY DEF Fulfils, ShowsChain
<1> HIDE DEF ext
<1>5. report # None /\ report.sig # None
  <2>1. report \in Report /\ report.sig = Sign(key, signed_region(report))
    BY <1>3 DEF SignedBy
  <2>2. report.sig \in Signature
    <3>1. key \in P384
      BY <1>3, SetupAssumption, DataAssumption
    <3>2. signed_region(report) \in SignedRegion
      BY <2>1 DEF Report, signed_region, SignedRegion
    <3> HIDE DEF key, report
    <3> QED BY <2>1, <3>1, <3>2 DEF Sign, Signature
  <2> QED BY <2>1, <2>2, NoneAssumption
<1>6. amd <=> cfg.amd
  BY <1>1, <1>4 DEF VerifierMode
<1>7. /\ cfg.amd => chain # None
      /\ verifying_key(chain) = key /\ key # None
  <2>1. CASE cfg.amd
    <3> HIDE DEF report
    <3> QED BY <1>3, <1>4, <1>6, <2>1, GenuineChainVerifies
  <2>2. CASE ~cfg.amd
    BY <1>6, <2>2, DataAssumption DEF verifying_key
  <2> QED BY <1>1, <2>1, <2>2
<1>8. ASSUME cfg.gpu_cc PROVE verify_gpu_jwt(ext.gpu_jwt, k) = "Ok"
  <2>1. claims.nonce = Hex(Sha256(k)) /\ claims.nonce # None
    <3>1. Hex(Sha256(k)) \in [hex : [sha256 : TlsKey]]
      BY DEF Hex, Sha256
    <3> QED BY <1>3, <1>4, <1>8, <3>1, NoneAssumption DEF TokenFor
  <2>2. claims.cc_mode # None /\ to_lowercase(claims.cc_mode) = "on"
    BY <1>4, <1>8, NoneAssumption DEF CcModes, to_lowercase
  <2> HIDE DEF claims
  <2> QED BY <1>4, <1>8, <2>1, <2>2 DEF verify_gpu_jwt, claims
<1>9. /\ report.report_data[1] = Sha256(k)
      /\ report.sig = Sign(key, signed_region(report))
  BY <1>3 DEF SignedBy
<1>10. /\ cfg.amd => chain = vcek_chain_der(ext) /\ chain # None
       /\ ~cfg.amd => chain = None
  BY <1>1, <1>7
<1>11. cert.ext.json = ext /\ report = report_bytes(ext)
  BY DEF ext
<1>12. cfg.gpu_cc => ext.gpu_jwt # None /\ verify_gpu_jwt(ext.gpu_jwt, k) = "Ok"
  BY <1>4, <1>8
<1> HIDE DEF report, chain, key, amd, claims
<1>13. /\ ext.mode = VerifierMode(cfg)
       /\ cfg.expected_measurement \in {ZeroMeasurement, report.measurement}
       /\ verifying_key(chain) = key /\ key # None
  BY <1>4, <1>7
<1> QED
  BY <1>2, <1>5, <1>9, <1>10, <1>11, <1>12, <1>13, PassingCert, SMTT(60)

-----------------------------------------------------------------------------
(* The steps of a gateway.                                                 *)

\* A step that replaces the process of h by p.
LEMMA HonestProcStep ==
  ASSUME IInv, HonestInv, NEW h \in Hosts, NEW p,
         proc' = [proc EXCEPT ![h] = p], UNCHANGED run, HonestProc(p)
  PROVE  HonestInv'
BY DEF HonestInv, IInv, TypeOK, ServerTypeOK

\* Nothing has been computed before the report, nor is anything left after
\* the process.
LEMMA NothingYet ==
  ASSUME NEW p, p.pc \in {"down", "mock", "keygen", "ioctl"}
  PROVE  HonestProc(p)
BY DEF HonestProc

LEMMA HonestBuildMockSetup ==
  ASSUME IInv, HonestInv, NEW h \in Hosts, BuildMockSetup(h), UNCHANGED run
  PROVE  HonestInv'
<1> DEFINE rep  == sign_mock_report(pubkey_hash(nextKey), ZeroMeasurement)
           cert == build_server_cert(nextKey, new_mock(rep))
           p    == [proc[h] EXCEPT !.pc = "bind", !.key = nextKey, !.cert = cert]
<1>1. nextKey \in TlsKey /\ proc[h] \in Process
  BY DEF IInv, TypeOK, ServerTypeOK, TlsKey
<1>2. SignedBy(rep, MockKey, nextKey)
  BY <1>1, SignedReport, DataAssumption
  DEF SignedBy, sign_mock_report, pubkey_hash
<1>3. new_mock(rep) \in AttestationExtension
  BY <1>2 DEF SignedBy, new_mock, AttestationExtension, B64
<1>4. /\ cert.spki = nextKey /\ cert.ext = Json(new_mock(rep))
      /\ new_mock(rep).mode = "Mock" /\ new_mock(rep).gpu_jwt = None
      /\ report_bytes(new_mock(rep)) = rep
  BY DEF build_server_cert, new_mock, report_bytes, B64
<1> HIDE DEF rep
<1>5. HonestCert(cert, nextKey) /\ \A v, b : ShowsChain(cert, v, b)
  <2> HIDE DEF cert
  <2> QED BY <1>2, <1>3, <1>4 DEF HonestCert, ShowsChain, TokenFor, Json
<1> HIDE DEF cert
<1>6. p.pc = "bind" /\ p.key = nextKey /\ p.cert = cert
  BY <1>1 DEF Process
<1>7. proc' = [proc EXCEPT ![h] = p]
  BY DEF BuildMockSetup, SetProc, cert, rep
<1> HIDE DEF p
<1>8. HonestProc(p)
  BY <1>5, <1>6 DEF HonestProc
<1> QED BY <1>7, <1>8, HonestProcStep

LEMMA HonestGetSnpReport ==
  ASSUME IInv, HonestInv, NEW h \in Hosts, GetSnpReport(h), UNCHANGED run
  PROVE  HonestInv'
<1> DEFINE rep == SnpReport(machine[h], user_data(pubkey_hash(proc[h].key)))
           p   == [proc[h] EXCEPT !.pc = "vcek", !.report = rep]
<1>1. /\ proc[h].pc = "ioctl" /\ proc' = [proc EXCEPT ![h] = p]
      /\ proc[h] \in Process
  BY DEF GetSnpReport, SetProc, IInv, TypeOK, ServerTypeOK
<1>2. proc[h].key \in TlsKey
  BY <1>1 DEF IInv, SetupOK, TlsKey
<1>3. ChipSigned(rep, proc[h].key)
  BY <1>2, MachineTypes, SignedReport
  DEF SnpReport, pubkey_hash, ChipSigned, SignedBy
<1> HIDE DEF rep
<1>4. p.pc = "vcek" /\ p.key = proc[h].key /\ p.report = rep
  BY <1>1 DEF Process
<1> HIDE DEF p
<1>5. HonestProc(p)
  BY <1>3, <1>4 DEF HonestProc
<1> QED BY <1>1, <1>5, HonestProcStep

\* A step of a process that has its report, which it keeps.
LEMMA HonestFetch ==
  ASSUME IInv, HonestInv, NEW h \in Hosts, NEW p, UNCHANGED run,
         proc[h].pc \in {"vcek", "chain", "gpu"},
         proc' = [proc EXCEPT ![h] = p],
         p.pc \in {"chain", "gpu", "cert"},
         p.report = proc[h].report, p.key = proc[h].key,
         p.pc \in {"gpu", "cert"} => p.chain = ChainOf(p.vcek, p.pem_certs),
         p.pc = "cert" /\ p.args.gpu_cc => TokenFor(p.jwt, p.key)
  PROVE  HonestInv'
<1>1. ChipSigned(p.report, p.key)
  BY DEF HonestInv, HonestProc
<1>2. HonestProc(p)
  BY <1>1 DEF HonestProc
<1> QED BY <1>2, HonestProcStep

LEMMA HonestFetchVcek ==
  ASSUME IInv, HonestInv, NEW h \in Hosts, FetchVcek(h), UNCHANGED run
  PROVE  HonestInv'
<1>1. PICK body \in KdsVceks :
        SetProc(h, [proc[h] EXCEPT !.pc = "chain", !.vcek = body])
  BY DEF FetchVcek
<1> DEFINE p == [proc[h] EXCEPT !.pc = "chain", !.vcek = body]
<1>2. /\ proc[h].pc = "vcek" /\ proc[h] \in Process
      /\ proc' = [proc EXCEPT ![h] = p]
  BY <1>1 DEF FetchVcek, SetProc, IInv, TypeOK, ServerTypeOK
<1>3. p.pc = "chain" /\ p.report = proc[h].report /\ p.key = proc[h].key
  BY <1>2 DEF Process
<1> HIDE DEF p
<1> QED BY <1>2, <1>3, HonestFetch

LEMMA HonestFetchCertChain ==
  ASSUME IInv, HonestInv, NEW h \in Hosts, FetchCertChain(h), UNCHANGED run
  PROVE  HonestInv'
<1>1. PICK b \in KdsBundles :
        SetProc(h, [proc[h] EXCEPT
          !.pc = IF proc[h].args.gpu_cc THEN "gpu" ELSE "cert",
          !.pem_certs = b,
          !.chain = <<proc[h].vcek, b[1], b[2]>>])
  BY DEF FetchCertChain
<1> DEFINE ch   == <<proc[h].vcek, b[1], b[2]>>
           next == IF proc[h].args.gpu_cc THEN "gpu" ELSE "cert"
           p    == [proc[h] EXCEPT !.pc = next, !.pem_certs = b, !.chain = ch]
<1>2. /\ proc[h].pc = "chain" /\ proc[h] \in Process
      /\ proc' = [proc EXCEPT ![h] = p]
  BY <1>1 DEF FetchCertChain, SetProc, IInv, TypeOK, ServerTypeOK
<1> HIDE DEF ch
<1>3. /\ p.pc = next /\ p.args = proc[h].args
      /\ p.report = proc[h].report /\ p.key = proc[h].key
      /\ p.chain = ch /\ p.vcek = proc[h].vcek /\ p.pem_certs = b
  BY <1>2 DEF Process
<1> HIDE DEF p
<1>4. p.pc \in {"gpu", "cert"} /\ (p.pc = "cert" => ~p.args.gpu_cc)
  BY <1>3
<1>5. p.chain = ChainOf(p.vcek, p.pem_certs)
  BY <1>3 DEF ChainOf, ch
<1> QED BY <1>2, <1>3, <1>4, <1>5, HonestFetch

LEMMA HonestGetGpuJwt ==
  ASSUME IInv, HonestInv, NEW h \in Hosts, GetGpuJwt(h), UNCHANGED run
  PROVE  HonestInv'
<1>1. PICK jwt \in NrasTokens(Hex(pubkey_hash(proc[h].key)), machine[h].cc) :
        SetProc(h, [proc[h] EXCEPT !.pc = "cert", !.jwt = jwt,
                                   !.cc = machine[h].cc])
  BY DEF GetGpuJwt
<1> DEFINE p == [proc[h] EXCEPT !.pc = "cert", !.jwt = jwt,
                                !.cc = machine[h].cc]
<1>2. /\ proc[h].pc = "gpu" /\ proc[h] \in Process
      /\ proc' = [proc EXCEPT ![h] = p]
  BY <1>1 DEF GetGpuJwt, SetProc, IInv, TypeOK, ServerTypeOK
<1>3. TokenFor(jwt, proc[h].key)
  BY DEF NrasTokens, TokenFor, pubkey_hash
<1>4. /\ p.pc = "cert" /\ p.jwt = jwt
      /\ p.report = proc[h].report /\ p.key = proc[h].key
      /\ p.chain = proc[h].chain /\ p.vcek = proc[h].vcek
      /\ p.pem_certs = proc[h].pem_certs
  BY <1>2 DEF Process
<1> HIDE DEF p
<1>5. p.chain = ChainOf(p.vcek, p.pem_certs)
  BY <1>2, <1>4 DEF HonestInv, HonestProc
<1> QED BY <1>2, <1>3, <1>4, <1>5, HonestFetch

LEMMA HonestBuildAmdCert ==
  ASSUME IInv, HonestInv, NEW h \in Hosts, BuildAmdCert(h), UNCHANGED run
  PROVE  HonestInv'
<1> DEFINE base == new_amd(proc[h].report, proc[h].chain)
           ext  == IF proc[h].args.gpu_cc THEN with_gpu_jwt(base, proc[h].jwt)
                   ELSE base
           cert == build_server_cert(proc[h].key, ext)
           p    == [proc[h] EXCEPT !.pc = "bind", !.cert = cert]
<1>1. /\ proc[h].pc = "cert" /\ proc[h] \in Process
      /\ proc' = [proc EXCEPT ![h] = p]
  BY DEF BuildAmdCert, SetProc, IInv, TypeOK, ServerTypeOK
<1>2. /\ proc[h].report \in Report /\ proc[h].chain \in Seq(Cert)
      /\ proc[h].args.gpu_cc => proc[h].jwt \in GpuJwt
  BY <1>1 DEF IInv, SetupOK
<1>3. /\ ChipSigned(proc[h].report, proc[h].key)
      /\ proc[h].args.gpu_cc => TokenFor(proc[h].jwt, proc[h].key)
  BY <1>1 DEF HonestInv, HonestProc
<1>4. /\ ext \in AttestationExtension
      /\ report_bytes(ext) = proc[h].report
      /\ ext.mode = "AmdSevSnp"
      /\ TokenFor(ext.gpu_jwt, proc[h].key)
      /\ ext.vcek_chain_b64 = base.vcek_chain_b64
  <2>1. /\ base \in AttestationExtension /\ base.gpu_jwt = None
        /\ base.report_b64 = B64(proc[h].report) /\ base.mode = "AmdSevSnp"
    BY <1>2, AmdExtension
  <2>2. /\ ext \in AttestationExtension /\ ext.report_b64 = base.report_b64
        /\ ext.mode = base.mode
        /\ ext.vcek_chain_b64 = base.vcek_chain_b64
        /\ IF proc[h].args.gpu_cc THEN ext.gpu_jwt = proc[h].jwt
           ELSE ext.gpu_jwt = None
    BY <1>2, <2>1 DEF with_gpu_jwt, AttestationExtension
  <2> QED BY <1>3, <2>1, <2>2 DEF report_bytes, B64, TokenFor
<1> HIDE DEF ext
<1>5. cert.spki = proc[h].key /\ cert.ext = Json(ext)
  BY DEF build_server_cert
<1> HIDE DEF cert
<1>6. /\ HonestCert(cert, proc[h].key)
      /\ ShowsChain(cert, proc[h].vcek, proc[h].pem_certs)
  <2>1. HonestCert(cert, proc[h].key)
    BY <1>3, <1>4, <1>5 DEF HonestCert, Json
  <2>2. proc[h].chain = ChainOf(proc[h].vcek, proc[h].pem_certs)
    BY <1>1 DEF HonestInv, HonestProc
  <2>3. base.vcek_chain_b64
          = new_amd(None, ChainOf(proc[h].vcek, proc[h].pem_certs)).vcek_chain_b64
    BY <2>2 DEF new_amd
  <2> HIDE DEF base
  <2>4. cert.ext.json = ext
    BY <1>5 DEF Json
  <2> QED BY <1>4, <2>1, <2>3, <2>4 DEF ShowsChain
<1>7. /\ p.pc = "bind" /\ p.cert = cert /\ p.key = proc[h].key
      /\ p.vcek = proc[h].vcek /\ p.pem_certs = proc[h].pem_certs
  BY <1>1 DEF Process
<1> HIDE DEF p
<1>8. HonestProc(p)
  BY <1>6, <1>7 DEF HonestProc
<1> QED BY <1>1, <1>8, HonestProcStep

LEMMA HonestBind ==
  ASSUME IInv, HonestInv, NEW h \in Hosts, Bind(h), UNCHANGED run
  PROVE  HonestInv'
<1> DEFINE p == [Down EXCEPT !.pc = "listening", !.args = proc[h].args,
                             !.key = proc[h].key, !.cert = proc[h].cert,
                             !.vcek = proc[h].vcek,
                             !.pem_certs = proc[h].pem_certs, !.cc = proc[h].cc]
<1>1. proc[h].pc = "bind" /\ proc' = [proc EXCEPT ![h] = p]
  BY DEF Bind
<1>2. /\ p.pc = "listening" /\ p.cert = proc[h].cert /\ p.key = proc[h].key
      /\ p.vcek = proc[h].vcek /\ p.pem_certs = proc[h].pem_certs
  BY DEF Down
<1> HIDE DEF p
<1>3. HonestProc(p)
  BY <1>1, <1>2 DEF HonestInv, HonestProc
<1> QED BY <1>1, <1>3, HonestProcStep

\* Every step of a gateway and of its environment.
LEMMA HonestGatewayStep ==
  ASSUME IInv, HonestInv, NEW h \in Hosts,
         ServerStep(h) \/ ServerEnvironment(h), UNCHANGED run
  PROVE  HonestInv'
<1>1. CASE BuildMockSetup(h)  BY <1>1, HonestBuildMockSetup
<1>2. CASE GenerateKeypair(h)
  <2> DEFINE p == [proc[h] EXCEPT !.pc = "ioctl", !.key = nextKey]
  <2>1. proc' = [proc EXCEPT ![h] = p] /\ p.pc = "ioctl"
    BY <1>2 DEF GenerateKeypair, SetProc, IInv, TypeOK, ServerTypeOK, Process
  <2> HIDE DEF p
  <2>2. HonestProc(p)
    BY <2>1, NothingYet
  <2> QED BY <2>1, <2>2, HonestProcStep
<1>3. CASE GetSnpReport(h)    BY <1>3, HonestGetSnpReport
<1>4. CASE FetchVcek(h)       BY <1>4, HonestFetchVcek
<1>5. CASE FetchCertChain(h)  BY <1>5, HonestFetchCertChain
<1>6. CASE GetGpuJwt(h)       BY <1>6, HonestGetGpuJwt
<1>7. CASE BuildAmdCert(h)    BY <1>7, HonestBuildAmdCert
<1>8. CASE Bind(h)            BY <1>8, HonestBind
<1>9. CASE SetupFails(h) \/ AcceptError(h) \/ Crash(h)
  <2>1. proc' = [proc EXCEPT ![h] = Down] /\ Down.pc = "down"
    BY <1>9 DEF SetupFails, AcceptError, Crash, Exit, SetProc, Down
  <2>2. HonestProc(Down)
    BY <2>1, NothingYet
  <2> QED BY <2>1, <2>2, HonestProcStep
<1>10. ASSUME NEW args \in ServerArgs, Launch(h, args) PROVE HonestInv'
  <2> DEFINE p == [Down EXCEPT !.pc = SetupPath(args), !.args = args]
  <2>1. proc' = [proc EXCEPT ![h] = p] /\ p.pc = SetupPath(args)
    BY <1>10 DEF Launch, SetProc, Down
  <2>2. SetupPath(args) \in {"mock", "keygen", "down"}
    BY DEF SetupPath
  <2> HIDE DEF p
  <2>3. HonestProc(p)
    BY <2>1, <2>2, NothingYet
  <2> QED BY <2>1, <2>3, HonestProcStep
<1>11. ASSUME NEW m \in Machines, Reprovision(h, m) PROVE HonestInv'
  BY <1>11 DEF Reprovision, HonestInv
<1>12. CASE \E cc \in CcModes : ChangeCcMode(h, cc)
  BY <1>12 DEF ChangeCcMode, HonestInv
<1> QED
  BY <1>1, <1>2, <1>3, <1>4, <1>5, <1>6, <1>7, <1>8, <1>9, <1>10, <1>11, <1>12
  DEF ServerStep, ServerEnvironment

-----------------------------------------------------------------------------
(* The steps of a connection.                                              *)

\* A step that replaces the run of c by r.
LEMMA HonestRunStep ==
  ASSUME IInv, HonestInv, NEW c \in Clients, NEW r, SetRun(c, r), HonestRun(r)
  PROVE  HonestInv'
<1>1. proc' = proc /\ run' = [run EXCEPT ![c] = r]
  BY DEF SetRun, serverVars
<1>2. \A d \in Clients : HonestRun(run'[d])
  BY <1>1 DEF HonestInv, IInv, TypeOK
<1> QED BY <1>1, <1>2 DEF HonestInv

\* A step that keeps what the client was shown and its verdict on it.
LEMMA HonestProgress ==
  ASSUME IInv, HonestInv, NEW c \in Clients, NEW r, SetRun(c, r),
         r.cfg = run[c].cfg, r.peer = run[c].peer,
         r.peerKey = run[c].peerKey, r.cert = run[c].cert, r.kds = run[c].kds,
         r.verdict = run[c].verdict
  PROVE  HonestInv'
<1>1. HonestRun(r)
  BY DEF HonestInv, HonestRun
<1> QED BY <1>1, HonestRunStep

LEMMA HonestConnect ==
  ASSUME IInv, HonestInv, NEW c \in Clients, NEW cfg \in ClientConfigs,
         NEW h \in Hosts, ConnectGateway(c, cfg, h)
  PROVE  HonestInv'
<1> DEFINE kds == [vcek |-> proc[h].vcek, pem_certs |-> proc[h].pem_certs]
           r == [Idle EXCEPT !.pc = "connecting", !.cfg = cfg, !.peer = h,
                             !.peerKey = proc[h].key, !.cert = proc[h].cert,
                             !.kds = kds]
<1>1. /\ SetRun(c, r) /\ HonestCert(proc[h].cert, proc[h].key)
      /\ ShowsChain(proc[h].cert, kds.vcek, kds.pem_certs)
  BY DEF ConnectGateway, HonestInv, HonestProc
<1> HIDE DEF kds
<1>2. /\ r.cfg = cfg /\ r.peerKey = proc[h].key /\ r.cert = proc[h].cert
      /\ r.verdict = None /\ r.kds = kds
  BY DEF Idle
<1> HIDE DEF r
<1>3. HonestRun(r)
  BY <1>1, <1>2 DEF HonestRun
<1> QED BY <1>1, <1>3, HonestRunStep

LEMMA HonestConnectStranger ==
  ASSUME IInv, HonestInv, NEW c \in Clients, NEW cfg \in ClientConfigs,
         ConnectStranger(c, cfg)
  PROVE  HonestInv'
<1>1. PICK k \in ForeignKeys, cert \in StrangerCerts :
        SetRun(c, [Idle EXCEPT !.pc = "connecting", !.cfg = cfg,
                               !.peer = Stranger, !.peerKey = k, !.cert = cert])
  BY DEF ConnectStranger
<1> DEFINE r == [Idle EXCEPT !.pc = "connecting", !.cfg = cfg,
                             !.peer = Stranger, !.peerKey = k, !.cert = cert]
<1>2. r.peer = Stranger /\ r.verdict = None /\ SetRun(c, r)
  BY <1>1 DEF Idle
<1> HIDE DEF r
<1>3. HonestRun(r)
  BY <1>2, ClientAssumption DEF HonestRun
<1> QED BY <1>2, <1>3, HonestRunStep

\* The only step that sets a verdict sets that of the checks.
LEMMA HonestHandshake ==
  ASSUME IInv, HonestInv, NEW c \in Clients, Handshake(c)
  PROVE  HonestInv'
<1> DEFINE v    == HandshakeVerdict(run[c].cfg, run[c].cert, run[c].peerKey)
           next == IF v = "Ok" THEN "established" ELSE "failed"
           r    == [run[c] EXCEPT !.pc = next, !.verdict = v]
<1>1. SetRun(c, r)
  BY DEF Handshake
<1> HIDE DEF v
<1>2. /\ r.cfg = run[c].cfg /\ r.peer = run[c].peer
      /\ r.peerKey = run[c].peerKey /\ r.cert = run[c].cert /\ r.verdict = v
      /\ r.kds = run[c].kds
  BY ClientFacts DEF Run
<1> HIDE DEF r
<1>3. HonestRun(r)
  BY <1>2 DEF HonestInv, HonestRun, v
<1> QED BY <1>1, <1>3, HonestRunStep

\* Every other step of a connection changes the place of the run, its receiver
\* or its response.
LEMMA HonestConnectionStep ==
  ASSUME IInv, HonestInv, NEW c \in Clients,
         \/ ConnectAny(c)
         \/ ConnectionStep(c)
         \/ BackendStep(c)
         \/ StrangerAnswers(c)
  PROVE  HonestInv'
<1> DEFINE K(r) == /\ r.cfg = run[c].cfg /\ r.peer = run[c].peer
                   /\ r.peerKey = run[c].peerKey /\ r.cert = run[c].cert
                   /\ r.kds = run[c].kds /\ r.verdict = run[c].verdict
<1>1. run[c] \in Run
  BY ClientFacts
<1>2. ASSUME NEW r, SetRun(c, r), K(r) PROVE HonestInv'
  BY <1>2, HonestProgress
<1>3. \A pc : K([run[c] EXCEPT !.pc = pc])
  BY <1>1 DEF Run
<1>4. \A pc, response : K([run[c] EXCEPT !.pc = pc, !.response = response])
  BY <1>1 DEF Run
<1>5. \A pc, receiver : K([run[c] EXCEPT !.pc = pc, !.receiver = receiver])
  BY <1>1 DEF Run
<1>6. \A pc, receiver, response :
        K([run[c] EXCEPT !.pc = pc, !.receiver = receiver,
                         !.response = response])
  BY <1>1 DEF Run
<1> HIDE DEF K
<1>7. ASSUME Fail(c) PROVE HonestInv'
  BY <1>2, <1>3, <1>7 DEF Fail
<1>8. CASE ConnectAny(c)
  BY <1>7, <1>8, HonestConnect, HonestConnectStranger
  DEF ConnectAny, FailsToConnect
<1>9. CASE Handshake(c)
  BY <1>9, HonestHandshake
<1>10. CASE SendPrompt(c)
  BY <1>2, <1>3, <1>10 DEF SendPrompt
<1>11. CASE HandleGenerate(c)
  <2> DEFINE h    == run[c].peer
             got  == [endpoint |-> h, key |-> proc[h].key, machine |-> machine[h],
                      cc |-> proc[h].cc]
             echo == [status |-> 200, body |-> "complete"]
  <2>1. \/ SetRun(c, [run[c] EXCEPT !.pc = "answered", !.receiver = got,
                                    !.response = echo])
        \/ SetRun(c, [run[c] EXCEPT !.pc = "forwarded", !.receiver = got])
    BY <1>11 DEF HandleGenerate
  <2> HIDE DEF got, echo
  <2> QED BY <2>1, <1>2, <1>5, <1>6
<1>12. CASE ReceiveResponse(c)
  BY <1>2, <1>3, <1>12 DEF ReceiveResponse
<1>13. CASE ConnectionLost(c)
  BY <1>7, <1>13 DEF ConnectionLost
<1>14. CASE BackendUnavailable(c)
  BY <1>2, <1>4, <1>14 DEF BackendUnavailable
<1>15. CASE BackendAnswers(c)
  BY <1>2, <1>4, <1>15 DEF BackendAnswers
<1>16. CASE StrangerAnswers(c)
  <2> DEFINE got  == [endpoint |-> Stranger, key |-> run[c].peerKey,
                      machine |-> None, cc |-> None]
             resp == [status |-> 200, body |-> "complete"]
  <2>1. SetRun(c, [run[c] EXCEPT !.pc = "answered", !.receiver = got,
                                 !.response = resp])
    BY <1>16 DEF StrangerAnswers
  <2> HIDE DEF got, resp
  <2> QED BY <2>1, <1>2, <1>6
<1> QED
  BY <1>8, <1>9, <1>10, <1>11, <1>12, <1>13, <1>14, <1>15, <1>16
  DEF ConnectionStep, BackendStep

-----------------------------------------------------------------------------
(* The invariant and the theorem.                                          *)

LEMMA InitHonest == Init => HonestInv
<1> SUFFICES ASSUME Init PROVE HonestInv
  OBVIOUS
<1>1. ASSUME NEW h \in Hosts PROVE HonestProc(proc[h])
  <2>1. proc[h].pc = "down"
    BY DEF Init, ServerInit, Down
  <2> QED BY <2>1, NothingYet
<1>2. ASSUME NEW c \in Clients PROVE HonestRun(run[c])
  <2>1. run[c].verdict = None /\ run[c].peer = None
    BY DEF Init, Idle
  <2> QED BY <2>1, ClientAssumption DEF HonestRun
<1> QED BY <1>1, <1>2 DEF HonestInv

LEMMA NextHonest == IInv /\ HonestInv /\ [Next]_vars => HonestInv'
<1> SUFFICES ASSUME IInv, HonestInv, [Next]_vars PROVE HonestInv'
  OBVIOUS
<1>1. CASE \E h \in Hosts : \/ ServerStep(h) /\ UNCHANGED run
                            \/ ServerEnvironment(h) /\ UNCHANGED run
  BY <1>1, HonestGatewayStep
<1>2. CASE \E c \in Clients : \/ ConnectAny(c)
                              \/ ConnectionStep(c)
                              \/ BackendStep(c)
                              \/ StrangerAnswers(c)
  BY <1>2, HonestConnectionStep
<1>3. CASE UNCHANGED vars
  BY <1>3 DEF vars, HonestInv
<1> QED BY <1>1, <1>2, <1>3 DEF Next

LEMMA InvAccepted == IInv /\ HonestInv => HonestGatewayAccepted
<1> SUFFICES ASSUME IInv, HonestInv, NEW c \in Clients,
                    run[c].peer \in Hosts, run[c].verdict # None,
                    Fulfils(run[c].cfg, run[c].cert, run[c].kds)
             PROVE  run[c].verdict = "Ok"
  BY DEF HonestGatewayAccepted
<1>1. /\ run[c].verdict
           = HandshakeVerdict(run[c].cfg, run[c].cert, run[c].peerKey)
      /\ run[c].cfg \in ClientConfigs
      /\ HonestCert(run[c].cert, run[c].peerKey)
      /\ ShowsChain(run[c].cert, run[c].kds.vcek, run[c].kds.pem_certs)
  BY DEF HonestInv, HonestRun
<1>2. run[c].peerKey \in TlsKey
  BY ClientFacts DEF PeerOK, TlsKey
<1> QED BY <1>1, <1>2, HonestPasses

\* Whatever the history of keys, restarts and redeployments, a client accepts
\* every gateway that fulfils what it asks for: what tls.rs and
\* amd_attestation.rs make of the answers of the KDS and of NRAS passes every
\* check of verifier.rs and verify.rs.
THEOREM HonestIsAccepted == Spec => []HonestGatewayAccepted
<1>1. Spec => []HonestInv
  BY SpecInv, InitHonest, NextHonest, PTL DEF Spec
<1> QED BY <1>1, SpecInv, InvAccepted, PTL

=============================================================================
