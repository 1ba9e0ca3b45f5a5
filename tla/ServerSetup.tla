---------------------------- MODULE ServerSetup ----------------------------
(***************************************************************************)
(* The life of gateway processes (sifir-server): main's dispatch on the    *)
(* arguments, the three ways tls.rs builds the TLS configuration, with the *)
(* device, network and subprocess calls they await, and the listening      *)
(* socket.  A process that fails a step exits; a process can be killed at  *)
(* any step; what it computed is lost, and the next one starts over with a *)
(* new TLS key.                                                            *)
(*                                                                         *)
(* The processor, AMD's key distribution service (KDS) and NVIDIA's        *)
(* attestation service are external: the KDS may answer with any of the    *)
(* certificates it is given here, the processor signs what it is asked.    *)
(***************************************************************************)
EXTENDS Attestation

CONSTANTS
  Hosts,        \* machines a gateway can run on
  Features,     \* cargo features compiled in
  ServerArgs,   \* command lines: amd, gpu_cc, gpu_attest_script, backend
  Machines,     \* hardware and image: chip, image (its measurement), cc
  VcekOf,       \* the report-signing key of every chip
  KdsVceks,     \* bodies the KDS can return for a VCEK request
  KdsBundles,   \* certificate bundles it can return for cert_chain
  MaxKeys       \* bound: no process starts once so many TLS keys exist

ASSUME SetupAssumption ==
  /\ ServerArgs \subseteq [amd : BOOLEAN, gpu_cc : BOOLEAN,
                           gpu_attest_script : BOOLEAN, backend : BOOLEAN]
  /\ Machines \subseteq [chip : Chips, image : Measurements, cc : CcModes]
  /\ VcekOf \in [Chips -> P384]
  /\ KdsVceks \subseteq Cert
  /\ KdsBundles \subseteq Seq(Cert)
  /\ MaxKeys \in Nat

VARIABLES
  proc,       \* the gateway process of every host
  machine,    \* the hardware and image of every host
  nextKey,    \* the next TLS key KeyPair::generate_for returns
  published   \* history: certificates that were served on a socket

serverVars == <<proc, machine, nextKey, published>>

\* Where a process is: setup steps, then "bind" and "listening".
ServerPC == {"down", "mock", "keygen", "ioctl", "vcek", "chain", "gpu",
             "cert", "bind", "listening"}

\* The locals of main and of the build functions; None until computed.  The
\* answers of the KDS are kept as history once the gateway listens, and so is
\* cc: the mode that the GPU was in when the token was issued.
Process == [pc        : ServerPC,
            args      : ServerArgs \cup {None},
            key       : Nat \cup {None},
            report    : Report \cup {None},
            vcek      : Cert \cup {None},
            pem_certs : Seq(Cert) \cup {None},
            chain     : Seq(Cert) \cup {None},
            jwt       : GpuJwt \cup {None},
            cc        : CcModes \cup {None},
            cert      : TlsCert \cup {None}]

Down == [pc |-> "down", args |-> None, key |-> None, report |-> None,
         vcek |-> None, pem_certs |-> None, chain |-> None, jwt |-> None,
         cc |-> None, cert |-> None]

ServerInit ==
  /\ proc = [h \in Hosts |-> Down]
  /\ machine \in [Hosts -> Machines]
  /\ nextKey = 0
  /\ published = {}

-----------------------------------------------------------------------------
(* Helpers.                                                                *)

Running(h) == proc[h].pc # "down"

\* A step that only touches the process of h.
SetProc(h, p) ==
  /\ proc' = [proc EXCEPT ![h] = p]
  /\ UNCHANGED <<machine, published>>

\* A step of h that returned an error: main returns it, the process ends.
Exit(h) == SetProc(h, Down) /\ UNCHANGED nextKey

\* main's match on (args.amd, args.gpu_cc), with the cfg(feature) arms.
SetupPath(args) ==
  IF ~args.amd THEN "mock"
  ELSE IF ~args.gpu_cc
       THEN IF "real-attestation" \in Features THEN "keygen" ELSE "down"
  ELSE IF {"real-attestation", "gpu-cc"} \subseteq Features
          /\ args.gpu_attest_script
       THEN "keygen" ELSE "down"

\* KeyPair::generate_for, extract_spki_der and SHA-256.
pubkey_hash(key) == Sha256(key)

\* What SNP_GET_REPORT returns on machine m: external, the processor's firmware.
SnpReport(m, data) == signed_report(VcekOf[m.chip], data, m.image, m.chip)

\* The tokens NRAS may issue for nonce about a GPU: external.  Claims may be
\* missing; neither gpu_attest.py nor the gateway reads them.
NrasTokens(nonce, cc) ==
  {[claims |-> [nonce |-> nonce, cc_mode |-> cc, gpu_model |-> "H100"]],
   [claims |-> [nonce |-> nonce, cc_mode |-> None, gpu_model |-> "H100"]],
   [claims |-> None]}

\* build_server_cert: the extension goes into a self-signed certificate.
build_server_cert(key, ext) == [spki |-> key, ext |-> Json(ext)]

-----------------------------------------------------------------------------
(* Actions.                                                                *)

\* The process starts and parses its command line.
Launch(h, args) ==
  /\ ~Running(h)
  /\ nextKey < MaxKeys
  /\ SetupPath(args) # "down"
  /\ SetProc(h, [Down EXCEPT !.pc = SetupPath(args), !.args = args])
  /\ UNCHANGED nextKey

\* build_mock_setup: no call that waits, one step.
BuildMockSetup(h) ==
  LET report == sign_mock_report(pubkey_hash(nextKey), ZeroMeasurement)
  IN
  /\ proc[h].pc = "mock"
  /\ SetProc(h, [proc[h] EXCEPT
                  !.pc = "bind", !.key = nextKey,
                  !.cert = build_server_cert(nextKey, new_mock(report))])
  /\ nextKey' = nextKey + 1

\* generate_keypair_and_hash.
GenerateKeypair(h) ==
  /\ proc[h].pc = "keygen"
  /\ SetProc(h, [proc[h] EXCEPT !.pc = "ioctl", !.key = nextKey])
  /\ nextKey' = nextKey + 1

\* get_snp_report: the ioctl succeeds.
GetSnpReport(h) ==
  /\ proc[h].pc = "ioctl"
  /\ SetProc(h, [proc[h] EXCEPT
       !.pc = "vcek",
       !.report = SnpReport(machine[h], user_data(pubkey_hash(proc[h].key)))])
  /\ UNCHANGED nextKey

\* fetch_vcek_chain, first request.
FetchVcek(h) ==
  /\ proc[h].pc = "vcek"
  /\ \E body \in KdsVceks :
       SetProc(h, [proc[h] EXCEPT !.pc = "chain", !.vcek = body])
  /\ UNCHANGED nextKey

\* Mutant: a bundle that is too short restarts the fetch, without a limit.
FetchCertChain_retry(h) ==
  /\ proc[h].pc = "chain"
  /\ \E pem_certs \in KdsBundles :
       SetProc(h, IF Len(pem_certs) >= 2
                  THEN [proc[h] EXCEPT
                         !.pc = IF proc[h].args.gpu_cc THEN "gpu" ELSE "cert",
                         !.pem_certs = pem_certs,
                         !.chain = <<proc[h].vcek, pem_certs[1], pem_certs[2]>>]
                  ELSE [proc[h] EXCEPT !.pc = "vcek", !.vcek = None])
  /\ UNCHANGED nextKey

\* Mutant: the root first, as in many PEM bundles.
FetchCertChain_swapped(h) ==
  /\ proc[h].pc = "chain"
  /\ \E pem_certs \in KdsBundles :
       /\ Len(pem_certs) >= 2
       /\ SetProc(h, [proc[h] EXCEPT
            !.pc = IF proc[h].args.gpu_cc THEN "gpu" ELSE "cert",
            !.pem_certs = pem_certs,
            !.chain = <<proc[h].vcek, pem_certs[2], pem_certs[1]>>])
  /\ UNCHANGED nextKey

\* fetch_vcek_chain, second request: at least two certificates, of which the
\* first two are taken; then the GPU token is next if it was asked for.
FetchCertChain(h) ==
  /\ proc[h].pc = "chain"
  /\ \E pem_certs \in KdsBundles :
       /\ Len(pem_certs) >= 2
       /\ SetProc(h, [proc[h] EXCEPT
            !.pc = IF proc[h].args.gpu_cc THEN "gpu" ELSE "cert",
            !.pem_certs = pem_certs,
            !.chain = <<proc[h].vcek, pem_certs[1], pem_certs[2]>>])
  /\ UNCHANGED nextKey

\* Mutant: the nonce is passed without hex::encode.
GetGpuJwt_raw(h) ==
  /\ proc[h].pc = "gpu"
  /\ \E jwt \in NrasTokens(pubkey_hash(proc[h].key), machine[h].cc) :
       SetProc(h, [proc[h] EXCEPT !.pc = "cert", !.jwt = jwt,
                                  !.cc = machine[h].cc])
  /\ UNCHANGED nextKey

\* get_gpu_jwt: gpu_attest.py exits 0 and prints a token for the nonce, about
\* the GPU as it is at that moment.
GetGpuJwt(h) ==
  /\ proc[h].pc = "gpu"
  /\ \E jwt \in NrasTokens(Hex(pubkey_hash(proc[h].key)), machine[h].cc) :
       SetProc(h, [proc[h] EXCEPT !.pc = "cert", !.jwt = jwt,
                                  !.cc = machine[h].cc])
  /\ UNCHANGED nextKey

\* The end of build_amd_setup and of build_amd_gpu_setup.
BuildAmdCert(h) ==
  LET ext == new_amd(proc[h].report, proc[h].chain)
  IN
  /\ proc[h].pc = "cert"
  /\ SetProc(h, [proc[h] EXCEPT
       !.pc = "bind",
       !.cert = build_server_cert(proc[h].key,
                  IF proc[h].args.gpu_cc THEN with_gpu_jwt(ext, proc[h].jwt)
                  ELSE ext)])
  /\ UNCHANGED nextKey

\* A call of the setup fails: opening the device, the ioctl or its firmware
\* status, a KDS request (error, status, 10 s timeout, bundle that is no PEM
\* or has fewer than two certificates), gpu_attest.py, or binding the address.
SetupFails(h) ==
  /\ proc[h].pc \in {"ioctl", "vcek", "chain", "gpu", "bind"}
  /\ Exit(h)

\* TcpListener::bind; the build function's locals are gone, the TLS
\* configuration with key and certificate stays for the process's life.
Bind(h) ==
  /\ proc[h].pc = "bind"
  /\ proc' = [proc EXCEPT ![h] =
                [Down EXCEPT !.pc = "listening", !.args = proc[h].args,
                             !.key = proc[h].key, !.cert = proc[h].cert,
                             !.vcek = proc[h].vcek,
                             !.pem_certs = proc[h].pem_certs, !.cc = proc[h].cc]]
  /\ published' = published \cup {proc[h].cert}
  /\ UNCHANGED <<machine, nextKey>>

\* listener.accept() returns an error: `?` ends main and every connection.
AcceptError(h) ==
  /\ proc[h].pc = "listening"
  /\ Exit(h)

\* The process is killed.
Crash(h) ==
  /\ Running(h)
  /\ Exit(h)

\* The machine is redeployed with another image or replaced: external.  Image
\* and processor are those of the confidential VM that the process runs in, so
\* they do not change under it.
Reprovision(h, m) ==
  /\ ~Running(h)
  /\ machine' = [machine EXCEPT ![h] = m]
  /\ UNCHANGED <<proc, nextKey, published>>

\* The GPU is reset into another confidential-computing mode: external, and at
\* any time.  The gateway is not told and never looks again.
ChangeCcMode(h, cc) ==
  /\ [machine[h] EXCEPT !.cc = cc] \in Machines
  /\ machine' = [machine EXCEPT ![h].cc = cc]
  /\ UNCHANGED <<proc, nextKey, published>>

ServerStep(h) ==
  \/ BuildMockSetup(h)
  \/ GenerateKeypair(h)
  \/ GetSnpReport(h)
  \/ FetchVcek(h)
  \/ FetchCertChain(h)
  \/ GetGpuJwt(h)
  \/ BuildAmdCert(h)
  \/ SetupFails(h)
  \/ Bind(h)

ServerEnvironment(h) ==
  \/ \E args \in ServerArgs : Launch(h, args)
  \/ AcceptError(h)
  \/ Crash(h)
  \/ \E m \in Machines : Reprovision(h, m)
  \/ \E cc \in CcModes : ChangeCcMode(h, cc)

ServerTypeOK ==
  /\ proc \in [Hosts -> Process]
  /\ machine \in [Hosts -> Machines]
  /\ nextKey \in Nat
  /\ published \subseteq TlsCert
=============================================================================
