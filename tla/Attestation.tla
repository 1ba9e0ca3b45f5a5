---------------------------- MODULE Attestation ----------------------------
(***************************************************************************)
(* The data and the pure functions of the sifir-attest crate and of the    *)
(* client's certificate verifier: attestation reports, the mock signer,    *)
(* the X.509 extension, the AMD certificate chain, the GPU token, and the  *)
(* check the client runs on a server certificate.                          *)
(*                                                                         *)
(* Cryptography is symbolic.  A hash, an encoding and a signature are      *)
(* constructors applied to what they hash, encode or sign, so they are     *)
(* injective, and a signature can be produced only by naming the key.      *)
(***************************************************************************)
EXTENDS Naturals, Sequences

CONSTANTS
  None,             \* absence: Option::None, a failed decode, a missing field
  ZeroMeasurement,  \* [0u8; 48]
  Measurements,     \* software measurements (48 bytes), the zero one included
  Chips,            \* chip identities of AMD processors
  P384,             \* public keys that parse as P-384 points
  RsaKeys,          \* public keys of other kinds (the RSA chains of Milan)
  MockKey,          \* verifying key of MOCK_PRIVATE_KEY_SCALAR
  ForeignKeys       \* TLS keys of endpoints that are not a gateway

ASSUME DataAssumption ==
  /\ ZeroMeasurement \in Measurements
  /\ MockKey \in P384
  /\ None \notin Nat \cup P384 \cup RsaKeys \cup Chips \cup Measurements
  /\ P384 \cap RsaKeys = {}
  /\ ForeignKeys \cap Nat = {}

\* Gateways draw their TLS keys (P-256, SubjectPublicKeyInfo) from Nat.
TlsKey == Nat \cup ForeignKeys

-----------------------------------------------------------------------------
(* Encodings.  Each is undone only by its own decoder, which is the field  *)
(* access; a decoder that fails yields None.                               *)

Sha256(x) == [sha256 |-> x]
Hex(x)    == [hex |-> x]
B64(x)    == [b64 |-> x]
Json(x)   == [json |-> x]

\* An ECDSA P-384 signature by the private half of key over msg.
Sign(key, msg) == [by |-> key, over |-> msg]

-----------------------------------------------------------------------------
(* The report.  Its 64-byte report_data is a 32-byte hash and 32 more      *)
(* bytes; a signature whose r or s is no valid scalar is None.             *)

ReportData   == [sha256 : TlsKey] \X {"zeros"}
SignedRegion == [report_data : ReportData, measurement : Measurements,
                 chip_id : Chips \cup {None}]
Signature    == [by : P384, over : SignedRegion]
Report       == [report_data : ReportData, measurement : Measurements,
                 chip_id : Chips \cup {None}, sig : Signature \cup {None}]

\* user_data[..32] = pubkey_hash, the rest stays zero.
user_data(pubkey_hash) == <<pubkey_hash, "zeros">>

\* Bytes 0..0x2A0: every field but the signature.
signed_region(r) == [report_data |-> r.report_data,
                     measurement |-> r.measurement, chip_id |-> r.chip_id]

\* Fill in the fields, sign them with key, store r and s.
signed_report(key, data, measurement, chip) ==
  LET body == [report_data |-> data, measurement |-> measurement,
               chip_id |-> chip]
  IN  [report_data |-> data, measurement |-> measurement,
       chip_id |-> chip, sig |-> Sign(key, body)]

sign_mock_report(pubkey_hash, measurement) ==
  signed_report(MockKey, user_data(pubkey_hash), measurement, None)

-----------------------------------------------------------------------------
(* X.509 certificates of the AMD chain: a public key and the key that      *)
(* signed the certificate.  Bytes that are no certificate have no key.     *)

Cert    == [pk : P384 \cup RsaKeys \cup {None},
            signer : P384 \cup RsaKeys \cup {None}]
Garbage == [pk |-> None, signer |-> None]

extract_p384_key(cert) == IF cert.pk \in P384 THEN cert.pk ELSE None

\* A signature that is no DER-encoded P-384 signature verifies under no key.
verify_cert_signature(cert, issuer_key) ==
  /\ issuer_key # None
  /\ cert.signer = issuer_key

\* The VCEK's key if chain = <<VCEK, ASK, ARK, ...>> is consistent, else None.
\* Every failure is the same VerifyError::CertChain.
vcek_verifying_key(chain) ==
  IF /\ Len(chain) >= 3
     /\ verify_cert_signature(chain[3], extract_p384_key(chain[3]))
     /\ verify_cert_signature(chain[2], extract_p384_key(chain[3]))
     /\ verify_cert_signature(chain[1], extract_p384_key(chain[2]))
  THEN extract_p384_key(chain[1])
  ELSE None

-----------------------------------------------------------------------------
(* The NVIDIA token and the certificate extension.                         *)

\* serde maps an absent claim to None; claims = None is a string that is not
\* three base64url parts with a JSON payload.
CcModes   == {"on", "ON", "off", "OFF"}
GpuClaims == [nonce : [hex : [sha256 : TlsKey]] \cup {None},
              cc_mode : CcModes \cup {None},
              gpu_model : {"H100", None}]
GpuJwt    == [claims : GpuClaims \cup {None}]

to_lowercase(s) == IF s = "ON" THEN "on" ELSE IF s = "OFF" THEN "off" ELSE s

AttestationExtension ==
  [report_b64     : [b64 : Report \cup {None}],
   vcek_chain_b64 : Seq([b64 : Cert \cup {None}]),
   mode           : {"Mock", "AmdSevSnp"},
   gpu_jwt        : GpuJwt \cup {None}]

new_mock(report) ==
  [report_b64 |-> B64(report), vcek_chain_b64 |-> <<>>,
   mode |-> "Mock", gpu_jwt |-> None]

new_amd(report, chain) ==
  [report_b64     |-> B64(report),
   vcek_chain_b64 |-> [i \in DOMAIN chain |-> B64(chain[i])],
   mode           |-> "AmdSevSnp",
   gpu_jwt        |-> None]

with_gpu_jwt(ext, jwt) == [ext EXCEPT !.gpu_jwt = jwt]

report_bytes(ext) == ext.report_b64.b64

vcek_chain_der(ext) ==
  IF \A i \in DOMAIN ext.vcek_chain_b64 : ext.vcek_chain_b64[i].b64 # None
  THEN [i \in DOMAIN ext.vcek_chain_b64 |-> ext.vcek_chain_b64[i].b64]
  ELSE None

\* A TLS server certificate: its key, and the value under the Sifir OID
\* (None when the extension is absent, Json(None) when it does not parse).
TlsCert == [spki : TlsKey,
            ext  : [json : AttestationExtension \cup {None}] \cup {None}]

\* The absence of a value is none of the values.
ASSUME NoneAssumption ==
  /\ None \notin Cert \cup Seq(Cert) \cup Signature \cup Report
  /\ None \notin CcModes \cup [hex : [sha256 : TlsKey]]
  /\ None \notin AttestationExtension
  /\ None \notin [json : AttestationExtension \cup {None}]

-----------------------------------------------------------------------------
(* sifir_attest::verify.  The functions return "Ok" or the first error.    *)

VerifyError    == {"BadSignature", "KeyBindingMismatch",
                   "MeasurementMismatch", "CertChain"}
GpuVerifyError == {"MalformedJwt", "MissingClaim", "NonceMismatch",
                   "CcModeNotOn"}

\* Results of a handshake; the rest are TlsError::General of verifier.rs and
\* the signature error of rustls.
Verdict == {"Ok", "NoExtension", "ExtensionParse", "ReportDecode",
            "ModeMismatch", "ChainDecode", "NoGpuJwt", "HandshakeSignature"}
             \cup VerifyError \cup GpuVerifyError

verify_key_binding(report, spki) ==
  IF report.report_data[1] = Sha256(spki) THEN "Ok" ELSE "KeyBindingMismatch"

\* AttestationKey: chain is None in mock mode.
verifying_key(chain) ==
  IF chain = None THEN MockKey ELSE vcek_verifying_key(chain)

verify_signature(report, chain) ==
  IF report.sig = None THEN "BadSignature"
  ELSE IF verifying_key(chain) = None THEN "CertChain"
  ELSE IF report.sig = Sign(verifying_key(chain), signed_region(report))
       THEN "Ok" ELSE "BadSignature"

verify_measurement(report, expected) ==
  IF expected = ZeroMeasurement \/ report.measurement = expected
  THEN "Ok" ELSE "MeasurementMismatch"

verify(report, chain, expected, spki) ==
  IF verify_key_binding(report, spki) # "Ok"
    THEN verify_key_binding(report, spki)
  ELSE IF verify_signature(report, chain) # "Ok"
    THEN verify_signature(report, chain)
  ELSE verify_measurement(report, expected)

-----------------------------------------------------------------------------
(* The client: gpu_verify.rs and verifier.rs.                              *)

verify_gpu_jwt(jwt, spki) ==
  LET claims == jwt.claims IN
  IF claims = None THEN "MalformedJwt"
  ELSE IF claims.nonce = None THEN "MissingClaim"
  ELSE IF claims.nonce # Hex(Sha256(spki)) THEN "NonceMismatch"
  ELSE IF claims.cc_mode = None THEN "MissingClaim"
  ELSE IF to_lowercase(claims.cc_mode) # "on" THEN "CcModeNotOn"
  ELSE IF claims.gpu_model = None THEN "MissingClaim"
  ELSE "Ok"

\* VerifierMode chosen by --amd.
VerifierMode(cfg) == IF cfg.amd THEN "AmdSevSnp" ELSE "Mock"

\* Mutant: the trust anchor follows the mode that the server states.
verify_extension_server_mode(cfg, ext, spki) ==
  LET chain == IF ext.mode = "AmdSevSnp" THEN vcek_chain_der(ext) ELSE None
  IN
  IF report_bytes(ext) = None THEN "ReportDecode"
  ELSE IF ext.mode = "AmdSevSnp" /\ chain = None THEN "ChainDecode"
  ELSE verify(report_bytes(ext), chain, cfg.expected_measurement, spki)

\* The checks on a parsed extension, in the order of verify_server_cert.
verify_extension(cfg, ext, spki) ==
  LET chain   == IF cfg.amd THEN vcek_chain_der(ext) ELSE None
      verdict == verify(report_bytes(ext), chain, cfg.expected_measurement, spki)
  IN
  IF report_bytes(ext) = None THEN "ReportDecode"
  ELSE IF ext.mode # VerifierMode(cfg) THEN "ModeMismatch"
  ELSE IF cfg.amd /\ chain = None THEN "ChainDecode"
  ELSE IF verdict # "Ok" THEN verdict
  ELSE IF ~cfg.gpu_cc THEN "Ok"
  ELSE IF ext.gpu_jwt = None THEN "NoGpuJwt"
  ELSE verify_gpu_jwt(ext.gpu_jwt, spki)

\* cfg is the client's configuration; intermediates, server name, OCSP
\* response and time are not looked at.  A certificate that is no X.509 at all
\* is refused like one without the extension.
verify_server_cert(cfg, cert) ==
  IF cert.ext = None THEN "NoExtension"
  ELSE IF cert.ext.json = None THEN "ExtensionParse"
  ELSE verify_extension(cfg, cert.ext.json, cert.spki)

\* Mutant: HandshakeSignatureValid::assertion() without a check.
verify_tls_signature_assertion(cert, endpoint_key) == TRUE

\* rustls::crypto::verify_tls13_signature: the endpoint that holds the private
\* key of endpoint_key signed the handshake.
verify_tls_signature(cert, endpoint_key) == endpoint_key = cert.spki
=============================================================================
