---------------------------- MODULE ReportLayout ----------------------------
(***************************************************************************)
(* The attestation report as bytes.  Four places cut fields out of the     *)
(* same 1184 bytes with offsets of their own: the mock signer (mock.rs),   *)
(* the accessors behind the client's checks (report.rs), the gateway's     *)
(* request to the KDS (amd_attestation.rs) and its printed measurement     *)
(* (tls.rs).  Attestation treats the fields as a record; this module       *)
(* checks that the offsets justify it.                                     *)
(*                                                                         *)
(* A byte is named by the value it belongs to and its place in it, so two  *)
(* slices are equal only if they are the same bytes of the same value.     *)
(***************************************************************************)
EXTENDS Naturals

CONSTANT None   \* not yet there

ASSUME NoneAssumption == None \notin Nat   \* no place in the report

REPORT_SIZE == 1184

\* Mutant: the signature stops short of the chip identity.
SIGNED_REGION_SIZE_short == 416

SIGNED_REGION_SIZE == 672       \* 0x2A0

\* Offsets and sizes of report.rs.
OFF_VERSION == 0
OFF_REPORT_DATA == 80           \* 0x050
OFF_MEASUREMENT == 144          \* 0x090
OFF_CHIP_ID == 416              \* 0x1A0
OFF_SIG_R == 672                \* 0x2A0
OFF_SIG_S == 744                \* 0x2E8
REPORT_DATA_SIZE == 64
MEASUREMENT_SIZE == 48
CHIP_ID_SIZE == 64
SIG_SCALAR_SIZE == 48

\* Offsets of amd_attestation.rs.
KDS_OFF_REPORTED_TCB == 56      \* 0x038
KDS_OFF_CHIP_ID == 392          \* 0x188
KDS_CHIP_ID_LEN == 64

-----------------------------------------------------------------------------
(* Byte strings: functions on 0..n-1.                                      *)

Bytes(name, size) == [i \in 0..(size - 1) |-> <<name, i>>]
Zeros(size)       == [i \in 0..(size - 1) |-> <<"zero", 0>>]

slice(raw, off, size) == [i \in 0..(size - 1) |-> raw[off + i]]

copy_from_slice(raw, off, src, size) ==
  [b \in DOMAIN raw |->
     IF off <= b /\ b < off + size THEN src[b - off] ELSE raw[b]]

-----------------------------------------------------------------------------
(* The accessors of report.rs.                                             *)

version(raw)       == slice(raw, OFF_VERSION, 4)
report_data(raw)   == slice(raw, OFF_REPORT_DATA, REPORT_DATA_SIZE)
measurement(raw)   == slice(raw, OFF_MEASUREMENT, MEASUREMENT_SIZE)
chip_id(raw)       == slice(raw, OFF_CHIP_ID, CHIP_ID_SIZE)
sig_r(raw)         == slice(raw, OFF_SIG_R, SIG_SCALAR_SIZE)
sig_s(raw)         == slice(raw, OFF_SIG_S, SIG_SCALAR_SIZE)
signed_region(raw) == slice(raw, 0, SIGNED_REGION_SIZE)

\* The signature as the verifier sees it: the two scalars, and the region they
\* were computed over (ideal: no other region has them).
TheSignature(region) ==
  [r |-> Bytes("r", SIG_SCALAR_SIZE), s |-> Bytes("s", SIG_SCALAR_SIZE),
   over |-> region]

-----------------------------------------------------------------------------
(* Writers.                                                                *)

Hash == Bytes("pubkey hash", 32)

\* Mutant: the measurement is written over the end of report_data.
unsigned_mock_report_overlap(m) ==
  LET r1 == copy_from_slice(Zeros(REPORT_SIZE), 0, Bytes("version", 4), 4)
      r2 == copy_from_slice(r1, 52, Bytes("sig_algo", 4), 4)
      r3 == copy_from_slice(r2, 80, Hash, 32)
  IN  copy_from_slice(r3, 96, m, MEASUREMENT_SIZE)

\* sign_mock_report up to the signature: the literal offsets of mock.rs.
unsigned_mock_report(m) ==
  LET r1 == copy_from_slice(Zeros(REPORT_SIZE), 0, Bytes("version", 4), 4)
      r2 == copy_from_slice(r1, 52, Bytes("sig_algo", 4), 4)
      r3 == copy_from_slice(r2, 80, Hash, 32)
  IN  copy_from_slice(r3, 144, m, MEASUREMENT_SIZE)

\* The two scalars go to the start of their 72-byte slots.
with_signature(raw) ==
  copy_from_slice(
    copy_from_slice(raw, 672, Bytes("r", SIG_SCALAR_SIZE), 48),
    744, Bytes("s", SIG_SCALAR_SIZE), 48)

\* What the processor's firmware writes: external, the fields that this code
\* uses, at the offsets that poc/PLAN.md lists for the report.  The format of its
\* signature is its own: the two slots of with_signature are "the convention used
\* by the mock signer" (report.rs) and say nothing about it.
FirmwareFields ==
  {[name |-> "version",      off |-> 0,   size |-> 4],
   [name |-> "sig_algo",     off |-> 52,  size |-> 4],
   [name |-> "current_tcb",  off |-> 56,  size |-> 8],
   [name |-> "image",        off |-> 144, size |-> 48],
   [name |-> "reported_tcb", off |-> 384, size |-> 8],
   [name |-> "chip",         off |-> 416, size |-> 64],
   [name |-> "signature",    off |-> 672, size |-> 512]}

\* user_data (64 bytes) comes back as report_data; of the 4000 bytes of the
\* response get_snp_report keeps the first REPORT_SIZE.
firmware_report ==
  LET user_data == copy_from_slice(Zeros(64), 0, Hash, 32)
      body == [b \in 0..(REPORT_SIZE - 1) |->
                 IF \E f \in FirmwareFields : b \in f.off..(f.off + f.size - 1)
                 THEN LET f == CHOOSE f \in FirmwareFields :
                                 b \in f.off..(f.off + f.size - 1)
                      IN  <<f.name, b - f.off>>
                 ELSE <<"zero", 0>>]
  IN  copy_from_slice(body, 80, user_data, 64)

-----------------------------------------------------------------------------

VARIABLES
  stage,      \* "start", "built", "served", "altered", "verified"
  mode,       \* "Mock" or "AmdSevSnp"
  measured,   \* the measurement of the machine, or the mock's argument
  raw,        \* the report
  over,       \* history: the region that the mock signer signed
  kds,        \* the fields of the VCEK request
  printed,    \* the measurement that the gateway prints
  altered,    \* history: the byte that was changed on the way, or None
  verdict     \* the result of the client's verify

vars == <<stage, mode, measured, raw, over, kds, printed, altered, verdict>>

Init ==
  /\ stage = "start"
  /\ mode \in {"Mock", "AmdSevSnp"}
  /\ measured \in IF mode = "Mock" THEN {Zeros(48), Bytes("image", 48)}
                  ELSE {Bytes("image", 48)}
  /\ raw = Zeros(REPORT_SIZE)
  /\ over = None /\ kds = None /\ printed = None /\ altered = None
  /\ verdict = None

\* sign_mock_report; the mock setup prints the measurement it passed.
SignMockReport ==
  /\ stage = "start" /\ mode = "Mock"
  /\ over' = signed_region(unsigned_mock_report(measured))
  /\ raw' = with_signature(unsigned_mock_report(measured))
  /\ printed' = measured
  /\ stage' = "served"
  /\ UNCHANGED <<mode, measured, kds, altered, verdict>>

\* get_snp_report.
GetSnpReport ==
  /\ stage = "start" /\ mode = "AmdSevSnp"
  /\ raw' = firmware_report
  /\ stage' = "built"
  /\ UNCHANGED <<mode, measured, over, kds, printed, altered, verdict>>

\* Mutant: the measurement is cut out at the offset of report_data.
extract_measurement_off(r) == slice(r, 80, 48)

\* extract_measurement of tls.rs.
extract_measurement(r) == slice(r, 144, 48)

\* The VCEK request of fetch_vcek_chain (TcbVersion::from_report takes bytes
\* 0, 1, 6 and 7), then extract_measurement.
RequestVcek ==
  /\ stage = "built"
  /\ kds' = [chip_id |-> slice(raw, KDS_OFF_CHIP_ID, KDS_CHIP_ID_LEN),
             bl_spl |-> raw[KDS_OFF_REPORTED_TCB],
             tee_spl |-> raw[KDS_OFF_REPORTED_TCB + 1],
             snp_spl |-> raw[KDS_OFF_REPORTED_TCB + 6],
             ucode_spl |-> raw[KDS_OFF_REPORTED_TCB + 7]]
  /\ printed' = extract_measurement(raw)
  /\ stage' = "served"
  /\ UNCHANGED <<mode, measured, raw, over, altered, verdict>>

\* Some byte of a mock report is another one when the client reads it: external.
Alter(b) ==
  /\ stage = "served" /\ mode = "Mock"
  /\ raw' = [raw EXCEPT ![b] = <<"altered", 0>>]
  /\ altered' = b
  /\ stage' = "altered"
  /\ UNCHANGED <<mode, measured, over, kds, printed, verdict>>

verify_signature(r) ==
  [r |-> sig_r(r), s |-> sig_s(r), over |-> signed_region(r)]
    = TheSignature(over)

verify(r, expected) ==
  IF slice(report_data(r), 0, 32) # Hash THEN "KeyBindingMismatch"
  ELSE IF ~verify_signature(r) THEN "BadSignature"
  ELSE IF expected # Zeros(48) /\ measurement(r) # expected
       THEN "MeasurementMismatch"
  ELSE "Ok"

\* The client's verify of a mock report, with the printed measurement as the
\* expected one, or without one.  What it says of a processor's report depends
\* on the firmware's format and is left open.
Verify ==
  /\ stage \in {"served", "altered"} /\ mode = "Mock"
  /\ \E expected \in {Zeros(48), printed} : verdict' = verify(raw, expected)
  /\ stage' = "verified"
  /\ UNCHANGED <<mode, measured, raw, over, kds, printed, altered>>

Next ==
  \/ SignMockReport
  \/ GetSnpReport
  \/ RequestVcek
  \/ \E b \in 0..(REPORT_SIZE - 1) : Alter(b)
  \/ Verify

Spec == Init /\ [][Next]_vars

-----------------------------------------------------------------------------
(* Properties.                                                             *)

\* Bytes that no check covers: the padding after the two scalars.
Padding == 720..743 \cup 792..(REPORT_SIZE - 1)

\* The client accepts a mock report exactly if every byte outside the padding is
\* the one that was signed or is part of the signature, with or without an
\* expected measurement: the mock signer and the verifier agree on the signed
\* region and on the scalars, and no field that a check reads is uncovered.
AcceptedIffIntact ==
  verdict # None => (verdict = "Ok" <=> altered = None \/ altered \in Padding)

\* The measurement that the gateway prints, for members to pass as
\* --expected-measurement, is the one of the machine and the one that the
\* client's accessor returns.
PrintedIsMeasured ==
  stage = "served" => printed = measured /\ measurement(raw) = measured

\* The fields do not overlap: every accessor returns what was put there.
ReadBack ==
  stage = "served" =>
    /\ version(raw) = Bytes("version", 4)
    /\ slice(report_data(raw), 0, 32) = Hash
    /\ slice(report_data(raw), 32, 32) = Zeros(32)
    /\ mode = "AmdSevSnp" => chip_id(raw) = Bytes("chip", 64)

\* amd_attestation.rs, above its offsets: "These are the reported_tcb (8 bytes)
\* and chip_id (64 bytes) fields"; the request names the chip that report.rs
\* reads and the TCB that the report lists as reported_tcb.
KdsRequestNamesChip ==
  kds # None =>
    /\ kds.chip_id = chip_id(raw)
    /\ kds.bl_spl = <<"reported_tcb", 0>>
    /\ kds.tee_spl = <<"reported_tcb", 1>>
    /\ kds.snp_spl = <<"reported_tcb", 6>>
    /\ kds.ucode_spl = <<"reported_tcb", 7>>
=============================================================================
