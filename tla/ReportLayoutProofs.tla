------------------------- MODULE ReportLayoutProofs -------------------------
(***************************************************************************)
(* Proofs about ReportLayout.  A run of it changes one byte of a report;   *)
(* here the mock report that a client reads is any byte string: it is      *)
(* accepted exactly if it agrees with the one that was signed on every     *)
(* byte outside the padding.                                               *)
(*                                                                         *)
(* The argument is pointwise: what a writer leaves at an offset (MockBytes,*)
(* FirmwareBytes, SignedBytes), and what a slice of it is (SliceIs).       *)
(***************************************************************************)
EXTENDS ReportLayout, TLAPS

Places == 0..(REPORT_SIZE - 1)

\* Byte i of the value of this name; another name is another byte.
Byte(name, i) == <<name, i>>

ThatIsAltered == Byte("altered", 0)

LEMMA OtherByte ==
  ASSUME NEW name, name # "altered", NEW i
  PROVE  Byte(name, i) # ThatIsAltered
BY DEF Byte, ThatIsAltered

-----------------------------------------------------------------------------
(* Slices.                                                                 *)

\* Two reports have the same size bytes from place off on.
Same(r, o, off, size) == \A i \in 0..(size - 1) : r[off + i] = o[off + i]

\* Two slices at one place are equal if all their bytes are.
LEMMA SlicesAgree ==
  ASSUME NEW r, NEW o, NEW off \in Nat, NEW size \in Nat
  PROVE  slice(r, off, size) = slice(o, off, size) <=> Same(r, o, off, size)
<1>1. ASSUME slice(r, off, size) = slice(o, off, size), NEW i \in 0..(size - 1)
      PROVE  r[off + i] = o[off + i]
  <2>1. \A z : slice(z, off, size)[i] = z[off + i]
    BY DEF slice
  <2> QED BY <1>1, <2>1
<1>2. ASSUME \A i \in 0..(size - 1) : r[off + i] = o[off + i]
      PROVE  slice(r, off, size) = slice(o, off, size)
  BY <1>2 DEF slice
<1> QED BY <1>1, <1>2 DEF Same

LEMMA SamePlace ==
  ASSUME NEW r, NEW o, NEW off \in Nat, NEW size \in Nat, Same(r, o, off, size),
         NEW b \in Nat, off <= b, b < off + size
  PROVE  r[b] = o[b]
<1>1. b - off \in 0..(size - 1) /\ off + (b - off) = b
  OBVIOUS
<1>2. r[off + (b - off)] = o[off + (b - off)]
  BY <1>1, Zenon DEF Same
<1> QED BY <1>1, <1>2

\* A slice of a slice.
LEMMA SliceOfSlice ==
  ASSUME NEW r, NEW off \in Nat, NEW size \in Nat, NEW o \in Nat, NEW n \in Nat,
         o + n <= size
  PROVE  slice(slice(r, off, size), o, n) = slice(r, off + o, n)
<1>1. ASSUME NEW i \in 0..(n - 1)
      PROVE  slice(r, off, size)[o + i] = r[off + o + i]
  <2>1. o + i \in 0..(size - 1) /\ off + (o + i) = off + o + i
    OBVIOUS
  <2> QED BY <2>1 DEF slice
<1> QED BY <1>1 DEF slice

-----------------------------------------------------------------------------
(* What the writers leave at every place.                                  *)

LEMMA PlacesAre == Places = 0..1183
BY DEF Places, REPORT_SIZE

LEMMA InPlaces ==
  ASSUME NEW off \in Nat, NEW size \in Nat, off + size <= 1184,
         NEW i \in 0..(size - 1)
  PROVE  off + i \in Places
BY PlacesAre

\* The bytes of a byte string.
LEMMA BytesAt ==
  ASSUME NEW name, NEW size \in Nat, NEW i \in 0..(size - 1)
  PROVE  Bytes(name, size)[i] = Byte(name, i) /\ Zeros(size)[i] = Byte("zero", 0)
BY DEF Bytes, Zeros, Byte

\* No byte of a report, or of a byte string of this size, is an altered one.
Clean(r) == DOMAIN r = Places /\ \A b \in Places : r[b] # ThatIsAltered
CleanBytes(src, size) == \A i \in 0..(size - 1) : src[i] # ThatIsAltered

\* A copy has the bytes of src where it was copied to, and the old ones
\* elsewhere.
IsCopy(c, r, off, src, size) ==
  /\ \A i \in 0..(size - 1) : c[off + i] = src[i]
  /\ \A b \in Places : ~(off <= b /\ b < off + size) => c[b] = r[b]

LEMMA CopyInto ==
  ASSUME NEW r, Clean(r), NEW off \in Nat, NEW src, NEW size \in Nat,
         off + size <= 1184, CleanBytes(src, size)
  PROVE  LET c == copy_from_slice(r, off, src, size)
         IN  Clean(c) /\ IsCopy(c, r, off, src, size)
<1> DEFINE c == copy_from_slice(r, off, src, size)
<1>1. DOMAIN r = Places /\ \A b \in Places : r[b] # ThatIsAltered
  BY DEF Clean
<1>2. DOMAIN c = Places
  BY <1>1 DEF copy_from_slice
<1>3. ASSUME NEW i \in 0..(size - 1) PROVE c[off + i] = src[i]
  <2>1. off <= off + i /\ off + i < off + size /\ off + i - off = i
    OBVIOUS
  <2>2. off + i \in Places
    BY PlacesAre
  <2> QED BY <1>1, <2>1, <2>2 DEF copy_from_slice
<1>4. ASSUME NEW b \in Places, ~(off <= b /\ b < off + size)
      PROVE  c[b] = r[b]
  BY <1>1, <1>4 DEF copy_from_slice
<1>5. ASSUME NEW b \in Places PROVE c[b] # ThatIsAltered
  <2>1. CASE off <= b /\ b < off + size
    <3>1. b - off \in 0..(size - 1) /\ off + (b - off) = b
      BY <2>1, PlacesAre
    <3> HIDE DEF c
    <3> QED BY <1>3, <3>1 DEF CleanBytes
  <2>2. CASE ~(off <= b /\ b < off + size)
    <3> HIDE DEF c
    <3> QED BY <1>1, <1>4, <2>2
  <2> QED BY <2>1, <2>2
<1> HIDE DEF c
<1>6. Clean(c) /\ IsCopy(c, r, off, src, size)
  BY <1>2, <1>3, <1>4, <1>5 DEF Clean, IsCopy
<1> QED BY <1>6 DEF c

LEMMA CleanString ==
  ASSUME NEW name, name # "altered", NEW size \in Nat
  PROVE  CleanBytes(Bytes(name, size), size)
BY BytesAt, OtherByte DEF CleanBytes

-----------------------------------------------------------------------------
(* The two reports.                                                        *)

\* A report that the client can use: the fields that the verifier reads, at the
\* offsets of report.rs, a measurement m, and no altered byte.
WellFormed(o, m) ==
  /\ Clean(o)
  /\ \A i \in 0..3  : o[0 + i]   = Byte("version", i)
  /\ \A i \in 0..31 : o[80 + i]  = Byte("pubkey hash", i)
  /\ \A i \in 0..31 : o[112 + i] = Byte("zero", 0)
  /\ \A i \in 0..47 : o[144 + i] = m[i]

Signed(o) ==
  /\ \A i \in 0..47 : o[672 + i] = Byte("r", i)
  /\ \A i \in 0..47 : o[744 + i] = Byte("s", i)

\* A measurement: 48 bytes, none of them altered.
IsMeasurement(m) ==
  /\ m = [i \in 0..47 |-> m[i]]
  /\ \A i \in 0..47 : m[i] # ThatIsAltered

\* The signature is written next to the fields, not over them.
LEMMA SignedWellFormed ==
  ASSUME NEW u, NEW m, WellFormed(u, m)
  PROVE  /\ WellFormed(with_signature(u), m)
         /\ Signed(with_signature(u))
         /\ \A b \in 0..671 : with_signature(u)[b] = u[b]
<1> DEFINE br == Bytes("r", SIG_SCALAR_SIZE)
           bs == Bytes("s", SIG_SCALAR_SIZE)
           r1 == copy_from_slice(u, 672, br, 48)
           o  == copy_from_slice(r1, 744, bs, 48)
<1>1. \A i \in 0..47 : br[i] = Byte("r", i) /\ bs[i] = Byte("s", i)
  BY BytesAt DEF SIG_SCALAR_SIZE
<1>2. CleanBytes(br, 48) /\ CleanBytes(bs, 48)
  <2>1. SIG_SCALAR_SIZE = 48 /\ 48 \in Nat
    BY DEF SIG_SCALAR_SIZE
  <2> QED BY <2>1, CleanString, Zenon DEF br, bs
<1>3. with_signature(u) = o
  BY DEF with_signature
<1> HIDE DEF br, bs
<1>4. Clean(r1) /\ IsCopy(r1, u, 672, br, 48)
  <2>1. Clean(u)
    BY DEF WellFormed
  <2> QED BY <1>2, <2>1, CopyInto
<1> HIDE DEF r1
<1>5. Clean(o) /\ IsCopy(o, r1, 744, bs, 48)
  BY <1>2, <1>4, CopyInto
<1> HIDE DEF o
<1>6. \A b \in 0..719 : o[b] = r1[b]
  <2> SUFFICES ASSUME NEW b \in 0..719 PROVE o[b] = r1[b]
    OBVIOUS
  <2>1. b \in Places /\ ~(744 <= b /\ b < 744 + 48)
    BY PlacesAre
  <2> QED BY <1>5, <2>1, Zenon DEF IsCopy
<1>7. \A b \in 0..671 : o[b] = u[b]
  <2> SUFFICES ASSUME NEW b \in 0..671 PROVE o[b] = u[b]
    OBVIOUS
  <2>1. b \in Places /\ ~(672 <= b /\ b < 672 + 48) /\ b \in 0..719
    BY PlacesAre
  <2> QED BY <1>4, <1>6, <2>1, Zenon DEF IsCopy
<1>8. Signed(o)
  <2>1. ASSUME NEW i \in 0..47 PROVE o[672 + i] = Byte("r", i)
    <3>1. 672 + i \in 0..719 /\ i \in 0..(48 - 1)
      OBVIOUS
    <3>2. r1[672 + i] = br[i]
      BY <1>4, <3>1, Zenon DEF IsCopy
    <3>3. o[672 + i] = r1[672 + i]
      BY <1>6, <3>1, Zenon
    <3> QED BY <1>1, <3>2, <3>3
  <2>2. \A i \in 0..47 : o[744 + i] = Byte("s", i)
    BY <1>1, <1>5 DEF IsCopy
  <2> QED BY <2>1, <2>2 DEF Signed
<1>9. WellFormed(o, m)
  <2>1. \A i \in 0..3 : o[0 + i] = u[0 + i]
    BY <1>7
  <2>2. \A i \in 0..31 : o[80 + i] = u[80 + i] /\ o[112 + i] = u[112 + i]
    BY <1>7
  <2>3. \A i \in 0..47 : o[144 + i] = u[144 + i]
    BY <1>7
  <2>4. /\ \A i \in 0..3  : u[0 + i]   = Byte("version", i)
        /\ \A i \in 0..31 : u[80 + i]  = Byte("pubkey hash", i)
        /\ \A i \in 0..31 : u[112 + i] = Byte("zero", 0)
        /\ \A i \in 0..47 : u[144 + i] = m[i]
    BY DEF WellFormed
  <2>5. \A i \in 0..3  : o[0 + i] = Byte("version", i)
    BY <2>1, <2>4, Zenon
  <2>6. \A i \in 0..31 : o[80 + i] = Byte("pubkey hash", i)
    BY <2>2, <2>4, Zenon
  <2>7. \A i \in 0..31 : o[112 + i] = Byte("zero", 0)
    BY <2>2, <2>4, Zenon
  <2>8. \A i \in 0..47 : o[144 + i] = m[i]
    BY <2>3, <2>4, Zenon
  <2> QED BY <1>5, <2>5, <2>6, <2>7, <2>8 DEF WellFormed
<1> QED BY <1>3, <1>7, <1>8, <1>9

\* A copy keeps what lies before or behind it.
LEMMA Kept ==
  ASSUME NEW c, NEW r, NEW off \in Nat, NEW src, NEW size \in Nat,
         IsCopy(c, r, off, src, size),
         NEW lo \in Nat, NEW n \in Nat, lo + n <= 1184,
         lo + n <= off \/ off + size <= lo
  PROVE  Same(c, r, lo, n)
<1> SUFFICES ASSUME NEW i \in 0..(n - 1) PROVE c[lo + i] = r[lo + i]
  BY DEF Same
<1>1. lo + i \in Places /\ ~(off <= lo + i /\ lo + i < off + size)
  BY PlacesAre
<1> QED BY <1>1, Zenon DEF IsCopy

LEMMA ZerosClean ==
  /\ Clean(Zeros(REPORT_SIZE))
  /\ \A b \in Places : Zeros(REPORT_SIZE)[b] = Byte("zero", 0)
<1>1. /\ DOMAIN Zeros(REPORT_SIZE) = Places
      /\ \A b \in Places : Zeros(REPORT_SIZE)[b] = Byte("zero", 0)
  BY DEF Zeros, Places, Byte
<1> QED BY <1>1, OtherByte DEF Clean

LEMMA HashBytes ==
  /\ \A i \in 0..31 : Hash[i] = Byte("pubkey hash", i)
  /\ CleanBytes(Hash, 32)
<1>1. Hash = Bytes("pubkey hash", 32) /\ 32 \in Nat
  BY DEF Hash
<1>2. ASSUME NEW i \in 0..31 PROVE Hash[i] = Byte("pubkey hash", i)
  <2>1. i \in 0..(32 - 1)
    OBVIOUS
  <2> QED BY <1>1, <2>1, BytesAt, Zenon
<1> QED BY <1>1, <1>2, CleanString

\* The literal offsets of mock.rs are those of the fields.
LEMMA MockWellFormed ==
  ASSUME NEW m, IsMeasurement(m)
  PROVE  WellFormed(unsigned_mock_report(m), m)
<1> DEFINE z  == Zeros(REPORT_SIZE)
           bv == Bytes("version", 4)
           ba == Bytes("sig_algo", 4)
           r1 == copy_from_slice(z, 0, bv, 4)
           r2 == copy_from_slice(r1, 52, ba, 4)
           r3 == copy_from_slice(r2, 80, Hash, 32)
           r4 == copy_from_slice(r3, 144, m, 48)
<1>1. \A i \in 0..3 : bv[i] = Byte("version", i)
  BY BytesAt
<1>2. /\ CleanBytes(bv, 4) /\ CleanBytes(ba, 4)
      /\ CleanBytes(m, 48) /\ CleanBytes(Hash, 32)
  <2>1. CleanBytes(bv, 4) /\ CleanBytes(ba, 4)
    BY CleanString
  <2>2. CleanBytes(m, 48)
    BY DEF CleanBytes, IsMeasurement
  <2> QED BY <2>1, <2>2, HashBytes
<1>3. unsigned_mock_report(m) = r4
  BY DEF unsigned_mock_report, MEASUREMENT_SIZE
<1>4. Clean(z) /\ \A b \in Places : z[b] = Byte("zero", 0)
  BY ZerosClean
<1> HIDE DEF z, bv, ba
<1>5. Clean(r1) /\ IsCopy(r1, z, 0, bv, 4)
  BY <1>2, <1>4, CopyInto
<1> HIDE DEF r1
<1>6. Clean(r2) /\ IsCopy(r2, r1, 52, ba, 4)
  BY <1>2, <1>5, CopyInto
<1> HIDE DEF r2
<1>7. Clean(r3) /\ IsCopy(r3, r2, 80, Hash, 32)
  BY <1>2, <1>6, CopyInto
<1> HIDE DEF r3
<1>8. Clean(r4) /\ IsCopy(r4, r3, 144, m, 48)
  BY <1>2, <1>7, CopyInto
<1> HIDE DEF r4
<1>9. \A i \in 0..3 : r4[0 + i] = Byte("version", i)
  <2>1. Same(r4, r3, 0, 4)
    BY <1>8, Kept
  <2>2. Same(r3, r2, 0, 4)
    BY <1>7, Kept
  <2>3. Same(r2, r1, 0, 4)
    BY <1>6, Kept
  <2>4. \A i \in 0..3 : r1[0 + i] = bv[i]
    BY <1>5 DEF IsCopy
  <2> QED BY <1>1, <2>1, <2>2, <2>3, <2>4 DEF Same
<1>10. \A i \in 0..31 : r4[80 + i] = Byte("pubkey hash", i)
  <2>1. Same(r4, r3, 80, 32)
    BY <1>8, Kept
  <2>2. \A i \in 0..31 : r3[80 + i] = Hash[i]
    BY <1>7 DEF IsCopy
  <2>3. \A i \in 0..31 : Hash[i] = Byte("pubkey hash", i)
    BY HashBytes
  <2>4. \A i \in 0..31 : r4[80 + i] = r3[80 + i]
    BY <2>1 DEF Same
  <2> QED BY <2>2, <2>3, <2>4, Zenon
<1>11. \A i \in 0..31 : r4[112 + i] = Byte("zero", 0)
  <2>1. Same(r4, r3, 112, 32)
    BY <1>8, Kept
  <2>2. Same(r3, r2, 112, 32)
    BY <1>7, Kept
  <2>3. Same(r2, r1, 112, 32)
    BY <1>6, Kept
  <2>4. Same(r1, z, 112, 32)
    BY <1>5, Kept
  <2>5. \A i \in 0..31 : 112 + i \in Places
    BY PlacesAre
  <2> QED BY <1>4, <2>1, <2>2, <2>3, <2>4, <2>5 DEF Same
<1>12. \A i \in 0..47 : r4[144 + i] = m[i]
  BY <1>8 DEF IsCopy
<1> QED
  BY <1>3, <1>8, <1>9, <1>10, <1>11, <1>12 DEF WellFormed

\* What the firmware writes before report_data.
Covers(f, b) == b \in f.off..(f.off + f.size - 1)

FieldAt(b) == CHOOSE f \in FirmwareFields : Covers(f, b)

FirmwareBody ==
  [b \in Places |-> IF \E f \in FirmwareFields : Covers(f, b)
                    THEN Byte(FieldAt(b).name, b - FieldAt(b).off)
                    ELSE Byte("zero", 0)]

LEMMA FirmwareReportIs ==
  firmware_report
    = copy_from_slice(FirmwareBody, 80, copy_from_slice(Zeros(64), 0, Hash, 32), 64)
BY DEF firmware_report, FirmwareBody, FieldAt, Covers, Byte, Places

LEMMA FieldTypes ==
  ASSUME NEW f \in FirmwareFields
  PROVE  f.off \in Nat /\ f.size \in Nat /\ f.name # "altered"
BY DEF FirmwareFields

\* No two fields of the processor's report share a byte.
LEMMA FieldsApart ==
  ASSUME NEW f \in FirmwareFields, NEW g \in FirmwareFields, f # g
  PROVE  f.off + f.size <= g.off \/ g.off + g.size <= f.off
BY DEF FirmwareFields

LEMMA FieldBytes ==
  ASSUME NEW f \in FirmwareFields, NEW i \in 0..(f.size - 1),
         f.off + i \in Places
  PROVE  FirmwareBody[f.off + i] = Byte(f.name, i)
<1> DEFINE b == f.off + i
<1>1. f.off \in Nat /\ f.size \in Nat /\ b \in Nat /\ b - f.off = i
  BY FieldTypes
<1>2. Covers(f, b)
  BY <1>1 DEF Covers
<1>3. FieldAt(b) \in FirmwareFields /\ Covers(FieldAt(b), b)
  BY <1>2 DEF FieldAt
<1> HIDE DEF b
<1>4. FieldAt(b) = f
  <2> DEFINE g == FieldAt(b)
  <2>1. g.off \in Nat /\ g.size \in Nat
    BY <1>3, FieldTypes
  <2>2. /\ f.off <= b /\ b <= f.off + f.size - 1
        /\ g.off <= b /\ b <= g.off + g.size - 1
    BY <1>1, <1>2, <1>3, <2>1 DEF Covers
  <2> HIDE DEF g
  <2>3. ~(f.off + f.size <= g.off \/ g.off + g.size <= f.off)
    BY <1>1, <2>1, <2>2
  <2> QED BY <1>3, <2>3, FieldsApart DEF g
<1>5. FirmwareBody[b] = Byte(FieldAt(b).name, b - FieldAt(b).off)
  BY <1>2 DEF FirmwareBody, b
<1> QED BY <1>1, <1>4, <1>5 DEF b

LEMMA FirmwareBodyClean == Clean(FirmwareBody)
<1>1. ASSUME NEW b \in Places, \E f \in FirmwareFields : Covers(f, b)
      PROVE  Byte(FieldAt(b).name, b - FieldAt(b).off) # ThatIsAltered
  <2>1. FieldAt(b) \in FirmwareFields
    BY <1>1 DEF FieldAt
  <2>2. FieldAt(b).name # "altered"
    BY <2>1, FieldTypes
  <2> QED BY <2>2, OtherByte, Zenon
<1>2. Byte("zero", 0) # ThatIsAltered
  BY OtherByte
<1> QED BY <1>1, <1>2 DEF Clean, FirmwareBody

\* The user data of the request: the hash, then zeros.
LEMMA UserData ==
  LET ud == copy_from_slice(Zeros(64), 0, Hash, 32) IN
  /\ \A i \in 0..31 : ud[i] = Byte("pubkey hash", i)
  /\ \A i \in 0..31 : ud[32 + i] = Byte("zero", 0)
  /\ CleanBytes(ud, 64)
<1> DEFINE z  == Zeros(64)
           ud == copy_from_slice(z, 0, Hash, 32)
<1>1. \A i \in 0..63 : z[i] = Byte("zero", 0)
  BY DEF Zeros, Byte
<1>2. DOMAIN z = 0..63
  BY DEF Zeros
<1> HIDE DEF z
<1>3. ASSUME NEW i \in 0..31 PROVE ud[i] = Byte("pubkey hash", i)
  <2>1. i \in DOMAIN z /\ 0 <= i /\ i < 0 + 32 /\ i - 0 = i
    BY <1>2
  <2>2. ud[i] = Hash[i]
    BY <2>1 DEF copy_from_slice
  <2> QED BY <2>2, HashBytes
<1>4. ASSUME NEW i \in 0..31 PROVE ud[32 + i] = Byte("zero", 0)
  <2>1. 32 + i \in DOMAIN z /\ ~(32 + i < 0 + 32) /\ 32 + i \in 0..63
    BY <1>2
  <2>2. ud[32 + i] = z[32 + i]
    BY <2>1 DEF copy_from_slice
  <2> QED BY <1>1, <2>1, <2>2
<1> HIDE DEF ud
<1>5. ASSUME NEW i \in 0..(64 - 1) PROVE ud[i] # ThatIsAltered
  <2>1. CASE i \in 0..31
    BY <1>3, <2>1, OtherByte
  <2>2. CASE i \notin 0..31
    <3>1. i - 32 \in 0..31 /\ 32 + (i - 32) = i
      BY <2>2
    <3>2. ud[32 + (i - 32)] = Byte("zero", 0)
      BY <1>4, <3>1
    <3> QED BY <3>1, <3>2, OtherByte
  <2> QED BY <2>1, <2>2
<1>6. CleanBytes(ud, 64)
  BY <1>5 DEF CleanBytes
<1> QED BY <1>3, <1>4, <1>6 DEF ud, z

Image == Bytes("image", 48)

\* The fields of the processor's report are those of report.rs, and its
\* measurement is the image's.
LEMMA FirmwareWellFormed ==
  /\ WellFormed(firmware_report, Image)
  /\ \A i \in 0..63 : firmware_report[416 + i] = Byte("chip", i)
<1> DEFINE ud == copy_from_slice(Zeros(64), 0, Hash, 32)
           fb == FirmwareBody
           r  == copy_from_slice(fb, 80, ud, 64)
<1>1. firmware_report = r
  BY FirmwareReportIs
<1>2. /\ \A i \in 0..31 : ud[i] = Byte("pubkey hash", i)
      /\ \A i \in 0..31 : ud[32 + i] = Byte("zero", 0)
      /\ CleanBytes(ud, 64)
  BY UserData
<1> HIDE DEF ud
<1>3. ASSUME NEW f \in FirmwareFields, f.off + f.size <= 1184,
             NEW i \in 0..(f.size - 1)
      PROVE  fb[f.off + i] = Byte(f.name, i)
  <2>1. f.off \in Nat /\ f.size \in Nat
    BY FieldTypes
  <2>2. f.off + i \in Places
    BY <1>3, <2>1, InPlaces, Zenon
  <2> QED BY <2>2, FieldBytes
<1>4. \A i \in 0..3 : fb[0 + i] = Byte("version", i)
  <2> DEFINE f == [name |-> "version", off |-> 0, size |-> 4]
  <2>1. f \in FirmwareFields /\ f.off = 0 /\ f.size = 4 /\ f.name = "version"
    BY DEF FirmwareFields
  <2> HIDE DEF f, fb
  <2> QED BY <1>3, <2>1
<1>5. \A i \in 0..47 : fb[144 + i] = Byte("image", i)
  <2> DEFINE f == [name |-> "image", off |-> 144, size |-> 48]
  <2>1. f \in FirmwareFields /\ f.off = 144 /\ f.size = 48 /\ f.name = "image"
    BY DEF FirmwareFields
  <2> HIDE DEF f, fb
  <2> QED BY <1>3, <2>1
<1>6. \A i \in 0..63 : fb[416 + i] = Byte("chip", i)
  <2> DEFINE f == [name |-> "chip", off |-> 416, size |-> 64]
  <2>1. f \in FirmwareFields /\ f.off = 416 /\ f.size = 64 /\ f.name = "chip"
    BY DEF FirmwareFields
  <2> HIDE DEF f, fb
  <2> QED BY <1>3, <2>1
<1>7. Clean(fb)
  BY FirmwareBodyClean
<1> HIDE DEF fb
<1>8. Clean(r) /\ IsCopy(r, fb, 80, ud, 64)
  <2>1. CleanBytes(ud, 64)
    BY <1>2
  <2> QED BY <1>7, <2>1, CopyInto
<1> HIDE DEF r
<1>9. \A i \in 0..63 : r[80 + i] = ud[i]
  BY <1>8 DEF IsCopy
<1>10. ASSUME NEW i \in 0..31 PROVE r[80 + i] = Byte("pubkey hash", i)
  <2>1. i \in 0..63
    OBVIOUS
  <2> QED BY <1>2, <1>9, <2>1, Zenon
<1>11. ASSUME NEW i \in 0..31 PROVE r[112 + i] = Byte("zero", 0)
  <2>1. 32 + i \in 0..63 /\ 80 + (32 + i) = 112 + i
    OBVIOUS
  <2>2. r[80 + (32 + i)] = ud[32 + i]
    BY <1>9, <2>1
  <2>3. ud[32 + i] = Byte("zero", 0)
    BY <1>2, Zenon
  <2> QED BY <2>1, <2>2, <2>3
<1>12. Same(r, fb, 0, 4) /\ Same(r, fb, 144, 48) /\ Same(r, fb, 416, 64)
  BY <1>8, Kept
<1>13. \A i \in 0..3 : r[0 + i] = Byte("version", i)
  BY <1>4, <1>12 DEF Same
<1>14. \A i \in 0..47 : r[144 + i] = Image[i]
  <2>1. \A i \in 0..47 : r[144 + i] = Byte("image", i)
    BY <1>5, <1>12 DEF Same
  <2>2. \A i \in 0..47 : Image[i] = Byte("image", i)
    BY BytesAt DEF Image
  <2> QED BY <2>1, <2>2, Zenon
<1>15. \A i \in 0..63 : r[416 + i] = Byte("chip", i)
  BY <1>6, <1>12 DEF Same
<1>16. WellFormed(r, Image)
  BY <1>8, <1>10, <1>11, <1>13, <1>14 DEF WellFormed
<1> QED BY <1>1, <1>15, <1>16

-----------------------------------------------------------------------------
(* What the client reads.                                                  *)

\* A value of this name, or zeros, from place off on.
NamedAt(r, off, size, name) ==
  \A i \in 0..(size - 1) : r[off + i] = Byte(name, i)
ZerosAt(r, off, size) ==
  \A i \in 0..(size - 1) : r[off + i] = Byte("zero", 0)

LEMMA SliceIsBytes ==
  ASSUME NEW r, NEW off \in Nat, NEW size \in Nat, NEW name,
         NamedAt(r, off, size, name)
  PROVE  slice(r, off, size) = Bytes(name, size)
BY DEF slice, Bytes, Byte, NamedAt

LEMMA SliceIsZeros ==
  ASSUME NEW r, NEW off \in Nat, NEW size \in Nat, ZerosAt(r, off, size)
  PROVE  slice(r, off, size) = Zeros(size)
BY DEF slice, Zeros, Byte, ZerosAt

\* The first and the second half of report_data.
LEMMA DataHalves ==
  ASSUME NEW r
  PROVE  /\ slice(report_data(r), 0, 32) = slice(r, 80, 32)
         /\ slice(report_data(r), 32, 32) = slice(r, 112, 32)
<1>1. report_data(r) = slice(r, 80, 64)
  BY DEF report_data, OFF_REPORT_DATA, REPORT_DATA_SIZE
<1>2. slice(slice(r, 80, 64), 0, 32) = slice(r, 80 + 0, 32)
  BY SliceOfSlice
<1>3. slice(slice(r, 80, 64), 32, 32) = slice(r, 80 + 32, 32)
  BY SliceOfSlice
<1> QED BY <1>1, <1>2, <1>3

\* The accessors return what the writers put there.
LEMMA ReadFields ==
  ASSUME NEW o, NEW m, WellFormed(o, m), m = [i \in 0..47 |-> m[i]]
  PROVE  /\ version(o) = Bytes("version", 4)
         /\ slice(report_data(o), 0, 32) = Hash
         /\ slice(report_data(o), 32, 32) = Zeros(32)
         /\ slice(o, 144, 48) = m
<1>0. 0..3 = 0..(4 - 1) /\ 0..31 = 0..(32 - 1)
  OBVIOUS
<1>1. NamedAt(o, 0, 4, "version")
  BY <1>0, Zenon DEF WellFormed, NamedAt
<1>2. NamedAt(o, 80, 32, "pubkey hash")
  BY <1>0, Zenon DEF WellFormed, NamedAt
<1>3. ZerosAt(o, 112, 32)
  BY <1>0, Zenon DEF WellFormed, ZerosAt
<1>4. \A i \in 0..47 : o[144 + i] = m[i]
  BY DEF WellFormed
<1>5. slice(o, 0, 4) = Bytes("version", 4)
  BY <1>1, SliceIsBytes
<1>6. slice(o, 80, 32) = Bytes("pubkey hash", 32)
  BY <1>2, SliceIsBytes
<1>7. slice(o, 112, 32) = Zeros(32)
  BY <1>3, SliceIsZeros
<1>8. slice(o, 144, 48) = m
  <2>1. slice(o, 144, 48) = [i \in 0..47 |-> o[144 + i]]
    BY DEF slice
  <2> QED BY <1>4, <2>1
<1>9. version(o) = slice(o, 0, 4)
  BY DEF version, OFF_VERSION
<1> QED BY <1>5, <1>6, <1>7, <1>8, <1>9, DataHalves DEF Hash

LEMMA MeasurementIs ==
  ASSUME NEW r
  PROVE  /\ measurement(r) = slice(r, 144, 48)
         /\ extract_measurement(r) = slice(r, 144, 48)
BY DEF measurement, extract_measurement, OFF_MEASUREMENT, MEASUREMENT_SIZE

LEMMA ReadSignature ==
  ASSUME NEW o, Signed(o)
  PROVE  /\ slice(o, 672, 48) = Bytes("r", 48)
         /\ slice(o, 744, 48) = Bytes("s", 48)
<1>0. 0..47 = 0..(48 - 1)
  OBVIOUS
<1>1. NamedAt(o, 672, 48, "r")
  BY <1>0, Zenon DEF Signed, NamedAt
<1>2. NamedAt(o, 744, 48, "s")
  BY <1>0, Zenon DEF Signed, NamedAt
<1>3. slice(o, 672, 48) = Bytes("r", 48)
  BY <1>1, SliceIsBytes
<1>4. slice(o, 744, 48) = Bytes("s", 48)
  BY <1>2, SliceIsBytes
<1> QED BY <1>3, <1>4

\* The signature check compares three parts of the report.
LEMMA SignatureParts ==
  ASSUME NEW r
  PROVE  verify_signature(r) <=> /\ slice(r, 672, 48) = Bytes("r", 48)
                                 /\ slice(r, 744, 48) = Bytes("s", 48)
                                 /\ slice(r, 0, 672) = over
<1>1. /\ sig_r(r) = slice(r, 672, 48) /\ sig_s(r) = slice(r, 744, 48)
      /\ signed_region(r) = slice(r, 0, 672)
  BY DEF sig_r, sig_s, signed_region, OFF_SIG_R, OFF_SIG_S, SIG_SCALAR_SIZE,
         SIGNED_REGION_SIZE
<1>2. TheSignature(over)
        = [r |-> Bytes("r", 48), s |-> Bytes("s", 48), over |-> over]
  BY DEF TheSignature, SIG_SCALAR_SIZE
<1>3. \A a, b, c, d, e, f : [r |-> a, s |-> b, over |-> c]
                              = [r |-> d, s |-> e, over |-> f]
                            <=> a = d /\ b = e /\ c = f
  OBVIOUS
<1> QED BY <1>1, <1>2, <1>3 DEF verify_signature

\* A report agrees with another one on every byte that a check covers.
Agrees(r, o) == \A b \in Places \ Padding : r[b] = o[b]

LEMMA AgreesIs ==
  ASSUME NEW r, NEW o
  PROVE  Agrees(r, o) <=> /\ slice(r, 0, 672) = slice(o, 0, 672)
                          /\ slice(r, 672, 48) = slice(o, 672, 48)
                          /\ slice(r, 744, 48) = slice(o, 744, 48)
<1>1. ASSUME Agrees(r, o)
      PROVE  Same(r, o, 0, 672) /\ Same(r, o, 672, 48) /\ Same(r, o, 744, 48)
  <2>1. Same(r, o, 0, 672)
    <3>1. ASSUME NEW i \in 0..(672 - 1) PROVE r[0 + i] = o[0 + i]
      <4>1. 0 + i = i /\ i \in 0..671 /\ i \in Nat /\ i < 672
        OBVIOUS
      <4>2. i \in Places
        BY <4>1, PlacesAre
      <4>3. i \notin Padding
        <5>1. ~(720 <= i) /\ ~(792 <= i)
          BY <4>1
        <5>2. \A x \in Padding : 720 <= x \/ 792 <= x
          BY DEF Padding
        <5> QED BY <5>1, <5>2, Zenon
      <4> QED BY <1>1, <4>1, <4>2, <4>3 DEF Agrees
    <3> QED BY <3>1, Zenon DEF Same
  <2>2. ASSUME NEW off \in {672, 744} PROVE Same(r, o, off, 48)
    <3>1. ASSUME NEW i \in 0..(48 - 1) PROVE r[off + i] = o[off + i]
      <4>1. off + i \in Places \ Padding
        BY PlacesAre DEF Padding, REPORT_SIZE
      <4> QED BY <1>1, <4>1, Zenon DEF Agrees
    <3> QED BY <3>1, Zenon DEF Same
  <2> QED BY <2>1, <2>2
<1>2. ASSUME Same(r, o, 0, 672), Same(r, o, 672, 48), Same(r, o, 744, 48),
             NEW b \in Places \ Padding
      PROVE  r[b] = o[b]
  <2>1. b \in Nat /\ (b < 672 \/ (672 <= b /\ b < 720) \/ (744 <= b /\ b < 792))
    BY PlacesAre DEF Padding, REPORT_SIZE
  <2>2. CASE b < 672
    BY <1>2, <2>1, <2>2, SamePlace
  <2>3. CASE 672 <= b /\ b < 720
    BY <1>2, <2>1, <2>3, SamePlace
  <2>4. CASE 744 <= b /\ b < 792
    BY <1>2, <2>1, <2>4, SamePlace
  <2> QED BY <2>1, <2>2, <2>3, <2>4
<1>3. Agrees(r, o) <=> /\ Same(r, o, 0, 672)
                       /\ Same(r, o, 672, 48)
                       /\ Same(r, o, 744, 48)
  BY <1>1, <1>2, Zenon DEF Agrees
<1> QED BY <1>3, SlicesAgree

\* Parts of the signed region.
LEMMA AgreesOnFields ==
  ASSUME NEW r, NEW o, slice(r, 0, 672) = slice(o, 0, 672)
  PROVE  /\ slice(r, 80, 32) = slice(o, 80, 32)
         /\ slice(r, 144, 48) = slice(o, 144, 48)
<1>1. Same(r, o, 0, 672)
  BY SlicesAgree
<1>2. ASSUME NEW off \in Nat, NEW size \in Nat, off + size <= 672
      PROVE  slice(r, off, size) = slice(o, off, size)
  <2>1. ASSUME NEW i \in 0..(size - 1) PROVE r[off + i] = o[off + i]
    <3>1. off + i \in Nat /\ 0 <= off + i /\ off + i < 0 + 672
      BY <1>2
    <3> QED BY <1>1, <3>1, SamePlace
  <2>2. Same(r, o, off, size)
    BY <2>1 DEF Same
  <2> QED BY <2>2, SlicesAgree
<1> QED BY <1>2

-----------------------------------------------------------------------------
(* The verdict on any byte string.                                         *)

\* For a report o that was built and signed, verify accepts r exactly if it
\* agrees with o on every byte that a check covers.
LEMMA VerdictIs ==
  ASSUME NEW o, NEW m, WellFormed(o, m), m = [i \in 0..47 |-> m[i]], Signed(o),
         over = signed_region(o), NEW r, NEW expected \in {Zeros(48), m}
  PROVE  verify(r, expected) = "Ok" <=> Agrees(r, o)
<1>1. over = slice(o, 0, 672)
  BY DEF signed_region, SIGNED_REGION_SIZE
<1>2. verify_signature(r) <=> Agrees(r, o)
  BY <1>1, SignatureParts, ReadSignature, AgreesIs
<1>3. ASSUME Agrees(r, o)
      PROVE  slice(report_data(r), 0, 32) = Hash /\ measurement(r) = m
  BY <1>3, AgreesIs, AgreesOnFields, DataHalves, ReadFields, MeasurementIs
<1> QED BY <1>2, <1>3 DEF verify

LEMMA ImageIsMeasurement == IsMeasurement(Image)
<1>1. Image = [i \in 0..47 |-> Image[i]]
  BY DEF Image, Bytes
<1>2. ASSUME NEW i \in 0..47 PROVE Image[i] # ThatIsAltered
  BY BytesAt, OtherByte DEF Image
<1> QED BY <1>1, <1>2, Zenon DEF IsMeasurement

\* The signature leaves the signed region as it was.
LEMMA SignedRegionKept ==
  ASSUME NEW u, NEW m, WellFormed(u, m)
  PROVE  signed_region(with_signature(u)) = signed_region(u)
<1> DEFINE o == with_signature(u)
<1>1. \A b \in 0..671 : o[b] = u[b]
  BY SignedWellFormed
<1> HIDE DEF o
<1>2. ASSUME NEW i \in 0..(672 - 1) PROVE o[0 + i] = u[0 + i]
  <2>1. 0 + i \in 0..671
    OBVIOUS
  <2> QED BY <1>1, <2>1, Zenon
<1>3. Same(o, u, 0, 672)
  BY <1>2, Zenon DEF Same
<1>4. slice(o, 0, 672) = slice(u, 0, 672)
  BY <1>3, SlicesAgree
<1> QED BY <1>4 DEF signed_region, SIGNED_REGION_SIZE, o

\* The report that sign_mock_report returns for a measurement.
MockReport(m) == with_signature(unsigned_mock_report(m))

LEMMA MockReportIs ==
  ASSUME NEW m, IsMeasurement(m)
  PROVE  /\ WellFormed(MockReport(m), m)
         /\ Signed(MockReport(m))
         /\ signed_region(MockReport(m)) = signed_region(unsigned_mock_report(m))
<1>1. WellFormed(unsigned_mock_report(m), m)
  BY MockWellFormed
<1>2. WellFormed(MockReport(m), m) /\ Signed(MockReport(m))
  BY <1>1, SignedWellFormed, Zenon DEF MockReport
<1>3. signed_region(MockReport(m)) = signed_region(unsigned_mock_report(m))
  BY <1>1, SignedRegionKept, Zenon DEF MockReport
<1> QED BY <1>2, <1>3

\* In mock mode the client accepts a byte string exactly if it agrees with the
\* report that sign_mock_report made, for any measurement, on every byte outside
\* the padding, whether an expected measurement is given or not: no combination
\* of old bytes and new ones passes verify, and nothing that was signed is
\* refused.
THEOREM OnlySignedBytesPass ==
  ASSUME NEW m, IsMeasurement(m), over = signed_region(unsigned_mock_report(m)),
         NEW r, NEW expected \in {Zeros(48), m}
  PROVE  verify(r, expected) = "Ok"
           <=> \A b \in Places \ Padding : r[b] = MockReport(m)[b]
<1> DEFINE o == MockReport(m)
<1>1. m = [i \in 0..47 |-> m[i]]
  BY Zenon DEF IsMeasurement
<1>2. WellFormed(o, m) /\ Signed(o) /\ over = signed_region(o)
  BY MockReportIs
<1> HIDE DEF o
<1>3. verify(r, expected) = "Ok" <=> Agrees(r, o)
  BY <1>1, <1>2, VerdictIs
<1> QED BY <1>3 DEF Agrees, o

-----------------------------------------------------------------------------
(* The runs of ReportLayout.                                               *)

\* The report of this run.
TheReport == IF mode = "Mock" THEN MockReport(measured) ELSE firmware_report

MachineOK ==
  /\ mode \in {"Mock", "AmdSevSnp"}
  /\ measured \in {Zeros(48), Image}
  /\ mode = "AmdSevSnp" => measured = Image

\* The report and what is known of it, from stage to stage.
ProgressOK ==
  /\ stage \in {"start", "built", "served", "altered", "verified"}
  /\ stage = "built" => mode = "AmdSevSnp"
  /\ stage = "altered" => mode = "Mock"
  /\ stage \in {"served", "altered"} /\ mode = "Mock" =>
       over = signed_region(unsigned_mock_report(measured))
  /\ stage \in {"built", "served"} => raw = TheReport
  /\ stage \in {"start", "built", "served"} => altered = None
  /\ stage \in {"served", "altered"} => printed = measured
  /\ stage = "altered" => /\ altered \in Places
                          /\ raw = [TheReport EXCEPT ![altered] = ThatIsAltered]
  /\ stage # "verified" => verdict = None

LayoutInv == MachineOK /\ ProgressOK /\ AcceptedIffIntact

LEMMA MeasuredIs == MachineOK => IsMeasurement(measured)
<1>1. IsMeasurement(Zeros(48))
  <2>1. Zeros(48) = [i \in 0..47 |-> Zeros(48)[i]]
    BY DEF Zeros
  <2>2. ASSUME NEW i \in 0..47 PROVE Zeros(48)[i] # ThatIsAltered
    <3>1. Zeros(48)[i] = Byte("zero", 0)
      BY DEF Zeros, Byte
    <3> QED BY <3>1, OtherByte
  <2> QED BY <2>1, <2>2, Zenon DEF IsMeasurement
<1> QED BY <1>1, ImageIsMeasurement DEF MachineOK

LEMMA ReportIs ==
  ASSUME MachineOK
  PROVE  /\ measured = [i \in 0..47 |-> measured[i]]
         /\ WellFormed(TheReport, measured)
         /\ Clean(TheReport)
<1>1. measured = [i \in 0..47 |-> measured[i]]
  BY MeasuredIs, Zenon DEF IsMeasurement
<1>2. WellFormed(TheReport, measured)
  <2>1. CASE mode = "Mock"
    BY <2>1, MeasuredIs, MockReportIs DEF TheReport
  <2>2. CASE mode # "Mock"
    BY <2>2, FirmwareWellFormed DEF TheReport, MachineOK
  <2> QED BY <2>1, <2>2
<1> QED BY <1>1, <1>2 DEF WellFormed

\* The processor's report names its chip.
LEMMA ChipIs == chip_id(firmware_report) = Bytes("chip", 64)
<1>1. ASSUME NEW i \in 0..(64 - 1) PROVE firmware_report[416 + i] = Byte("chip", i)
  <2>1. i \in 0..63
    OBVIOUS
  <2> QED BY <2>1, FirmwareWellFormed, Zenon
<1>2. NamedAt(firmware_report, 416, 64, "chip")
  BY <1>1, Zenon DEF NamedAt
<1>3. slice(firmware_report, 416, 64) = Bytes("chip", 64)
  BY <1>2, SliceIsBytes
<1> QED BY <1>3 DEF chip_id, OFF_CHIP_ID, CHIP_ID_SIZE

\* One altered byte is seen exactly if it is outside the padding.
LEMMA AlteredAgrees ==
  ASSUME NEW o, Clean(o), NEW b \in Places
  PROVE  (\A x \in Places \ Padding :
            [o EXCEPT ![b] = ThatIsAltered][x] = o[x]) <=> b \in Padding
<1> DEFINE r == [o EXCEPT ![b] = ThatIsAltered]
<1>1. r[b] = ThatIsAltered /\ \A x \in Places : x # b => r[x] = o[x]
  BY DEF Clean
<1>2. o[b] # ThatIsAltered
  BY DEF Clean
<1> HIDE DEF r
<1>3. (\A x \in Places \ Padding : r[x] = o[x]) <=> b \in Padding
  BY <1>1, <1>2, Zenon
<1> QED BY <1>3 DEF r

-----------------------------------------------------------------------------
(* The invariant is inductive.                                             *)

LEMMA LayoutInit == Init => LayoutInv
<1> SUFFICES ASSUME Init PROVE LayoutInv
  OBVIOUS
<1>1. MachineOK
  BY DEF Init, MachineOK, Image
<1>2. ProgressOK
  BY DEF Init, ProgressOK
<1>3. AcceptedIffIntact
  BY DEF Init, AcceptedIffIntact
<1> QED BY <1>1, <1>2, <1>3 DEF LayoutInv

\* The machine does not change, and neither does what is signed.
LEMMA MachineStays ==
  ASSUME MachineOK, UNCHANGED <<mode, measured>>
  PROVE  MachineOK' /\ TheReport' = TheReport
BY DEF MachineOK, TheReport, Image

\* No verdict, no claim.
LEMMA NoVerdict ==
  ASSUME ProgressOK, stage # "verified", UNCHANGED verdict
  PROVE  AcceptedIffIntact' /\ verdict' = None
BY DEF ProgressOK, AcceptedIffIntact

LEMMA SignMockReportKeeps == LayoutInv /\ SignMockReport => LayoutInv'
<1> SUFFICES ASSUME LayoutInv, SignMockReport PROVE LayoutInv'
  OBVIOUS
<1>1. /\ MachineOK' /\ TheReport' = TheReport
      /\ AcceptedIffIntact' /\ verdict' = None
  BY MachineStays, NoVerdict DEF LayoutInv, SignMockReport
<1>2. /\ raw' = TheReport' /\ measured' = measured
      /\ over' = signed_region(unsigned_mock_report(measured'))
  BY <1>1 DEF SignMockReport, TheReport, MockReport
<1>3. /\ stage' = "served" /\ altered' = None
      /\ printed' = measured
  BY DEF LayoutInv, ProgressOK, SignMockReport
<1>4. ProgressOK'
  BY <1>1, <1>2, <1>3 DEF ProgressOK
<1> QED BY <1>1, <1>4 DEF LayoutInv

LEMMA GetSnpReportKeeps == LayoutInv /\ GetSnpReport => LayoutInv'
<1> SUFFICES ASSUME LayoutInv, GetSnpReport PROVE LayoutInv'
  OBVIOUS
<1>1. /\ MachineOK' /\ TheReport' = TheReport
      /\ AcceptedIffIntact' /\ verdict' = None
  BY MachineStays, NoVerdict DEF LayoutInv, GetSnpReport
<1>2. raw' = TheReport'
  BY <1>1 DEF GetSnpReport, TheReport
<1>3. stage' = "built" /\ altered' = None /\ mode' = "AmdSevSnp"
  BY DEF LayoutInv, ProgressOK, GetSnpReport
<1>4. ProgressOK'
  BY <1>1, <1>2, <1>3 DEF ProgressOK
<1> QED BY <1>1, <1>4 DEF LayoutInv

LEMMA RequestVcekKeeps == LayoutInv /\ RequestVcek => LayoutInv'
<1> SUFFICES ASSUME LayoutInv, RequestVcek PROVE LayoutInv'
  OBVIOUS
<1>1. /\ MachineOK' /\ TheReport' = TheReport
      /\ AcceptedIffIntact' /\ verdict' = None
  BY MachineStays, NoVerdict DEF LayoutInv, RequestVcek
<1>2. raw = TheReport /\ altered = None /\ mode' = "AmdSevSnp"
  BY DEF LayoutInv, ProgressOK, RequestVcek
<1>3. printed' = measured
  <2>1. slice(TheReport, 144, 48) = measured
    BY ReportIs, ReadFields DEF LayoutInv
  <2> QED BY <1>2, <2>1 DEF RequestVcek, extract_measurement
<1>4. /\ stage' = "served" /\ measured' = measured
      /\ over' = over /\ raw' = raw /\ altered' = altered
  BY DEF RequestVcek
<1>5. ProgressOK'
  BY <1>1, <1>2, <1>3, <1>4 DEF ProgressOK
<1> QED BY <1>1, <1>5 DEF LayoutInv

LEMMA AlterKeeps ==
  ASSUME NEW b \in 0..(REPORT_SIZE - 1), LayoutInv, Alter(b)
  PROVE  LayoutInv'
<1>1. /\ MachineOK' /\ TheReport' = TheReport
      /\ AcceptedIffIntact' /\ verdict' = None
  BY MachineStays, NoVerdict DEF LayoutInv, Alter
<1>2. /\ over = signed_region(unsigned_mock_report(measured))
      /\ raw = TheReport /\ printed = measured
  BY DEF LayoutInv, ProgressOK, Alter
<1>3. raw' = [TheReport EXCEPT ![b] = ThatIsAltered]
  BY <1>2 DEF Alter, ThatIsAltered, Byte
<1>4. /\ stage' = "altered" /\ altered' = b /\ b \in Places
      /\ measured' = measured /\ over' = over /\ printed' = printed
  BY DEF Alter, Places
<1>5. raw' = [TheReport' EXCEPT ![altered'] = ThatIsAltered]
  BY <1>1, <1>3, <1>4
<1>6. ProgressOK'
  <2>1. mode' = "Mock"
    BY DEF Alter
  <2> QED BY <1>1, <1>2, <1>4, <1>5, <2>1 DEF ProgressOK
<1> QED BY <1>1, <1>6 DEF LayoutInv

\* What the client reads is the report, or the report with one byte altered.
LEMMA VerifyKeeps == LayoutInv /\ Verify => LayoutInv'
<1> SUFFICES ASSUME LayoutInv, Verify PROVE LayoutInv'
  OBVIOUS
<1> DEFINE Seen == \A b \in Places \ Padding : raw[b] = TheReport[b]
<1>1. MachineOK'
  BY MachineStays DEF LayoutInv, Verify
<1>2. ProgressOK'
  BY DEF LayoutInv, ProgressOK, Verify
<1>3. PICK expected \in {Zeros(48), printed} : verdict' = verify(raw, expected)
  BY DEF Verify
<1>4. /\ printed = measured /\ mode = "Mock"
      /\ over = signed_region(unsigned_mock_report(measured))
  BY DEF LayoutInv, ProgressOK, Verify
<1>5. verify(raw, expected) = "Ok" <=> Seen
  <2>1. IsMeasurement(measured) /\ TheReport = MockReport(measured)
    BY <1>4, MeasuredIs DEF LayoutInv, TheReport
  <2>2. expected \in {Zeros(48), measured}
    BY <1>3, <1>4
  <2> QED BY <1>4, <2>1, <2>2, OnlySignedBytesPass
<1>6. Seen <=> altered = None \/ altered \in Padding
  <2>1. CASE stage = "served"
    BY <2>1 DEF LayoutInv, ProgressOK
  <2>2. CASE stage = "altered"
    <3>1. /\ altered \in Places
          /\ raw = [TheReport EXCEPT ![altered] = ThatIsAltered]
      BY <2>2 DEF LayoutInv, ProgressOK
    <3>2. Clean(TheReport)
      BY ReportIs DEF LayoutInv
    <3>3. Seen <=> altered \in Padding
      BY <3>1, <3>2, AlteredAgrees
    <3>4. altered # None
      BY <3>1, PlacesAre, NoneAssumption
    <3> QED BY <3>3, <3>4
  <2> QED BY <2>1, <2>2 DEF Verify
<1>7. altered' = altered
  BY DEF Verify
<1> HIDE DEF Seen
<1>8. AcceptedIffIntact'
  BY <1>3, <1>5, <1>6, <1>7 DEF AcceptedIffIntact
<1> QED BY <1>1, <1>2, <1>8 DEF LayoutInv

\* From the signer to the verdict, at every stage the report is the signed one up
\* to the one byte that was altered on the way.
THEOREM LayoutInvariant == Spec => []LayoutInv
<1>1. LayoutInv /\ [Next]_vars => LayoutInv'
  <2> SUFFICES ASSUME LayoutInv, [Next]_vars PROVE LayoutInv'
    OBVIOUS
  <2>1. CASE SignMockReport
    BY <2>1, SignMockReportKeeps
  <2>2. CASE GetSnpReport
    BY <2>2, GetSnpReportKeeps
  <2>3. CASE RequestVcek
    BY <2>3, RequestVcekKeeps
  <2>4. CASE \E b \in 0..(REPORT_SIZE - 1) : Alter(b)
    BY <2>4, AlterKeeps
  <2>5. CASE Verify
    BY <2>5, VerifyKeeps
  <2>6. CASE UNCHANGED vars
    BY <2>6 DEF vars, LayoutInv, MachineOK, ProgressOK, AcceptedIffIntact,
                TheReport, Image
  <2> QED BY <2>1, <2>2, <2>3, <2>4, <2>5, <2>6 DEF Next
<1> QED BY <1>1, LayoutInit, PTL DEF Spec

-----------------------------------------------------------------------------

\* Changing one byte of a mock report on the way is noticed exactly if the byte is
\* outside the padding.
THEOREM VerdictIsRight == Spec => []AcceptedIffIntact
<1>1. LayoutInv => AcceptedIffIntact
  BY DEF LayoutInv
<1> QED BY <1>1, LayoutInvariant, PTL

\* The gateway prints the measurement of its machine (tls.rs), and it is the one
\* that measurement() of report.rs returns.
THEOREM PrintedMeasurementIsRight == Spec => []PrintedIsMeasured
<1>1. LayoutInv => PrintedIsMeasured
  <2> SUFFICES ASSUME LayoutInv, stage = "served"
               PROVE  printed = measured /\ measurement(raw) = measured
    BY DEF PrintedIsMeasured
  <2>1. raw = TheReport /\ printed = measured
    BY DEF LayoutInv, ProgressOK
  <2>2. slice(TheReport, 144, 48) = measured
    BY ReportIs, ReadFields DEF LayoutInv
  <2> QED BY <2>1, <2>2, MeasurementIs
<1> QED BY <1>1, LayoutInvariant, PTL

\* The accessors of report.rs return what mock.rs and the firmware wrote.
THEOREM FieldsAreReadBack == Spec => []ReadBack
<1>1. LayoutInv => ReadBack
  <2> SUFFICES ASSUME LayoutInv, stage = "served"
               PROVE  /\ version(raw) = Bytes("version", 4)
                      /\ slice(report_data(raw), 0, 32) = Hash
                      /\ slice(report_data(raw), 32, 32) = Zeros(32)
                      /\ mode = "AmdSevSnp" => chip_id(raw) = Bytes("chip", 64)
    BY DEF ReadBack
  <2>1. raw = TheReport
    BY DEF LayoutInv, ProgressOK
  <2>2. mode = "AmdSevSnp" => chip_id(TheReport) = Bytes("chip", 64)
    BY ChipIs DEF TheReport
  <2>3. WellFormed(TheReport, measured)
    BY ReportIs DEF LayoutInv
  <2> QED BY <2>1, <2>2, <2>3, ReportIs, ReadFields DEF LayoutInv
<1> QED BY <1>1, LayoutInvariant, PTL

=============================================================================
