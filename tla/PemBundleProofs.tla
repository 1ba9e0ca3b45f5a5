-------------------------- MODULE PemBundleProofs --------------------------
(***************************************************************************)
(* The loop invariant of parse_pem_bundle and what it gives for texts of   *)
(* any length.                                                             *)
(***************************************************************************)
EXTENDS PemBundle, TLAPS

\* Line b opened the block that the loop is in.
Opened(b) ==
  /\ b \in 1..next
  /\ pem[b] = "BEGIN"
  /\ \A i \in (b + 1)..next : pem[i] \notin {"BEGIN", "END"}

\* Between two lines, in_cert and b64 describe the open block.
Position ==
  outcome = "reading" =>
    IF in_cert
    THEN \E b \in 1..next :
           Opened(b) /\ b64 = {i \in (b + 1)..next : pem[i] # "blank"}
    ELSE \A b \in 1..next : pem[b] = "BEGIN" =>
           \E e \in (b + 1)..next : pem[e] = "END"

\* Every certificate is a block that decodes, in the order of the text.
CertsOK ==
  /\ Len(certs) = Len(closedBy)
  /\ \A k \in DOMAIN closedBy :
       /\ \E b \in 1..Len(pem) :
            /\ Block(b, closedBy[k])
            /\ certs[k] = Body(b, closedBy[k])
            /\ Decodes(certs[k])
       /\ closedBy[k] \in 1..next
       /\ \A j \in DOMAIN closedBy : j < k => closedBy[j] < closedBy[k]

\* Until an error, every END that was read has its certificate.
AllClosed ==
  outcome \in {"reading", "Ok"} =>
    \A e \in 1..next : pem[e] = "END" => \E k \in DOMAIN closedBy : closedBy[k] = e

\* What the end of the loop means for the whole text.
Ended ==
  /\ outcome = "Ok" =>
       /\ next = Len(pem)
       /\ \A b \in 1..next : pem[b] = "BEGIN" =>
            \E e \in (b + 1)..next : pem[e] = "END"
  /\ outcome \in Errors => ~WellFormed

\* The types, the flag apart.
Types ==
  /\ pem \in Seq(LineKind)
  /\ next \in 0..Len(pem)
  /\ b64 \subseteq Nat
  /\ certs \in Seq(SUBSET Nat)
  /\ closedBy \in Seq(Nat)
  /\ outcome \in {"reading", "Ok"} \cup Errors

LoopInv == Types /\ in_cert \in BOOLEAN /\ Position /\ CertsOK
             /\ AllClosed /\ Ended

-----------------------------------------------------------------------------

\* A block has one opening line only: the last marker before its END.
LEMMA OneOpening ==
  ASSUME Types, NEW b \in 1..Len(pem), NEW c \in 1..Len(pem),
         NEW e \in 1..Len(pem), Block(b, e), Block(c, e)
  PROVE  b = c
  BY DEF Types, Block, LineKind

\* Facts about the text and the certificates survive a step that keeps them.
LEMMA CertsFrame ==
  ASSUME Types, CertsOK, UNCHANGED <<pem, certs, closedBy>>,
         next' \in Nat, next' >= next
  PROVE  CertsOK'
<1>1. \A b, f : (Block(b, f)' <=> Block(b, f)) /\ Body(b, f)' = Body(b, f)
  BY DEF Block, Body
<1>2. \A lines : Decodes(lines)' <=> Decodes(lines)
  BY DEF Decodes
<1>3. \A k \in DOMAIN closedBy : closedBy[k] \in 1..next'
  BY DEF Types, CertsOK
<1>. QED
  BY <1>1, <1>2, <1>3 DEF CertsOK

\* So does the reference definition.
LEMMA TextFrame ==
  ASSUME pem' = pem PROVE WellFormed' <=> WellFormed
<1>1. \A b, f : (Block(b, f)' <=> Block(b, f)) /\ Body(b, f)' = Body(b, f)
  BY DEF Block, Body
<1>2. \A lines : Decodes(lines)' <=> Decodes(lines)
  BY DEF Decodes
<1>. QED
  BY <1>1, <1>2 DEF WellFormed

\* The initial state satisfies the loop invariant.
LEMMA InitLoop == Init => LoopInv
<1> SUFFICES ASSUME Init PROVE LoopInv
  OBVIOUS
<1>1. PICK n \in 0..MaxLines : pem \in [1..n -> LineKind]
  BY DEF Init
<1>2. n \in Nat /\ pem \in Seq(LineKind) /\ Len(pem) = n
  BY <1>1, LinesAssumption
<1>4. next \in 0..Len(pem) /\ b64 \subseteq Nat
  BY <1>2 DEF Init
<1>6. in_cert \in BOOLEAN
  BY DEF Init
<1>5. certs \in Seq(SUBSET Nat) /\ closedBy \in Seq(Nat)
  BY DEF Init
<1>3. Types
  BY <1>2, <1>4, <1>5 DEF Init, Types
<1>. QED
  BY <1>3, <1>6 DEF Init, LoopInv, Position, CertsOK, AllClosed, Ended, Errors

\* BEGIN: the new line is the opening line, with no text yet.
LEMMA BeginStep == LoopInv /\ ReadBegin => LoopInv'
<1> SUFFICES ASSUME LoopInv, ReadBegin PROVE LoopInv'
  OBVIOUS
<1>0. Types /\ CertsOK /\ AllClosed /\ Ended
  BY DEF LoopInv
<1>9. in_cert' \in BOOLEAN
  BY DEF LoopInv, ReadBegin
<1>1. Types'
  BY DEF LoopInv, Types, ReadBegin, Line, LineKind
<1>2. Position'
  BY DEF LoopInv, Types, Position, Opened, ReadBegin, Line, LineKind
<1>3. CertsOK'
  BY CertsFrame DEF LoopInv, Types, ReadBegin, Line
<1>4. AllClosed'
  BY DEF LoopInv, Types, AllClosed, ReadBegin, Line
<1>5. Ended'
  BY DEF LoopInv, Types, Ended, Errors, ReadBegin, Line
<1>. QED
  BY <1>1, <1>2, <1>3, <1>4, <1>5, <1>9 DEF LoopInv

\* Other lines extend the text of the open block, or nothing.
LEMMA TextStep == LoopInv /\ ReadText => LoopInv'
<1> SUFFICES ASSUME LoopInv, ReadText PROVE LoopInv'
  OBVIOUS
<1>0. Types /\ CertsOK /\ AllClosed /\ Ended
  BY DEF LoopInv
<1>9. in_cert' \in BOOLEAN
  BY DEF LoopInv, ReadText
<1>1. Types'
  BY DEF LoopInv, Types, ReadText, Line, LineKind
<1>2. Position'
  <2>1. CASE in_cert
    <3>1. PICK b \in 1..next :
            Opened(b) /\ b64 = {i \in (b + 1)..next : pem[i] # "blank"}
      BY <2>1 DEF LoopInv, Position, ReadText, Line
    <3>2. b \in 1..next' /\ Opened(b)'
      BY <3>1 DEF LoopInv, Types, Opened, ReadText, Line
    <3>3. b64' = {i \in (b + 1)..next' : pem'[i] # "blank"}
      BY <2>1, <3>1 DEF LoopInv, Types, ReadText, Line
    <3>. QED
      BY <2>1, <3>2, <3>3 DEF Position, ReadText
  <2>2. CASE ~in_cert
    BY <2>2 DEF LoopInv, Types, Position, ReadText, Line, LineKind
  <2>. QED
    BY <2>1, <2>2
<1>3. CertsOK'
  BY CertsFrame DEF LoopInv, Types, ReadText, Line
<1>4. AllClosed'
  BY DEF LoopInv, Types, AllClosed, ReadText, Line
<1>5. Ended'
  BY DEF LoopInv, Types, Ended, Errors, ReadText, Line
<1>. QED
  BY <1>1, <1>2, <1>3, <1>4, <1>5, <1>9 DEF LoopInv

\* END: the open block becomes a certificate; a stray END and a block that does
\* not decode are no part of a well-formed text.
LEMMA EndStep == LoopInv /\ ReadEnd => LoopInv'
<1> SUFFICES ASSUME LoopInv, ReadEnd PROVE LoopInv'
  OBVIOUS
<1>0. Types /\ CertsOK /\ AllClosed /\ Ended
  BY DEF LoopInv
<1>9. in_cert' \in BOOLEAN
  BY DEF LoopInv, ReadEnd
<1> DEFINE e == next + 1
<1>1. e \in 1..Len(pem) /\ pem[e] = "END" /\ pem' = pem /\ next' = e
      /\ outcome = "reading"
  <2>1. Line({"END"})
    BY DEF ReadEnd
  <2>2. next \in 0..Len(pem) /\ Len(pem) \in Nat
    BY DEF LoopInv, Types
  <2>. QED
    BY <2>1, <2>2 DEF Line
<1>2. CASE ~in_cert
  <2>1. \A b \in 1..Len(pem) : ~Block(b, e)
    <3> SUFFICES ASSUME NEW b \in 1..Len(pem), Block(b, e) PROVE FALSE
      OBVIOUS
    <3>1. b \in 1..next /\ pem[b] = "BEGIN"
      BY <1>1 DEF Block, LoopInv, Types
    <3>2. PICK f \in (b + 1)..next : pem[f] = "END"
      BY <1>1, <1>2, <3>1 DEF LoopInv, Position
    <3>. QED
      BY <3>2 DEF Block, LoopInv, Types
  <2>2. ~WellFormed'
    BY <1>1, <2>1, TextFrame DEF WellFormed
  <2>5. outcome' = "unexpected END" /\ b64' = b64 /\ certs' = certs
        /\ closedBy' = closedBy
    BY <1>2 DEF ReadEnd
  <2>3. Types'
    <3>1. next' \in 0..Len(pem')
      BY <1>0, <1>1 DEF Types
    <3>2. outcome' \in {"reading", "Ok"} \cup Errors
      BY <2>5 DEF Errors
    <3>. QED
      BY <1>0, <1>1, <2>5, <3>1, <3>2 DEF Types
  <2>4. CertsOK'
    <3>1. next' \in Nat /\ next' >= next
      BY <1>0, <1>1 DEF Types
    <3>. QED
      BY <1>0, <1>1, <2>5, <3>1, CertsFrame
  <2>. QED
    BY <1>9, <2>2, <2>3, <2>4, <2>5
      DEF LoopInv, Position, AllClosed, Ended, Errors
<1>3. CASE in_cert
  <2>1. PICK b \in 1..next :
          Opened(b) /\ b64 = {i \in (b + 1)..next : pem[i] # "blank"}
    BY <1>1, <1>3 DEF LoopInv, Position
  <2>2. b \in 1..Len(pem) /\ Block(b, e) /\ b64 = Body(b, e)
    BY <1>1, <2>1 DEF Opened, Block, Body, LoopInv, Types
  <2>3. CASE Decodes(b64)
    <3>1. /\ certs' = Append(certs, b64)
          /\ closedBy' = Append(closedBy, e)
          /\ UNCHANGED <<outcome, b64>>
      BY <1>3, <2>3 DEF ReadEnd
    <3>9. ~in_cert'
      BY <1>3, <2>3 DEF ReadEnd
    <3>2. Types'
      BY <1>1, <3>1 DEF LoopInv, Types
    <3>3. Position'
      BY <1>0, <1>1, <2>1, <3>1, <3>9 DEF Types, Position, Opened
    <3>4. CertsOK'
      <4>1. Len(certs') = Len(closedBy') /\ Len(closedBy') = Len(closedBy) + 1
        BY <3>1 DEF LoopInv, Types, CertsOK
      <4>2. ASSUME NEW k \in DOMAIN closedBy'
            PROVE  /\ \E c \in 1..Len(pem') :
                        /\ Block(c, closedBy[k])'
                        /\ certs'[k] = Body(c, closedBy[k])'
                        /\ Decodes(certs[k])'
                   /\ closedBy'[k] \in 1..next'
                   /\ \A j \in DOMAIN closedBy' :
                        j < k => closedBy'[j] < closedBy'[k]
        <5>1. CASE k \in DOMAIN closedBy
          <6>1. /\ closedBy'[k] = closedBy[k] /\ certs'[k] = certs[k]
                /\ \A j \in DOMAIN closedBy' : j < k =>
                     j \in DOMAIN closedBy /\ closedBy'[j] = closedBy[j]
            BY <3>1, <5>1 DEF LoopInv, Types, CertsOK
          <6>. QED
            <7>1. \A c, f : (Block(c, f)' <=> Block(c, f)) /\ Body(c, f)' = Body(c, f)
              BY <1>1 DEF Block, Body
            <7>2. \A lines : Decodes(lines)' <=> Decodes(lines)
              BY <1>1 DEF Decodes
            <7>3. closedBy[k] \in 1..next'
              BY <1>0, <1>1, <5>1 DEF CertsOK, Types
            <7>. QED
              BY <1>0, <1>1, <5>1, <6>1, <7>1, <7>2, <7>3 DEF CertsOK
        <5>2. CASE k = Len(closedBy) + 1
          <6>1. /\ closedBy'[k] = e /\ certs'[k] = b64
                /\ \A j \in DOMAIN closedBy' : j < k =>
                     closedBy'[j] \in 1..next
            BY <3>1, <5>2 DEF LoopInv, Types, CertsOK
          <6>2. \A j \in DOMAIN closedBy' : j < k => closedBy'[j] < closedBy'[k]
            BY <6>1 DEF LoopInv, Types
          <6>. QED
            BY <1>1, <2>2, <2>3, <6>1, <6>2 DEF Block, Body, Decodes
        <5>. QED
          BY <1>0, <4>1, <5>1, <5>2 DEF Types
      <4>. QED
        BY <4>1, <4>2 DEF CertsOK
    <3>5. AllClosed'
      <4> SUFFICES ASSUME NEW f \in 1..next', pem'[f] = "END"
                   PROVE  \E k \in DOMAIN closedBy' : closedBy'[k] = f
        BY DEF AllClosed
      <4>1. CASE f = e
        BY <1>0, <3>1, <4>1 DEF Types
      <4>2. CASE f \in 1..next
        <5>1. PICK k \in DOMAIN closedBy : closedBy[k] = f
          BY <1>1, <4>2 DEF LoopInv, AllClosed
        <5>2. k \in DOMAIN closedBy' /\ closedBy'[k] = closedBy[k]
          BY <1>0, <3>1 DEF Types
        <5>. QED
          BY <5>1, <5>2
      <4>. QED
        BY <1>1, <4>1, <4>2 DEF LoopInv, Types
    <3>6. Ended'
      BY <1>1, <3>1 DEF Ended, Errors
    <3>. QED
      BY <1>9, <3>2, <3>3, <3>4, <3>5, <3>6 DEF LoopInv
  <2>4. CASE ~Decodes(b64)
    <3>1. \A c \in 1..Len(pem) : ~(Block(c, e) /\ Decodes(Body(c, e)))
      BY <1>1, <2>2, <2>4, OneOpening DEF LoopInv
    <3>2. ~WellFormed'
      BY <1>1, <3>1, TextFrame DEF WellFormed
    <3>3. outcome' = "base64 decode" /\ b64' = b64 /\ certs' = certs
          /\ closedBy' = closedBy
      BY <1>3, <2>4 DEF ReadEnd
    <3>4. Types'
      <4>1. next' \in 0..Len(pem')
        BY <1>0, <1>1 DEF Types
      <4>2. outcome' \in {"reading", "Ok"} \cup Errors
        BY <3>3 DEF Errors
      <4>. QED
        BY <1>0, <1>1, <3>3, <4>1, <4>2 DEF Types
    <3>5. CertsOK'
      <4>1. next' \in Nat /\ next' >= next
        BY <1>0, <1>1 DEF Types
      <4>. QED
        BY <1>0, <1>1, <3>3, <4>1, CertsFrame
    <3>. QED
      BY <1>9, <3>2, <3>3, <3>4, <3>5 DEF LoopInv, Position, AllClosed, Ended, Errors
  <2>. QED
    BY <2>3, <2>4
<1>. QED
  BY <1>2, <1>3 DEF LoopInv, Types

\* The end of the text: an open block has no END, a closed one leaves none open.
LEMMA EofStep == LoopInv /\ EndOfText => LoopInv'
<1> SUFFICES ASSUME LoopInv, EndOfText PROVE LoopInv'
  OBVIOUS
<1>1. Types'
  BY DEF LoopInv, Types, EndOfText, Errors
<1>4. CertsOK'
  BY CertsFrame DEF LoopInv, Types, EndOfText
<1>2. CASE in_cert
  <2>1. PICK b \in 1..next : Opened(b)
    BY <1>2 DEF LoopInv, Position, EndOfText
  <2>2. ~WellFormed
    BY <2>1 DEF WellFormed, Opened, EndOfText, LoopInv, Types
  <2>3. ~WellFormed'
    BY <2>2, TextFrame DEF EndOfText
  <2>. QED
    BY <1>1, <1>2, <1>4, <2>3
      DEF LoopInv, Position, AllClosed, Ended, Errors, EndOfText
<1>3. CASE ~in_cert
  BY <1>1, <1>3, <1>4 DEF LoopInv, Position, AllClosed, Ended, Errors, EndOfText
<1>. QED
  BY <1>2, <1>3 DEF LoopInv, Types

\* The loop invariant holds between any two lines of any text.
THEOREM LoopInvariant == Spec => []LoopInv
<1>1. LoopInv /\ UNCHANGED vars => LoopInv'
  <2> SUFFICES ASSUME LoopInv, UNCHANGED vars PROVE LoopInv'
    OBVIOUS
  <2>1. CertsOK' /\ (WellFormed' <=> WellFormed)
    BY CertsFrame, TextFrame DEF LoopInv, Types, vars
  <2>2. Position'
    BY DEF LoopInv, Position, Opened, vars
  <2>. QED
    BY <2>1, <2>2 DEF LoopInv, Types, AllClosed, Ended, vars
<1>2. LoopInv /\ [Next]_vars => LoopInv'
  BY <1>1, BeginStep, EndStep, TextStep, EofStep DEF Next
<1>. QED
  BY InitLoop, <1>2, PTL DEF Spec

\* For every text, the certificates returned are the blocks of the text, each
\* with its own lines, in order (parse_pem_bundle returning Ok).
THEOREM ParsesBlocks == Spec => []CertsAreTheBlocks
<1>1. LoopInv => CertsAreTheBlocks
  BY DEF LoopInv, Types, CertsOK, AllClosed, Ended, CertsAreTheBlocks, Block
<1>. QED
  BY <1>1, LoopInvariant, PTL

\* For every text, parse_pem_bundle returns Ok exactly if it is well-formed.
THEOREM AcceptsBundles == Spec => []AcceptsExactlyBundles
<1>1. LoopInv => AcceptsExactlyBundles
  <2> SUFFICES ASSUME LoopInv, outcome # "reading"
               PROVE  outcome = "Ok" <=> WellFormed
    BY DEF AcceptsExactlyBundles
  <2>1. ASSUME outcome = "Ok" PROVE WellFormed
    <3>1. ASSUME NEW e \in 1..Len(pem), pem[e] = "END"
          PROVE  \E b \in 1..Len(pem) : Block(b, e) /\ Decodes(Body(b, e))
      <4>1. PICK k \in DOMAIN closedBy : closedBy[k] = e
        BY <2>1, <3>1 DEF LoopInv, AllClosed, Ended
      <4>. QED
        BY <4>1 DEF LoopInv, CertsOK
    <3>. QED
      BY <2>1, <3>1 DEF WellFormed, LoopInv, Ended
  <2>2. ASSUME outcome # "Ok" PROVE ~WellFormed
    BY <2>2 DEF LoopInv, Types, Ended
  <2>. QED
    BY <2>1, <2>2
<1>. QED
  BY <1>1, LoopInvariant, PTL

\* For every text, the pair that fetch_vcek_chain puts into the chain is the
\* first and the second block of the text.
THEOREM TakesFirstTwo == Spec => []ChainOrder
<1>1. LoopInv => ChainOrder
  <2> SUFFICES ASSUME LoopInv, outcome = "Ok", ask_and_ark(certs) # <<>>
               PROVE  \E b1, e1, b2, e2 \in 1..Len(pem) :
                        /\ Block(b1, e1) /\ Block(b2, e2) /\ e1 < e2
                        /\ \A b, e \in 1..Len(pem) :
                             Block(b, e) => e \in {e1, e2} \/ e > e2
                        /\ ask_and_ark(certs) = <<Body(b1, e1), Body(b2, e2)>>
    BY DEF ChainOrder
  <2> DEFINE e1 == closedBy[1]  e2 == closedBy[2]
  <2>0. Types /\ CertsOK /\ AllClosed /\ next = Len(pem)
    BY DEF LoopInv, Ended
  <2>1. /\ ask_and_ark(certs) = <<certs[1], certs[2]>>
        /\ 1 \in DOMAIN closedBy /\ 2 \in DOMAIN closedBy
    BY <2>0 DEF ask_and_ark, CertsOK, Types
  <2>2. PICK b1 \in 1..Len(pem) : Block(b1, e1) /\ certs[1] = Body(b1, e1)
    BY <2>0, <2>1 DEF CertsOK
  <2>3. PICK b2 \in 1..Len(pem) : Block(b2, e2) /\ certs[2] = Body(b2, e2)
    BY <2>0, <2>1 DEF CertsOK
  <2>4. e1 \in 1..Len(pem) /\ e2 \in 1..Len(pem) /\ e1 < e2
    BY <2>0, <2>1 DEF CertsOK
  <2>5. ASSUME NEW b \in 1..Len(pem), NEW e \in 1..Len(pem), Block(b, e)
        PROVE  e \in {e1, e2} \/ e > e2
    <3>1. PICK k \in DOMAIN closedBy : closedBy[k] = e
      BY <2>0, <2>5 DEF AllClosed, Block
    <3>2. k \in Nat /\ (k = 1 \/ k = 2 \/ k > 2)
      BY <2>0 DEF Types
    <3>. QED
      BY <2>0, <2>1, <3>1, <3>2 DEF CertsOK
  <2>. QED
    BY <2>1, <2>2, <2>3, <2>4, <2>5
<1>. QED
  BY <1>1, LoopInvariant, PTL

\* The parser's variables keep their types on every text.
THEOREM PemTypeCorrect == Spec => []TypeOK
<1>1. LoopInv => TypeOK
  BY DEF LoopInv, Types, TypeOK
<1>. QED
  BY <1>1, LoopInvariant, PTL
=============================================================================
