----------------------------- MODULE PemBundle -----------------------------
(***************************************************************************)
(* parse_pem_bundle of the gateway (amd_attestation.rs): the loop over the *)
(* lines of the text that the KDS returns, and the choice of the two       *)
(* certificates that fetch_vcek_chain makes from its result.               *)
(*                                                                         *)
(* A line is what the loop and the base64 decoder tell apart: a BEGIN or   *)
(* an END marker, a blank line, base64 text of whole quads without padding *)
(* ("quads") or with padding at its end ("padded"), any other text         *)
(* ("text"); a quad is never broken over two lines.  Lines are pushed in   *)
(* the order they are read, so the string b64 is given by the set of the   *)
(* line numbers it holds; so is a certificate, which is the decoded string.*)
(***************************************************************************)
EXTENDS Naturals, Sequences

CONSTANT MaxLines   \* bound: the length of a text

ASSUME LinesAssumption == MaxLines \in Nat

LineKind == {"BEGIN", "END", "blank", "quads", "padded", "text"}

VARIABLES
  pem,      \* the text
  next,     \* number of lines read
  in_cert, b64, certs,
  closedBy, \* history: the END line of every certificate
  outcome   \* "reading", "Ok", or the error returned

vars == <<pem, next, in_cert, b64, certs, closedBy, outcome>>

Errors == {"unexpected END", "base64 decode", "unterminated"}

Init ==
  /\ \E n \in 0..MaxLines : pem \in [1..n -> LineKind]
  /\ next = 0
  /\ in_cert = FALSE
  /\ b64 = {}
  /\ certs = <<>>
  /\ closedBy = <<>>
  /\ outcome = "reading"

-----------------------------------------------------------------------------

\* base64::STANDARD accepts the text of these lines: nothing outside the
\* alphabet, and padding only at the very end.
Decodes(lines) ==
  \A i \in lines :
    /\ pem[i] # "text"
    /\ pem[i] = "padded" => \A j \in lines : j <= i

\* Mutant: the loop takes one line too many after a BEGIN.
Line_skips_header(kinds) ==
  /\ outcome = "reading"
  /\ next < Len(pem)
  /\ pem[next + 1] \in kinds
  /\ next' = IF "BEGIN" \in kinds THEN next + 2 ELSE next + 1
  /\ UNCHANGED pem

\* The next line exists and is one of kinds.
Line(kinds) ==
  /\ outcome = "reading"
  /\ next < Len(pem)
  /\ pem[next + 1] \in kinds
  /\ next' = next + 1
  /\ UNCHANGED pem

\* Mutant: b64 keeps the text of the previous block.
ReadBegin_keeps_text ==
  /\ Line({"BEGIN"})
  /\ in_cert' = TRUE
  /\ UNCHANGED <<b64, certs, closedBy, outcome>>

\* A BEGIN inside a block starts the block over.
ReadBegin ==
  /\ Line({"BEGIN"})
  /\ in_cert' = TRUE
  /\ b64' = {}
  /\ UNCHANGED <<certs, closedBy, outcome>>

\* Mutant: an END outside a block is skipped like other text.
ReadEnd_skips_stray ==
  /\ Line({"END"})
  /\ IF in_cert /\ Decodes(b64)
     THEN /\ in_cert' = FALSE
          /\ certs' = Append(certs, b64)
          /\ closedBy' = Append(closedBy, next + 1)
          /\ UNCHANGED <<b64, outcome>>
     ELSE UNCHANGED <<in_cert, b64, certs, closedBy, outcome>>

ReadEnd ==
  /\ Line({"END"})
  /\ \/ /\ ~in_cert
        /\ outcome' = "unexpected END"
        /\ UNCHANGED <<in_cert, b64, certs, closedBy>>
     \/ /\ in_cert
        /\ in_cert' = FALSE
        /\ \/ /\ Decodes(b64)
              /\ certs' = Append(certs, b64)
              /\ closedBy' = Append(closedBy, next + 1)
              /\ UNCHANGED outcome
           \/ /\ ~Decodes(b64)
              /\ outcome' = "base64 decode"
              /\ UNCHANGED <<certs, closedBy>>
        /\ UNCHANGED b64

\* Any other line counts only inside a block, and only if it is not blank.
ReadText ==
  /\ Line({"blank", "quads", "padded", "text"})
  /\ b64' = IF in_cert /\ pem[next + 1] # "blank"
            THEN b64 \cup {next + 1} ELSE b64
  /\ UNCHANGED <<in_cert, certs, closedBy, outcome>>

EndOfText ==
  /\ outcome = "reading"
  /\ next = Len(pem)
  /\ outcome' = IF in_cert THEN "unterminated" ELSE "Ok"
  /\ UNCHANGED <<pem, next, in_cert, b64, certs, closedBy>>

Next == ReadBegin \/ ReadEnd \/ ReadText \/ EndOfText

Spec == Init /\ [][Next]_vars

\* Mutant: the root is taken first.
ask_and_ark_swapped(found) ==
  IF Len(found) < 2 THEN <<>> ELSE <<found[2], found[1]>>

\* What fetch_vcek_chain takes from the result: an error (no pair) for fewer
\* than two certificates, else ask_der and ark_der; the rest is not used.
ask_and_ark(found) ==
  IF Len(found) < 2 THEN <<>> ELSE <<found[1], found[2]>>

-----------------------------------------------------------------------------
(* What a bundle is, independently of the loop.  Line e closes the block   *)
(* that line b opens if b is the last marker before e.                     *)

Block(b, e) ==
  /\ pem[b] = "BEGIN" /\ pem[e] = "END" /\ b < e
  /\ \A i \in (b + 1)..(e - 1) : pem[i] \notin {"BEGIN", "END"}

Body(b, e) == {i \in (b + 1)..(e - 1) : pem[i] # "blank"}

\* A text that the parser has to take: every END closes a block that decodes,
\* and no BEGIN comes after the last END.
WellFormed ==
  /\ \A e \in 1..Len(pem) : pem[e] = "END" =>
       \E b \in 1..Len(pem) : Block(b, e) /\ Decodes(Body(b, e))
  /\ \A b \in 1..Len(pem) : pem[b] = "BEGIN" =>
       \E e \in (b + 1)..Len(pem) : pem[e] = "END"

TypeOK ==
  /\ pem \in Seq(LineKind)
  /\ next \in 0..Len(pem)
  /\ in_cert \in BOOLEAN
  /\ b64 \subseteq Nat
  /\ certs \in Seq(SUBSET Nat)
  /\ closedBy \in Seq(Nat)
  /\ outcome \in {"reading", "Ok"} \cup Errors

\* The result has one certificate per block, in the order of the text, each
\* with the text of its own block and nothing of an earlier, abandoned or
\* later one.
CertsAreTheBlocks ==
  outcome = "Ok" =>
    /\ Len(certs) = Len(closedBy)
    /\ \A k \in DOMAIN closedBy :
         /\ \E b \in 1..Len(pem) :
              Block(b, closedBy[k]) /\ certs[k] = Body(b, closedBy[k])
         /\ \A j \in DOMAIN closedBy : j < k => closedBy[j] < closedBy[k]
    /\ \A b, e \in 1..Len(pem) :
         Block(b, e) => \E k \in DOMAIN closedBy : closedBy[k] = e

\* The parser returns a result for the well-formed texts and an error for the
\* others: it neither drops a damaged block nor refuses surrounding text.
AcceptsExactlyBundles ==
  outcome # "reading" => (outcome = "Ok" <=> WellFormed)

\* The pair that enters the chain: the ASK is the first block of the text, the
\* ARK the second, whatever surrounds them.
ChainOrder ==
  outcome = "Ok" /\ ask_and_ark(certs) # <<>> =>
    \E b1, e1, b2, e2 \in 1..Len(pem) :
      /\ Block(b1, e1) /\ Block(b2, e2) /\ e1 < e2
      /\ \A b, e \in 1..Len(pem) : Block(b, e) => e \in {e1, e2} \/ e > e2
      /\ ask_and_ark(certs) = <<Body(b1, e1), Body(b2, e2)>>
=============================================================================
