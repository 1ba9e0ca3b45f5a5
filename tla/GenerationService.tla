------------------------- MODULE GenerationService -------------------------
(***************************************************************************)
(* What the inference server promises those who send it prompts, without   *)
(* threads, queues or a context: a request that is let in is answered      *)
(* once, with a whole text within its limits, or it fails.  The text rests *)
(* on its own prompt, unless the request was disturbed: by one that was    *)
(* open at the same time, or by what disturbed requests have left.         *)
(***************************************************************************)
EXTENDS Naturals, Sequences

CONSTANTS Requests, Prompts, Tokens, TokenLimit, N_CTX

VARIABLES
  request,  \* what was let in
  reply,    \* status, text, and what the text was computed from
  tainted,  \* requests that were open together have left something behind
  disturbed \* requests whose text may rest on others

history == <<tainted, disturbed>>
vars    == <<request, reply, history>>

NoRequest == [prompt |-> <<>>, max_tokens |-> 0]
NoReply   == [status |-> "none", text |-> <<>>, basis |-> "own"]

Init ==
  /\ request = [r \in Requests |-> NoRequest]
  /\ reply = [r \in Requests |-> NoReply]
  /\ tainted = FALSE /\ disturbed = {}

Open(r) == reply[r].status = "open"

LetIn(r) ==
  /\ reply[r].status = "none"
  /\ \E prompt \in Prompts, max_tokens \in 1..TokenLimit :
       request' = [request EXCEPT ![r] = [prompt     |-> prompt,
                                          max_tokens |-> max_tokens]]
  /\ reply' = [reply EXCEPT ![r].status = "open"]
  /\ UNCHANGED history

\* The call of r begins while those of others run, or alone: then it may find
\* what such calls have left, or leave it behind.
Call(r, others) ==
  /\ r \notin others
  /\ \A o \in others \cup {r} : Open(o)
  /\ tainted' \in IF others = {} THEN {tainted, FALSE} ELSE {TRUE}
  /\ disturbed' = disturbed \cup IF tainted' THEN others \cup {r} ELSE {}
  /\ UNCHANGED <<request, reply>>

Texts(n) == UNION {[1..k -> Tokens] : k \in 0..n}

Answer(r) ==
  LET prompt == request[r].prompt IN
  /\ Open(r)
  /\ \E text \in Texts(request[r].max_tokens), basis \in {"own", "mixed"} :
       /\ Len(prompt) < N_CTX /\ Len(prompt) + Len(text) <= N_CTX
       /\ basis = "mixed" => r \in disturbed
       /\ reply' = [reply EXCEPT ![r] = [status |-> "200", text |-> text,
                                         basis  |-> basis]]
  /\ UNCHANGED <<request, history>>

\* The reply is delivered, or the request fails: its place is free again.
End(r) ==
  /\ reply[r].status # "none"
  /\ request' = [request EXCEPT ![r] = NoRequest]
  /\ reply' = [reply EXCEPT ![r] = NoReply]
  /\ disturbed' = disturbed \ {r}
  /\ UNCHANGED tainted

Next ==
  \E r \in Requests :
    \/ LetIn(r) \/ Answer(r) \/ End(r)
    \/ \E others \in SUBSET Requests : Call(r, others)

Spec == Init /\ [][Next]_vars
=============================================================================
