----------------------------- MODULE Inference -----------------------------
(***************************************************************************)
(* The inference server (server.py).  FastAPI validates a body on the      *)
(* event loop and runs the two handlers, which are plain functions, on a   *)
(* pool of threads; generate calls the one object llm from there.          *)
(*                                                                         *)
(* llm (llama-cpp-python, external) keeps the tokens of its context and    *)
(* the cells that were computed from them.  A call reuses the longest      *)
(* common prefix, evaluates the rest of the prompt and then samples and    *)
(* evaluates one token after the other.  Nothing locks llm, and the        *)
(* interpreter's lock is released while cells are computed: an evaluation  *)
(* takes three steps, and any of them may be followed by another thread's. *)
(* Not modelled: a call that aborts the process because of such a race,    *)
(* and tokens that the library evaluates or samples again after one.       *)
(***************************************************************************)
EXTENDS Naturals, Sequences, FiniteSets

CONSTANTS
  Requests,      \* places for requests that the gateway forwards
  Probes,        \* places for requests for /health
  Tokens,        \* the vocabulary
  PoolSize,      \* threads of the pool (40 in anyio)
  N_CTX,         \* size of the context
  TokenLimit,    \* the upper bound of max_tokens (4096)
  Prompts,       \* bound: prompts that are sent, as the tokenizer cuts them
  Limits,        \* bound: values of max_tokens that are sent
  MaxInFlight    \* bound: requests and probes in progress

ASSUME InferenceAssumption ==
  /\ Requests \cap Probes = {}
  /\ {PoolSize, N_CTX, TokenLimit, MaxInFlight} \subseteq Nat \ {0}
  /\ Limits \subseteq Nat
  /\ Prompts \subseteq Seq(Tokens) \ {<<>>}  \* the tokenizer puts one in front

VARIABLES
  job,      \* progress of every request and probe
  waiting,  \* jobs that wait for a thread, oldest first
  context,  \* llm: the tokens on record, input_ids[:n_tokens]
  cache,    \* llm: tokens of the leading cells, each computed from those before
  garbled,  \* llm: the first cell that is filled, but not in that way
  logits,   \* llm: what the last evaluation was computed from, <<>> if garbled
  tainted,  \* history: the context is what overlapping calls have left
  disturbed \* history: requests whose call overlapped, or kept such a context

llm     == <<context, cache, garbled, logits>>
history == <<tainted, disturbed>>
vars    == <<job, waiting, llm, history>>

\* The steps of a call of llm.
CallPC == {"eval", "decode", "record", "sample"}

PC == {"none", "waiting", "begin", "200"} \cup CallPC

Job == [pc         : PC,
        prompt     : Prompts \cup {<<>>},
        max_tokens : Nat,
        pending    : Seq(Tokens),     \* tokens to evaluate next
        n_past     : Nat,             \* where their cells go
        out        : Seq(Tokens),     \* completion tokens
        basis      : {"own", "mixed"}]  \* history: what it was sampled from

NoCell == N_CTX + 1

NoJob == [pc |-> "none", prompt |-> <<>>, max_tokens |-> 0,
          pending |-> <<>>, n_past |-> 0, out |-> <<>>, basis |-> "own"]

Jobs == Requests \cup Probes

Init ==
  /\ job = [j \in Jobs |-> NoJob]
  /\ waiting = <<>>
  /\ context = <<>> /\ cache = <<>> /\ logits = <<>>
  /\ garbled = NoCell
  /\ tainted = FALSE /\ disturbed = {}

-----------------------------------------------------------------------------

Running(j)  == job[j].pc \in {"begin"} \cup CallPC
InFlight(j) == Running(j) \/ job[j].pc = "waiting"

\* One more may arrive: a bound on the model, not on the server.
MayArrive == Cardinality({j \in Jobs : InFlight(j)}) < MaxInFlight

SetJob(j, r) == job' = [job EXCEPT ![j] = r]

Answer(j, status) == SetJob(j, [job[j] EXCEPT !.pc = status])

\* Nothing but llm remembers the request of r any more.
Forget(r) ==
  /\ SetJob(r, NoJob)
  /\ disturbed' = disturbed \ {r}
  /\ UNCHANGED tainted

\* Mutant: the lower bound of the field is missing.
Valid_zero(max_tokens) == max_tokens <= TokenLimit

\* max_tokens: int = Field(ge=1, le=4096)
Valid(max_tokens) == 1 <= max_tokens /\ max_tokens <= TokenLimit

\* A GenerateRequest arrives, and its handler has to wait for a thread.  Any
\* other body gets 422 at once, which changes nothing here.
Receive(r) ==
  /\ job[r].pc = "none" /\ MayArrive
  /\ \E prompt \in Prompts, max_tokens \in Limits :
       /\ Valid(max_tokens)
       /\ SetJob(r, [NoJob EXCEPT !.pc = "waiting", !.prompt = prompt,
                                  !.max_tokens = max_tokens])
  /\ waiting' = Append(waiting, r)
  /\ UNCHANGED <<llm, history>>

\* health is a plain function as well, for which no record is kept.
Probe(p) ==
  /\ job[p].pc = "none" /\ MayArrive
  /\ Answer(p, "waiting")
  /\ waiting' = Append(waiting, p)
  /\ UNCHANGED <<llm, history>>

\* How far a job gets when it has a thread: generate calls llm next, health
\* has its answer.
Start(j) == IF j \in Probes THEN "none" ELSE "begin"

\* A thread is free and takes the oldest job.
Dispatch ==
  /\ waiting # <<>>
  /\ Cardinality({j \in Jobs : Running(j)}) < PoolSize
  /\ Answer(Head(waiting), Start(Head(waiting)))
  /\ waiting' = Tail(waiting)
  /\ UNCHANGED <<llm, history>>

\* The response with the text is sent.
Deliver(r) ==
  /\ job[r].pc = "200"
  /\ Forget(r)
  /\ UNCHANGED <<waiting, llm>>

\* Tokens at the start of the context that a prompt shares; its last token is
\* always evaluated again.
CommonPrefix(prompt) ==
  LET same(n) == SubSeq(context, 1, n) = SubSeq(prompt, 1, n)
      lengths == {n \in 0..(Len(prompt) - 1) : n <= Len(context) /\ same(n)}
  IN  CHOOSE n \in lengths : \A k \in lengths : k <= n

\* Mutant: the context is not cut back to what the prompt shares with it.
Reuse_all(prompt) == Len(context)

\* Tokens of the context that a call for this prompt keeps: external.
Reuse(prompt) == CommonPrefix(prompt)

\* A call of r begins and keeps a part of the context.  Nothing of what other
\* calls have left matters when it keeps nothing and runs alone.
Overlap(r, kept) ==
  LET others == {o \in Requests \ {r} : job[o].pc \in CallPC} IN
  /\ tainted' = (others # {} \/ (tainted /\ kept # 0))
  /\ disturbed' = disturbed \cup IF tainted' THEN others \cup {r} ELSE {}

\* Mutant: the handler tries again when the model refuses the prompt.
Begin_retries(r) ==
  LET prompt == job[r].prompt  kept == Reuse(prompt) IN
  /\ job[r].pc = "begin"
  /\ Len(prompt) < N_CTX
  /\ SetJob(r, [job[r] EXCEPT !.pc = "eval",
                              !.pending = SubSeq(prompt, kept + 1, Len(prompt))])
  /\ context' = SubSeq(context, 1, kept)
  /\ Overlap(r, kept)
  /\ UNCHANGED <<waiting, cache, garbled, logits>>

\* generate calls llm: a prompt that fills the context is an exception, which
\* becomes a 500 without text; else n_tokens goes back to what is reused.
Begin(r) ==
  LET prompt == job[r].prompt  kept == Reuse(prompt) IN
  /\ job[r].pc = "begin"
  /\ \/ /\ Len(prompt) >= N_CTX
        /\ Forget(r)
        /\ UNCHANGED llm
     \/ /\ Len(prompt) < N_CTX
        /\ SetJob(r, [job[r] EXCEPT !.pc = "eval",
                        !.pending = SubSeq(prompt, kept + 1, Len(prompt))])
        /\ context' = SubSeq(context, 1, kept)
        /\ Overlap(r, kept)
        /\ UNCHANGED <<cache, garbled, logits>>
  /\ UNCHANGED waiting

\* The first n elements of a sequence, or all of them.
Upto(s, n) == SubSeq(s, 1, IF n < Len(s) THEN n ELSE Len(s))

\* eval: cells past the recorded tokens are dropped, and n_past is read.
EvalStart(r) ==
  /\ job[r].pc = "eval"
  /\ SetJob(r, [job[r] EXCEPT !.pc = "decode", !.n_past = Len(context)])
  /\ cache' = Upto(cache, Len(context))
  /\ garbled' = IF garbled <= Len(context) THEN garbled ELSE NoCell
  /\ UNCHANGED <<waiting, context, logits, history>>

\* decode: cells are computed from those before n_past; there is an exception
\* when the context has no room for them.  They are garbled when the cells
\* before them are, are missing, or when their own positions are taken.
Decode(r) ==
  LET from  == job[r].n_past
      to    == from + Len(job[r].pending)
      sound == Len(cache) = from /\ to < garbled
  IN
  /\ job[r].pc = "decode"
  /\ \/ /\ to > N_CTX
        /\ Forget(r)
        /\ UNCHANGED <<cache, garbled, logits>>
     \/ /\ to <= N_CTX
        /\ Answer(r, "record")
        /\ \/ /\ sound
              /\ cache' = cache \o job[r].pending
              /\ logits' = cache'
              /\ UNCHANGED garbled
           \/ /\ ~sound
              /\ cache' = Upto(cache, from)
              /\ garbled' = IF garbled <= from THEN garbled ELSE from + 1
              /\ logits' = <<>>
        /\ UNCHANGED history
  /\ UNCHANGED <<waiting, context>>

\* The recorded tokens when a batch is written at from and n_tokens is raised
\* by its length.  That need not be where the batch ends: what lies between is
\* left from before, or was never written.
Recorded(from, batch) ==
  LET longer  == Len(context) + Len(batch)
      length  == IF longer < N_CTX THEN longer ELSE N_CTX
      written == (from + 1)..(from + Len(batch))
  IN  {s \in [1..length -> Tokens] :
         \A i \in 1..length :
           /\ i \in written => s[i] = batch[i - from]
           /\ i \notin written /\ i <= Len(context) => s[i] = context[i]}

\* Back in the interpreter, the batch is written into input_ids.
Record(r) ==
  /\ job[r].pc = "record"
  /\ context' \in Recorded(job[r].n_past, job[r].pending)
  /\ SetJob(r, [job[r] EXCEPT !.pc = "sample", !.pending = <<>>,
                              !.n_past = 0])
  /\ UNCHANGED <<waiting, cache, garbled, logits, history>>

\* Mutant: the room in the context is not looked at.
Limit_blind(r) == job[r].max_tokens

\* max_tokens as llm understands it: 0 is no limit, and the context is one.
Limit(r) ==
  LET left == N_CTX - Len(job[r].prompt)
      max  == job[r].max_tokens
  IN  IF max = 0 \/ max > left THEN left ELSE max

\* The next token is sampled from the logits: a stop word ends the call, and
\* so does the last token that is allowed.  result["choices"] may be empty: 500.
Sample(r) ==
  LET basis == IF logits = job[r].prompt \o job[r].out
               THEN job[r].basis ELSE "mixed"
  IN
  /\ job[r].pc = "sample"
  /\ \/ Forget(r)
     \/ /\ SetJob(r, [job[r] EXCEPT !.pc = "200", !.basis = basis])
        /\ UNCHANGED history
     \/ /\ \E t \in Tokens :
             LET out == Append(job[r].out, t) IN
             SetJob(r, [job[r] EXCEPT !.out = out, !.basis = basis,
               !.pc = IF Len(out) < Limit(r) THEN "eval" ELSE "200",
               !.pending = IF Len(out) < Limit(r) THEN <<t>> ELSE <<>>])
        /\ UNCHANGED history
  /\ UNCHANGED <<waiting, llm>>

ThreadStep(r) ==
  Begin(r) \/ EvalStart(r) \/ Decode(r) \/ Record(r) \/ Sample(r)

Next ==
  \/ Dispatch
  \/ \E p \in Probes : Probe(p)
  \/ \E r \in Requests : Receive(r) \/ ThreadStep(r) \/ Deliver(r)

Spec == Init /\ [][Next]_vars

\* The event loop hands out threads, and the system schedules every thread.
FairSpec ==
  /\ Spec
  /\ WF_vars(Dispatch)
  /\ \A r \in Requests : WF_vars(ThreadStep(r))

-----------------------------------------------------------------------------
(* Properties.                                                             *)

\* Variables keep their types, the history apart.
TypeOK ==
  /\ job \in [Jobs -> Job]
  /\ waiting \in Seq(Jobs)
  /\ {context, cache, logits} \subseteq Seq(Tokens)
  /\ garbled \in Nat \ {0}

\* An answer has no more tokens than its request allowed, and together with its
\* prompt it fits into the context, however threads disturb each other.
AnswerWithinLimits ==
  \A r \in Requests :
    /\ Len(job[r].out) <= job[r].max_tokens
    /\ job[r].out # <<>> => Len(job[r].prompt) + Len(job[r].out) <= N_CTX

\* Whatever arrives is answered, a probe too while all threads generate, and
\* whatever threads do to what they share.
EveryJobAnswered == \A j \in Jobs : InFlight(j) ~> ~InFlight(j)

\* A call that no other one ran alongside is computed from its own prompt,
\* whatever earlier calls have left in the context, as long as none of those
\* overlapped; and after some did, from the first lone call on that keeps
\* nothing of what they left.  (A lone call that does keep a part of it may find
\* tokens on record that its cells were not computed from.)
LoneCallsUnmixed ==
  \A r \in Requests \ disturbed : job[r].basis = "own"

\* README.md: "no single member ... can see what anyone else asks".
\* Every answer was computed from its own prompt and from nothing else.
OwnPromptOnly ==
  \A r \in Requests : job[r].pc = "200" => job[r].basis = "own"
=============================================================================
