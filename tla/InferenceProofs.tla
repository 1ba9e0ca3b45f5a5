-------------------------- MODULE InferenceProofs --------------------------
(***************************************************************************)
(* Threads that share llm without a lock disturb what an answer says, but  *)
(* not how long it is, nor that there is one at most; and an answer of a   *)
(* call that ran alone, unless it kept what disturbed calls had left: for  *)
(* any number of requests, threads and tokens, in every interleaving of    *)
(* the steps of their evaluations, the server implements GenerationService.*)
(***************************************************************************)
EXTENDS InferenceRefinement, SequenceTheorems, FiniteSetTheorems,
        WellFoundedInduction, TLAPS

\* Limit for a job given as a record.
LimitOf(x) ==
  LET left == N_CTX - Len(x.prompt)
  IN  IF x.max_tokens = 0 \/ x.max_tokens > left THEN left ELSE x.max_tokens

\* What a job's progress says of its request and of its tokens.
JobOK(x) ==
  /\ x.pc \in {"none", "waiting", "begin"} => x.out = <<>>
  /\ x.pc \in CallPC =>
       Len(x.prompt) < N_CTX /\ Len(x.out) < LimitOf(x)
  /\ Len(x.out) <= x.max_tokens
  /\ x.out # <<>> => Len(x.prompt) + Len(x.out) <= N_CTX

\* A request that was let in has a prompt and a limit of its own.
Admitted ==
  \A r \in Requests :
    job[r].pc \in {"waiting", "begin"} \cup CallPC =>
      job[r].max_tokens # 0 /\ job[r].prompt \in Prompts

\* The jobs that wait have not begun, and each waits once.
QueueOK ==
  /\ \A i \in 1..Len(waiting) : job[waiting[i]].pc = "waiting"
  /\ \A i, j \in 1..Len(waiting) : waiting[i] = waiting[j] => i = j

\* Probes never reach the model.
ProbesOK == \A p \in Probes : job[p].pc \notin {"begin"} \cup CallPC

IInv == TypeOK /\ (\A j \in Jobs : JobOK(job[j])) /\ Admitted /\ QueueOK /\ ProbesOK

-----------------------------------------------------------------------------
(* Sequences.                                                              *)

\* A prompt is a sequence of tokens.
LEMMA PromptSeq ==
  ASSUME NEW p \in Prompts \cup {<<>>}
  PROVE  p \in Seq(Tokens) /\ Len(p) \in Nat
<1>1. CASE p = <<>>
  BY <1>1, EmptySeq
<1>2. CASE p \in Prompts
  <2>1. p \in Seq(Tokens)
    BY <1>2, InferenceAssumption
  <2> QED
    BY <2>1, LenProperties
<1> QED
  BY <1>1, <1>2

\* A part of a sequence of tokens is one.
LEMMA SubSeqTokens ==
  ASSUME NEW s \in Seq(Tokens), NEW m \in Nat \ {0}, NEW n \in 0..Len(s)
  PROVE  SubSeq(s, m, n) \in Seq(Tokens)
<1>1. \A i \in m..n : s[i] \in Tokens
  BY ElementOfSeq, LenProperties
<1> QED
  BY <1>1, SubSeqProperties

\* A token more at the end of the second of two sequences.
LEMMA AppendConcat ==
  ASSUME NEW p \in Seq(Tokens), NEW o \in Seq(Tokens), NEW t \in Tokens
  PROVE  (p \o o) \o <<t>> = p \o Append(o, t)
<1>1. <<t>> \in Seq(Tokens) /\ Append(o, t) = o \o <<t>>
  BY AppendIsConcat
<1> QED
  BY <1>1, ConcatAssociative

\* The longest common prefix exists, is no longer than the context, and is
\* what its name says.
LEMMA ReuseType ==
  ASSUME NEW p \in Prompts, context \in Seq(Tokens)
  PROVE  /\ Reuse(p) \in 0..Len(context)
         /\ Reuse(p) \in 0..(Len(p) - 1)
         /\ SubSeq(context, 1, Reuse(p)) = SubSeq(p, 1, Reuse(p))
<1> DEFINE same(n) == SubSeq(context, 1, n) = SubSeq(p, 1, n)
           lengths == {n \in 0..(Len(p) - 1) : n <= Len(context) /\ same(n)}
           gaps == {Len(p) - n : n \in lengths}
<1>1. Len(p) \in Nat /\ Len(p) > 0 /\ Len(context) \in Nat
  <2>1. p \in Seq(Tokens) /\ Len(p) \in Nat /\ p # <<>>
    BY PromptSeq, InferenceAssumption
  <2> QED
    BY <2>1, LenProperties, EmptySeq
<1>2. 0 \in lengths
  <2>1. SubSeq(context, 1, 0) = <<>> /\ SubSeq(p, 1, 0) = <<>>
    BY SubSeqEmpty
  <2> QED
    BY <2>1, <1>1
<1>3. /\ lengths \subseteq 0..(Len(p) - 1)
      /\ \A n \in lengths : n <= Len(context) /\ same(n)
  OBVIOUS
<1> HIDE DEF lengths
<1>4. gaps \subseteq Nat /\ gaps # {}
  BY <1>1, <1>2, <1>3
<1>5. PICK g \in gaps : \A h \in gaps : ~(<<h, g>> \in OpToRel(<, Nat))
  <2> HIDE DEF gaps
  <2> QED BY <1>4, NatLessThanWellFounded, WFMin
<1>6. ASSUME NEW h \in gaps PROVE g <= h
  <2>1. g \in Nat /\ h \in Nat
    BY <1>4
  <2>2. ~(<<h, g>> \in OpToRel(<, Nat))
    BY <1>5
  <2>3. ~(h < g)
    BY <2>1, <2>2 DEF OpToRel
  <2> QED
    BY <2>1, <2>3
<1>7. PICK n \in lengths : g = Len(p) - n
  OBVIOUS
<1>8. ASSUME NEW k \in lengths PROVE k <= n
  <2>1. Len(p) - k \in gaps
    OBVIOUS
  <2>2. g <= Len(p) - k
    BY <2>1, <1>6
  <2>3. k \in Int /\ n \in Int
    BY <1>1, <1>3, <1>7
  <2> QED
    BY <2>2, <2>3, <1>1, <1>7
<1>9. Reuse(p) \in lengths
  BY <1>8 DEF Reuse, CommonPrefix, lengths
<1>10. ASSUME NEW k \in lengths PROVE k \in 0..Len(context)
  <2>1. k \in 0..(Len(p) - 1) /\ k <= Len(context)
    BY <1>3
  <2> QED
    BY <2>1, <1>1
<1> QED
  BY <1>3, <1>9, <1>10

-----------------------------------------------------------------------------
(* One job changes.                                                        *)

\* The part of the invariant that is about single jobs.
SetJobOK(j, x) ==
  /\ x \in Job
  /\ JobOK(x)
  /\ j \in Requests /\ x.pc \in {"waiting", "begin"} \cup CallPC
       => x.max_tokens # 0 /\ x.prompt \in Prompts
  /\ j \in Probes => x.pc \notin {"begin"} \cup CallPC

JobsOK == job \in [Jobs -> Job] /\ (\A j \in Jobs : JobOK(job[j])) /\ Admitted /\ ProbesOK

\* A job that is put into a good state leaves all of them good.
LEMMA JobsFrame ==
  ASSUME JobsOK, NEW j \in Jobs, NEW x, SetJobOK(j, x),
         job' = [job EXCEPT ![j] = x]
  PROVE  JobsOK'
<1>1. job' \in [Jobs -> Job]
  BY DEF JobsOK, SetJobOK
<1>2. \A k \in Jobs : job'[k] = IF k = j THEN x ELSE job[k]
  BY DEF JobsOK
<1>3. \A k \in Jobs : JobOK(job'[k])
  BY <1>2 DEF JobsOK, SetJobOK
<1>4. Admitted'
  BY <1>2 DEF JobsOK, SetJobOK, Admitted, Jobs
<1>5. ProbesOK'
  BY <1>2 DEF JobsOK, SetJobOK, ProbesOK, Jobs
<1> QED
  BY <1>1, <1>3, <1>4, <1>5 DEF JobsOK

\* The queue is not concerned by a job that is not in it.
LEMMA QueueFrame ==
  ASSUME JobsOK, waiting \in Seq(Jobs), QueueOK, NEW j \in Jobs, NEW x,
         job[j].pc # "waiting", job' = [job EXCEPT ![j] = x], waiting' = waiting
  PROVE  QueueOK'
BY DEF JobsOK, QueueOK

\* A job that begins to wait is put at the end.
LEMMA QueueAppend ==
  ASSUME JobsOK, waiting \in Seq(Jobs), QueueOK, NEW j \in Jobs, NEW x,
         job[j].pc # "waiting", x.pc = "waiting",
         job' = [job EXCEPT ![j] = x], waiting' = Append(waiting, j)
  PROVE  QueueOK'
<1>1. /\ Len(waiting') = Len(waiting) + 1 /\ Len(waiting) \in Nat
      /\ \A i \in 1..Len(waiting) : waiting'[i] = waiting[i]
      /\ waiting'[Len(waiting) + 1] = j
  OBVIOUS
<1>2. \A i \in 1..Len(waiting) : waiting[i] \in Jobs /\ waiting[i] # j
  BY DEF QueueOK
<1>3. \A k \in Jobs : job'[k] = IF k = j THEN x ELSE job[k]
  BY DEF JobsOK
<1>4. ASSUME NEW i \in 1..Len(waiting') PROVE job'[waiting'[i]].pc = "waiting"
  <2>1. CASE i = Len(waiting) + 1
    BY <2>1, <1>1, <1>3
  <2>2. CASE i \in 1..Len(waiting)
    BY <2>2, <1>1, <1>2, <1>3 DEF QueueOK
  <2> QED
    BY <2>1, <2>2, <1>1
<1>5. ASSUME NEW i \in 1..Len(waiting'), NEW k \in 1..Len(waiting'),
             waiting'[i] = waiting'[k]
      PROVE  i = k
  <2>1. CASE i \in 1..Len(waiting) /\ k \in 1..Len(waiting)
    BY <2>1, <1>1, <1>5 DEF QueueOK
  <2>2. CASE i = Len(waiting) + 1 \/ k = Len(waiting) + 1
    BY <2>2, <1>1, <1>2, <1>5
  <2> QED
    BY <2>1, <2>2, <1>1
<1> QED
  BY <1>4, <1>5 DEF QueueOK

\* Dispatch takes the oldest one out.
LEMMA QueueTail ==
  ASSUME JobsOK, waiting \in Seq(Jobs), QueueOK, waiting # <<>>, NEW x,
         job' = [job EXCEPT ![Head(waiting)] = x], waiting' = Tail(waiting)
  PROVE  QueueOK'
<1>1. /\ Head(waiting) = waiting[1] /\ Len(waiting) \in Nat \ {0}
      /\ Len(waiting') = Len(waiting) - 1
      /\ \A i \in 1..Len(waiting') : waiting'[i] = waiting[i + 1]
  OBVIOUS
<1>2. \A i \in 1..Len(waiting') :
        /\ i + 1 \in 1..Len(waiting) /\ 1 \in 1..Len(waiting)
        /\ waiting[i + 1] \in Jobs /\ waiting[i + 1] # waiting[1]
  BY <1>1 DEF QueueOK
<1>3. \A k \in Jobs : k # waiting[1] => job'[k] = job[k]
  BY <1>1 DEF JobsOK
<1>4. \A i \in 1..Len(waiting') : job'[waiting'[i]].pc = "waiting"
  BY <1>1, <1>2, <1>3 DEF QueueOK
<1>5. \A i, j \in 1..Len(waiting') : waiting'[i] = waiting'[j] => i = j
  BY <1>1, <1>2 DEF QueueOK
<1> QED
  BY <1>4, <1>5 DEF QueueOK

\* llm keeps its types.
LlmOK == {context, cache, logits} \subseteq Seq(Tokens) /\ garbled \in Nat \ {0}

\* The invariant after a step of a job that is not waiting.
LEMMA OneJob ==
  ASSUME IInv, NEW j \in Jobs, NEW x, SetJobOK(j, x), job[j].pc # "waiting",
         job' = [job EXCEPT ![j] = x], waiting' = waiting, LlmOK'
  PROVE  IInv'
<1>1. JobsOK /\ waiting \in Seq(Jobs) /\ QueueOK
  BY DEF IInv, TypeOK, JobsOK
<1>2. JobsOK' /\ QueueOK'
  BY <1>1, JobsFrame, QueueFrame
<1> QED
  BY <1>1, <1>2 DEF IInv, TypeOK, JobsOK, LlmOK

-----------------------------------------------------------------------------
(* The steps.                                                              *)

\* The fields of a job.
LEMMA JobFields ==
  ASSUME IInv, NEW j \in Jobs
  PROVE  /\ job[j] \in Job /\ job[j].pc \in PC
         /\ job[j].prompt \in Prompts \cup {<<>>} /\ job[j].max_tokens \in Nat
         /\ job[j].pending \in Seq(Tokens) /\ job[j].out \in Seq(Tokens)
         /\ job[j].n_past \in Nat
         /\ job[j].basis \in {"own", "mixed"}
         /\ JobOK(job[j])
BY DEF IInv, TypeOK, Job

\* An answer changes nothing but the progress.
LEMMA AnswerOK ==
  ASSUME IInv, NEW j \in Jobs, NEW st \in PC \ CallPC,
         st # "200" => job[j].out = <<>>,
         j \in Requests /\ st # "none" /\ st # "200" =>
           job[j].max_tokens # 0 /\ job[j].prompt \in Prompts,
         j \in Probes => st # "begin"
  PROVE  SetJobOK(j, [job[j] EXCEPT !.pc = st])
<1> DEFINE x == [job[j] EXCEPT !.pc = st]
<1>1. job[j] \in Job /\ JobOK(job[j])
  BY JobFields
<1>2. x \in Job /\ x.pc = st /\ x.out = job[j].out /\ x.prompt = job[j].prompt
        /\ x.max_tokens = job[j].max_tokens
  BY <1>1 DEF Job
<1> HIDE DEF x
<1>3. JobOK(x)
  BY <1>1, <1>2 DEF JobOK
<1> QED
  BY <1>2, <1>3 DEF SetJobOK, x, PC

\* NoJob is a good state.
LEMMA NoJobOK == NoJob \in Job /\ JobOK(NoJob) /\ NoJob.pc = "none"
<1>1. <<>> \in Seq(Tokens) /\ Len(<<>>) = 0
  BY EmptySeq
<1>2. NoJob \in Job
  BY <1>1 DEF NoJob, Job, PC
<1>3. NoJob.pc = "none" /\ NoJob.out = <<>> /\ NoJob.max_tokens = 0
  BY DEF NoJob
<1> HIDE DEF NoJob
<1> QED
  BY <1>1, <1>2, <1>3 DEF JobOK, CallPC

\* What Receive makes of it.
LEMMA NewJobOK ==
  ASSUME NEW pc \in {"none", "waiting"}, NEW prompt \in Prompts \cup {<<>>},
         NEW max \in Nat
  PROVE  LET x == [NoJob EXCEPT !.pc = pc, !.prompt = prompt, !.max_tokens = max]
         IN  x \in Job /\ JobOK(x) /\ x.pc = pc /\ x.max_tokens = max
               /\ x.prompt = prompt
<1> DEFINE x == [NoJob EXCEPT !.pc = pc, !.prompt = prompt, !.max_tokens = max]
<1>1. <<>> \in Seq(Tokens) /\ Len(<<>>) = 0
  BY EmptySeq
<1>2. NoJob \in Job
  BY <1>1 DEF NoJob, Job, PC
<1>3. x \in Job
  BY <1>2 DEF Job, PC
<1>4. x.pc = pc /\ x.max_tokens = max /\ x.out = <<>> /\ x.prompt = prompt
  BY DEF NoJob
<1> HIDE DEF x
<1>5. JobOK(x)
  BY <1>1, <1>4 DEF JobOK, CallPC
<1> QED
  BY <1>3, <1>4, <1>5 DEF x

\* A request arrives.
LEMMA ReceiveStep ==
  ASSUME IInv, NEW r \in Requests, Receive(r)
  PROVE  IInv'
<1>0. r \in Jobs /\ job[r].pc = "none" /\ waiting' = Append(waiting, r) /\ llm' = llm
  BY DEF Receive, Jobs
<1>1. PICK prompt \in Prompts, max_tokens \in Limits :
        /\ Valid(max_tokens)
        /\ job' = [job EXCEPT ![r] = [NoJob EXCEPT !.pc = "waiting",
                     !.prompt = prompt, !.max_tokens = max_tokens]]
  BY DEF Receive, SetJob
<1> DEFINE x == [NoJob EXCEPT !.pc = "waiting", !.prompt = prompt,
                              !.max_tokens = max_tokens]
<1>2. max_tokens \in Nat /\ max_tokens # 0
  BY <1>1, InferenceAssumption DEF Valid
<1>3. /\ x \in Job /\ JobOK(x) /\ x.pc = "waiting"
      /\ x.max_tokens = max_tokens /\ x.prompt = prompt
  <2>1. "waiting" \in {"none", "waiting"} /\ prompt \in Prompts \cup {<<>>}
    OBVIOUS
  <2> QED
    BY <1>2, <2>1, NewJobOK
<1>4. job' = [job EXCEPT ![r] = x]
  BY <1>1
<1> HIDE DEF x
<1>5. SetJobOK(r, x)
  BY <1>2, <1>3 DEF SetJobOK, CallPC
<1>6. JobsOK /\ waiting \in Seq(Jobs) /\ QueueOK
  BY DEF IInv, TypeOK, JobsOK
<1>7. JobsOK' /\ QueueOK'
  BY <1>0, <1>3, <1>4, <1>5, <1>6, JobsFrame, QueueAppend
<1>8. waiting' \in Seq(Jobs)
  BY <1>0, <1>6
<1> QED
  BY <1>0, <1>7, <1>8 DEF IInv, TypeOK, JobsOK, llm

\* A probe arrives.
LEMMA ProbeStep ==
  ASSUME IInv, NEW p \in Probes, Probe(p)
  PROVE  IInv'
<1>0. p \in Jobs /\ job[p].pc = "none" /\ llm' = llm /\ p \notin Requests
  BY InferenceAssumption DEF Probe, Jobs
<1> DEFINE x == [job[p] EXCEPT !.pc = "waiting"]
<1>1. job' = [job EXCEPT ![p] = x] /\ waiting' = Append(waiting, p)
  BY DEF Probe, Answer, SetJob
<1>2. job[p] \in Job /\ job[p].out = <<>>
  BY <1>0, JobFields DEF JobOK
<1>3. SetJobOK(p, x)
  BY <1>0, <1>2, AnswerOK DEF PC, CallPC
<1>4. x.pc = "waiting"
  BY <1>2 DEF Job
<1> HIDE DEF x
<1>5. JobsOK /\ waiting \in Seq(Jobs) /\ QueueOK
  BY DEF IInv, TypeOK, JobsOK
<1>6. JobsOK' /\ QueueOK'
  BY <1>0, <1>1, <1>3, <1>4, <1>5, JobsFrame, QueueAppend
<1>7. waiting' \in Seq(Jobs)
  BY <1>0, <1>1, <1>5
<1> QED
  BY <1>0, <1>6, <1>7 DEF IInv, TypeOK, JobsOK, llm

\* A thread takes a job.
LEMMA DispatchStep ==
  ASSUME IInv, Dispatch
  PROVE  IInv'
<1> DEFINE j == Head(waiting)
           st == Start(j)
           x == [job[j] EXCEPT !.pc = st]
<1>1. /\ waiting # <<>> /\ llm' = llm
      /\ job' = [job EXCEPT ![j] = x] /\ waiting' = Tail(waiting)
  BY DEF Dispatch, Answer, SetJob
<1>2. JobsOK /\ waiting \in Seq(Jobs) /\ QueueOK
  BY DEF IInv, TypeOK, JobsOK
<1>3. j \in Jobs /\ job[j].pc = "waiting" /\ waiting' \in Seq(Jobs)
  <2>1. j = waiting[1] /\ 1 \in 1..Len(waiting)
    BY <1>1, <1>2
  <2> QED
    BY <1>1, <1>2, <2>1 DEF QueueOK
<1>4. /\ job[j].out = <<>>
      /\ j \in Requests => job[j].max_tokens # 0 /\ job[j].prompt \in Prompts
  <2>1. job[j].out = <<>>
    BY <1>3, JobFields DEF JobOK
  <2>2. j \in Requests => job[j].max_tokens # 0 /\ job[j].prompt \in Prompts
    BY <1>3 DEF IInv, Admitted
  <2> QED
    BY <2>1, <2>2
<1>5. st \in {"none", "begin"} /\ (j \in Probes => st # "begin")
  BY DEF Start
<1>6. SetJobOK(j, x)
  <2> HIDE DEF j, st
  <2> QED BY <1>3, <1>4, <1>5, AnswerOK DEF PC, CallPC
<1>7. JobsOK' /\ QueueOK'
  <2> HIDE DEF x
  <2>1. JobsOK'
    <3> HIDE DEF j
    <3> QED BY <1>1, <1>2, <1>3, <1>6, JobsFrame
  <2>2. QueueOK'
    BY <1>1, <1>2, QueueTail
  <2> QED
    BY <2>1, <2>2
<1> QED
  BY <1>1, <1>3, <1>7, <1>2 DEF IInv, TypeOK, JobsOK, llm

\* A job is forgotten.
LEMMA ForgetOK ==
  ASSUME IInv, NEW r \in Requests, job[r].pc # "waiting", Forget(r),
         waiting' = waiting, LlmOK'
  PROVE  IInv'
<1>1. NoJob \in Job /\ JobOK(NoJob) /\ NoJob.pc = "none"
  BY NoJobOK
<1>2. SetJobOK(r, NoJob)
  BY <1>1 DEF SetJobOK, CallPC
<1> QED
  BY <1>2, OneJob DEF Forget, SetJob, Jobs

\* An answer is delivered.
LEMMA DeliverStep ==
  ASSUME IInv, NEW r \in Requests, Deliver(r)
  PROVE  IInv'
<1>1. LlmOK'
  BY DEF Deliver, llm, LlmOK, IInv, TypeOK
<1> QED
  BY <1>1, ForgetOK DEF Deliver

\* A running call has room for one more token.
LEMMA RoomLeft ==
  ASSUME IInv, NEW r \in Requests, job[r].pc \in {"begin"} \cup CallPC,
         Len(job[r].prompt) < N_CTX
  PROVE  /\ LimitOf(job[r]) \in Nat \ {0}
         /\ LimitOf(job[r]) <= job[r].max_tokens
         /\ LimitOf(job[r]) + Len(job[r].prompt) <= N_CTX
         /\ Len(job[r].prompt) \in Nat
<1>1. r \in Jobs
  BY DEF Jobs
<1>2. job[r].max_tokens \in Nat /\ job[r].max_tokens # 0
  BY <1>1, JobFields DEF IInv, Admitted
<1>3. Len(job[r].prompt) \in Nat
  BY <1>1, JobFields, PromptSeq
<1> QED
  BY <1>2, <1>3, InferenceAssumption DEF LimitOf

\* generate calls llm.
LEMMA BeginStep ==
  ASSUME IInv, NEW r \in Requests, Begin(r)
  PROVE  IInv'
<1> DEFINE prompt == job[r].prompt
           kept == Reuse(prompt)
           rest == SubSeq(prompt, kept + 1, Len(prompt))
           x == [job[r] EXCEPT !.pc = "eval", !.pending = rest]
<1>0. /\ r \in Jobs /\ job[r].pc = "begin" /\ waiting' = waiting
      /\ prompt \in Prompts /\ LlmOK
  BY DEF Begin, Jobs, IInv, Admitted, TypeOK, LlmOK
<1>1. CASE Forget(r) /\ UNCHANGED llm
  BY <1>0, <1>1, ForgetOK DEF LlmOK, llm
<1>2. CASE /\ Len(prompt) < N_CTX
           /\ job' = [job EXCEPT ![r] = x]
           /\ context' = SubSeq(context, 1, kept)
           /\ UNCHANGED <<cache, garbled, logits>>
  <2>1. kept \in 0..Len(context) /\ prompt \in Seq(Tokens) /\ Len(prompt) \in Nat
    BY <1>0, ReuseType, PromptSeq DEF LlmOK
  <2>2. rest \in Seq(Tokens) /\ context' \in Seq(Tokens)
    <3> HIDE DEF prompt, kept
    <3>1. kept + 1 \in Nat \ {0} /\ Len(context) \in Nat
      BY <2>1, <1>0 DEF LlmOK
    <3> QED
      BY <1>0, <1>2, <2>1, <3>1, SubSeqTokens DEF LlmOK
  <2>3. job[r] \in Job /\ job[r].out = <<>>
    BY <1>0, JobFields DEF JobOK
  <2>4. x \in Job /\ x.pc = "eval" /\ x.out = <<>> /\ x.prompt = prompt
          /\ x.max_tokens = job[r].max_tokens
    <3> HIDE DEF rest
    <3> QED BY <2>2, <2>3 DEF Job, PC, CallPC
  <2>5. LimitOf(job[r]) \in Nat \ {0} /\ job[r].max_tokens \in Nat
    BY <1>0, <1>2, RoomLeft, JobFields
  <2> HIDE DEF x
  <2>6. JobOK(x)
    <3>1. LimitOf(x) = LimitOf(job[r])
      BY <2>4 DEF LimitOf
    <3>2. Len(<<>>) = 0
      BY EmptySeq
    <3> QED
      BY <1>2, <2>4, <2>5, <3>1, <3>2 DEF JobOK
  <2>7. SetJobOK(r, x)
    <3>1. job[r].max_tokens # 0 /\ r \notin Probes
      BY <1>0, InferenceAssumption DEF IInv, Admitted
    <3> QED
      BY <1>0, <2>4, <2>6, <3>1 DEF SetJobOK
  <2>8. LlmOK'
    BY <1>0, <1>2, <2>2 DEF LlmOK
  <2> QED
    BY <1>0, <1>2, <2>7, <2>8, OneJob
<1> QED
  BY <1>1, <1>2 DEF Begin, SetJob

\* A call goes on from one of its steps to another, with its tokens as they are.
LEMMA GoesOn ==
  ASSUME IInv, NEW r \in Requests, job[r].pc \in CallPC, NEW x \in Job,
         x.pc \in CallPC, x.out = job[r].out, x.prompt = job[r].prompt,
         x.max_tokens = job[r].max_tokens,
         job' = [job EXCEPT ![r] = x], waiting' = waiting, LlmOK'
  PROVE  IInv'
<1>1. r \in Jobs /\ r \notin Probes /\ job[r].pc # "waiting"
  BY InferenceAssumption DEF Jobs, CallPC
<1>2. JobOK(x)
  <2>1. JobOK(job[r])
    BY <1>1, JobFields
  <2>2. LimitOf(x) = LimitOf(job[r])
    BY DEF LimitOf
  <2> QED
    BY <2>1, <2>2 DEF JobOK, CallPC
<1>3. SetJobOK(r, x)
  BY <1>1, <1>2 DEF SetJobOK, IInv, Admitted
<1> QED
  BY <1>1, <1>3, OneJob

\* The beginning of a sequence of tokens is one.
LEMMA UptoType ==
  ASSUME NEW s \in Seq(Tokens), NEW n \in Nat
  PROVE  /\ Upto(s, n) \in Seq(Tokens)
         /\ n <= Len(s) => Upto(s, n) = SubSeq(s, 1, n)
<1>1. Len(s) \in Nat
  BY LenProperties
<1>2. (IF n < Len(s) THEN n ELSE Len(s)) \in 0..Len(s)
  BY <1>1
<1>3. Upto(s, n) \in Seq(Tokens)
  BY <1>2, SubSeqTokens DEF Upto
<1>4. n <= Len(s) => (IF n < Len(s) THEN n ELSE Len(s)) = n
  BY <1>1
<1> QED
  BY <1>3, <1>4 DEF Upto

\* An evaluation begins.
LEMMA EvalStartStep ==
  ASSUME IInv, NEW r \in Requests, EvalStart(r)
  PROVE  IInv'
<1> DEFINE x == [job[r] EXCEPT !.pc = "decode", !.n_past = Len(context)]
<1>0. /\ r \in Jobs /\ job[r].pc = "eval" /\ LlmOK /\ Len(context) \in Nat
      /\ job[r] \in Job
  BY JobFields, LenProperties DEF EvalStart, Jobs, IInv, TypeOK, LlmOK
<1>1. /\ x \in Job /\ x.pc = "decode" /\ x.out = job[r].out
      /\ x.prompt = job[r].prompt /\ x.max_tokens = job[r].max_tokens
  BY <1>0 DEF Job, PC, CallPC
<1>2. job' = [job EXCEPT ![r] = x] /\ waiting' = waiting
  BY DEF EvalStart, SetJob
<1> HIDE DEF x
<1>3. cache' \in Seq(Tokens)
  BY <1>0, UptoType DEF EvalStart, LlmOK
<1>4. garbled' \in Nat \ {0}
  BY <1>0, InferenceAssumption DEF EvalStart, LlmOK, NoCell
<1>5. LlmOK'
  BY <1>0, <1>3, <1>4 DEF EvalStart, LlmOK
<1> QED
  BY <1>0, <1>1, <1>2, <1>5, GoesOn DEF CallPC

\* Cells are computed, or the context has no room for them.
LEMMA DecodeStep ==
  ASSUME IInv, NEW r \in Requests, Decode(r)
  PROVE  IInv'
<1> DEFINE x == [job[r] EXCEPT !.pc = "record"]
           from == job[r].n_past
<1>0. /\ r \in Jobs /\ job[r].pc = "decode" /\ LlmOK /\ job[r] \in Job
      /\ from \in Nat /\ job[r].pending \in Seq(Tokens)
      /\ waiting' = waiting /\ context' = context
  BY JobFields DEF Decode, Jobs, IInv, TypeOK, LlmOK
<1>1. /\ x \in Job /\ x.pc = "record" /\ x.out = job[r].out
      /\ x.prompt = job[r].prompt /\ x.max_tokens = job[r].max_tokens
  BY <1>0 DEF Job, PC, CallPC
<1> HIDE DEF x
<1>2. CASE Forget(r) /\ UNCHANGED <<cache, garbled, logits>>
  BY <1>0, <1>2, ForgetOK DEF LlmOK
<1>3. CASE /\ job' = [job EXCEPT ![r] = x]
           /\ \/ /\ cache' = cache \o job[r].pending
                 /\ logits' = cache' /\ garbled' = garbled
              \/ /\ cache' = Upto(cache, from)
                 /\ garbled' = IF garbled <= from THEN garbled ELSE from + 1
                 /\ logits' = <<>>
  <2>1. cache \o job[r].pending \in Seq(Tokens)
    BY <1>0, ConcatProperties DEF LlmOK
  <2>2. Upto(cache, from) \in Seq(Tokens)
    BY <1>0, UptoType DEF LlmOK
  <2>3. (IF garbled <= from THEN garbled ELSE from + 1) \in Nat \ {0}
    BY <1>0 DEF LlmOK
  <2>4. <<>> \in Seq(Tokens)
    BY EmptySeq
  <2>5. LlmOK'
    BY <1>0, <1>3, <2>1, <2>2, <2>3, <2>4 DEF LlmOK
  <2> QED
    BY <1>0, <1>1, <1>3, <2>5, GoesOn DEF CallPC
<1> QED
  BY <1>2, <1>3 DEF Decode, Answer, SetJob, x

\* What is on record after a batch is a sequence of tokens.
LEMMA RecordedType ==
  ASSUME context \in Seq(Tokens), NEW from \in Nat, NEW batch \in Seq(Tokens),
         NEW s \in Recorded(from, batch)
  PROVE  s \in Seq(Tokens)
<1> DEFINE longer == Len(context) + Len(batch)
           length == IF longer < N_CTX THEN longer ELSE N_CTX
<1>1. length \in Nat
  BY LenProperties, InferenceAssumption
<1>2. s \in [1..length -> Tokens]
  BY DEF Recorded
<1> QED
  BY <1>1, <1>2, SeqDef

\* The batch is recorded.
LEMMA RecordStep ==
  ASSUME IInv, NEW r \in Requests, Record(r)
  PROVE  IInv'
<1> DEFINE x == [job[r] EXCEPT !.pc = "sample", !.pending = <<>>, !.n_past = 0]
<1>0. /\ r \in Jobs /\ job[r].pc = "record" /\ LlmOK /\ job[r] \in Job
      /\ job[r].n_past \in Nat /\ job[r].pending \in Seq(Tokens)
  BY JobFields DEF Record, Jobs, IInv, TypeOK, LlmOK
<1>1. /\ x \in Job /\ x.pc = "sample" /\ x.out = job[r].out
      /\ x.prompt = job[r].prompt /\ x.max_tokens = job[r].max_tokens
  <2>1. <<>> \in Seq(Tokens)
    BY EmptySeq
  <2> QED
    BY <1>0, <2>1 DEF Job, PC, CallPC
<1>2. job' = [job EXCEPT ![r] = x] /\ waiting' = waiting
  BY DEF Record, SetJob
<1> HIDE DEF x
<1>3. context' \in Seq(Tokens)
  BY <1>0, RecordedType DEF Record, LlmOK
<1>4. LlmOK'
  BY <1>0, <1>3 DEF Record, LlmOK
<1> QED
  BY <1>0, <1>1, <1>2, <1>4, GoesOn DEF CallPC

\* What becomes of a job that samples: it ends with what it has, or has a token
\* more and ends or goes on.
Sampled(r, x) ==
  /\ x \in Job
  /\ x.prompt = job[r].prompt /\ x.max_tokens = job[r].max_tokens
  /\ x.basis = IF logits = job[r].prompt \o job[r].out
               THEN job[r].basis ELSE "mixed"
  /\ \/ x.pc = "200" /\ x.out = job[r].out
     \/ \E t \in Tokens :
          /\ x.out = Append(job[r].out, t)
          /\ \/ x.pc = "eval" /\ x.pending = <<t>> /\ Len(x.out) < LimitOf(job[r])
             \/ x.pc = "200"

\* Sampling in these terms.
LEMMA SampleMoves ==
  ASSUME IInv, NEW r \in Requests, Sample(r)
  PROVE  /\ UNCHANGED <<waiting, llm>>
         /\ \/ Forget(r)
            \/ /\ UNCHANGED history
               /\ \E x : job' = [job EXCEPT ![r] = x] /\ Sampled(r, x)
<1> DEFINE basis == IF logits = job[r].prompt \o job[r].out
                    THEN job[r].basis ELSE "mixed"
<1>0. job[r] \in Job /\ job[r].out \in Seq(Tokens) /\ basis \in {"own", "mixed"}
  BY JobFields DEF Jobs
<1>1. UNCHANGED <<waiting, llm>>
  BY DEF Sample
<1>2. CASE Forget(r)
  BY <1>1, <1>2
<1>3. CASE /\ SetJob(r, [job[r] EXCEPT !.pc = "200", !.basis = basis])
           /\ UNCHANGED history
  <2> DEFINE x == [job[r] EXCEPT !.pc = "200", !.basis = basis]
  <2>1. job' = [job EXCEPT ![r] = x]
    BY <1>3 DEF SetJob
  <2>2. /\ x \in Job /\ x.pc = "200" /\ x.out = job[r].out /\ x.basis = basis
        /\ x.prompt = job[r].prompt /\ x.max_tokens = job[r].max_tokens
    <3> HIDE DEF basis
    <3> QED BY <1>0 DEF Job, PC
  <2> HIDE DEF x
  <2>3. Sampled(r, x)
    BY <2>2 DEF Sampled
  <2> QED
    BY <1>1, <1>3, <2>1, <2>3
<1>4. ASSUME NEW t \in Tokens, UNCHANGED history,
             SetJob(r, [job[r] EXCEPT !.out = Append(job[r].out, t),
               !.basis = basis,
               !.pc = IF Len(Append(job[r].out, t)) < Limit(r)
                      THEN "eval" ELSE "200",
               !.pending = IF Len(Append(job[r].out, t)) < Limit(r)
                           THEN <<t>> ELSE <<>>])
      PROVE  /\ UNCHANGED history
             /\ \E x : job' = [job EXCEPT ![r] = x] /\ Sampled(r, x)
  <2> DEFINE out == Append(job[r].out, t)
             goes == Len(out) < Limit(r)
             st == IF goes THEN "eval" ELSE "200"
             pending == IF goes THEN <<t>> ELSE <<>>
             x == [job[r] EXCEPT !.out = out, !.basis = basis, !.pc = st,
                                 !.pending = pending]
  <2>1. job' = [job EXCEPT ![r] = x]
    BY <1>4 DEF SetJob
  <2>2. /\ \/ st = "eval" /\ pending = <<t>> /\ Len(out) < LimitOf(job[r])
           \/ st = "200"
        /\ pending \in Seq(Tokens) /\ st \in PC
    <3>1. Limit(r) = LimitOf(job[r])
      BY DEF Limit, LimitOf
    <3>2. <<t>> \in Seq(Tokens) /\ <<>> \in Seq(Tokens)
      BY EmptySeq
    <3> HIDE DEF out
    <3> QED BY <3>1, <3>2 DEF PC, CallPC
  <2>3. out \in Seq(Tokens)
    BY <1>0
  <2>4. out = Append(job[r].out, t)
    OBVIOUS
  <2> HIDE DEF out, goes, st, pending
  <2>5. /\ x \in Job /\ x.pc = st /\ x.out = out /\ x.basis = basis
        /\ x.prompt = job[r].prompt /\ x.max_tokens = job[r].max_tokens
        /\ x.pending = pending
    <3> HIDE DEF basis
    <3> QED BY <1>0, <2>2, <2>3 DEF Job
  <2> HIDE DEF x
  <2>6. Sampled(r, x)
    BY <2>2, <2>4, <2>5 DEF Sampled
  <2> QED
    BY <1>4, <2>1, <2>6
<1> QED
  BY <1>1, <1>2, <1>3, <1>4 DEF Sample

\* A token is sampled, or the call ends.
LEMMA SampleStep ==
  ASSUME IInv, NEW r \in Requests, Sample(r)
  PROVE  IInv'
<1>0. /\ r \in Jobs /\ job[r].pc = "sample" /\ waiting' = waiting /\ LlmOK'
      /\ r \notin Probes /\ JobOK(job[r]) /\ job[r].pc \in CallPC
  BY InferenceAssumption, JobFields DEF Sample, Jobs, IInv, TypeOK, llm, LlmOK, CallPC
<1>1. CASE Forget(r)
  BY <1>0, <1>1, ForgetOK
<1>2. ASSUME NEW x, job' = [job EXCEPT ![r] = x], Sampled(r, x)
      PROVE  IInv'
  <2>1. /\ job[r].out \in Seq(Tokens) /\ Len(job[r].out) \in Nat
        /\ Len(job[r].prompt) < N_CTX /\ Len(job[r].out) < LimitOf(job[r])
    BY <1>0, JobFields, LenProperties DEF JobOK
  <2>2. /\ LimitOf(job[r]) \in Nat
        /\ LimitOf(job[r]) <= job[r].max_tokens
        /\ LimitOf(job[r]) + Len(job[r].prompt) <= N_CTX
        /\ Len(job[r].prompt) \in Nat /\ job[r].max_tokens \in Nat
    BY <1>0, <2>1, RoomLeft, JobFields
  <2>3. Len(x.out) \in Nat /\ Len(x.out) <= LimitOf(job[r])
    <3>1. CASE x.out = job[r].out
      BY <2>1, <2>2, <3>1
    <3>2. ASSUME NEW t \in Tokens, x.out = Append(job[r].out, t)
          PROVE  Len(x.out) = Len(job[r].out) + 1
      BY <2>1, <3>2
    <3> QED
      BY <1>2, <2>1, <2>2, <3>1, <3>2 DEF Sampled
  <2>4. LimitOf(x) = LimitOf(job[r])
    BY <1>2 DEF LimitOf, Sampled
  <2>5. x.pc = "200" \/ (x.pc = "eval" /\ Len(x.out) < LimitOf(job[r]))
    BY <1>2 DEF Sampled
  <2>6. /\ Len(x.out) <= x.max_tokens /\ Len(x.prompt) + Len(x.out) <= N_CTX
        /\ Len(x.prompt) < N_CTX
    <3>1. x.prompt = job[r].prompt /\ x.max_tokens = job[r].max_tokens
      BY <1>2 DEF Sampled
    <3> DEFINE n == Len(x.out)  m == Len(job[r].prompt)  l == LimitOf(job[r])
               k == job[r].max_tokens
    <3>2. n <= k /\ m + n <= N_CTX
      <4>1. /\ n \in Nat /\ m \in Nat /\ l \in Nat /\ k \in Nat
            /\ n <= l /\ l <= k /\ l + m <= N_CTX
        BY <2>2, <2>3
      <4>2. N_CTX \in Nat
        BY InferenceAssumption
      <4> HIDE DEF n, m, l, k
      <4> QED
        BY <4>1, <4>2
    <3> QED
      BY <2>1, <3>1, <3>2
  <2>7. JobOK(x)
    BY <2>4, <2>5, <2>6 DEF JobOK, CallPC
  <2>8. SetJobOK(r, x)
    BY <1>0, <1>2, <2>5, <2>7 DEF SetJobOK, Sampled, IInv, Admitted, CallPC
  <2> QED
    BY <1>0, <1>2, <2>8, OneJob
<1> QED
  BY <1>1, <1>2, SampleMoves

-----------------------------------------------------------------------------
(* Calls that no other one overlaps.                                       *)

\* The call of r uses llm.
Active(r) == job[r].pc \in CallPC

\* What is on record is what the first cells were computed from.
Sound ==
  /\ Len(context) <= Len(cache) /\ SubSeq(cache, 1, Len(context)) = context
  /\ Len(context) < garbled

\* A job x that has llm for itself: what is evaluated, with what is pending,
\* is its prompt and what it has sampled so far.
OwnCall(x) ==
  /\ x.pc # "sample" => context \o x.pending = x.prompt \o x.out
  /\ x.pc \in {"decode", "record"} => x.n_past = Len(context) /\ garbled = NoCell
  /\ x.pc = "decode" => cache = context
  /\ x.pc = "record" =>
       /\ cache = context \o x.pending /\ logits = cache
       /\ Len(context) + Len(x.pending) <= N_CTX
  /\ x.pc = "sample" => context = x.prompt \o x.out /\ logits = context

\* While nothing is tainted, at most one call runs, and it finds in llm what it
\* needs; the others that run have been recorded as disturbed.
LoneInv ==
  /\ \A r \in Requests :
       /\ Active(r) => (tainted <=> r \in disturbed)
       /\ job[r].pc \in {"none", "waiting", "begin"} => r \notin disturbed
       /\ r \notin disturbed => job[r].basis = "own"
  /\ ~tainted =>
       /\ Sound
       /\ \A r \in Requests : Active(r) => OwnCall(job[r])
       /\ \A r, o \in Requests : Active(r) /\ Active(o) => r = o

\* A step of a job that is not in a call, nor will be.
LEMMA QuietStep ==
  ASSUME IInv, LoneInv, NEW j \in Jobs, NEW x,
         job' = [job EXCEPT ![j] = x], UNCHANGED llm, tainted' = tainted,
         disturbed' = disturbed \/ disturbed' = disturbed \ {j},
         x.pc \in {"none", "waiting", "begin"} => j \notin disturbed' \/ j \notin Requests,
         x.pc \notin CallPC, x.basis \in {"own", job[j].basis},
         disturbed' # disturbed => x.basis = "own"
  PROVE  LoneInv'
<1>1. \A k \in Jobs : job'[k] = IF k = j THEN x ELSE job[k]
  BY DEF IInv, TypeOK
<1>2. \A r \in Requests : r \in Jobs /\ (Active(r)' => Active(r) /\ r # j)
  BY <1>1 DEF Active, Jobs
<1>3. ASSUME NEW r \in Requests
      PROVE  /\ Active(r)' => (tainted' <=> r \in disturbed')
             /\ job'[r].pc \in {"none", "waiting", "begin"} => r \notin disturbed'
             /\ r \notin disturbed' => job'[r].basis = "own"
  <2>1. CASE r = j
    BY <1>1, <1>2, <2>1 DEF LoneInv
  <2>2. CASE r # j
    BY <1>1, <1>2, <2>2 DEF LoneInv
  <2> QED
    BY <2>1, <2>2
<1>4. ASSUME ~tainted'
      PROVE  /\ Sound'
             /\ \A r \in Requests : Active(r)' => OwnCall(job[r])'
             /\ \A r, o \in Requests : Active(r)' /\ Active(o)' => r = o
  <2>1. Sound /\ Sound'
    BY <1>4 DEF LoneInv, Sound, llm
  <2>2. ASSUME NEW r \in Requests, Active(r)' PROVE OwnCall(job[r])'
    <3>1. job'[r] = job[r] /\ OwnCall(job[r])
      BY <1>1, <1>2, <1>4, <2>2 DEF LoneInv
    <3> QED
      BY <3>1 DEF OwnCall, llm
  <2> QED
    BY <1>2, <1>4, <2>1, <2>2 DEF LoneInv
<1> QED
  BY <1>3, <1>4 DEF LoneInv

\* A job is forgotten.
LEMMA ForgetLone ==
  ASSUME IInv, LoneInv, NEW r \in Requests, Forget(r), UNCHANGED llm
  PROVE  LoneInv'
<1>1. NoJob.pc = "none" /\ NoJob.basis = "own"
  BY DEF NoJob
<1> HIDE DEF NoJob
<1>2. r \in Jobs /\ r \notin disturbed' /\ disturbed' = disturbed \ {r}
  BY DEF Forget, Jobs
<1> QED
  BY <1>1, <1>2, QuietStep DEF Forget, SetJob, CallPC

\* A step of a call that leaves llm right if no other one runs.
LEMMA ActiveStep ==
  ASSUME IInv, LoneInv, NEW r \in Requests, Active(r), NEW x,
         job' = [job EXCEPT ![r] = x], UNCHANGED history,
         x.pc \in CallPC \cup {"200"},
         ~tainted => /\ Sound' /\ x.basis = "own"
                     /\ x.pc \in CallPC => OwnCall(x)'
  PROVE  LoneInv'
<1>1. \A k \in Jobs : job'[k] = IF k = r THEN x ELSE job[k]
  BY DEF IInv, TypeOK
<1>2. \A o \in Requests : o \in Jobs /\ (Active(o)' => Active(o))
  BY <1>1 DEF Active, Jobs
<1>3. tainted' = tainted /\ disturbed' = disturbed
  BY DEF history
<1>4. ASSUME NEW o \in Requests
      PROVE  /\ Active(o)' => (tainted' <=> o \in disturbed')
             /\ job'[o].pc \in {"none", "waiting", "begin"} => o \notin disturbed'
             /\ o \notin disturbed' => job'[o].basis = "own"
  <2>1. CASE o = r
    BY <1>1, <1>2, <1>3, <2>1 DEF LoneInv, CallPC
  <2>2. CASE o # r
    BY <1>1, <1>2, <1>3, <2>2 DEF LoneInv
  <2> QED
    BY <2>1, <2>2
<1>5. ASSUME ~tainted'
      PROVE  /\ Sound'
             /\ \A o \in Requests : Active(o)' => OwnCall(job[o])'
             /\ \A q, o \in Requests : Active(q)' /\ Active(o)' => q = o
  <2>1. Sound' /\ (x.pc \in CallPC => OwnCall(x)')
    BY <1>3, <1>5
  <2>2. \A q, o \in Requests : Active(q)' /\ Active(o)' => q = o
    BY <1>2, <1>3, <1>5 DEF LoneInv
  <2>3. ASSUME NEW o \in Requests, Active(o)' PROVE OwnCall(job[o])'
    <3>1. o = r /\ job'[o] = x
      BY <1>1, <1>2, <1>3, <1>5, <2>3 DEF LoneInv
    <3>2. x.pc \in CallPC
      BY <2>3, <3>1 DEF Active
    <3>3. OwnCall(x)'
      BY <2>1, <3>2
    <3> QED
      BY <3>1, <3>3 DEF OwnCall
  <2> QED
    BY <2>1, <2>2, <2>3
<1> QED
  BY <1>4, <1>5 DEF LoneInv

\* A call begins: what it keeps of the context, left by whatever ran before,
\* and what it will evaluate make up its prompt.
LEMMA BeginLone ==
  ASSUME IInv, LoneInv, NEW r \in Requests, Begin(r)
  PROVE  LoneInv'
<1> DEFINE prompt == job[r].prompt
           kept == Reuse(prompt)
           rest == SubSeq(prompt, kept + 1, Len(prompt))
           others == {o \in Requests \ {r} : job[o].pc \in CallPC}
<1>0. /\ r \in Jobs /\ job[r].pc = "begin" /\ prompt \in Prompts
      /\ LlmOK /\ job[r] \in Job /\ job[r].out = <<>>
  BY JobFields DEF Begin, Jobs, IInv, Admitted, TypeOK, JobOK, LlmOK
<1>1. CASE Forget(r) /\ UNCHANGED llm
  BY <1>1, ForgetLone
<1>2. CASE /\ job' = [job EXCEPT ![r] = [job[r] EXCEPT !.pc = "eval", !.pending = rest]]
           /\ context' = SubSeq(context, 1, kept)
           /\ Overlap(r, kept) /\ UNCHANGED <<cache, garbled, logits>>
  <2>1. PICK x : x = [job[r] EXCEPT !.pc = "eval", !.pending = rest]
    OBVIOUS
  <2>2. /\ x.pc = "eval" /\ x.pending = rest /\ x.prompt = prompt
        /\ x.out = <<>> /\ x.basis = job[r].basis
    <3> HIDE DEF rest
    <3> QED BY <1>0, <2>1 DEF Job
  <2>3. \A k \in Jobs : job'[k] = IF k = r THEN x ELSE job[k]
    BY <1>2, <2>1 DEF IInv, TypeOK
  <2>4. /\ prompt \in Seq(Tokens) /\ Len(prompt) \in Nat
        /\ kept \in 0..Len(context) /\ kept \in 0..(Len(prompt) - 1)
        /\ SubSeq(context, 1, kept) = SubSeq(prompt, 1, kept)
    BY <1>0, ReuseType, PromptSeq DEF LlmOK
  <2>5. context' \o rest = prompt
    <3> HIDE DEF kept, prompt
    <3>1. SubSeq(prompt, 1, kept) \o rest = SubSeq(prompt, 1, Len(prompt))
      BY <2>4, ConcatAdjacentSubSeq
    <3> QED
      BY <1>2, <2>4, <3>1, SubSeqFull
  <2>6. prompt \o <<>> = prompt
    BY <2>4, ConcatEmptySeq
  <2>7. OwnCall(x)'
    <3>1. OwnCall(x)' <=> context' \o rest = prompt \o <<>>
      <4> HIDE DEF rest, prompt
      <4> QED BY <2>2 DEF OwnCall
    <3> QED
      BY <2>5, <2>6, <3>1
  <2>8. /\ tainted' = (others # {} \/ (tainted /\ kept # 0))
        /\ disturbed' = disturbed \cup IF tainted' THEN others \cup {r} ELSE {}
    BY <1>2 DEF Overlap
  <2>9. ASSUME NEW o \in Requests
        PROVE  /\ o \in Jobs
               /\ job'[o] = IF o = r THEN x ELSE job[o]
               /\ o \in others <=> o # r /\ job[o].pc \in CallPC
               /\ Active(o)' <=> o = r \/ o \in others
    <3>1. o \in Jobs /\ job'[o] = IF o = r THEN x ELSE job[o]
      BY <2>3 DEF Jobs
    <3>2. o \in others <=> o # r /\ job[o].pc \in CallPC
      OBVIOUS
    <3> HIDE DEF others
    <3> QED
      BY <2>2, <3>1, <3>2 DEF Active, CallPC
  <2>10. r \notin disturbed /\ job[r].basis = "own"
    BY <1>0 DEF LoneInv
  <2> HIDE DEF rest, prompt, kept, others
  <2>11. ASSUME NEW o \in Requests
         PROVE  /\ Active(o)' => (tainted' <=> o \in disturbed')
                /\ job'[o].pc \in {"none", "waiting", "begin"} => o \notin disturbed'
                /\ o \notin disturbed' => job'[o].basis = "own"
    <3>1. CASE o = r
      <4>1. job'[o] = x
        BY <2>3, <2>9, <3>1
      <4>2. tainted' <=> r \in disturbed'
        BY <2>8, <2>10
      <4> QED
        BY <2>2, <2>10, <3>1, <4>1, <4>2
    <3>2. CASE o # r
      <4>1. job'[o] = job[o]
        BY <2>3, <2>9, <3>2
      <4>2. o \in disturbed => o \in disturbed'
        BY <2>8
      <4>3. CASE o \in others
        <5>1. tainted' /\ o \in disturbed'
          BY <2>8, <4>3
        <5>2. job[o].pc \notin {"none", "waiting", "begin"}
          BY <2>9, <4>3 DEF CallPC
        <5> QED
          BY <4>1, <5>1, <5>2
      <4>4. CASE o \notin others
        <5>1. o \in disturbed' <=> o \in disturbed
          BY <2>8, <3>2, <4>4
        <5>2. ~Active(o)' /\ (o \notin disturbed => job[o].basis = "own")
                /\ (job[o].pc \in {"none", "waiting", "begin"} => o \notin disturbed)
          BY <2>9, <3>2, <4>4 DEF LoneInv
        <5> QED
          BY <4>1, <5>1, <5>2
      <4> QED
        BY <4>3, <4>4
    <3> QED
      BY <3>1, <3>2
  <2>12. ASSUME ~tainted'
         PROVE  /\ Sound'
                /\ \A o \in Requests : Active(o)' => OwnCall(job[o])'
                /\ \A q, o \in Requests : Active(q)' /\ Active(o)' => q = o
    <3>1. others = {} /\ (tainted => kept = 0)
      BY <2>8, <2>12
    <3>2. \A o \in Requests : Active(o)' => o = r
      BY <2>9, <3>1
    <3>3. job'[r] = x
      BY <1>0, <2>3
    <3>4. OwnCall(job[r])'
      BY <2>7, <3>3 DEF OwnCall
    <3>5. Sound'
      <4>1. /\ context \in Seq(Tokens) /\ cache \in Seq(Tokens)
            /\ Len(context) \in Nat /\ Len(cache) \in Nat
            /\ garbled \in Nat \ {0} /\ kept \in Nat /\ kept <= Len(context)
        BY <1>0, <2>4, LenProperties DEF LlmOK
      <4>2. Len(context') = kept
        BY <1>2, <4>1
      <4>3. CASE kept = 0
        <5>1. SubSeq(cache, 1, 0) = <<>> /\ SubSeq(context, 1, 0) = <<>>
          BY SubSeqEmpty
        <5> QED
          BY <1>2, <4>1, <4>2, <4>3, <5>1 DEF Sound
      <4>4. CASE ~tainted
        <5>1. /\ Len(context) <= Len(cache) /\ SubSeq(cache, 1, Len(context)) = context
              /\ Len(context) < garbled
          BY <4>4 DEF LoneInv, Sound
        <5>2. SubSeq(cache, 1, kept) = SubSeq(context, 1, kept)
          <6>1. \A i \in 1..Len(context) : context[i] = cache[i]
            BY <4>1, <5>1
          <6>2. \A i \in 1..kept : context[i] = cache[i]
            BY <4>1, <6>1
          <6> QED
            BY <4>1, <5>1, <6>2
        <5> QED
          BY <1>2, <4>1, <4>2, <5>1, <5>2 DEF Sound
      <4> QED
        BY <3>1, <4>3, <4>4
    <3> QED
      BY <3>2, <3>4, <3>5
  <2> QED
    BY <2>11, <2>12 DEF LoneInv
<1> QED
  BY <1>1, <1>2 DEF Begin, SetJob

\* What a call that has llm for itself evaluates has room in the context.
LEMMA OwnRoom ==
  ASSUME IInv, NEW r \in Requests, Active(r), OwnCall(job[r]),
         job[r].pc # "sample"
  PROVE  /\ Len(context) \in Nat /\ Len(job[r].pending) \in Nat
         /\ Len(context) + Len(job[r].pending) <= N_CTX
         /\ context \in Seq(Tokens) /\ job[r].pending \in Seq(Tokens)
<1> DEFINE pending == job[r].pending  prompt == job[r].prompt  out == job[r].out
<1>1. /\ pending \in Seq(Tokens) /\ prompt \in Seq(Tokens) /\ out \in Seq(Tokens)
      /\ context \in Seq(Tokens) /\ JobOK(job[r])
  <2>1. r \in Jobs
    BY DEF Jobs
  <2> QED
    BY <2>1, JobFields, PromptSeq DEF IInv, TypeOK
<1>2. context \o pending = prompt \o out
  BY DEF OwnCall
<1>3. Len(prompt) < N_CTX /\ Len(out) < LimitOf(job[r])
  BY <1>1 DEF JobOK, Active
<1>4. /\ LimitOf(job[r]) \in Nat /\ LimitOf(job[r]) + Len(prompt) <= N_CTX
      /\ Len(prompt) \in Nat
  BY <1>3, RoomLeft DEF Active
<1>5. /\ Len(context) \in Nat /\ Len(pending) \in Nat /\ Len(out) \in Nat
      /\ Len(context \o pending) = Len(context) + Len(pending)
      /\ Len(prompt \o out) = Len(prompt) + Len(out)
  BY <1>1, LenProperties, ConcatProperties
<1>6. Len(context) + Len(pending) = Len(prompt) + Len(out)
  BY <1>2, <1>5
<1> DEFINE a == Len(context)  b == Len(pending)  c == Len(prompt)  d == Len(out)
           l == LimitOf(job[r])
<1>7. a + b <= N_CTX
  <2>1. /\ a \in Nat /\ b \in Nat /\ c \in Nat /\ d \in Nat /\ l \in Nat
        /\ N_CTX \in Nat /\ a + b = c + d /\ d < l /\ l + c <= N_CTX
    BY <1>3, <1>4, <1>5, <1>6, InferenceAssumption
  <2> HIDE DEF a, b, c, d, l
  <2> QED
    BY <2>1
<1> QED
  BY <1>1, <1>5, <1>7

\* The evaluation of a lone call cuts the cells to what is on record.
LEMMA EvalStartLone ==
  ASSUME IInv, LoneInv, NEW r \in Requests, EvalStart(r)
  PROVE  LoneInv'
<1>0. /\ r \in Jobs /\ job[r].pc = "eval" /\ Active(r) /\ LlmOK /\ job[r] \in Job
      /\ context' = context /\ UNCHANGED history
  BY JobFields DEF EvalStart, Jobs, Active, CallPC, IInv, TypeOK, LlmOK
<1>1. PICK x : x = [job[r] EXCEPT !.pc = "decode", !.n_past = Len(context)]
  OBVIOUS
<1>2. job' = [job EXCEPT ![r] = x]
  BY <1>1 DEF EvalStart, SetJob
<1>3. /\ x.pc = "decode" /\ x.n_past = Len(context) /\ x.pending = job[r].pending
      /\ x.prompt = job[r].prompt /\ x.out = job[r].out /\ x.basis = job[r].basis
  BY <1>0, <1>1 DEF Job
<1>4. ASSUME ~tainted
      PROVE  Sound' /\ x.basis = "own" /\ OwnCall(x)'
  <2>1. OwnCall(job[r]) /\ Sound /\ r \notin disturbed /\ job[r].basis = "own"
    BY <1>0, <1>4 DEF LoneInv
  <2>2. Len(context) \in Nat /\ Len(context) <= N_CTX /\ context \in Seq(Tokens)
    <3>1. /\ Len(context) \in Nat /\ Len(job[r].pending) \in Nat
          /\ Len(context) + Len(job[r].pending) <= N_CTX /\ context \in Seq(Tokens)
      BY <1>0, <2>1, OwnRoom
    <3> DEFINE a == Len(context)  b == Len(job[r].pending)
    <3>2. a <= N_CTX
      <4>1. a \in Nat /\ b \in Nat /\ a + b <= N_CTX /\ N_CTX \in Nat
        BY <3>1, InferenceAssumption
      <4> HIDE DEF a, b
      <4> QED
        BY <4>1
    <3> QED
      BY <3>1, <3>2
  <2>3. cache' = context
    <3>1. Upto(cache, Len(context)) = SubSeq(cache, 1, Len(context))
      BY <1>0, <2>1, <2>2, UptoType DEF Sound, LlmOK
    <3> QED
      BY <2>1, <3>1 DEF EvalStart, Sound
  <2>4. garbled' = NoCell
    <3>1. ~(garbled <= Len(context))
      BY <1>0, <2>1, <2>2 DEF Sound, LlmOK
    <3> QED
      BY <3>1 DEF EvalStart
  <2>5. Sound'
    <3>1. SubSeq(context, 1, Len(context)) = context
      BY <2>2, SubSeqFull
    <3>2. Len(context) < NoCell
      BY <2>2, InferenceAssumption DEF NoCell
    <3> QED
      BY <1>0, <2>2, <2>3, <2>4, <3>1, <3>2 DEF Sound
  <2>6. context \o job[r].pending = job[r].prompt \o job[r].out
    BY <1>0, <2>1 DEF OwnCall
  <2> QED
    BY <1>0, <1>3, <2>1, <2>3, <2>4, <2>5, <2>6 DEF OwnCall, NoCell
<1> QED
  BY <1>0, <1>2, <1>3, <1>4, ActiveStep DEF CallPC

\* The cells of a lone call come after those of what is on record.
LEMMA DecodeLone ==
  ASSUME IInv, LoneInv, NEW r \in Requests, Decode(r)
  PROVE  LoneInv'
<1> DEFINE from  == job[r].n_past
           to    == from + Len(job[r].pending)
           sound == Len(cache) = from /\ to < garbled
<1>0. /\ r \in Jobs /\ job[r].pc = "decode" /\ Active(r) /\ LlmOK /\ job[r] \in Job
      /\ context' = context
  BY JobFields DEF Decode, Jobs, Active, CallPC, IInv, TypeOK, LlmOK
<1>1. CASE Forget(r) /\ UNCHANGED <<cache, garbled, logits>>
  BY <1>0, <1>1, ForgetLone DEF llm
<1>2. CASE /\ job' = [job EXCEPT ![r] = [job[r] EXCEPT !.pc = "record"]]
           /\ UNCHANGED history
           /\ sound => /\ cache' = cache \o job[r].pending
                       /\ logits' = cache' /\ garbled' = garbled
  <2>1. PICK x : x = [job[r] EXCEPT !.pc = "record"]
    OBVIOUS
  <2>2. /\ x.pc = "record" /\ x.n_past = from /\ x.pending = job[r].pending
        /\ x.prompt = job[r].prompt /\ x.out = job[r].out /\ x.basis = job[r].basis
    BY <1>0, <2>1 DEF Job
  <2>3. ASSUME ~tainted
        PROVE  Sound' /\ x.basis = "own" /\ OwnCall(x)'
    <3>1. OwnCall(job[r]) /\ r \notin disturbed /\ job[r].basis = "own"
      BY <1>0, <2>3 DEF LoneInv
    <3>2. /\ from = Len(context) /\ garbled = NoCell /\ cache = context
          /\ context \o job[r].pending = job[r].prompt \o job[r].out
      BY <1>0, <3>1 DEF OwnCall
    <3>3. /\ Len(context) \in Nat /\ Len(job[r].pending) \in Nat
          /\ Len(context) + Len(job[r].pending) <= N_CTX
          /\ context \in Seq(Tokens) /\ job[r].pending \in Seq(Tokens)
      BY <1>0, <3>1, OwnRoom
    <3>4. /\ cache' = context \o job[r].pending /\ logits' = cache'
          /\ garbled' = NoCell
      <4>1. sound
        BY <3>2, <3>3, InferenceAssumption DEF NoCell
      <4> QED
        BY <1>2, <3>2, <4>1
    <3>5. Sound'
      <4>1. /\ Len(context \o job[r].pending) = Len(context) + Len(job[r].pending)
            /\ SubSeq(context \o job[r].pending, 1, Len(context)) = context
        <5>1. \A i \in 1..Len(context) : (context \o job[r].pending)[i] = context[i]
          BY <3>3, ConcatProperties
        <5> QED
          BY <3>3, <5>1
      <4>2. Len(context) <= Len(context) + Len(job[r].pending) /\ Len(context) < NoCell
        BY <3>3, InferenceAssumption DEF NoCell
      <4> QED
        BY <1>0, <3>4, <4>1, <4>2 DEF Sound
    <3> QED
      BY <1>0, <2>2, <3>1, <3>2, <3>3, <3>4, <3>5 DEF OwnCall, NoCell
  <2> QED
    BY <1>0, <1>2, <2>1, <2>2, <2>3, ActiveStep DEF CallPC
<1> QED
  BY <1>1, <1>2 DEF Decode, Answer, SetJob

\* A batch that is written where the recorded tokens end, and has room there,
\* goes on from them.
LEMMA RecordedOwn ==
  ASSUME NEW batch \in Seq(Tokens), context \in Seq(Tokens),
         Len(context) + Len(batch) <= N_CTX,
         NEW s \in Recorded(Len(context), batch)
  PROVE  s = context \o batch
<1> DEFINE n == Len(context)  m == Len(batch)
           written == (n + 1)..(n + m)
<1>1. n \in Nat /\ m \in Nat /\ N_CTX \in Nat
  BY LenProperties, InferenceAssumption
<1>2. (IF n + m < N_CTX THEN n + m ELSE N_CTX) = n + m
  BY <1>1
<1>3. /\ s \in [1..(n + m) -> Tokens]
      /\ \A i \in 1..(n + m) :
           /\ i \in written => s[i] = batch[i - n]
           /\ i \notin written /\ i <= n => s[i] = context[i]
  BY <1>2 DEF Recorded
<1>4. \A i \in 1..(n + m) : s[i] = IF i <= n THEN context[i] ELSE batch[i - n]
  <2>1. \A i \in 1..(n + m) : (i <= n => i \notin written) /\ (i <= n \/ i \in written)
    BY <1>1
  <2> QED
    BY <1>3, <2>1
<1>5. /\ context \o batch \in Seq(Tokens) /\ Len(context \o batch) = n + m
      /\ \A i \in 1..(n + m) :
           (context \o batch)[i] = IF i <= n THEN context[i] ELSE batch[i - n]
  BY ConcatProperties
<1>6. s \in Seq(Tokens) /\ Len(s) = n + m
  <2>1. n + m \in Nat
    BY <1>1
  <2> HIDE DEF n, m
  <2> QED
    BY <1>3, <2>1, SeqDef, LenProperties
<1> HIDE DEF n, m
<1> QED
  BY <1>4, <1>5, <1>6, SeqEqual

\* A lone call records what it has evaluated.
LEMMA RecordLone ==
  ASSUME IInv, LoneInv, NEW r \in Requests, Record(r)
  PROVE  LoneInv'
<1>0. /\ r \in Jobs /\ job[r].pc = "record" /\ Active(r) /\ LlmOK /\ job[r] \in Job
      /\ UNCHANGED <<cache, garbled, logits, history>>
  BY JobFields DEF Record, Jobs, Active, CallPC, IInv, TypeOK, LlmOK
<1>1. PICK x : x = [job[r] EXCEPT !.pc = "sample", !.pending = <<>>, !.n_past = 0]
  OBVIOUS
<1>2. job' = [job EXCEPT ![r] = x]
  BY <1>1 DEF Record, SetJob
<1>3. /\ x.pc = "sample" /\ x.prompt = job[r].prompt /\ x.out = job[r].out
      /\ x.basis = job[r].basis
  BY <1>0, <1>1 DEF Job
<1>4. ASSUME ~tainted
      PROVE  Sound' /\ x.basis = "own" /\ OwnCall(x)'
  <2>1. OwnCall(job[r]) /\ r \notin disturbed /\ job[r].basis = "own"
    BY <1>0, <1>4 DEF LoneInv
  <2>2. /\ job[r].n_past = Len(context) /\ garbled = NoCell
        /\ cache = context \o job[r].pending /\ logits = cache
        /\ context \o job[r].pending = job[r].prompt \o job[r].out
    BY <1>0, <2>1 DEF OwnCall
  <2>3. /\ Len(context) \in Nat /\ Len(job[r].pending) \in Nat
        /\ Len(context) + Len(job[r].pending) <= N_CTX
        /\ context \in Seq(Tokens) /\ job[r].pending \in Seq(Tokens)
    BY <1>0, <2>1, OwnRoom
  <2>4. context' = context \o job[r].pending
    <3>1. context' \in Recorded(Len(context), job[r].pending)
      BY <2>2 DEF Record
    <3> QED
      BY <2>3, <3>1, RecordedOwn
  <2>5. Sound'
    <3>1. cache' = context' /\ garbled' = NoCell /\ cache \in Seq(Tokens)
      BY <1>0, <2>2, <2>4 DEF LlmOK
    <3>2. Len(cache) = Len(context) + Len(job[r].pending)
      BY <2>2, <2>3, ConcatProperties
    <3>3. Len(cache) \in Nat /\ SubSeq(cache, 1, Len(cache)) = cache
      BY <3>1, SubSeqFull, LenProperties
    <3>4. Len(cache) < NoCell
      BY <2>3, <3>2, <3>3, InferenceAssumption DEF NoCell
    <3> QED
      BY <1>0, <3>1, <3>3, <3>4 DEF Sound
  <2> QED
    BY <1>0, <1>3, <2>1, <2>2, <2>4, <2>5 DEF OwnCall
<1> QED
  BY <1>0, <1>2, <1>3, <1>4, ActiveStep DEF CallPC

\* A lone call samples from its own prompt and its own tokens.
LEMMA SampleLone ==
  ASSUME IInv, LoneInv, NEW r \in Requests, Sample(r)
  PROVE  LoneInv'
<1>0. /\ r \in Jobs /\ job[r].pc = "sample" /\ Active(r) /\ UNCHANGED llm
      /\ job[r].out \in Seq(Tokens) /\ job[r].prompt \in Seq(Tokens)
  <2>1. r \in Jobs
    BY DEF Jobs
  <2> QED
    BY <2>1, JobFields, PromptSeq DEF Sample, Active, CallPC, llm
<1>1. CASE Forget(r)
  BY <1>0, <1>1, ForgetLone
<1>2. ASSUME UNCHANGED history, NEW x, job' = [job EXCEPT ![r] = x], Sampled(r, x)
      PROVE  LoneInv'
  <2>1. x.pc \in {"200", "eval"}
    BY <1>2 DEF Sampled
  <2>2. ASSUME ~tainted
        PROVE  Sound' /\ x.basis = "own" /\ (x.pc \in CallPC => OwnCall(x)')
    <3>1. OwnCall(job[r]) /\ Sound /\ r \notin disturbed /\ job[r].basis = "own"
      BY <1>0, <2>2 DEF LoneInv
    <3>2. context = job[r].prompt \o job[r].out /\ logits = context
      BY <1>0, <3>1 DEF OwnCall
    <3>3. x.basis = "own"
      BY <1>2, <3>1, <3>2 DEF Sampled
    <3>4. Sound'
      BY <1>0, <3>1 DEF Sound, llm
    <3>5. ASSUME x.pc \in CallPC PROVE OwnCall(x)'
      <4>1. PICK t \in Tokens : /\ x.pc = "eval" /\ x.pending = <<t>>
                                /\ x.out = Append(job[r].out, t)
        BY <1>2, <3>5 DEF Sampled, CallPC
      <4>2. x.prompt = job[r].prompt /\ context' = context
        BY <1>0, <1>2 DEF Sampled, llm
      <4>3. context \o <<t>> = job[r].prompt \o Append(job[r].out, t)
        BY <1>0, <3>2, AppendConcat
      <4> QED
        BY <4>1, <4>2, <4>3 DEF OwnCall
    <3> QED
      BY <3>3, <3>4, <3>5
  <2>3. x.pc \in CallPC \cup {"200"}
    BY <2>1 DEF CallPC
  <2> QED
    BY <1>0, <1>2, <2>2, <2>3, ActiveStep
<1>3. \/ Forget(r)
      \/ /\ UNCHANGED history
         /\ \E x : job' = [job EXCEPT ![r] = x] /\ Sampled(r, x)
  BY SampleMoves
<1> QED
  BY <1>1, <1>2, <1>3

-----------------------------------------------------------------------------
(* Theorems.                                                               *)

\* The invariant holds in every reachable state of the server.
THEOREM ServerInvariant == Spec => []IInv
<1>1. Init => IInv
  <2> SUFFICES ASSUME Init PROVE IInv
    OBVIOUS
  <2>1. NoJob \in Job /\ JobOK(NoJob) /\ NoJob.pc = "none"
    BY NoJobOK
  <2>2. /\ job = [j \in Jobs |-> NoJob] /\ waiting = <<>>
        /\ context = <<>> /\ cache = <<>> /\ logits = <<>>
        /\ garbled \in Nat \ {0}
    BY InferenceAssumption DEF Init, NoCell
  <2>3. TypeOK
    BY <2>1, <2>2 DEF TypeOK
  <2>4. \A j \in Jobs : job[j] = NoJob
    BY <2>2
  <2>5. Admitted /\ ProbesOK
    BY <2>1, <2>4 DEF Admitted, ProbesOK, Jobs, CallPC
  <2>6. QueueOK
    BY <2>2 DEF QueueOK
  <2> QED
    BY <2>1, <2>3, <2>4, <2>5, <2>6 DEF IInv
<1>2. IInv /\ [Next]_vars => IInv'
  <2> SUFFICES ASSUME IInv, [Next]_vars PROVE IInv'
    OBVIOUS
  <2>1. CASE UNCHANGED vars
    BY <2>1 DEF vars, llm, IInv, TypeOK, Admitted, QueueOK, ProbesOK
  <2> QED
    BY <2>1, DispatchStep, ProbeStep, ReceiveStep, BeginStep, EvalStartStep,
       DecodeStep, RecordStep, SampleStep, DeliverStep DEF Next, ThreadStep
<1> QED
  BY <1>1, <1>2, PTL DEF Spec

\* An answer never has more tokens than its request allowed, nor more than the
\* context holds, whatever the threads of server.py do to the llm they share.
THEOREM LimitsHold == Spec => []AnswerWithinLimits
<1>1. IInv => AnswerWithinLimits
  BY DEF IInv, AnswerWithinLimits, JobOK, Jobs
<1> QED
  BY <1>1, ServerInvariant, PTL

\* A call that no other one runs alongside is computed from its own prompt, from
\* any context that calls have left which did not overlap, and from one that
\* overlapping calls have left as soon as a lone call has kept nothing of it:
\* although evaluating takes three steps, and the tokens on record and the cells
\* are only in step between calls.
THEOREM LoneCallsAreRight == Spec => []LoneCallsUnmixed
<1>1. Init => LoneInv
  <2> SUFFICES ASSUME Init PROVE LoneInv
    OBVIOUS
  <2>1. \A r \in Requests : job[r] = NoJob
    BY DEF Init, Jobs
  <2>2. NoJob.pc = "none" /\ NoJob.basis = "own"
    BY DEF NoJob
  <2>3. Sound
    <3>1. /\ context = <<>> /\ cache = <<>> /\ garbled = NoCell
          /\ Len(<<>>) = 0 /\ SubSeq(<<>>, 1, 0) = <<>> /\ 0 < NoCell
      BY InferenceAssumption, EmptySeq, SubSeqEmpty DEF Init, NoCell
    <3> QED
      BY <3>1 DEF Sound
  <2> QED
    BY <2>1, <2>2, <2>3 DEF Init, LoneInv, Active, CallPC
<1>2. IInv /\ LoneInv /\ [Next]_vars => LoneInv'
  <2> SUFFICES ASSUME IInv, LoneInv, [Next]_vars PROVE LoneInv'
    OBVIOUS
  <2>1. ASSUME NEW j \in Jobs, NEW st \in {"none", "waiting", "begin"},
               job[j].pc \in {"none", "waiting"}, Answer(j, st),
               UNCHANGED <<llm, history>>
        PROVE  LoneInv'
    <3>1. PICK x : x = [job[j] EXCEPT !.pc = st]
      OBVIOUS
    <3>2. x.pc = st /\ x.basis = job[j].basis /\ job' = [job EXCEPT ![j] = x]
      BY <2>1, <3>1, JobFields DEF Job, Answer, SetJob
    <3>3. j \notin disturbed \/ j \notin Requests
      BY <2>1 DEF LoneInv
    <3> QED
      BY <2>1, <3>2, <3>3, QuietStep DEF history, CallPC
  <2>2. CASE Dispatch
    <3>1. Head(waiting) \in Jobs /\ job[Head(waiting)].pc = "waiting"
      <4>1. waiting # <<>> /\ waiting \in Seq(Jobs) /\ QueueOK
        BY <2>2 DEF Dispatch, IInv, TypeOK
      <4>2. Head(waiting) = waiting[1] /\ 1 \in 1..Len(waiting)
        BY <4>1
      <4> QED
        BY <4>1, <4>2 DEF QueueOK
    <3>2. Start(Head(waiting)) \in {"none", "waiting", "begin"}
      BY DEF Start
    <3> QED
      BY <2>1, <2>2, <3>1, <3>2 DEF Dispatch
  <2>3. ASSUME NEW p \in Probes, Probe(p)
        PROVE  LoneInv'
    BY <2>1, <2>3 DEF Probe, Jobs
  <2>4. ASSUME NEW r \in Requests, Receive(r)
        PROVE  LoneInv'
    <3>1. PICK prompt \in Prompts, max_tokens \in Limits :
            job' = [job EXCEPT ![r] = [NoJob EXCEPT !.pc = "waiting",
                      !.prompt = prompt, !.max_tokens = max_tokens]]
      BY <2>4 DEF Receive, SetJob
    <3>2. PICK x : x = [NoJob EXCEPT !.pc = "waiting", !.prompt = prompt,
                                     !.max_tokens = max_tokens]
      OBVIOUS
    <3>3. x.pc = "waiting" /\ x.basis = "own" /\ job' = [job EXCEPT ![r] = x]
      BY <3>1, <3>2 DEF NoJob
    <3>4. r \in Jobs /\ UNCHANGED <<llm, history>> /\ r \notin disturbed
      BY <2>4 DEF Receive, Jobs, LoneInv
    <3> QED
      BY <3>3, <3>4, QuietStep DEF history, CallPC
  <2>5. ASSUME NEW r \in Requests, Deliver(r)
        PROVE  LoneInv'
    BY <2>5, ForgetLone DEF Deliver
  <2>6. CASE UNCHANGED vars
    BY <2>6 DEF vars, llm, history, LoneInv, Active, Sound, OwnCall
  <2> QED
    BY <2>2, <2>3, <2>4, <2>5, <2>6, BeginLone, EvalStartLone, DecodeLone,
       RecordLone, SampleLone DEF Next, ThreadStep
<1>3. LoneInv => LoneCallsUnmixed
  BY DEF LoneInv, LoneCallsUnmixed
<1> QED
  BY <1>1, <1>2, <1>3, ServerInvariant, PTL DEF Spec

\* At most one job is on a thread, and nothing is disturbed.
OneThread ==
  /\ \A j, k \in Jobs : Running(j) /\ Running(k) => j = k
  /\ ~tainted /\ disturbed = {}

\* The defect of server.py is the lack of mutual exclusion and nothing else:
\* with a pool of one thread every answer is computed from its own prompt.
THEOREM SerialCallsAreRight == PoolSize = 1 => (Spec => []OwnPromptOnly)
<1> SUFFICES ASSUME PoolSize = 1 PROVE Spec => []OwnPromptOnly
  OBVIOUS
<1>1. Init => OneThread
  <2> SUFFICES ASSUME Init PROVE OneThread
    OBVIOUS
  <2>1. \A j \in Jobs : job[j].pc = "none"
    BY DEF Init, NoJob
  <2> QED
    BY <2>1 DEF Init, OneThread, Running, CallPC
<1>2. IInv /\ OneThread /\ [Next]_vars => OneThread'
  <2> SUFFICES ASSUME IInv, OneThread, [Next]_vars PROVE OneThread'
    OBVIOUS
  <2>1. \A j \in Jobs : job[j] \in Job
    BY JobFields
  <2>2. ASSUME NEW j \in Jobs, NEW x, job' = [job EXCEPT ![j] = x],
               x.pc \in {"begin"} \cup CallPC => Running(j),
               ~tainted' /\ disturbed' = {}
        PROVE  OneThread'
    <3>1. \A k \in Jobs : job'[k] = IF k = j THEN x ELSE job[k]
      BY <2>2 DEF IInv, TypeOK
    <3>2. \A k \in Jobs : Running(k)' => Running(k)
      BY <2>2, <3>1 DEF Running
    <3> QED
      BY <2>2, <3>2 DEF OneThread
  <2>3. CASE Dispatch
    <3> DEFINE R == {j \in Jobs : Running(j)}
               h == Head(waiting)
    <3>1. h \in Jobs
      BY <2>3 DEF Dispatch, IInv, TypeOK
    <3>2. R = {}
      <4>1. ASSUME NEW j \in R PROVE FALSE
        <5>1. R = {j}
          BY <4>1 DEF OneThread
        <5> HIDE DEF R
        <5>2. Cardinality(R) = 1
          BY <5>1, FS_Singleton
        <5> QED
          BY <2>3, <5>2 DEF Dispatch, R
      <4> QED
        BY <4>1
    <3>3. \A k \in Jobs : k # h => job'[k] = job[k]
      BY <2>3, <3>1 DEF Dispatch, Answer, SetJob, IInv, TypeOK
    <3>4. \A k \in Jobs : Running(k)' => k = h
      BY <3>2, <3>3 DEF Running
    <3>5. ~tainted' /\ disturbed' = {}
      BY <2>3 DEF Dispatch, history, OneThread
    <3> QED
      BY <3>4, <3>5 DEF OneThread
  <2>4. ASSUME NEW r \in Requests, Forget(r) PROVE OneThread'
    <3>1. job' = [job EXCEPT ![r] = NoJob] /\ NoJob.pc = "none" /\ r \in Jobs
      BY <2>4 DEF Forget, SetJob, Jobs, NoJob
    <3>2. ~tainted' /\ disturbed' = {}
      BY <2>4 DEF Forget, OneThread
    <3> HIDE DEF NoJob
    <3> QED
      BY <2>2, <3>1, <3>2 DEF CallPC
  <2>5. ASSUME NEW j \in Jobs, NEW x, SetJob(j, x), UNCHANGED history,
               x.pc \in {"begin"} \cup CallPC => Running(j)
        PROVE  OneThread'
    BY <2>2, <2>5 DEF SetJob, history, OneThread
  <2>6. ASSUME NEW p \in Probes, Probe(p) PROVE OneThread'
    <3>1. PICK x : x = [job[p] EXCEPT !.pc = "waiting"]
      OBVIOUS
    <3>2. x.pc = "waiting" /\ SetJob(p, x) /\ p \in Jobs
      BY <2>1, <2>6, <3>1 DEF Probe, Answer, Jobs, Job
    <3> QED
      BY <2>5, <2>6, <3>2 DEF Probe, CallPC
  <2>7. ASSUME NEW r \in Requests, Receive(r) PROVE OneThread'
    <3>1. PICK prompt \in Prompts, max_tokens \in Limits :
            SetJob(r, [NoJob EXCEPT !.pc = "waiting", !.prompt = prompt,
                                    !.max_tokens = max_tokens])
      BY <2>7 DEF Receive
    <3>2. PICK x : x = [NoJob EXCEPT !.pc = "waiting", !.prompt = prompt,
                                     !.max_tokens = max_tokens]
      OBVIOUS
    <3>3. x.pc = "waiting" /\ SetJob(r, x) /\ r \in Jobs
      BY <3>1, <3>2 DEF NoJob, Jobs
    <3> QED
      BY <2>5, <2>7, <3>3 DEF Receive, CallPC
  <2>8. ASSUME NEW r \in Requests, Begin(r) PROVE OneThread'
    <3> DEFINE others == {o \in Requests \ {r} : job[o].pc \in CallPC}
               rest == SubSeq(job[r].prompt, Reuse(job[r].prompt) + 1,
                              Len(job[r].prompt))
    <3>1. Running(r) /\ r \in Jobs
      BY <2>8 DEF Begin, Running, Jobs
    <3>2. CASE Forget(r)
      BY <2>4, <3>2
    <3>3. CASE /\ SetJob(r, [job[r] EXCEPT !.pc = "eval", !.pending = rest])
               /\ Overlap(r, Reuse(job[r].prompt))
      <4>1. others = {}
        BY <3>1 DEF OneThread, Running, Jobs
      <4>2. /\ tainted' = (others # {} \/ (tainted /\ Reuse(job[r].prompt) # 0))
            /\ disturbed' = disturbed \cup IF tainted' THEN others \cup {r} ELSE {}
        BY <3>3 DEF Overlap
      <4> HIDE DEF others
      <4>3. ~tainted' /\ disturbed' = {}
        BY <4>1, <4>2 DEF OneThread
      <4>4. \E x : job' = [job EXCEPT ![r] = x]
        BY <3>3 DEF SetJob
      <4> QED
        BY <2>2, <3>1, <4>3, <4>4
    <3> QED
      BY <2>8, <3>2, <3>3 DEF Begin
  <2>9. ASSUME NEW r \in Requests,
               EvalStart(r) \/ Decode(r) \/ Record(r) \/ Sample(r)
        PROVE  OneThread'
    <3>1. Running(r) /\ r \in Jobs
      BY <2>9 DEF EvalStart, Decode, Record, Sample, Running, CallPC, Jobs
    <3>2. Forget(r) \/ (UNCHANGED history /\ \E x : SetJob(r, x))
      <4>1. CASE EvalStart(r) \/ Decode(r) \/ Record(r)
        BY <4>1 DEF EvalStart, Decode, Record, Answer, history
      <4>2. CASE Sample(r)
        BY <4>2, SampleMoves DEF SetJob
      <4> QED
        BY <2>9, <4>1, <4>2
    <3> QED
      BY <2>4, <2>5, <3>1, <3>2
  <2>10. ASSUME NEW r \in Requests, Deliver(r) PROVE OneThread'
    BY <2>4, <2>10 DEF Deliver
  <2>11. CASE UNCHANGED vars
    BY <2>11 DEF vars, history, OneThread, Running
  <2> QED
    BY <2>3, <2>6, <2>7, <2>8, <2>9, <2>10, <2>11 DEF Next, ThreadStep
<1>3. OneThread /\ LoneCallsUnmixed => OwnPromptOnly
  BY DEF OneThread, LoneCallsUnmixed, OwnPromptOnly
<1> QED
  BY <1>1, <1>2, <1>3, ServerInvariant, LoneCallsAreRight, PTL DEF Spec

-----------------------------------------------------------------------------
(* The server implements GenerationService.                                *)

\* The job of a request changes, and with it its request and its reply.
LEMMA OneReply ==
  ASSUME IInv, NEW r \in Requests, NEW x, job' = [job EXCEPT ![r] = x]
  PROVE  /\ requestBar' = [requestBar EXCEPT ![r] = RequestOf(x)]
         /\ replyBar' = [replyBar EXCEPT ![r] = ReplyOf(x)]
<1>1. r \in Jobs /\ \A k \in Jobs : job'[k] = IF k = r THEN x ELSE job[k]
  BY DEF IInv, TypeOK, Jobs
<1>2. \A k \in Requests : k \in Jobs
  BY DEF Jobs
<1>3. /\ requestBar' = [k \in Requests |-> RequestOf(job'[k])]
      /\ replyBar' = [k \in Requests |-> ReplyOf(job'[k])]
  BY Zenon DEF requestBar, replyBar
<1>4. job'[r] = x /\ \A k \in Requests \ {r} : job'[k] = job[k]
  BY <1>1, <1>2
<1>5. \A k \in Requests :
        /\ RequestOf(job'[k]) = IF k = r THEN RequestOf(x) ELSE requestBar[k]
        /\ ReplyOf(job'[k]) = IF k = r THEN ReplyOf(x) ELSE replyBar[k]
  <2> SUFFICES ASSUME NEW k \in Requests
               PROVE  /\ RequestOf(job'[k])
                           = IF k = r THEN RequestOf(x) ELSE requestBar[k]
                      /\ ReplyOf(job'[k]) = IF k = r THEN ReplyOf(x) ELSE replyBar[k]
    OBVIOUS
  <2>1. requestBar[k] = RequestOf(job[k]) /\ replyBar[k] = ReplyOf(job[k])
    BY DEF requestBar, replyBar
  <2>2. CASE k = r
    BY <1>4, <2>2
  <2>3. CASE k # r
    <3>1. job'[k] = job[k]
      BY <1>4, <2>3
    <3> QED BY <2>1, <2>3, <3>1
  <2> QED BY <2>2, <2>3
<1>6. DOMAIN requestBar = Requests /\ DOMAIN replyBar = Requests
  BY DEF requestBar, replyBar
<1> QED BY <1>3, <1>5, <1>6

\* The request stays, and the reply keeps or changes its status.
LEMMA StatusMoves ==
  ASSUME IInv, NEW r \in Requests, NEW x, job' = [job EXCEPT ![r] = x],
         RequestOf(x) = RequestOf(job[r]), job[r].pc # "200", x.pc # "200"
  PROVE  /\ requestBar' = requestBar
         /\ replyBar' = [replyBar EXCEPT ![r].status = Status(x.pc)]
<1>1. requestBar[r] = RequestOf(job[r]) /\ replyBar[r] = ReplyOf(job[r])
  BY DEF requestBar, replyBar
<1>2. requestBar' = [requestBar EXCEPT ![r] = requestBar[r]]
  BY <1>1, OneReply
<1>3. replyBar' = [replyBar EXCEPT ![r] = ReplyOf(x)]
  BY OneReply
<1>4. ReplyOf(x) = [replyBar[r] EXCEPT !.status = Status(x.pc)]
  BY <1>1 DEF ReplyOf
<1>5. requestBar' = requestBar
  BY <1>2 DEF requestBar
<1> QED BY <1>3, <1>4, <1>5

\* A step within one status is none of the service.
LEMMA StatusStays ==
  ASSUME IInv, NEW r \in Requests, NEW x, job' = [job EXCEPT ![r] = x],
         RequestOf(x) = RequestOf(job[r]), job[r].pc # "200", x.pc # "200",
         Status(x.pc) = Status(job[r].pc)
  PROVE  requestBar' = requestBar /\ replyBar' = replyBar
<1>1. /\ requestBar' = requestBar
      /\ replyBar' = [replyBar EXCEPT ![r].status = Status(x.pc)]
  BY StatusMoves, Zenon
<1>2. replyBar[r] = ReplyOf(job[r])
  BY DEF replyBar
<1>3. replyBar[r] = [replyBar[r] EXCEPT !.status = Status(x.pc)]
  BY <1>2 DEF ReplyOf
<1>4. replyBar' = replyBar
  BY <1>1, <1>3 DEF replyBar
<1> QED
  BY <1>1, <1>4

\* The service sees a call as open until it ends.
LEMMA OpenCall ==
  ASSUME NEW r \in Requests, job[r].pc \in {"waiting", "begin"} \cup CallPC
  PROVE  Service!Open(r)
BY DEF Service!Open, replyBar, ReplyOf, Status, CallPC

\* A step from one status to the same one is none of the service.
LEMMA CallStays ==
  ASSUME IInv, NEW r \in Requests, NEW x, job' = [job EXCEPT ![r] = x],
         UNCHANGED history, RequestOf(x) = RequestOf(job[r]),
         job[r].pc \in {"waiting", "begin"} \cup CallPC,
         x.pc \in {"waiting", "begin"} \cup CallPC
  PROVE  UNCHANGED Service!vars
<1>1. Status(x.pc) = Status(job[r].pc)
  BY DEF Status
<1>2. job[r].pc # "200" /\ x.pc # "200"
  BY DEF CallPC
<1> QED
  BY <1>1, <1>2, StatusStays DEF Service!vars, Service!history, history

\* What is forgotten has ended: it has failed, or its answer is delivered.
LEMMA ForgetMaps ==
  ASSUME IInv, NEW r \in Requests, job[r].pc # "none", Forget(r)
  PROVE  Service!Next
<1>1. job' = [job EXCEPT ![r] = NoJob] /\ job[r].pc \in PC
  BY JobFields DEF Forget, SetJob, Jobs
<1>2. RequestOf(NoJob) = Service!NoRequest /\ ReplyOf(NoJob) = Service!NoReply
  BY DEF RequestOf, ReplyOf, NoJob, Status, CallPC, Service!NoRequest, Service!NoReply
<1>3. /\ requestBar' = [requestBar EXCEPT ![r] = Service!NoRequest]
      /\ replyBar' = [replyBar EXCEPT ![r] = Service!NoReply]
  <2> HIDE DEF NoJob
  <2>1. /\ requestBar' = [requestBar EXCEPT ![r] = RequestOf(NoJob)]
        /\ replyBar' = [replyBar EXCEPT ![r] = ReplyOf(NoJob)]
    BY <1>1, OneReply, Zenon
  <2> QED
    BY <1>2, <2>1
<1>4. replyBar[r].status # "none"
  BY <1>1 DEF replyBar, ReplyOf, Status, PC, CallPC
<1>5. Service!End(r)
  BY <1>3, <1>4 DEF Service!End, Forget
<1> QED
  BY <1>5 DEF Service!Next

\* A probe is nothing to the service.
LEMMA ProbeStays ==
  ASSUME IInv, NEW p \in Probes, NEW st, Answer(p, st), UNCHANGED history
  PROVE  UNCHANGED Service!vars
<1>1. \A r \in Requests : job'[r] = job[r]
  BY InferenceAssumption DEF IInv, TypeOK, Jobs, Answer, SetJob
<1> QED
  BY <1>1 DEF Service!vars, Service!history, history, requestBar, replyBar

\* Nor is a request that gets a thread.
LEMMA DispatchMaps ==
  ASSUME IInv, Dispatch
  PROVE  UNCHANGED Service!vars
<1>1. Head(waiting) \in Jobs /\ job[Head(waiting)].pc = "waiting"
  <2>1. waiting # <<>> /\ waiting \in Seq(Jobs) /\ QueueOK
    BY DEF Dispatch, IInv, TypeOK
  <2>2. Head(waiting) = waiting[1] /\ 1 \in 1..Len(waiting)
    BY <2>1
  <2> QED
    BY <2>1, <2>2 DEF QueueOK
<1>2. CASE Head(waiting) \in Probes
  BY <1>2, ProbeStays DEF Dispatch
<1>3. ASSUME NEW r \in Requests, r = Head(waiting), r \notin Probes
      PROVE  UNCHANGED Service!vars
  <2>1. PICK x : x = [job[r] EXCEPT !.pc = "begin"]
    OBVIOUS
  <2>2. job[r] \in Job /\ job[r].pc = "waiting" /\ Start(r) = "begin"
    BY <1>1, <1>3, JobFields DEF Start
  <2>3. /\ x.pc = "begin" /\ RequestOf(x) = RequestOf(job[r])
        /\ job' = [job EXCEPT ![r] = x] /\ UNCHANGED history
    BY <1>3, <2>1, <2>2 DEF Dispatch, Answer, SetJob, Job, RequestOf
  <2> QED
    BY <2>2, <2>3, CallStays
<1> QED
  BY <1>1, <1>2, <1>3 DEF Jobs

\* Validation lets a request in.
LEMMA ReceiveMaps ==
  ASSUME IInv, NEW r \in Requests, Receive(r)
  PROVE  Service!Next
<1>0. /\ r \in Jobs /\ job[r].pc = "none" /\ job[r] \in Job
      /\ tainted' = tainted /\ disturbed' = disturbed
  BY JobFields DEF Receive, Jobs, history
<1>1. PICK prompt \in Prompts, max_tokens \in Limits :
        /\ Valid(max_tokens)
        /\ SetJob(r, [NoJob EXCEPT !.pc = "waiting", !.prompt = prompt,
                                   !.max_tokens = max_tokens])
  BY DEF Receive
<1>2. replyBar[r] = [status |-> "none", text |-> <<>>, basis |-> "own"]
  BY <1>0 DEF replyBar, ReplyOf, Status, CallPC
<1> DEFINE x == [NoJob EXCEPT !.pc = "waiting", !.prompt = prompt,
                              !.max_tokens = max_tokens]
<1>3. x.pc = "waiting" /\ x.prompt = prompt /\ x.max_tokens = max_tokens
  BY DEF NoJob
<1>4. job' = [job EXCEPT ![r] = x]
  BY <1>1 DEF SetJob
<1> HIDE DEF x
<1>5. RequestOf(x) = [prompt |-> prompt, max_tokens |-> max_tokens]
  BY <1>3 DEF RequestOf
<1>6. ReplyOf(x) = [replyBar[r] EXCEPT !.status = "open"]
  BY <1>2, <1>3 DEF ReplyOf, Status
<1>7. max_tokens \in 1..TokenLimit
  BY <1>1, InferenceAssumption DEF Valid
<1>8. /\ requestBar' = [requestBar EXCEPT ![r] = [prompt |-> prompt,
                                                 max_tokens |-> max_tokens]]
      /\ replyBar' = [replyBar EXCEPT ![r].status = "open"]
  <2>1. /\ requestBar' = [requestBar EXCEPT ![r] = RequestOf(x)]
        /\ replyBar' = [replyBar EXCEPT ![r] = ReplyOf(x)]
    BY <1>4, OneReply, Zenon
  <2> QED
    BY <1>5, <1>6, <2>1
<1>9. replyBar[r].status = "none"
  BY <1>2
<1>10. \E q \in Prompts, n \in 1..TokenLimit :
         requestBar' = [requestBar EXCEPT ![r] = [prompt |-> q, max_tokens |-> n]]
  BY <1>7, <1>8
<1>11. Service!LetIn(r)
  BY <1>0, <1>8, <1>9, <1>10 DEF Service!LetIn, Service!history
<1> QED
  BY <1>11 DEF Service!Next

\* A call begins, beside others or not, or its prompt is too long.
LEMMA BeginMaps ==
  ASSUME IInv, NEW r \in Requests, Begin(r)
  PROVE  Service!Next
<1> DEFINE kept == Reuse(job[r].prompt)
           rest == SubSeq(job[r].prompt, kept + 1, Len(job[r].prompt))
           others == {o \in Requests \ {r} : job[o].pc \in CallPC}
<1>0. job[r].pc = "begin" /\ job[r] \in Job
  BY JobFields DEF Begin, Jobs
<1>1. CASE Forget(r)
  BY <1>0, <1>1, ForgetMaps
<1>2. CASE /\ job' = [job EXCEPT ![r] = [job[r] EXCEPT !.pc = "eval",
                                                     !.pending = rest]]
           /\ Overlap(r, kept)
  <2>1. PICK x : x = [job[r] EXCEPT !.pc = "eval", !.pending = rest]
    OBVIOUS
  <2>2. x.pc = "eval" /\ RequestOf(x) = RequestOf(job[r])
    <3> HIDE DEF rest
    <3> QED
      BY <1>0, <2>1 DEF Job, RequestOf
  <2>3. requestBar' = requestBar /\ replyBar' = replyBar
    <3>1. Status(x.pc) = Status(job[r].pc)
      BY <1>0, <2>2 DEF Status, CallPC
    <3>2. job' = [job EXCEPT ![r] = x]
      BY <1>2, <2>1
    <3> QED
      BY <1>0, <2>2, <3>1, <3>2, StatusStays
  <2>4. /\ tainted' = (others # {} \/ (tainted /\ kept # 0))
        /\ disturbed' = disturbed \cup IF tainted' THEN others \cup {r} ELSE {}
    BY <1>2 DEF Overlap
  <2>5. /\ others \in SUBSET Requests /\ r \notin others
        /\ \A o \in others \cup {r} :
             o \in Requests /\ job[o].pc \in {"waiting", "begin"} \cup CallPC
    BY <1>0
  <2> HIDE DEF others, kept, rest
  <2>6. \A o \in others \cup {r} : Service!Open(o)
    BY <2>5, OpenCall
  <2>7. tainted' \in IF others = {} THEN {tainted, FALSE} ELSE {TRUE}
    <3>1. CASE others # {}
      BY <2>4, <3>1
    <3>2. CASE others = {}
      <4>1. tainted' = (tainted /\ kept # 0)
        BY <2>4, <3>2
      <4>2. tainted' = tainted \/ tainted' = FALSE
        BY <4>1
      <4> QED
        BY <3>2, <4>2
    <3> QED
      BY <3>1, <3>2
  <2>8. Service!Call(r, others)
    BY <2>3, <2>4, <2>5, <2>6, <2>7 DEF Service!Call
  <2> QED
    BY <2>5, <2>8 DEF Service!Next
<1> QED
  BY <1>1, <1>2 DEF Begin, SetJob

\* The steps of an evaluation are none of the service, unless they end the call.
LEMMA EvalMaps ==
  ASSUME IInv, NEW r \in Requests, EvalStart(r) \/ Decode(r) \/ Record(r)
  PROVE  [Service!Next]_(Service!vars)
<1>0. job[r].pc \in CallPC /\ job[r] \in Job
  BY JobFields DEF EvalStart, Decode, Record, CallPC, Jobs
<1>1. CASE Forget(r)
  BY <1>0, <1>1, ForgetMaps DEF CallPC
<1>2. ASSUME NEW x, job' = [job EXCEPT ![r] = x], UNCHANGED history,
             RequestOf(x) = RequestOf(job[r]), x.pc \in CallPC
      PROVE  UNCHANGED Service!vars
  BY <1>0, <1>2, CallStays
<1>3. CASE EvalStart(r)
  <2>1. PICK x : x = [job[r] EXCEPT !.pc = "decode", !.n_past = Len(context)]
    OBVIOUS
  <2>2. x.pc \in CallPC /\ RequestOf(x) = RequestOf(job[r])
    BY <1>0, <2>1 DEF Job, CallPC, RequestOf
  <2>3. job' = [job EXCEPT ![r] = x] /\ UNCHANGED history
    BY <1>3, <2>1 DEF EvalStart, SetJob
  <2> QED
    BY <1>2, <2>2, <2>3
<1>4. CASE Decode(r) /\ ~Forget(r)
  <2>1. PICK x : x = [job[r] EXCEPT !.pc = "record"]
    OBVIOUS
  <2>2. x.pc \in CallPC /\ RequestOf(x) = RequestOf(job[r])
    BY <1>0, <2>1 DEF Job, CallPC, RequestOf
  <2>3. job' = [job EXCEPT ![r] = x] /\ UNCHANGED history
    BY <1>4, <2>1 DEF Decode, Answer, SetJob
  <2> QED
    BY <1>2, <2>2, <2>3
<1>5. CASE Record(r)
  <2>1. PICK x : x = [job[r] EXCEPT !.pc = "sample", !.pending = <<>>, !.n_past = 0]
    OBVIOUS
  <2>2. x.pc \in CallPC /\ RequestOf(x) = RequestOf(job[r])
    BY <1>0, <2>1 DEF Job, CallPC, RequestOf
  <2>3. job' = [job EXCEPT ![r] = x] /\ UNCHANGED history
    BY <1>5, <2>1 DEF Record, SetJob
  <2> QED
    BY <1>2, <2>2, <2>3
<1> QED
  BY <1>1, <1>3, <1>4, <1>5

\* The text of a call that ends is within its limits, and it is its own unless
\* the request was disturbed.
LEMMA AnswerMaps ==
  ASSUME IInv, NEW r \in Requests, job[r].pc = "sample",
         NEW x, job' = [job EXCEPT ![r] = x], UNCHANGED history,
         RequestOf(x) = RequestOf(job[r]), x.pc = "200",
         x \in Job, JobOK(x), x.basis = "mixed" => r \in disturbed
  PROVE  Service!Next
<1>1. /\ requestBar[r] = RequestOf(x)
      /\ RequestOf(x).prompt = x.prompt /\ RequestOf(x).max_tokens = x.max_tokens
  BY DEF requestBar, RequestOf
<1>2. Len(x.prompt) < N_CTX
  <2>1. JobOK(job[r])
    BY JobFields DEF Jobs
  <2> QED
    BY <2>1 DEF JobOK, RequestOf, CallPC
<1>3. /\ x.out \in Seq(Tokens) /\ Len(x.out) \in Nat /\ Len(x.prompt) \in Nat
      /\ x.basis \in {"own", "mixed"} /\ x.max_tokens \in Nat
  BY PromptSeq, LenProperties DEF Job
<1>4. Len(x.out) <= x.max_tokens
  BY DEF JobOK
<1>5. Len(x.prompt) + Len(x.out) <= N_CTX
  <2>1. CASE x.out = <<>>
    <3>1. Len(x.out) = 0
      BY <2>1, EmptySeq
    <3> QED
      BY <1>2, <1>3, <3>1, InferenceAssumption
  <2>2. CASE x.out # <<>>
    BY <2>2 DEF JobOK
  <2> QED
    BY <2>1, <2>2
<1>6. x.out \in Service!Texts(x.max_tokens)
  <2>1. x.out \in [1..Len(x.out) -> Tokens]
    BY <1>3, LenProperties
  <2>2. Len(x.out) \in 0..x.max_tokens
    BY <1>3, <1>4
  <2> QED
    BY <2>1, <2>2 DEF Service!Texts
<1>7. ReplyOf(x) = [status |-> "200", text |-> x.out, basis |-> x.basis]
  BY DEF ReplyOf
<1>8. /\ requestBar' = requestBar
      /\ replyBar' = [replyBar EXCEPT ![r] = [status |-> "200", text |-> x.out,
                                             basis |-> x.basis]]
  <2>1. /\ requestBar' = [requestBar EXCEPT ![r] = RequestOf(x)]
        /\ replyBar' = [replyBar EXCEPT ![r] = ReplyOf(x)]
    BY OneReply, Zenon
  <2>2. requestBar' = requestBar
    BY <1>1, <2>1 DEF requestBar
  <2> QED
    BY <1>7, <2>1, <2>2
<1>9. Service!Open(r) /\ UNCHANGED Service!history
  BY OpenCall DEF CallPC, Service!history, history
<1>10. Service!Answer(r)
  BY <1>1, <1>2, <1>3, <1>5, <1>6, <1>8, <1>9 DEF Service!Answer
<1> QED
  BY <1>10 DEF Service!Next

\* Sampling answers, or goes on, or fails.
LEMMA SampleMaps ==
  ASSUME IInv, IInv', LoneCallsUnmixed', NEW r \in Requests, Sample(r)
  PROVE  [Service!Next]_(Service!vars)
<1>0. job[r].pc = "sample" /\ r \in Jobs
  BY DEF Sample, Jobs
<1>1. CASE Forget(r)
  BY <1>0, <1>1, ForgetMaps
<1>2. ASSUME UNCHANGED history, NEW x, job' = [job EXCEPT ![r] = x], Sampled(r, x)
      PROVE  [Service!Next]_(Service!vars)
  <2>1. job'[r] = x
    BY <1>0, <1>2 DEF IInv, TypeOK
  <2>2. RequestOf(x) = RequestOf(job[r]) /\ x \in Job
    BY <1>2 DEF Sampled, RequestOf
  <2>3. CASE x.pc = "200"
    <3>1. JobOK(x)
      BY <1>0, <2>1 DEF IInv
    <3>2. x.basis = "mixed" => r \in disturbed
      <4>1. disturbed' = disturbed
        BY <1>2 DEF history
      <4>2. r \notin disturbed' => job'[r].basis = "own"
        BY DEF LoneCallsUnmixed
      <4> QED
        BY <2>1, <4>1, <4>2
    <3> QED
      BY <1>0, <1>2, <2>2, <2>3, <3>1, <3>2, AnswerMaps
  <2>4. CASE x.pc = "eval"
    BY <1>0, <1>2, <2>2, <2>4, CallStays DEF CallPC
  <2> QED
    BY <1>2, <2>3, <2>4 DEF Sampled
<1>3. \/ Forget(r)
      \/ /\ UNCHANGED history
         /\ \E x : job' = [job EXCEPT ![r] = x] /\ Sampled(r, x)
  BY SampleMoves
<1> QED
  BY <1>1, <1>2, <1>3

\* At first nothing is requested.
LEMMA ServiceInit == Init => Service!Init
<1> SUFFICES ASSUME Init PROVE Service!Init
  OBVIOUS
<1>1. \A r \in Requests : job[r] = NoJob
  BY DEF Init, Jobs
<1>2. /\ RequestOf(NoJob) = [prompt |-> <<>>, max_tokens |-> 0]
      /\ ReplyOf(NoJob) = [status |-> "none", text |-> <<>>, basis |-> "own"]
  BY DEF RequestOf, ReplyOf, Status, NoJob, CallPC
<1>3. tainted = FALSE /\ disturbed = {}
  BY DEF Init
<1> QED
  BY <1>1, <1>2, <1>3 DEF Service!Init, Service!NoRequest, Service!NoReply,
                          requestBar, replyBar

\* server.py implements the service: a request is generated for once and
\* answered once, with a whole text within its limits, and a text may rest on
\* others only if its request was disturbed, by one that was open at the same
\* time or by what such requests had left in llm, for any number of requests,
\* threads and tokens.
THEOREM ServiceIsImplemented == Spec => ImplementsService
<1>1. ASSUME IInv, IInv', LoneCallsUnmixed', [Next]_vars
      PROVE  [Service!Next]_(Service!vars)
  <2>1. CASE UNCHANGED vars
    BY <2>1 DEF vars, history, Service!vars, Service!history, requestBar, replyBar
  <2>2. ASSUME NEW p \in Probes, Probe(p) PROVE UNCHANGED Service!vars
    BY <1>1, <2>2, ProbeStays DEF Probe
  <2>3. ASSUME NEW r \in Requests, Deliver(r) PROVE Service!Next
    BY <1>1, <2>3, ForgetMaps DEF Deliver
  <2> QED
    BY <1>1, <2>1, <2>2, <2>3, DispatchMaps, ReceiveMaps, BeginMaps, EvalMaps,
       SampleMaps DEF Next, ThreadStep
<1> QED
  BY <1>1, ServiceInit, ServerInvariant, LoneCallsAreRight, PTL
  DEF Spec, ImplementsService, Service!Spec

=============================================================================
