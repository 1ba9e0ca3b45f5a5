------------------------ MODULE InferenceRefinement ------------------------
(***************************************************************************)
(* The inference server implements GenerationService.                      *)
(***************************************************************************)
EXTENDS Inference

\* A request is open from its validation to its answer, on the pool's queue or
\* on a thread.
Status(pc) ==
  IF pc \in {"waiting", "begin"} \cup CallPC THEN "open" ELSE pc

\* Nothing of the text is seen before it is complete.
ReplyOf(x) ==
  IF x.pc = "200" THEN [status |-> "200", text |-> x.out, basis |-> x.basis]
  ELSE [status |-> Status(x.pc), text |-> <<>>, basis |-> "own"]

RequestOf(x) == [prompt |-> x.prompt, max_tokens |-> x.max_tokens]

requestBar == [r \in Requests |-> RequestOf(job[r])]
replyBar   == [r \in Requests |-> ReplyOf(job[r])]

Service == INSTANCE GenerationService
             WITH request <- requestBar, reply <- replyBar

\* Every behaviour of server.py's threads around llm is one of the service: a
\* request is generated once and answered once, an answer is whole and never
\* changes, and no answer is harmed before two requests are open together.
ImplementsService == Service!Spec
=============================================================================
