---------------------------- MODULE MCInference ----------------------------
(***************************************************************************)
(* Constants for model checking Inference and InferenceRefinement.         *)
(***************************************************************************)
EXTENDS InferenceRefinement

CONSTANTS a, b

\* One that is generated for twice, one that can keep a part of the context,
\* and one that fills a context of three.
MCPrompts == {<<a>>, <<b, a>>, <<b, b, a>>}
=============================================================================
