---------------------------- MODULE MCRefinement ----------------------------
(***************************************************************************)
(* The constants of MCRaTls for the refinement.                            *)
(***************************************************************************)
EXTENDS MCRaTls, RaTlsRefinement
=============================================================================
