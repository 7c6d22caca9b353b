----------------------------- MODULE MCHttpPipeline -----------------------------
(***************************************************************************)
(* Symmetry for the runs of HttpPipeline.                                  *)
(***************************************************************************)
EXTENDS HttpPipeline, TLC

Symmetry == Permutations(Requests)
=================================================================================
