---------------------------- MODULE MCRenderCache ----------------------------
(***************************************************************************)
(* Small instances of RenderCache.                                         *)
(***************************************************************************)
EXTENDS RenderCache, TLC

Symmetry == Permutations(Requests) \cup Permutations(Keys) \cup Permutations(Writers)
=============================================================================
