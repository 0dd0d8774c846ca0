------------------------- MODULE MCPublishPipeline -------------------------
(***************************************************************************)
(* Small instances of PublishPipeline.  Requests are interchangeable, and  *)
(* so are rows, tables and slugs.                                          *)
(***************************************************************************)
EXTENDS PublishPipeline, TLC

Symmetry == Permutations(Ops) \cup Permutations(Rows) \cup Permutations(Tables) \cup Permutations(Slugs)
=============================================================================
