--------------------------- MODULE MCVersionedMemo ---------------------------
(***************************************************************************)
(* Small instances of VersionedMemo.                                       *)
(***************************************************************************)
EXTENDS VersionedMemo, TLC

Symmetry == Permutations(Readers) \cup Permutations(Writers)
=============================================================================
