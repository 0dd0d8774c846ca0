-------------------------- MODULE MCPublishScheduler --------------------------
(***************************************************************************)
(* Small instances of PublishScheduler.                                    *)
(***************************************************************************)
EXTENDS PublishScheduler, TLC

Symmetry == Permutations(Hosts) \cup Permutations(Ticks) \cup Permutations(Conns) \cup Permutations(Rows)
=============================================================================
