---------------------------- MODULE MCEditorSave ----------------------------
(***************************************************************************)
(* Small instances of EditorSave.                                          *)
(***************************************************************************)
EXTENDS EditorSave, TLC

Symmetry == Permutations(Sessions) \cup Permutations(Saves) \cup Permutations(Pages)
=============================================================================
