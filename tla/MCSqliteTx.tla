----------------------------- MODULE MCSqliteTx -----------------------------
(***************************************************************************)
(* Small instances of SqliteTx.                                            *)
(***************************************************************************)
EXTENDS SqliteTx
=============================================================================
