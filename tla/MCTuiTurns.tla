----------------------------- MODULE MCTuiTurns -----------------------------
(***************************************************************************)
(* TuiTurns for TLC.                                                       *)
(***************************************************************************)
EXTENDS TuiTurns
=============================================================================
