---------------------------- MODULE MCTraceStore ----------------------------
(***************************************************************************)
(* TraceStore for TLC: its constants are numbers and sets of model values, *)
(* which TraceRecords.cfg gives.                                           *)
(***************************************************************************)
EXTENDS TraceStore
=============================================================================
