--------------------------- MODULE MCTraceRender ---------------------------
(***************************************************************************)
(* Constants of TraceRender for TLC: one retry, one round of tools, so     *)
(* that a trace has a first call and a follow-up, each of which may break. *)
(***************************************************************************)
EXTENDS TraceRender
=============================================================================
