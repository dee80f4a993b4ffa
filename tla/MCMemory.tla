------------------------------ MODULE MCMemory ------------------------------
(***************************************************************************)
(* Values of Memory's constants for TLC: three records, enough for two     *)
(* facts and their summary.                                                *)
(***************************************************************************)
EXTENDS Memory, TLC

CONSTANTS turn, other, one, two, three

\* Ids are uuids, and callers behave alike.
Symmetric == Permutations({turn, other}) \cup Permutations({one, two, three})
=============================================================================
