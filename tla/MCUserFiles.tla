---------------------------- MODULE MCUserFiles ----------------------------
(***************************************************************************)
(* Constants of UserFiles for TLC: two processes; a built-in provider with *)
(* a profile and one without, and a local preset; entries of one line and  *)
(* of three, the second blank.                                             *)
(***************************************************************************)
EXTENDS UserFiles, TLC

CONSTANTS p, q, ollama, openai, copilot, m, n, medium, high, list

MCProcs == {p, q}
MCProviders == {ollama, openai, copilot}
MCOffered == {openai, copilot}
MCPresets == {openai, ollama}
MCLocal == {ollama}
MCWires == {openai}
MCModels == {m, n}
MCEfforts == {medium, high}
\* Nothing; a flag or two; OPENAI_BASE_URL names a local server.
MCOverrides ==
    {NoOverride, [NoOverride EXCEPT !.provider = ollama],
     [NoOverride EXCEPT !.provider = copilot, !.effort = high],
     [NoOverride EXCEPT !.base = [x \in {openai} |-> TRUE]],
     [NoOverride EXCEPT !.provider = openai, !.base = [x \in {openai} |-> TRUE]]}
MCEntries == {<<"a">>, <<"b", "", "c">>}
MCEndpoints == {ollama, openai}
MCLists == {list}

\* Processes behave alike, and so do models.
Symmetric == Permutations(MCProcs) \cup Permutations(MCModels)
=============================================================================
