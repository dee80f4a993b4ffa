----------------------------- MODULE MCTurnLoop -----------------------------
(***************************************************************************)
(* Values of TurnLoop's constants for TLC: the three kinds of provider the *)
(* program ships, and small budgets.                                       *)
(***************************************************************************)
EXTENDS TurnLoop

\* A hosted OpenAI or Anthropic provider, the same against a local server, and
\* the Devin provider, which talks to httpx itself.
Hosted == [local |-> FALSE, bridged |-> TRUE, streaming |-> TRUE, tools |-> TRUE]
Local  == [Hosted EXCEPT !.local = TRUE]
Devin  == [local |-> FALSE, bridged |-> FALSE, streaming |-> FALSE, tools |-> FALSE]

AllProviders == {Hosted, Local, Devin}
=============================================================================
