----------------------------- MODULE MCSession -----------------------------
(***************************************************************************)
(* Constants of Session for TLC: two models of a provider that thinks, one *)
(* of another; one of the three is blind.                                  *)
(***************************************************************************)
EXTENDS Session, TLC

CONSTANTS opus, haiku, gpt

MCProviderOf == opus :> "anthropic" @@ haiku :> "anthropic" @@ gpt :> "openai"
=============================================================================
