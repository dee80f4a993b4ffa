--------------------------- MODULE MCProviderPicker ---------------------------
(* Two hosted providers with a profile, one keyed and one to log in to in a    *)
(* browser; one with a device login and no profile; one with neither; and a    *)
(* local endpoint, which speaks the wire format of the first.                  *)
EXTENDS ProviderPicker

MCOffered  == <<"anthropic", "copilot", "groq", "openai">>
MCOAuth    == [p \in Range(MCOffered) |->
                 CASE p = "copilot" -> "device" [] p = "groq" -> "none" [] OTHER -> "browser"]
MCKeyed    == {"openai"}
MCProfiles == {"openai", "anthropic", "ollama"}
MCNames    == Range(MCOffered) \cup MCProfiles
MCWire     == [p \in MCNames |-> IF p = "anthropic" THEN p ELSE "openai"]
MCModels   == [p \in MCNames |->
                 CASE p = "anthropic" -> <<"claude">> [] p = "openai" -> <<"gpt", "o3">>
                   [] p = "ollama" -> <<"llama">> [] OTHER -> <<"gpt">>]
MCDefault  == [p \in MCNames |-> MCModels[p][1]]
MCEfforts  == <<"low", "high">>
===============================================================================
