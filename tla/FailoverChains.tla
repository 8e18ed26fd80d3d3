--------------------------- MODULE FailoverChains ---------------------------
(***************************************************************************)
(* Which providers a model's request is offered to, and in which order:    *)
(* the tables of the failover package and the operators that read them.    *)
(* A model is its name; the names are the table's own, and some that       *)
(* clients send and the tables do not have.                                *)
(***************************************************************************)
EXTENDS Sequences, FiniteSets

Modes == {"cloud_first", "local_first", "local_only", "cloud_only"}
Clouds == {"openai", "anthropic", "google"}
None == "none"

-----------------------------------------------------------------------------
(* The model names, by the prefix that claims them.                        *)
GptModels ==
    {"gpt-4o", "gpt-4-turbo", "gpt-4o-mini", "gpt-3.5-turbo",
     "gpt-3.5-turbo-16k", "gpt-4o-mini-2024-07-18", "gpt-5"}
ReasoningModels == {"o3-mini"}
ClaudeModels ==
    {"claude-sonnet-4-6", "claude-opus-4-6", "claude-opus-4-5-20251101",
     "claude-sonnet-4-5-20250929", "claude-haiku-4-5-20251001",
     "claude-sonnet-4-20250514", "claude-opus-4-20250514",
     "claude-3-haiku-20240307", "claude-opus-4-7"}
GeminiModels ==
    {"gemini-2.5-pro", "gemini-2.5-flash", "gemini-2.0-flash",
     "gemini-2.0-flash-lite", "gemini-2.0-flash-lite-001"}
LocalModels == {"qwen2.5:14b"}

(* Names a client writes with capitals: the table and ValidateModel are    *)
(* case-sensitive, the executor's own detection is not.                    *)
MixedCaseModels == {"GPT-4o", "Claude-Opus-4-7", "Gemini-2.5-Pro"}

Models ==
    GptModels \cup ReasoningModels \cup ClaudeModels \cup GeminiModels
      \cup LocalModels \cup MixedCaseModels

(* ValidateModel of the three cloud providers, in detectProvider's order.  *)
Claimant(model) ==
    CASE model \in GptModels \cup ReasoningModels -> "openai"
      [] model \in ClaudeModels -> "anthropic"
      [] model \in GeminiModels -> "google"
      [] OTHER -> None

ToLower(model) ==
    CASE model = "GPT-4o" -> "gpt-4o"
      [] model = "Claude-Opus-4-7" -> "claude-opus-4-7"
      [] model = "Gemini-2.5-Pro" -> "gemini-2.5-pro"
      [] OTHER -> model

(* The executor's own detection, which knows fewer prefixes and takes them *)
(* in any case.                                                            *)
DetectProviderForModel(model) ==
    IF model \in ReasoningModels THEN None ELSE Claimant(ToLower(model))

-----------------------------------------------------------------------------
Step(p, model) == [provider |-> p, model |-> model]

(* The fallbacks of each chain, after the requested model itself.          *)
Fallbacks(model) ==
    CASE model \in {"gpt-4o", "gpt-4-turbo"} ->
           <<Step("anthropic", "claude-sonnet-4-6"), Step("google", "gemini-2.5-pro")>>
      [] model = "gpt-4o-mini" ->
           <<Step("anthropic", "claude-haiku-4-5-20251001"), Step("google", "gemini-2.5-flash")>>
      [] model = "gpt-3.5-turbo" ->
           <<Step("anthropic", "claude-3-haiku-20240307"), Step("google", "gemini-2.0-flash")>>
      [] model = "claude-haiku-4-5-20251001" ->
           <<Step("openai", "gpt-4o-mini"), Step("google", "gemini-2.5-flash")>>
      [] model = "claude-3-haiku-20240307" ->
           <<Step("openai", "gpt-4o-mini"), Step("google", "gemini-2.0-flash")>>
      [] model \in ClaudeModels \ {"claude-haiku-4-5-20251001", "claude-3-haiku-20240307"} ->
           <<Step("openai", "gpt-4o"), Step("google", "gemini-2.5-pro")>>
      [] model = "gemini-2.5-pro" ->
           <<Step("openai", "gpt-4o"), Step("anthropic", "claude-sonnet-4-6")>>
      [] model = "gemini-2.5-flash" ->
           <<Step("openai", "gpt-4o-mini"), Step("anthropic", "claude-haiku-4-5-20251001")>>
      [] model = "gemini-2.0-flash" ->
           <<Step("openai", "gpt-4o-mini"), Step("anthropic", "claude-3-haiku-20240307")>>
      [] model = "gemini-2.0-flash-lite" ->
           <<Step("openai", "gpt-3.5-turbo"), Step("anthropic", "claude-3-haiku-20240307")>>

ChainKeys ==
    Models \ ({"gpt-3.5-turbo-16k", "gpt-4o-mini-2024-07-18", "gpt-5", "o3-mini",
               "claude-opus-4-7", "gemini-2.0-flash-lite-001"}
                 \cup LocalModels \cup MixedCaseModels)

(* A variant of DefaultFailoverChains with the requested model last.       *)
ChainsFallbackFirst ==
    [model \in ChainKeys |-> Append(Fallbacks(model), Step(Claimant(model), model))]

DefaultFailoverChains ==
    [model \in ChainKeys |-> <<Step(Claimant(model), model)>> \o Fallbacks(model)]

(* The keys that are proper prefixes of a model that is no key.            *)
PrefixKeys(model) ==
    CASE model = "gpt-3.5-turbo-16k" -> {"gpt-3.5-turbo"}
      [] model = "gpt-4o-mini-2024-07-18" -> {"gpt-4o", "gpt-4o-mini"}
      [] model = "gemini-2.0-flash-lite-001" -> {"gemini-2.0-flash", "gemini-2.0-flash-lite"}
      [] OTHER -> {}

(* The cloud chains a lookup may find: <<>> for none, and any of several   *)
(* when Go ranges over the map to find a prefix.                           *)
CloudChains(model) ==
    IF model \in ChainKeys THEN {DefaultFailoverChains[model]}
    ELSE IF PrefixKeys(model) = {} THEN {<<>>}
    ELSE {DefaultFailoverChains[k] : k \in PrefixKeys(model)}

-----------------------------------------------------------------------------
(* The local models stand for themselves: one per quality tier.            *)
ModelTier(model) ==
    CASE model \in {"gpt-4o", "gpt-4-turbo", "claude-opus-4-6", "claude-opus-4-5-20251101",
                    "claude-opus-4-20250514", "gemini-2.5-pro"} -> "flagship"
      [] model \in {"gpt-4o-mini", "claude-sonnet-4-6", "claude-sonnet-4-5-20250929",
                    "claude-sonnet-4-20250514", "gemini-2.5-flash"} -> "balanced"
      [] OTHER -> "budget"

OllamaStep(model) == Step("ollama", ModelTier(model))

(* A variant of FailoverChainsFor that forgets the mode of cloud_only.     *)
ChainsWithoutCloudOnly(model, mode, ollama) ==
    LET local == <<OllamaStep(model)>>
    IN  IF mode = "local_only" THEN {IF ollama THEN local ELSE <<>>}
        ELSE IF ~ollama THEN CloudChains(model)
        ELSE {CASE chain = <<>> -> local
                [] mode = "local_first" -> local \o chain
                [] OTHER -> chain \o local : chain \in CloudChains(model)}

(* GetFailoverChain: the chains it may return, <<>> for nil.               *)
FailoverChainsFor(model, mode, ollama) ==
    LET local == <<OllamaStep(model)>>
    IN  IF mode = "local_only" THEN {IF ollama THEN local ELSE <<>>}
        ELSE IF mode = "cloud_only" \/ ~ollama THEN CloudChains(model)
        ELSE {CASE chain = <<>> -> local
                [] mode = "local_first" -> local \o chain
                [] OTHER -> chain \o local : chain \in CloudChains(model)}

(* detectProvider of the chat handler.                                     *)
Detected(model, mode, ollama) ==
    IF mode # "local_only" /\ Claimant(model) # None THEN Claimant(model)
    ELSE IF ollama THEN "ollama" ELSE None
=============================================================================
