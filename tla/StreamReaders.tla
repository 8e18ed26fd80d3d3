--------------------------- MODULE StreamReaders ---------------------------
(***************************************************************************)
(* The providers' stream readers: which events each upstream may send      *)
(* next, and the chunk (or none) that Recv makes of an event.  A chunk     *)
(* carries at most one piece of text, a finish reason and token counts.    *)
(* Pieces are numbered in the order the provider says them; 0 is no text.  *)
(***************************************************************************)
EXTENDS Integers

CONSTANTS None,         \* no chunk, no counts, nobody
          MaxPieces,    \* bound: pieces of text in one answer
          PromptTokens,  \* what the provider counts for the prompt
          ThinkingTokens \* what a Gemini model counts in its total alone

ASSUME ReaderAssumption ==
  MaxPieces \in Nat /\ PromptTokens \in Nat \ {0} /\ ThinkingTokens \in Nat

Providers == {"openai", "anthropic", "google", "ollama"}

Counts(prompt, completion, total) ==
  [prompt |-> prompt, completion |-> completion, total |-> total]

Chunk(text, finish, usage) == [text |-> text, finish |-> finish, usage |-> usage]

(* An upstream event: its type, the piece it carries, the stop reason, and *)
(* the counts it reports, or None.                                         *)
Event(type, text, reason, usage) ==
  [type |-> type, text |-> text, reason |-> reason, usage |-> usage]

-----------------------------------------------------------------------------
(* What an upstream in a given stage may send, with the stage it enters.   *)
(* "over": the body ends and the answer is whole; "cut": the body ends     *)
(* after the provider gave the answer up with an error event.              *)

(* The opening event counts the prompt (and output tokens, which the       *)
(* reader ignores); the closing one may count both, or only the output.    *)
(* There is no total: the sum stands for it in the closing event.          *)
AnthropicSends(stage, said) ==
  CASE stage = "start" ->
         {<<Event("message_start", 0, "", Counts(PromptTokens, 0, 0)), "text">>}
    [] stage = "text" ->
         {<<Event("content_block_delta", k, "", None), "text">> :
             k \in {said + 1} \cap 1..MaxPieces}
         \cup {<<Event("message_delta", 0, "end_turn", u), "stop">> :
                  u \in {None} \cup {Counts(in, said, in + said) : in \in {0, PromptTokens}}}
         \cup {<<Event("error", 0, "", None), "cut">>}
    [] stage = "stop" -> {<<Event("message_stop", 0, "", None), "over">>}
    [] OTHER -> {}

(* A payload gives the total so far, with the answer's own count or, as    *)
(* long as the model counts its thinking alone, without; one that has no   *)
(* text may give no counts.                                                *)
GeminiReports(said) ==
  {Counts(PromptTokens, out, PromptTokens + out + ThinkingTokens) : out \in {0, said}}

(* One more piece, after which more may come, or not.                      *)
GeminiSays(said, reason, next) ==
  IF said = MaxPieces THEN {}
  ELSE {<<Event("candidate", said + 1, reason, u), next>> : u \in GeminiReports(said + 1)}

GeminiSends(stage, said) ==
  CASE stage \in {"start", "text"} ->
         GeminiSays(said, "", "text") \cup GeminiSays(said, "STOP", "over")
         \cup {<<Event("candidate", 0, "SAFETY", u), "over">> :
                  u \in {None} \cup GeminiReports(said)}
         \cup (IF stage = "text" THEN {}
               ELSE {<<Event("blocked", 0, "", u), "over">> :
                        u \in {None} \cup GeminiReports(0)})
         \cup {<<Event("error", 0, "", None), "cut">>}
    [] OTHER -> {}

(* OpenAI's and Ollama's: the requests do not ask for usage, so none comes. *)
OpenAISends(stage, said) ==
  CASE stage \in {"start", "text"} ->
         {<<Event("delta", k, "", None), "text">> :
             k \in {said + 1} \cap 1..MaxPieces}
         \cup {<<Event("delta", 0, "stop", None), "over">>}
    [] OTHER -> {}

Sends(provider, stage, said) ==
  CASE provider = "anthropic" -> AnthropicSends(stage, said)
    [] provider = "google" -> GeminiSends(stage, said)
    [] OTHER -> OpenAISends(stage, said)

-----------------------------------------------------------------------------
convertAnthropicFinishReason(reason) ==
  CASE reason \in {"end_turn", "stop_sequence"} -> "stop"
    [] reason = "max_tokens" -> "length"
    [] OTHER -> reason

convertGeminiFinishReason(reason) ==
  CASE reason = "MAX_TOKENS" -> "length"
    [] reason \in {"SAFETY", "RECITATION"} -> "content_filter"
    [] OTHER -> "stop"

(* Anthropic's opening event counts the prompt alone; the closing one      *)
(* replaces the counts if it has any; every other event, an error among    *)
(* them, is skipped.                                                       *)
convertEventToChunk(e) ==
  CASE e.type = "message_start" ->
         Chunk(0, "", IF e.usage.prompt > 0 THEN Counts(e.usage.prompt, 0, 0) ELSE None)
    [] e.type = "content_block_delta" /\ e.text # 0 -> Chunk(e.text, "", None)
    [] e.type = "message_delta" ->
         Chunk(0, IF e.reason = "" THEN "" ELSE convertAnthropicFinishReason(e.reason),
               IF e.usage = None THEN None
               ELSE Counts(e.usage.prompt, e.usage.completion,
                           e.usage.prompt + e.usage.completion))
    [] OTHER -> None

(* A variant of convertChunkToOpenAI that takes the last payload for its   *)
(* finish reason and counts alone.                                         *)
convertChunkToOpenAILastEmpty(e) ==
  Chunk(IF e.reason = "" THEN e.text ELSE 0,
        IF e.reason = "" THEN "" ELSE convertGeminiFinishReason(e.reason),
        IF e.usage # None /\ e.usage.total > 0 THEN e.usage ELSE None)

(* Gemini's every payload becomes a chunk, with its three counts as they   *)
(* are if it has a total.                                                  *)
convertChunkToOpenAI(e) ==
  Chunk(e.text,
        IF e.reason = "" THEN "" ELSE convertGeminiFinishReason(e.reason),
        IF e.usage # None /\ e.usage.total > 0 THEN e.usage ELSE None)

OpenAIChunk(e) == Chunk(e.text, e.reason, None)

Recv(provider, e) ==
  CASE provider = "anthropic" -> convertEventToChunk(e)
    [] provider = "google" -> convertChunkToOpenAI(e)
    [] OTHER -> OpenAIChunk(e)
=============================================================================
