----------------------------- MODULE MCStreams -----------------------------
(* Timers in units of sixty seconds: providers/anthropic.go:130,           *)
(* gemini.go:104, ollama.go:30; the OpenAI client has none.                *)
EXTENDS Streams, TLC

MCClientTimeout == [p \in Providers |->
  CASE p = "openai" -> 0 [] p = "ollama" -> 2 [] OTHER -> 1]
=============================================================================
