------------------------- MODULE MCFailoverExecutor -------------------------
(* Model checking FailoverExecutor: chains longer and shorter than the     *)
(* limit, providers that are configured and that are not.                  *)
EXTENDS FailoverExecutor

Step(p) == [provider |-> p, model |-> "m"]
MCSteps == {Step(p) : p \in Providers}
MCChains ==
    {<<>>, <<Step("ollama")>>,
     <<Step("openai"), Step("anthropic"), Step("google")>>,
     <<Step("ollama"), Step("openai"), Step("anthropic"), Step("google")>>,
     <<Step("openai"), Step("anthropic"), Step("google"), Step("ollama")>>}
MCRegistrations == {Providers, Providers \ {"ollama"}, Providers \ {"openai", "google"}}

Error(cause, status, words, mentions) ==
    [deadline |-> FALSE, cause |-> cause, status |-> status, words |-> words,
     mentions |-> mentions]

(* Bodies that say nothing, that hold a word or that quote another code.   *)
MCErrors ==
    {Error("status", s, w, q) :
        s \in {400, 404, 422, 429, 529}, w \in {{}, {"invalid"}}, q \in {<<>>, <<400>>, <<0, 503>>}}
      \cup {Error(c, 0, {}, <<>>) : c \in {"connection", "other"}}
      \cup {[Error("status", 400, {}, <<>>) EXCEPT !.deadline = TRUE]}
=============================================================================
