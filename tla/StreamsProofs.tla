---------------------------- MODULE StreamsProofs ----------------------------
(***************************************************************************)
(* Proofs about Streams for any number of requests, answers of any length, *)
(* any sizes of prompts and pieces, and any timers: what is written, told, *)
(* billed and kept agrees.                                                 *)
(***************************************************************************)
EXTENDS Streams, FiniteSetTheorems, TLAPS

USE ReaderAssumption

-----------------------------------------------------------------------------
(* What the readers may rely on when p's upstream, in stage st and after n *)
(* pieces, sends e and enters the stage next.                              *)
Suits(p, st, n, e, next) ==
    /\ next \in Stages \ {"start"} /\ st \notin {"over", "cut", "failed"}
    /\ e.text \in 0..MaxPieces /\ e.text \in {0, n + 1}
    /\ e.usage \in CountsType \cup {None}
    /\ p = "anthropic" =>
          /\ e.text # 0 => e.type = "content_block_delta"
          /\ e.type = "message_start" =>
                e.usage # None /\ e.usage.prompt > 0
                /\ e.usage.completion = 0 /\ e.usage.total = 0
          /\ e.type = "message_delta" =>
                /\ e.reason = "end_turn"
                /\ e.usage # None => e.usage.total = e.usage.prompt + e.usage.completion
          /\ e.type \notin {"message_start", "message_delta"} => e.usage = None
    /\ p = "google" => (e.usage # None => e.usage.total > 0)
    /\ p \notin {"anthropic", "google"} => e.reason \in Finishes /\ e.usage = None

(* What the collector relies on of the chunk c that is made of e.          *)
Carries(e, c) ==
    /\ c = None => e.usage = None /\ e.text = 0
    /\ c # None => c \in ChunkType /\ c.text = e.text /\ c.usage = e.usage

(* A pair, taken apart. *)
LEMMA First == ASSUME NEW x, NEW y, NEW es, es = <<x, y>> PROVE es[1] = x /\ es[2] = y
OBVIOUS

(* Counts are counts, not the lack of them. *)
LEMMA CountsAre ==
    ASSUME NEW i \in Nat, NEW o \in Nat, NEW t \in Nat
    PROVE  /\ Counts(i, o, t) \in CountsType /\ Counts(i, o, t) # None
           /\ Counts(i, o, t).prompt = i /\ Counts(i, o, t).completion = o
           /\ Counts(i, o, t).total = t
<1>1. Counts(i, o, t) \in CountsType
  BY DEF Counts, CountsType
<1>2. QED  BY <1>1, NoneAssumption DEF Counts

(* Anthropic's message events reach the reader in this order and shape. *)
LEMMA AnthropicSuits ==
    ASSUME NEW st, NEW n \in 0..MaxPieces, NEW es \in AnthropicSends(st, n)
    PROVE  Suits("anthropic", st, n, es[1], es[2])
<1> USE First
<1>0. PromptTokens \in Nat /\ PromptTokens > 0 /\ n \in Nat /\ 0 \in Nat
  OBVIOUS
<1>1. CASE st = "start"
  <2> DEFINE u == Counts(PromptTokens, 0, 0)
  <2>1. es = <<Event("message_start", 0, "", u), "text">>
    BY Zenon, <1>1 DEF AnthropicSends
  <2>2. /\ u \in CountsType /\ u # None
        /\ u.prompt = PromptTokens /\ u.completion = 0 /\ u.total = 0
    BY <1>0, CountsAre
  <2> HIDE DEF u
  <2>3. Suits("anthropic", st, n, Event("message_start", 0, "", u), "text")
    BY <1>0, <1>1, <2>2 DEF Suits, Event, Stages
  <2>4. QED  BY Zenon, <2>1, <2>3
<1>2. CASE st = "text"
  <2>1. \/ \E k \in {n + 1} \cap 1..MaxPieces :
              es = <<Event("content_block_delta", k, "", None), "text">>
        \/ \E u \in {None} \cup {Counts(in, n, in + n) : in \in {0, PromptTokens}} :
              es = <<Event("message_delta", 0, "end_turn", u), "stop">>
        \/ es = <<Event("error", 0, "", None), "cut">>
    BY Zenon, <1>2 DEF AnthropicSends
  <2>2. ASSUME NEW k \in {n + 1} \cap 1..MaxPieces,
               es = <<Event("content_block_delta", k, "", None), "text">>
        PROVE  Suits("anthropic", st, n, es[1], es[2])
    <3>1. Suits("anthropic", st, n, Event("content_block_delta", k, "", None), "text")
      BY <1>2 DEF Suits, Event, Stages
    <3>2. QED  BY Zenon, <2>2, <3>1
  <2>3. ASSUME NEW u \in {None} \cup {Counts(in, n, in + n) : in \in {0, PromptTokens}},
               es = <<Event("message_delta", 0, "end_turn", u), "stop">>
        PROVE  Suits("anthropic", st, n, es[1], es[2])
    <3>1. /\ u \in CountsType \cup {None}
          /\ u # None => u.total = u.prompt + u.completion
      <4>1. CASE u = None
        BY <4>1
      <4>2. ASSUME NEW in \in {0, PromptTokens}, u = Counts(in, n, in + n)
            PROVE  u \in CountsType /\ u.total = u.prompt + u.completion
        <5>1. in \in Nat /\ in + n \in Nat
          BY <1>0
        <5>2. QED  BY <1>0, <4>2, <5>1, CountsAre
      <4>3. QED  BY <4>1, <4>2
    <3>2. Suits("anthropic", st, n, Event("message_delta", 0, "end_turn", u), "stop")
      BY <1>2, <3>1 DEF Suits, Event, Stages
    <3>3. QED  BY Zenon, <2>3, <3>2
  <2>4. CASE es = <<Event("error", 0, "", None), "cut">>
    <3>1. Suits("anthropic", st, n, Event("error", 0, "", None), "cut")
      BY <1>2 DEF Suits, Event, Stages
    <3>2. QED  BY Zenon, <2>4, <3>1
  <2>5. QED  BY Zenon, <2>1, <2>2, <2>3, <2>4
<1>3. CASE st = "stop"
  <2>1. es = <<Event("message_stop", 0, "", None), "over">>
    BY Zenon, <1>3 DEF AnthropicSends
  <2>2. Suits("anthropic", st, n, Event("message_stop", 0, "", None), "over")
    BY <1>3 DEF Suits, Event, Stages
  <2>3. QED  BY Zenon, <2>1, <2>2
<1>4. CASE st \notin {"start", "text", "stop"}
  <2>1. AnthropicSends(st, n) = {}
    BY Zenon, <1>4 DEF AnthropicSends
  <2>2. QED  BY <2>1
<1>5. QED  BY <1>1, <1>2, <1>3, <1>4

(* A report of Gemini's has a total, thinking included. *)
LEMMA ReportsTotal ==
    ASSUME NEW n \in Nat, NEW u \in {None} \cup GeminiReports(n)
    PROVE  u \in CountsType \cup {None} /\ (u # None => u.total > 0)
<1>1. CASE u = None
  BY <1>1
<1>2. ASSUME NEW out \in {0, n},
             u = Counts(PromptTokens, out, PromptTokens + out + ThinkingTokens)
      PROVE  u \in CountsType /\ u.total > 0
  <2>1. /\ PromptTokens \in Nat /\ out \in Nat /\ PromptTokens + out + ThinkingTokens \in Nat
        /\ PromptTokens + out + ThinkingTokens > 0
    OBVIOUS
  <2>2. QED  BY <1>2, <2>1, CountsAre
<1>3. u = None \/ \E out \in {0, n} :
         u = Counts(PromptTokens, out, PromptTokens + out + ThinkingTokens)
  BY Zenon DEF GeminiReports
<1>4. QED  BY <1>1, <1>2, <1>3

(* Gemini's payloads carry the counts so far, and may end the answer. *)
LEMMA GeminiSuits ==
    ASSUME NEW st, NEW n \in 0..MaxPieces, NEW es \in GeminiSends(st, n)
    PROVE  Suits("google", st, n, es[1], es[2])
<1> USE First
<1>0. n \in Nat /\ n + 1 \in Nat /\ 0 \in Nat
  OBVIOUS
<1>1. CASE st \in {"start", "text"}
  <2>1. \/ es \in GeminiSays(n, "", "text") \/ es \in GeminiSays(n, "STOP", "over")
        \/ \E u \in {None} \cup GeminiReports(n) :
              es = <<Event("candidate", 0, "SAFETY", u), "over">>
        \/ \E u \in {None} \cup GeminiReports(0) :
              es = <<Event("blocked", 0, "", u), "over">>
        \/ es = <<Event("error", 0, "", None), "cut">>
    BY Zenon, <1>1 DEF GeminiSends
  <2>2. ASSUME NEW reason, NEW next \in {"text", "over"}, es \in GeminiSays(n, reason, next)
        PROVE  Suits("google", st, n, es[1], es[2])
    <3>1. n # MaxPieces /\ \E u \in GeminiReports(n + 1) :
             es = <<Event("candidate", n + 1, reason, u), next>>
      BY Zenon, <2>2 DEF GeminiSays
    <3>2. PICK u \in GeminiReports(n + 1) :
             es = <<Event("candidate", n + 1, reason, u), next>>
      BY Zenon, <3>1
    <3>3. u \in CountsType \cup {None} /\ (u # None => u.total > 0)
      BY <1>0, ReportsTotal
    <3>4. n + 1 \in 0..MaxPieces
      BY <3>1
    <3>5. Suits("google", st, n, Event("candidate", n + 1, reason, u), next)
      BY <1>1, <3>3, <3>4 DEF Suits, Event, Stages
    <3>6. QED  BY Zenon, <3>2, <3>5
  <2>3. ASSUME NEW m \in Nat, NEW u \in {None} \cup GeminiReports(m), NEW type, NEW reason,
               es = <<Event(type, 0, reason, u), "over">>
        PROVE  Suits("google", st, n, es[1], es[2])
    <3>1. u \in CountsType \cup {None} /\ (u # None => u.total > 0)
      BY ReportsTotal
    <3>2. Suits("google", st, n, Event(type, 0, reason, u), "over")
      BY <1>1, <3>1 DEF Suits, Event, Stages
    <3>3. QED  BY Zenon, <2>3, <3>2
  <2>4. CASE es = <<Event("error", 0, "", None), "cut">>
    <3>1. Suits("google", st, n, Event("error", 0, "", None), "cut")
      BY <1>1 DEF Suits, Event, Stages
    <3>2. QED  BY Zenon, <2>4, <3>1
  <2>5. "text" \in {"text", "over"} /\ "over" \in {"text", "over"}
    OBVIOUS
  <2>6. QED  BY Zenon, <1>0, <2>1, <2>2, <2>3, <2>4, <2>5
<1>2. CASE st \notin {"start", "text"}
  <2>1. GeminiSends(st, n) = {}
    BY Zenon, <1>2 DEF GeminiSends
  <2>2. QED  BY <2>1
<1>3. QED  BY <1>1, <1>2

(* OpenAI's and Ollama's deltas carry no counts. *)
LEMMA OpenAISuits ==
    ASSUME NEW p, p \notin {"anthropic", "google"},
           NEW st, NEW n \in 0..MaxPieces, NEW es \in OpenAISends(st, n)
    PROVE  Suits(p, st, n, es[1], es[2])
<1> USE First
<1>1. CASE st \in {"start", "text"}
  <2>1. \/ \E k \in {n + 1} \cap 1..MaxPieces :
              es = <<Event("delta", k, "", None), "text">>
        \/ es = <<Event("delta", 0, "stop", None), "over">>
    BY Zenon, <1>1 DEF OpenAISends
  <2>2. ASSUME NEW k \in {n + 1} \cap 1..MaxPieces,
               es = <<Event("delta", k, "", None), "text">>
        PROVE  Suits(p, st, n, es[1], es[2])
    <3>1. Suits(p, st, n, Event("delta", k, "", None), "text")
      BY <1>1 DEF Suits, Event, Stages, Finishes
    <3>2. QED  BY Zenon, <2>2, <3>1
  <2>3. CASE es = <<Event("delta", 0, "stop", None), "over">>
    <3>1. Suits(p, st, n, Event("delta", 0, "stop", None), "over")
      BY <1>1 DEF Suits, Event, Stages, Finishes
    <3>2. QED  BY Zenon, <2>3, <3>1
  <2>4. QED  BY Zenon, <2>1, <2>2, <2>3
<1>2. CASE st \notin {"start", "text"}
  <2>1. OpenAISends(st, n) = {}
    BY Zenon, <1>2 DEF OpenAISends
  <2>2. QED  BY <2>1
<1>3. QED  BY <1>1, <1>2

(* Every upstream sends what its reader relies on. *)
LEMMA SendsSuit ==
    ASSUME NEW p, NEW st, NEW n \in 0..MaxPieces, NEW es \in Sends(p, st, n)
    PROVE  Suits(p, st, n, es[1], es[2])
<1>1. CASE p = "anthropic"
  <2>1. es \in AnthropicSends(st, n)  BY Zenon, <1>1 DEF Sends
  <2>2. QED  BY Zenon, <1>1, <2>1, AnthropicSuits
<1>2. CASE p = "google"
  <2>1. es \in GeminiSends(st, n)  BY Zenon, <1>2 DEF Sends
  <2>2. QED  BY Zenon, <1>2, <2>1, GeminiSuits
<1>3. CASE p \notin {"anthropic", "google"}
  <2>1. es \in OpenAISends(st, n)  BY Zenon, <1>3 DEF Sends
  <2>2. QED  BY Zenon, <1>3, <2>1, OpenAISuits
<1>4. QED  BY <1>1, <1>2, <1>3

-----------------------------------------------------------------------------
(* A chunk of e's text and counts, whatever its finish reason, carries e.  *)
LEMMA ChunkCarries ==
    ASSUME NEW e, NEW k \in 0..MaxPieces, NEW f \in Finishes,
           NEW u \in CountsType \cup {None}, k = e.text, u = e.usage
    PROVE  Carries(e, Chunk(k, f, u))
<1> DEFINE c == Chunk(k, f, u)
<1>1. c \in ChunkType /\ c.text = k /\ c.usage = u
  BY DEF Chunk, ChunkType
<1>2. c # None
  BY <1>1, NoneAssumption
<1> HIDE DEF c
<1>3. Carries(e, c)
  BY <1>1, <1>2 DEF Carries
<1>4. QED  BY <1>3 DEF c

(* Counts are what they are made of. *)
LEMMA CountsMade ==
    ASSUME NEW u \in CountsType
    PROVE  u = Counts(u.prompt, u.completion, u.total)
BY DEF Counts, CountsType

(* Recv passes on what an event reports, counts that a provider totals     *)
(* itself and counts that the reader adds up.                              *)
LEMMA RecvCarries ==
    ASSUME NEW p, NEW st, NEW n \in 0..MaxPieces, NEW e, NEW next,
           Suits(p, st, n, e, next)
    PROVE  Carries(e, Recv(p, e))
<1>t. e.text \in 0..MaxPieces /\ e.usage \in CountsType \cup {None}
  BY DEF Suits
<1>f. "" \in Finishes /\ "stop" \in Finishes /\ 0 \in 0..MaxPieces
  BY DEF Finishes
<1>u. e.usage # None => e.usage = Counts(e.usage.prompt, e.usage.completion, e.usage.total)
  BY <1>t, CountsMade
<1>1. CASE p = "anthropic"
  <2>1. Recv(p, e) = convertEventToChunk(e)
    BY Zenon, <1>1 DEF Recv
  <2>2. CASE e.type = "message_start"
    <3>1. convertEventToChunk(e) =
            Chunk(0, "", IF e.usage.prompt > 0 THEN Counts(e.usage.prompt, 0, 0) ELSE None)
      BY Zenon, <2>2 DEF convertEventToChunk
    <3>2. /\ e.text = 0 /\ e.usage # None /\ e.usage.prompt > 0
          /\ e.usage.completion = 0 /\ e.usage.total = 0
      BY <1>1, <2>2 DEF Suits
    <3>3. e.usage = Counts(e.usage.prompt, 0, 0)
      BY Zenon, <1>u, <3>2
    <3>4. Recv(p, e) = Chunk(0, "", e.usage)
      BY Zenon, <2>1, <3>1, <3>2, <3>3
    <3>5. QED  BY Zenon, <1>t, <1>f, <3>2, <3>4, ChunkCarries
  <2>3. CASE e.type = "content_block_delta" /\ e.text # 0
    <3>1. convertEventToChunk(e) = Chunk(e.text, "", None)
      BY Zenon, <2>3 DEF convertEventToChunk
    <3>2. e.usage = None
      BY <1>1, <2>3 DEF Suits
    <3>3. QED  BY Zenon, <1>t, <1>f, <2>1, <3>1, <3>2, ChunkCarries
  <2>4. CASE e.type = "message_delta"
    <3>1. convertEventToChunk(e) =
            Chunk(0, IF e.reason = "" THEN "" ELSE convertAnthropicFinishReason(e.reason),
                  IF e.usage = None THEN None
                  ELSE Counts(e.usage.prompt, e.usage.completion,
                              e.usage.prompt + e.usage.completion))
      BY Zenon, <2>4 DEF convertEventToChunk
    <3>2. convertAnthropicFinishReason("end_turn") = "stop"
      BY Zenon DEF convertAnthropicFinishReason
    <3>3. /\ e.reason = "end_turn" /\ e.text = 0
          /\ e.usage # None => e.usage.total = e.usage.prompt + e.usage.completion
      BY <1>1, <2>4 DEF Suits
    <3>4. convertEventToChunk(e) = Chunk(0, "stop", e.usage)
      BY <1>u, <3>1, <3>2, <3>3
    <3>5. QED  BY Zenon, <1>t, <1>f, <2>1, <3>3, <3>4, ChunkCarries
  <2>5. CASE /\ e.type \notin {"message_start", "message_delta"}
             /\ ~(e.type = "content_block_delta" /\ e.text # 0)
    <3>1. convertEventToChunk(e) = None
      BY Zenon, <2>5 DEF convertEventToChunk
    <3>2. e.usage = None /\ e.text = 0
      BY <1>1, <2>5 DEF Suits
    <3>3. QED  BY <2>1, <3>1, <3>2 DEF Carries
  <2>6. QED  BY <2>2, <2>3, <2>4, <2>5
<1>2. CASE p = "google"
  <2> DEFINE f == IF e.reason = "" THEN "" ELSE convertGeminiFinishReason(e.reason)
  <2>1. f \in Finishes
    <3>1. convertGeminiFinishReason(e.reason) \in {"length", "content_filter", "stop"}
      BY Zenon DEF convertGeminiFinishReason
    <3>2. QED  BY <3>1 DEF Finishes
  <2>2. Recv(p, e) =
          Chunk(e.text, f, IF e.usage # None /\ e.usage.total > 0 THEN e.usage ELSE None)
    BY Zenon, <1>2 DEF Recv, convertChunkToOpenAI
  <2> HIDE DEF f
  <2>3. e.usage # None => e.usage.total > 0
    BY <1>2 DEF Suits
  <2>4. Recv(p, e) = Chunk(e.text, f, e.usage)
    BY Zenon, <2>2, <2>3
  <2>5. QED  BY Zenon, <1>t, <2>1, <2>4, ChunkCarries
<1>3. CASE p \notin {"anthropic", "google"}
  <2>1. Recv(p, e) = Chunk(e.text, e.reason, None)
    BY Zenon, <1>3 DEF Recv, OpenAIChunk
  <2>2. e.reason \in Finishes /\ e.usage = None
    BY <1>3 DEF Suits
  <2>3. QED  BY Zenon, <1>t, <2>1, <2>2, ChunkCarries
<1>4. QED  BY <1>1, <1>2, <1>3

-----------------------------------------------------------------------------
(* What the collector makes of a chunk, and of the end.                    *)
LEMMA Collecting ==
    ASSUME NEW sc \in CollectorType, NEW c \in ChunkType
    PROVE  /\ Collect(sc, c) \in CollectorType
           /\ Collect(sc, c).text = IF c.text = 0 THEN sc.text ELSE Append(sc.text, c.text)
           /\ c.usage = None =>
                 /\ Collect(sc, c).prompt = sc.prompt
                 /\ Collect(sc, c).completion = sc.completion
                 /\ Collect(sc, c).total = sc.total
           /\ c.usage # None =>
                 /\ Collect(sc, c).prompt = c.usage.prompt
                 /\ Collect(sc, c).completion = c.usage.completion
                 /\ Collect(sc, c).total = c.usage.total
<1> DEFINE a == AddChunk(sc, c.text)  b == SetFinishReason(a, c.finish)
<1>1. /\ a \in CollectorType
      /\ a.text = IF c.text = 0 THEN sc.text ELSE Append(sc.text, c.text)
      /\ a.prompt = sc.prompt /\ a.completion = sc.completion /\ a.total = sc.total
  <2>0. sc.text \in Seq(1..MaxPieces) /\ c.text \in 0..MaxPieces
    BY DEF CollectorType, ChunkType
  <2>1. CASE c.text = 0
    BY <2>1 DEF AddChunk
  <2>2. CASE c.text # 0
    <3> DEFINE t == Append(sc.text, c.text)
    <3>1. t \in Seq(1..MaxPieces)
      BY <2>0, <2>2
    <3>2. a = [sc EXCEPT !.text = t]
      BY <2>2 DEF AddChunk
    <3> HIDE DEF t, a
    <3>3. /\ a \in CollectorType /\ a.text = t
          /\ a.prompt = sc.prompt /\ a.completion = sc.completion /\ a.total = sc.total
      BY <3>1, <3>2 DEF CollectorType
    <3>4. QED  BY <2>2, <3>3 DEF t
  <2>3. QED  BY <2>1, <2>2
<1> HIDE DEF a
<1>2. /\ b \in CollectorType /\ b.text = a.text
      /\ b.prompt = a.prompt /\ b.completion = a.completion /\ b.total = a.total
  BY <1>1 DEF SetFinishReason, CollectorType, ChunkType
<1> HIDE DEF b
<1> DEFINE d == AddUsage(b, c.usage)
<1>3. /\ d \in CollectorType /\ d.text = b.text
      /\ c.usage = None =>
            d.prompt = b.prompt /\ d.completion = b.completion /\ d.total = b.total
      /\ c.usage # None =>
            /\ d.prompt = c.usage.prompt /\ d.completion = c.usage.completion
            /\ d.total = c.usage.total
  BY <1>2 DEF AddUsage, CollectorType, ChunkType, CountsType
<1>4. Collect(sc, c) = d
  BY DEF Collect, a, b
<1> HIDE DEF d
<1>5. QED  BY <1>1, <1>2, <1>3, <1>4

(* A guess from bytes is a number of tokens. *)
LEMMA Guessing ==
    ASSUME NEW n \in Nat
    PROVE  (n * PieceBytes) \div 4 \in Nat
<1>1. n * PieceBytes \in Nat
  BY StreamsAssumption
<1>2. ASSUME NEW m \in Nat PROVE m \div 4 \in Nat
  OBVIOUS
<1>3. QED  BY <1>1, <1>2

(* EstimateTokensIfNeeded fills in what was never reported, nothing else. *)
LEMMA Estimating ==
    ASSUME NEW sc \in CollectorType
    PROVE  /\ EstimateTokensIfNeeded(sc) \in CollectorType
           /\ EstimateTokensIfNeeded(sc).text = sc.text
           /\ EstimateTokensIfNeeded(sc).prompt = sc.prompt
           /\ EstimateTokensIfNeeded(sc).completion =
                 IF sc.completion = 0 THEN (Len(sc.text) * PieceBytes) \div 4
                 ELSE sc.completion
           /\ EstimateTokensIfNeeded(sc).total =
                 IF sc.total = 0 THEN sc.prompt + EstimateTokensIfNeeded(sc).completion
                 ELSE sc.total
<1> DEFINE guess == IF sc.completion = 0 THEN (Len(sc.text) * PieceBytes) \div 4
                    ELSE sc.completion
           new == EstimateTokensIfNeeded(sc)
<1>1. guess \in Nat
  BY Guessing DEF CollectorType
<1>2. new = [sc EXCEPT !.completion = guess,
                       !.total = IF sc.total = 0 THEN sc.prompt + guess ELSE @]
  BY DEF EstimateTokensIfNeeded
<1> DEFINE total == IF sc.total = 0 THEN sc.prompt + guess ELSE sc.total
<1> HIDE DEF guess, new
<1>3. total \in Nat
  BY <1>1 DEF CollectorType
<1>4. new = [sc EXCEPT !.completion = guess, !.total = total]
  BY <1>2
<1> HIDE DEF total
<1>5. /\ new \in CollectorType /\ new.text = sc.text /\ new.prompt = sc.prompt
      /\ new.completion = guess /\ new.total = total
  BY <1>1, <1>3, <1>4 DEF CollectorType
<1>6. new.total = IF sc.total = 0 THEN sc.prompt + new.completion ELSE sc.total
  BY <1>5 DEF total
<1>7. QED  BY Zenon, <1>5, <1>6 DEF guess, new

(* The collector of a stream that has not begun. *)
LEMMA NewCollector ==
    /\ NewStreamCollector \in CollectorType
    /\ NewStreamCollector.text = <<>> /\ NewStreamCollector.prompt = PromptBytes \div 4
    /\ NewStreamCollector.completion = 0 /\ NewStreamCollector.total = 0
<1>1. PromptBytes \div 4 \in Nat
  BY StreamsAssumption
<1>2. "" \in Finishes /\ <<>> \in Seq(1..MaxPieces)
  BY DEF Finishes
<1> DEFINE p == PromptBytes \div 4  t == <<>>
<1>3. NewStreamCollector =
         [text |-> t, finish |-> "", prompt |-> p, completion |-> 0, total |-> 0]
  BY DEF NewStreamCollector
<1>4. p \in Nat /\ t \in Seq(1..MaxPieces)
  BY <1>1, <1>2
<1> HIDE DEF p, t
<1>5. /\ NewStreamCollector \in CollectorType
      /\ NewStreamCollector.text = t /\ NewStreamCollector.prompt = p
      /\ NewStreamCollector.completion = 0 /\ NewStreamCollector.total = 0
  BY <1>2, <1>3, <1>4 DEF CollectorType
<1>6. QED  BY <1>5 DEF t, p

(* The frames of a text. *)
TextFrames(t) == [i \in 1..Len(t) |-> TextFrame(t[i])]

(* Appending a piece to the text appends its frame to the frames. *)
LEMMA FramesOfText ==
    ASSUME NEW t \in Seq(1..MaxPieces)
    PROVE  /\ TextFrames(t) \in Seq(Frames) /\ Len(TextFrames(t)) = Len(t)
           /\ \A i \in 1..Len(t) : TextFrames(t)[i] = TextFrame(t[i])
           /\ \A k \in 1..MaxPieces :
                 TextFrames(Append(t, k)) = Append(TextFrames(t), TextFrame(k))
<1>1. \A i \in 1..Len(t) : t[i] \in 1..MaxPieces
  OBVIOUS
<1>2. \A k \in 1..MaxPieces : TextFrame(k) \in Frames
  BY DEF Frames
<1>3. TextFrames(t) \in Seq(Frames) /\ Len(TextFrames(t)) = Len(t)
  BY <1>1, <1>2 DEF TextFrames
<1>4. \A k \in 1..MaxPieces :
         TextFrames(Append(t, k)) = Append(TextFrames(t), TextFrame(k))
  BY <1>1, <1>2, <1>3 DEF TextFrames
<1>5. QED  BY <1>3, <1>4 DEF TextFrames

-----------------------------------------------------------------------------
Receiving(r) == pc[r] \in {"idle", "open", "recv", "chunk"}

(* What is written is the collector's text, ended at most once.            *)
Written(r) ==
    /\ pc[r] = "idle" => coll[r] = NewStreamCollector /\ reported[r] = None
    /\ Receiving(r) => frames[r] = TextFrames(coll[r].text)
    /\ pc[r] \in {"post", "adjusted"} =>
          /\ frames[r] = TextFrames(coll[r].text) \o <<MetaFrame, DoneFrame>>
          /\ told[r] = Counts(coll[r].prompt, coll[r].completion, coll[r].total)
    /\ \E t \in Seq(1..MaxPieces) :
          \/ frames[r] = TextFrames(t)
          \/ frames[r] = TextFrames(t) \o <<MetaFrame, DoneFrame>>
          \/ frames[r] = Append(TextFrames(t), ErrorFrame)

(* The counts so far: those of the last report, in the chunk that waits or *)
(* in the collector; before the first, the guess of the prompt alone.      *)
Report(r) == IF reported[r] = None THEN Counts(PromptBytes \div 4, 0, 0) ELSE reported[r]
CountsOf(c) == Counts(c.prompt, c.completion, c.total)

Counting(r) == Receiving(r) =>
    /\ (pc[r] = "chunk" => chunk[r].usage = None) => CountsOf(coll[r]) = Report(r)
    /\ pc[r] = "chunk" => chunk[r] # None /\ chunk[r].usage \in {None, reported[r]}

Counted(r) == told[r] # None =>
    /\ pc[r] \in {"post", "adjusted", "over"}
    /\ told[r].prompt = Report(r).prompt
    /\ told[r].completion =
         IF Report(r).completion > 0 THEN Report(r).completion
         ELSE ((Len(frames[r]) - 2) * PieceBytes) \div 4
    /\ told[r].total = IF Report(r).total > 0 THEN Report(r).total
                       ELSE told[r].prompt + told[r].completion

Billed(r) == billed[r] # None =>
    /\ pc[r] \in {"adjusted", "over"} /\ told[r] # None
    /\ billed[r].prompt = told[r].prompt /\ billed[r].completion = told[r].completion

Kept(r) == kept[r] # None =>
    /\ pc[r] = "over" /\ kept[r].usage = told[r]
    /\ frames[r] = TextFrames(kept[r].text) \o <<MetaFrame, DoneFrame>>

Good(r) == Written(r) /\ Counting(r) /\ Counted(r) /\ Billed(r) /\ Kept(r)

StreamsInv ==
    /\ TypeOK
    /\ \A r \in Requests : Good(r)
    /\ cache # None => kept[cache] # None

(* A request that a step leaves alone stays as good as it was.             *)
LEMMA LeftAlone ==
    ASSUME NEW r, Good(r), provider' = provider,
           pc'[r] = pc[r], stage'[r] = stage[r], said'[r] = said[r],
           reported'[r] = reported[r], chunk'[r] = chunk[r], coll'[r] = coll[r],
           frames'[r] = frames[r], told'[r] = told[r], billed'[r] = billed[r],
           kept'[r] = kept[r]
    PROVE  Good(r)'
BY Zenon DEF Good, Written, Receiving, Counting, Counted, Report, Billed, Kept

(* Reading an event, with what it is good for. *)
LEMMA Received ==
    ASSUME TypeOK, NEW r \in Requests, Good(r), Receive(r)
    PROVE  \E e, next :
             /\ Suits(provider, stage[r], said[r], e, next)
             /\ Carries(e, Recv(provider, e))
             /\ stage' = [stage EXCEPT ![r] = next]
             /\ said' = [said EXCEPT ![r] = IF e.text # 0 THEN e.text ELSE @]
             /\ reported' = [reported EXCEPT ![r] = IF e.usage # None THEN e.usage ELSE @]
             /\ chunk' = [chunk EXCEPT ![r] = Recv(provider, e)]
             /\ pc' = [pc EXCEPT ![r] = IF Recv(provider, e) = None THEN "recv" ELSE "chunk"]
<1>1. PICK es \in Sends(provider, stage[r], said[r]) :
         /\ stage' = [stage EXCEPT ![r] = es[2]]
         /\ said' = [said EXCEPT ![r] = IF es[1].text # 0 THEN es[1].text ELSE @]
         /\ reported' = [reported EXCEPT ![r] = IF es[1].usage # None THEN es[1].usage ELSE @]
         /\ chunk' = [chunk EXCEPT ![r] = Recv(provider, es[1])]
         /\ pc' = [pc EXCEPT ![r] = IF Recv(provider, es[1]) = None THEN "recv" ELSE "chunk"]
  BY Zenon DEF Receive
<1>2. Suits(provider, stage[r], said[r], es[1], es[2])
  BY SendsSuit DEF TypeOK
<1>3. Carries(es[1], Recv(provider, es[1]))
  BY Zenon, <1>2, RecvCarries DEF TypeOK
<1>4. QED  BY Zenon, <1>1, <1>2, <1>3

(* The answer that is stored is the collector's. *)
LEMMA Responses ==
    ASSUME NEW sc \in CollectorType
    PROVE  /\ ToResponse(sc) \in AnswerType /\ ToResponse(sc) # None
           /\ ToResponse(sc).text = sc.text
           /\ ToResponse(sc).usage = Counts(sc.prompt, sc.completion, sc.total)
<1> DEFINE u == Counts(sc.prompt, sc.completion, sc.total)
<1>1. u \in CountsType
  BY DEF Counts, CountsType, CollectorType
<1>2. ToResponse(sc) = [text |-> sc.text, finish |-> sc.finish, usage |-> u]
  BY DEF ToResponse
<1>3. sc.text \in Seq(1..MaxPieces) /\ sc.finish \in Finishes
  BY DEF CollectorType
<1> HIDE DEF u
<1>4. /\ ToResponse(sc) \in AnswerType
      /\ ToResponse(sc).text = sc.text /\ ToResponse(sc).usage = u
  BY <1>1, <1>2, <1>3 DEF AnswerType
<1>5. ToResponse(sc) # None
  BY <1>4, NoneAssumption
<1>6. QED  BY <1>4, <1>5 DEF u

(* Every step keeps the types, given what the reader relies on. *)
LEMMA TypeStep ==
    ASSUME TypeOK, \A r \in Requests : Good(r), [Next]_vars
    PROVE  TypeOK'
<1>1. ASSUME NEW r \in Requests, Arrive(r)  PROVE TypeOK'
  BY <1>1 DEF Arrive, TypeOK
<1>2. ASSUME NEW r \in Requests, Open(r)  PROVE TypeOK'
  BY <1>2 DEF Open, TypeOK
<1>3. ASSUME NEW r \in Requests, OpenFails(r)  PROVE TypeOK'
  <2>1. ErrorFrame \in Frames
    BY DEF Frames
  <2>2. frames' \in [Requests -> Seq(Frames)]
    BY <1>3, <2>1 DEF OpenFails, TypeOK
  <2>3. QED  BY <1>3, <2>2 DEF OpenFails, TypeOK, Stages
<1>4. ASSUME NEW r \in Requests, Receive(r)  PROVE TypeOK'
  <2>1. PICK e, next :
           /\ Suits(provider, stage[r], said[r], e, next)
           /\ Carries(e, Recv(provider, e))
           /\ stage' = [stage EXCEPT ![r] = next]
           /\ said' = [said EXCEPT ![r] = IF e.text # 0 THEN e.text ELSE @]
           /\ reported' = [reported EXCEPT ![r] = IF e.usage # None THEN e.usage ELSE @]
           /\ chunk' = [chunk EXCEPT ![r] = Recv(provider, e)]
           /\ pc' = [pc EXCEPT ![r] = IF Recv(provider, e) = None THEN "recv" ELSE "chunk"]
    BY Zenon, <1>4, Received
  <2> DEFINE c == Recv(provider, e)
  <2>2. next \in Stages /\ e.text \in 0..MaxPieces /\ e.usage \in CountsType \cup {None}
    BY <2>1 DEF Suits
  <2>3. c \in ChunkType \cup {None}
    BY <2>1 DEF Carries
  <2>4. /\ stage' \in [Requests -> Stages] /\ said' \in [Requests -> 0..MaxPieces]
        /\ reported' \in [Requests -> CountsType \cup {None}]
    BY <2>1, <2>2 DEF TypeOK
  <2> HIDE DEF c
  <2>5. /\ chunk' = [chunk EXCEPT ![r] = c]
        /\ pc' = [pc EXCEPT ![r] = IF c = None THEN "recv" ELSE "chunk"]
    BY Zenon, <2>1 DEF c
  <2>6. /\ chunk' \in [Requests -> ChunkType \cup {None}]
        /\ pc' \in [Requests -> {"idle", "open", "recv", "chunk", "post", "adjusted", "over"}]
    BY <2>3, <2>5 DEF TypeOK
  <2>7. QED  BY <1>4, <2>4, <2>6 DEF Receive, TypeOK
<1>5. ASSUME NEW r \in Requests, Break(r)  PROVE TypeOK'
  BY <1>5 DEF Break, TypeOK, Stages
<1>6. ASSUME NEW r \in Requests, Send(r)  PROVE TypeOK'
  <2>1. chunk[r] \in ChunkType
    BY <1>6 DEF Send, TypeOK, Good, Counting, Receiving
  <2>2. Collect(coll[r], chunk[r]) \in CollectorType
    BY <2>1, Collecting DEF TypeOK
  <2>3. chunk[r].text # 0 => TextFrame(chunk[r].text) \in Frames
    BY <2>1 DEF ChunkType, Frames
  <2>4. frames' \in [Requests -> Seq(Frames)]
    BY <1>6, <2>3 DEF Send, TypeOK
  <2>5. QED  BY <1>6, <2>2, <2>4 DEF Send, TypeOK
<1>7. ASSUME NEW r \in Requests, SendFails(r)  PROVE TypeOK'
  BY <1>7, NewCollector DEF SendFails, Abandon, Close, TypeOK
<1>8. ASSUME NEW r \in Requests, EndOfStream(r)  PROVE TypeOK'
  <2> DEFINE sc == EstimateTokensIfNeeded(coll[r])
  <2>1. sc \in CollectorType
    BY Estimating DEF TypeOK
  <2> HIDE DEF sc
  <2>2. Counts(sc.prompt, sc.completion, sc.total) \in CountsType
    BY <2>1 DEF CollectorType, Counts, CountsType
  <2>3. <<MetaFrame, DoneFrame>> \in Seq(Frames)
    BY DEF Frames
  <2>4. /\ coll' = [coll EXCEPT ![r] = sc]
        /\ told' = [told EXCEPT ![r] = Counts(sc.prompt, sc.completion, sc.total)]
        /\ frames' = [frames EXCEPT ![r] = @ \o <<MetaFrame, DoneFrame>>]
        /\ pc' = [pc EXCEPT ![r] = "post"]
        /\ age' = [age EXCEPT ![r] = 0] /\ client' = [client EXCEPT ![r] = "gone"]
        /\ UNCHANGED <<provider, stage, said, reported, chunk, billed, kept, cache>>
    BY Zenon, <1>8 DEF EndOfStream, Close, sc
  <2>5. frames' \in [Requests -> Seq(Frames)]
    BY <2>3, <2>4 DEF TypeOK
  <2>6. QED  BY <2>1, <2>2, <2>4, <2>5 DEF TypeOK
<1>9. ASSUME NEW r \in Requests, RecvFails(r)  PROVE TypeOK'
  <2>1. ErrorFrame \in Frames
    BY DEF Frames
  <2>2. frames' \in [Requests -> Seq(Frames)]
    BY <1>9, <2>1 DEF RecvFails, TypeOK
  <2>3. QED  BY <1>9, <2>2, NewCollector DEF RecvFails, Abandon, Close, TypeOK
<1>10. ASSUME NEW r \in Requests, Adjust(r)  PROVE TypeOK'
  <2> DEFINE b == [prompt |-> coll[r].prompt, completion |-> coll[r].completion]
  <2>1. b \in [prompt : Nat, completion : Nat]
    BY DEF TypeOK, CollectorType
  <2>2. billed' \in {billed, [billed EXCEPT ![r] = b]}
    BY <1>10 DEF Adjust
  <2> HIDE DEF b
  <2>3. billed' \in [Requests -> [prompt : Nat, completion : Nat] \cup {None}]
    BY <2>1, <2>2 DEF TypeOK
  <2>4. QED  BY <1>10, <2>3 DEF Adjust, TypeOK
<1>11. ASSUME NEW r \in Requests, Store(r)  PROVE TypeOK'
  <2>1. kept' \in {kept, [kept EXCEPT ![r] = ToResponse(coll[r])]} /\ cache' \in {cache, r}
    BY <1>11 DEF Store
  <2>2. ToResponse(coll[r]) \in AnswerType
    BY Responses DEF TypeOK
  <2>3. kept \in [Requests -> AnswerType \cup {None}] /\ cache \in Requests \cup {None}
    BY DEF TypeOK
  <2>4. kept' \in [Requests -> AnswerType \cup {None}]
    <3> DEFINE a == ToResponse(coll[r])
    <3>1. kept' \in {kept, [kept EXCEPT ![r] = a]} /\ a \in AnswerType
      BY <2>1, <2>2
    <3> HIDE DEF a
    <3>2. QED  BY <2>3, <3>1
  <2>5. cache' \in Requests \cup {None}
    BY <2>1, <2>3
  <2>6. coll' \in [Requests -> CollectorType]
    BY <1>11, NewCollector DEF Store, TypeOK
  <2>7. QED  BY <1>11, <2>4, <2>5, <2>6 DEF Store, TypeOK
<1>12. ASSUME NEW r \in Requests, Stall(r) \/ Leave(r)  PROVE TypeOK'
  <2>1. CASE Stall(r)
    BY <2>1 DEF Stall, TypeOK
  <2>2. CASE Leave(r)
    BY <2>2 DEF Leave, Close, TypeOK
  <2>3. QED  BY <1>12, <2>1, <2>2
<1>13. ASSUME NEW r \in Requests, Tick(r)  PROVE TypeOK'
  BY <1>13 DEF Tick, TypeOK
<1>14. CASE Crash
  BY <1>14, NewCollector DEF Crash, TypeOK
<1>15. CASE UNCHANGED vars
  BY <1>15 DEF vars, TypeOK
<1>16. QED
  BY Zenon, <1>1, <1>2, <1>3, <1>4, <1>5, <1>6, <1>7, <1>8, <1>9, <1>10, <1>11, <1>12,
     <1>13, <1>14, <1>15 DEF Next, Handle

-----------------------------------------------------------------------------
Step(r) == Handle(r) \/ Receive(r) \/ Break(r) \/ Stall(r) \/ Leave(r) \/ Tick(r)

(* Request s is left as it is. *)
Same(s) ==
    /\ provider' = provider
    /\ pc'[s] = pc[s] /\ stage'[s] = stage[s] /\ said'[s] = said[s]
    /\ reported'[s] = reported[s] /\ chunk'[s] = chunk[s]
    /\ coll'[s] = coll[s] /\ frames'[s] = frames[s]
    /\ told'[s] = told[s] /\ billed'[s] = billed[s] /\ kept'[s] = kept[s]

(* A request's step leaves every other request alone. *)
LEMMA Elsewhere ==
    ASSUME TypeOK, NEW r \in Requests, NEW s \in Requests, s # r, Step(r)
    PROVE  Same(s)
<1>1. CASE Arrive(r)  BY <1>1 DEF Arrive, Same, TypeOK
<1>2. CASE Open(r)  BY <1>2 DEF Open, Same, TypeOK
<1>3. CASE OpenFails(r)  BY <1>3 DEF OpenFails, Same, TypeOK
<1>4. CASE Receive(r)  BY <1>4 DEF Receive, Same, TypeOK
<1>5. CASE Break(r)  BY <1>5 DEF Break, Same, TypeOK
<1>6. CASE Send(r)  BY <1>6 DEF Send, Same, TypeOK
<1>7. CASE SendFails(r)  BY <1>7 DEF SendFails, Abandon, Same, TypeOK
<1>8. CASE EndOfStream(r)  BY <1>8 DEF EndOfStream, Same, TypeOK
<1>9. CASE RecvFails(r)  BY <1>9 DEF RecvFails, Abandon, Same, TypeOK
<1>10. CASE Adjust(r)  BY <1>10 DEF Adjust, Same, TypeOK
<1>11. CASE Store(r)  BY <1>11 DEF Store, Same, TypeOK
<1>12. CASE Stall(r) \/ Leave(r)  BY <1>12 DEF Stall, Leave, Same, TypeOK
<1>13. CASE Tick(r)  BY <1>13 DEF Tick, Same, TypeOK
<1>14. QED
  BY Zenon, <1>1, <1>2, <1>3, <1>4, <1>5, <1>6, <1>7, <1>8, <1>9, <1>10, <1>11, <1>12,
     <1>13 DEF Step, Handle

(* So it stays good.                                                       *)
LEMMA OthersStay ==
    ASSUME TypeOK, NEW r \in Requests, NEW s \in Requests, s # r, Step(r), Good(s)
    PROVE  Good(s)'
BY Zenon, Elsewhere, LeftAlone DEF Same

(* The parts of Good that speak of the end are of no concern before it.    *)
LEMMA NothingYet ==
    ASSUME NEW r, Good(r), pc[r] \in {"idle", "open", "recv", "chunk"}
    PROVE  /\ told[r] = None /\ billed[r] = None /\ kept[r] = None
           /\ frames[r] = TextFrames(coll[r].text)
BY DEF Good, Written, Receiving, Counted, Billed, Kept

(* A step that ends the stream, or finds it ended, and writes nothing.     *)
LEMMA Ended ==
    ASSUME NEW r, Good(r), pc'[r] = "over",
           told[r] = None \/ reported'[r] = reported[r],
           frames'[r] = frames[r], told'[r] = told[r], billed'[r] = billed[r],
           kept'[r] = kept[r]
    PROVE  Good(r)'
<1>1. Written(r)' /\ Counting(r)'
  BY DEF Good, Written, Counting, Receiving
<1>2. Counted(r)' /\ Billed(r)' /\ Kept(r)'
  BY DEF Good, Counted, Report, Billed, Kept
<1>3. QED  BY <1>1, <1>2 DEF Good

(* A step that writes nothing and lets the stream go on.                   *)
LEMMA Quiet ==
    ASSUME NEW r, Good(r), provider' = provider,
           \/ pc'[r] = pc[r] /\ coll'[r] = coll[r] /\ stage'[r] \in {stage[r], "failed"}
           \/ pc[r] = "idle" /\ pc'[r] = "over"
           \/ pc[r] = "idle" /\ pc'[r] = "open" /\ coll'[r] = coll[r] /\ stage'[r] = stage[r]
           \/ pc[r] = "open" /\ pc'[r] = "recv" /\ coll'[r] = coll[r] /\ stage'[r] = stage[r],
           reported'[r] = reported[r],
           pc'[r] = "chunk" => chunk'[r] = chunk[r],
           frames'[r] = frames[r], told'[r] = told[r], billed'[r] = billed[r],
           kept'[r] = kept[r]
    PROVE  Good(r)'
<1>1. Written(r)'
  BY DEF Good, Written, Receiving
<1>2. Counting(r)'
  BY DEF Good, Counting, Receiving, Report
<1>3. Counted(r)' /\ Billed(r)' /\ Kept(r)'
  BY DEF Good, Counted, Report, Billed, Kept
<1>4. QED  BY <1>1, <1>2, <1>3 DEF Good

(* Reading an event keeps the counts in step with what the provider said. *)
LEMMA ReceiveStep ==
    ASSUME TypeOK, TypeOK', NEW r \in Requests, Good(r), Receive(r)
    PROVE  Good(r)'
<1>1. PICK e, next :
         /\ Suits(provider, stage[r], said[r], e, next)
         /\ Carries(e, Recv(provider, e))
         /\ stage' = [stage EXCEPT ![r] = next]
         /\ said' = [said EXCEPT ![r] = IF e.text # 0 THEN e.text ELSE @]
         /\ reported' = [reported EXCEPT ![r] = IF e.usage # None THEN e.usage ELSE @]
         /\ chunk' = [chunk EXCEPT ![r] = Recv(provider, e)]
         /\ pc' = [pc EXCEPT ![r] = IF Recv(provider, e) = None THEN "recv" ELSE "chunk"]
  BY Zenon, Received
<1> DEFINE c == Recv(provider, e)
<1>2. /\ stage'[r] = next /\ said'[r] = (IF e.text # 0 THEN e.text ELSE said[r])
      /\ reported'[r] = (IF e.usage # None THEN e.usage ELSE reported[r])
      /\ chunk'[r] = c /\ pc'[r] = (IF c = None THEN "recv" ELSE "chunk")
  BY <1>1 DEF TypeOK
<1>3. Carries(e, c)
  BY <1>1
<1> HIDE DEF c
<1>4. /\ pc[r] = "recv" /\ provider' = provider /\ coll'[r] = coll[r]
      /\ frames'[r] = frames[r] /\ told'[r] = told[r] /\ billed'[r] = billed[r]
      /\ kept'[r] = kept[r]
  BY DEF Receive
<1>5. Written(r)'
  BY <1>2, <1>4 DEF Good, Written, Receiving
<1>6. Counted(r)' /\ Billed(r)' /\ Kept(r)'
  BY <1>4, NothingYet DEF Counted, Billed, Kept
<1>7. Counting(r)'
  <2>1. CountsOf(coll[r]) = Report(r)
    BY <1>4 DEF Good, Counting, Receiving
  <2>2. CASE e.usage = None
    <3>1. Report(r)' = Report(r) /\ (c # None => c.usage = None)
      BY <1>2, <1>3, <2>2 DEF Carries, Report
    <3>2. QED  BY <1>2, <1>4, <2>1, <3>1 DEF Counting, Receiving, CountsOf
  <2>3. CASE e.usage # None
    <3>1. c # None /\ c.usage = e.usage /\ reported'[r] = e.usage
      BY <1>2, <1>3, <2>3 DEF Carries
    <3>2. QED  BY <1>2, <2>3, <3>1 DEF Counting
  <2>4. QED  BY <2>2, <2>3
<1>8. QED  BY <1>5, <1>6, <1>7 DEF Good

(* A chunk is written and collected together. *)
LEMMA SendStep ==
    ASSUME TypeOK, TypeOK', NEW r \in Requests, Good(r), Send(r)
    PROVE  Good(r)'
<1> DEFINE c == chunk[r]  sc == coll[r]  new == Collect(sc, c)
<1>1. /\ pc[r] = "chunk" /\ pc'[r] = "recv" /\ coll'[r] = new
      /\ frames'[r] = (IF c.text # 0 THEN Append(frames[r], TextFrame(c.text)) ELSE frames[r])
      /\ provider' = provider /\ stage'[r] = stage[r] /\ said'[r] = said[r]
      /\ reported'[r] = reported[r] /\ told'[r] = told[r] /\ billed'[r] = billed[r]
      /\ kept'[r] = kept[r]
  BY DEF Send, TypeOK
<1>2. sc \in CollectorType /\ c \in ChunkType /\ c.text \in 0..MaxPieces
  BY <1>1 DEF TypeOK, Good, Counting, Receiving, ChunkType
<1>3. /\ new \in CollectorType
      /\ new.text = IF c.text = 0 THEN sc.text ELSE Append(sc.text, c.text)
      /\ c.usage = None =>
            /\ new.prompt = sc.prompt /\ new.completion = sc.completion
            /\ new.total = sc.total
      /\ c.usage # None =>
            /\ new.prompt = c.usage.prompt /\ new.completion = c.usage.completion
            /\ new.total = c.usage.total
  BY Zenon, <1>2, Collecting
<1>4. /\ c.usage = None => CountsOf(sc) = Report(r)
      /\ c.usage # None => c.usage = reported[r]
  BY <1>1 DEF Good, Counting, Receiving
<1>5. frames[r] = TextFrames(sc.text)
  BY <1>1, NothingYet
<1> HIDE DEF c, sc, new
<1>6. frames'[r] = TextFrames(new.text)
  <2>1. sc.text \in Seq(1..MaxPieces)
    BY <1>2 DEF CollectorType
  <2>2. CASE c.text = 0
    BY <1>1, <1>3, <1>5, <2>2
  <2>3. CASE c.text # 0
    <3>1. c.text \in 1..MaxPieces
      BY <1>2, <2>3
    <3>2. TextFrames(Append(sc.text, c.text)) = Append(TextFrames(sc.text), TextFrame(c.text))
      BY Zenon, <2>1, <3>1, FramesOfText
    <3>3. QED  BY <1>1, <1>3, <1>5, <2>3, <3>2
  <2>4. QED  BY <2>2, <2>3
<1>7. Written(r)'
  <2>1. new.text \in Seq(1..MaxPieces)
    BY <1>3 DEF CollectorType
  <2>2. QED  BY <1>1, <1>6, <2>1 DEF Written, Receiving
<1>8. Counted(r)' /\ Billed(r)' /\ Kept(r)'
  BY <1>1, NothingYet DEF Counted, Billed, Kept
<1>9. Counting(r)'
  <2>1. Report(r)' = Report(r)
    BY <1>1 DEF Report
  <2>2. CountsOf(new) = Report(r)
    <3>1. CASE c.usage = None
      BY Zenon, <1>3, <1>4, <3>1 DEF CountsOf
    <3>2. CASE c.usage # None
      <4>1. c.usage \in CountsType
        BY <1>2, <3>2 DEF ChunkType
      <4>2. CountsOf(new) = c.usage
        BY Zenon, <1>3, <3>2, <4>1, CountsMade DEF CountsOf
      <4>3. QED  BY Zenon, <1>4, <3>2, <4>2 DEF Report
    <3>3. QED  BY <3>1, <3>2
  <2>3. QED  BY <1>1, <2>1, <2>2 DEF Counting, Receiving, CountsOf
<1>10. QED  BY <1>7, <1>8, <1>9 DEF Good

(* Both ways of ending with an error frame. *)
LEMMA ErrorStep ==
    ASSUME TypeOK, NEW r \in Requests, Good(r), OpenFails(r) \/ RecvFails(r)
    PROVE  Good(r)'
<1>1. /\ pc[r] \in {"open", "recv"} /\ pc'[r] = "over"
      /\ frames'[r] = Append(frames[r], ErrorFrame)
      /\ told'[r] = told[r] /\ billed'[r] = billed[r] /\ kept'[r] = kept[r]
  BY DEF OpenFails, RecvFails, Abandon, TypeOK
<1>2. Written(r)'
  <2>1. frames'[r] = Append(TextFrames(coll[r].text), ErrorFrame)
    BY <1>1, NothingYet
  <2>2. coll[r].text \in Seq(1..MaxPieces)
    BY DEF TypeOK, CollectorType
  <2>3. QED  BY <1>1, <2>1, <2>2 DEF Written, Receiving
<1>3. Counting(r)' /\ Counted(r)' /\ Billed(r)' /\ Kept(r)'
  BY <1>1, NothingYet DEF Counting, Receiving, Counted, Billed, Kept
<1>4. QED  BY <1>2, <1>3 DEF Good

(* The counts told are completed once, when the body ends. *)
LEMMA EndStep ==
    ASSUME TypeOK, NEW r \in Requests, Good(r), EndOfStream(r)
    PROVE  Good(r)'
<1> DEFINE sc == coll[r]  new == EstimateTokensIfNeeded(sc)
<1>1. /\ pc[r] = "recv" /\ pc'[r] = "post" /\ coll'[r] = new
      /\ told'[r] = Counts(new.prompt, new.completion, new.total)
      /\ frames'[r] = frames[r] \o <<MetaFrame, DoneFrame>>
      /\ reported'[r] = reported[r] /\ billed'[r] = billed[r] /\ kept'[r] = kept[r]
  <2>1. /\ pc[r] = "recv" /\ pc' = [pc EXCEPT ![r] = "post"]
        /\ coll' = [coll EXCEPT ![r] = new]
        /\ told' = [told EXCEPT ![r] = Counts(new.prompt, new.completion, new.total)]
        /\ frames' = [frames EXCEPT ![r] = @ \o <<MetaFrame, DoneFrame>>]
        /\ UNCHANGED <<reported, billed, kept>>
    BY Zenon DEF EndOfStream
  <2> HIDE DEF new
  <2>2. QED  BY <2>1 DEF TypeOK
<1> DEFINE guess == (Len(sc.text) * PieceBytes) \div 4
<1>2. sc \in CollectorType
  BY DEF TypeOK
<1>3. /\ new \in CollectorType /\ new.text = sc.text /\ new.prompt = sc.prompt
      /\ new.completion = IF sc.completion = 0 THEN guess ELSE sc.completion
      /\ new.total = IF sc.total = 0 THEN sc.prompt + new.completion ELSE sc.total
  BY Zenon, <1>2, Estimating
<1>4. CountsOf(sc) = Report(r)
  BY <1>1 DEF Good, Counting, Receiving
<1>5. frames[r] = TextFrames(sc.text)
  BY <1>1, NothingYet
<1>6. /\ sc.prompt \in Nat /\ sc.completion \in Nat /\ sc.total \in Nat
      /\ sc.prompt = Report(r).prompt /\ sc.completion = Report(r).completion
      /\ sc.total = Report(r).total
  BY <1>2, <1>4 DEF CountsOf, Counts, CollectorType
<1>7. Report(r)' = Report(r)
  BY <1>1 DEF Report
<1>8. (Len(frames'[r]) - 2) = Len(sc.text)
  <2>1. TextFrames(sc.text) \in Seq(Frames) /\ Len(TextFrames(sc.text)) = Len(sc.text)
    BY <1>2, FramesOfText DEF CollectorType
  <2> DEFINE t == TextFrames(sc.text)
  <2>2. frames'[r] = t \o <<MetaFrame, DoneFrame>>
    BY <1>1, <1>5
  <2>3. t \in Seq(Frames) /\ Len(t) = Len(sc.text)
    BY <2>1
  <2> HIDE DEF t
  <2>4. Len(t \o <<MetaFrame, DoneFrame>>) = Len(t) + 2
    BY <2>3 DEF Frames
  <2>5. Len(sc.text) \in Nat
    BY <1>2 DEF CollectorType
  <2>6. QED  BY <2>2, <2>3, <2>4, <2>5
<1>9. /\ told'[r].prompt = new.prompt /\ told'[r].completion = new.completion
      /\ told'[r].total = new.total
  BY <1>1 DEF Counts
<1>10. ((Len(frames'[r]) - 2) * PieceBytes) \div 4 = guess
  BY Zenon, <1>8
<1> HIDE DEF sc, new, guess
<1>11. Written(r)'
  <2>1. sc.text \in Seq(1..MaxPieces)
    BY <1>2 DEF CollectorType
  <2>2. QED  BY <1>1, <1>3, <1>5, <2>1 DEF Written, Receiving
<1>12. Counted(r)'
  <2>1. new.completion = IF Report(r).completion > 0 THEN Report(r).completion ELSE guess
    BY <1>3, <1>6
  <2>2. new.total = IF Report(r).total > 0 THEN Report(r).total
                    ELSE new.prompt + new.completion
    BY <1>3, <1>6
  <2>3. new.prompt = Report(r).prompt
    BY <1>3, <1>6
  <2>4. QED  BY Zenon, <1>1, <1>7, <1>9, <1>10, <2>1, <2>2, <2>3 DEF Counted
<1>13. Counting(r)' /\ Billed(r)' /\ Kept(r)'
  BY <1>1, NothingYet DEF Counting, Receiving, Billed, Kept
<1>14. QED  BY <1>11, <1>12, <1>13 DEF Good

(* What is billed is read from the collector whose counts were told. *)
LEMMA AdjustStep ==
    ASSUME TypeOK, NEW r \in Requests, Good(r), Adjust(r)
    PROVE  Good(r)'
<1> DEFINE b == [prompt |-> coll[r].prompt, completion |-> coll[r].completion]
<1>1. /\ pc[r] = "post" /\ pc'[r] = "adjusted" /\ billed'[r] \in {billed[r], b}
      /\ frames'[r] = frames[r] /\ coll'[r] = coll[r] /\ told'[r] = told[r]
      /\ reported'[r] = reported[r] /\ kept'[r] = kept[r]
  BY DEF Adjust, TypeOK
<1>2. /\ told[r] = Counts(coll[r].prompt, coll[r].completion, coll[r].total)
      /\ billed[r] = None /\ kept[r] = None
  BY <1>1 DEF Good, Written, Billed, Kept
<1>3. told[r] # None /\ told[r].prompt = b.prompt /\ told[r].completion = b.completion
  <2>1. Counts(coll[r].prompt, coll[r].completion, coll[r].total) \in CountsType
    BY DEF Counts, CountsType, TypeOK, CollectorType
  <2>2. told[r] # None
    BY <1>2, <2>1, NoneAssumption
  <2>3. QED  BY <1>2, <2>2 DEF Counts
<1> HIDE DEF b
<1>4. Billed(r)'
  BY <1>1, <1>2, <1>3 DEF Billed
<1>5. Written(r)' /\ Counting(r)' /\ Counted(r)' /\ Kept(r)'
  BY <1>1, <1>2 DEF Good, Written, Receiving, Counting, Counted, Report, Kept
<1>6. QED  BY <1>4, <1>5 DEF Good

(* So is what is stored. *)
LEMMA StoreStep ==
    ASSUME TypeOK, NEW r \in Requests, Good(r), Store(r)
    PROVE  Good(r)' /\ (kept'[r] # None \/ UNCHANGED <<kept, cache>>)
<1> DEFINE a == ToResponse(coll[r])
<1>1. /\ pc[r] = "adjusted" /\ pc'[r] = "over"
      /\ kept'[r] = a \/ UNCHANGED <<kept, cache>>
      /\ frames'[r] = frames[r] /\ told'[r] = told[r]
      /\ reported'[r] = reported[r] /\ billed'[r] = billed[r]
  BY DEF Store, TypeOK
<1>2. /\ a # None /\ a.text = coll[r].text
      /\ a.usage = Counts(coll[r].prompt, coll[r].completion, coll[r].total)
  BY Responses DEF TypeOK
<1> HIDE DEF a
<1>3. /\ frames[r] = TextFrames(coll[r].text) \o <<MetaFrame, DoneFrame>>
      /\ told[r] = Counts(coll[r].prompt, coll[r].completion, coll[r].total)
      /\ kept[r] = None
  BY <1>1 DEF Good, Written, Kept
<1>4. Kept(r)'
  BY <1>1, <1>2, <1>3 DEF Kept
<1>5. Written(r)' /\ Counting(r)' /\ Counted(r)' /\ Billed(r)'
  BY <1>1 DEF Good, Written, Receiving, Counting, Counted, Report, Billed
<1>6. QED  BY <1>1, <1>2, <1>4, <1>5 DEF Good

(* The steps that move a request, or its surroundings, and write nothing. *)
LEMMA QuietSteps ==
    ASSUME TypeOK, NEW r \in Requests, Good(r),
           \/ Arrive(r) \/ Open(r) \/ Break(r) \/ SendFails(r)
           \/ Stall(r) \/ Leave(r) \/ Tick(r)
    PROVE  Good(r)'
<1>1. CASE Arrive(r)      BY <1>1, Quiet DEF Arrive, TypeOK
<1>2. CASE Open(r)        BY <1>2, Quiet DEF Open, TypeOK
<1>3. CASE Break(r)       BY <1>3, Quiet DEF Break, TypeOK
<1>4. CASE SendFails(r)
  <2>1. /\ pc'[r] = "over" /\ told[r] = None /\ frames'[r] = frames[r]
        /\ told'[r] = told[r] /\ billed'[r] = billed[r] /\ kept'[r] = kept[r]
    BY <1>4, NothingYet DEF SendFails, Abandon, TypeOK
  <2>2. QED  BY <2>1, Ended
<1>5. CASE Stall(r)       BY <1>5, Quiet DEF Stall, TypeOK
<1>6. CASE Leave(r)       BY <1>6, Quiet DEF Leave, TypeOK
<1>7. CASE Tick(r)        BY <1>7, Quiet DEF Tick, TypeOK
<1>8. QED  BY <1>1, <1>2, <1>3, <1>4, <1>5, <1>6, <1>7

(* A crash ends every request where it is. *)
LEMMA CrashStep ==
    ASSUME TypeOK, NEW r \in Requests, Good(r), Crash
    PROVE  Good(r)'
<1>1. /\ provider' = provider /\ stage'[r] = stage[r]
      /\ reported'[r] = (IF told[r] = None THEN None ELSE reported[r])
      /\ frames'[r] = frames[r] /\ told'[r] = told[r]
      /\ billed'[r] = billed[r] /\ kept'[r] = kept[r]
      /\ pc'[r] = (IF pc[r] = "idle" THEN "idle" ELSE "over")
      /\ coll'[r] = NewStreamCollector
  BY DEF Crash
<1>2. pc[r] = "idle" => coll'[r] = coll[r] /\ reported'[r] = reported[r]
  BY <1>1 DEF Good, Written
<1>3. CASE pc[r] = "idle"
  BY <1>1, <1>2, <1>3, Quiet
<1>4. CASE pc[r] # "idle"
  BY <1>1, <1>4, Ended
<1>5. QED  BY <1>3, <1>4

(* The inductive invariant: frames, collector, counts, bill and stored     *)
(* answer of every request agree at every step of the handler and of the   *)
(* goroutine it leaves behind (chat_stream.go).                            *)
THEOREM StreamsInvariant == Spec => []StreamsInv
<1>1. Init => StreamsInv
  <2> SUFFICES ASSUME Init PROVE StreamsInv
    OBVIOUS
  <2>1. TypeOK
    BY NewCollector DEF Init, TypeOK, Stages
  <2>2. ASSUME NEW r \in Requests PROVE Good(r)
    <3>1. TextFrames(<<>>) = <<>>
      BY DEF TextFrames
    <3>2. /\ pc[r] = "idle" /\ coll[r] = NewStreamCollector /\ frames[r] = <<>>
          /\ told[r] = None /\ billed[r] = None /\ kept[r] = None
          /\ reported[r] = None
      BY DEF Init
    <3>3. Written(r)
      <4>1. <<>> \in Seq(1..MaxPieces) /\ frames[r] = TextFrames(<<>>)
        BY <3>1, <3>2
      <4>2. QED  BY <3>1, <3>2, <4>1, NewCollector DEF Written, Receiving
    <3>4. Counting(r)
      BY <3>2, NewCollector DEF Counting, Receiving, Report, CountsOf
    <3>5. QED  BY <3>2, <3>3, <3>4 DEF Good, Counted, Billed, Kept
  <2>3. cache = None
    BY DEF Init
  <2>4. QED  BY <2>1, <2>2, <2>3 DEF StreamsInv
<1>2. StreamsInv /\ [Next]_vars => StreamsInv'
  <2> SUFFICES ASSUME StreamsInv, [Next]_vars PROVE StreamsInv'
    OBVIOUS
  <2>1. TypeOK /\ TypeOK'
    BY TypeStep DEF StreamsInv
  <2>2. ASSUME NEW r \in Requests, Step(r)
        PROVE  Good(r)' /\ (kept'[r] # None \/ UNCHANGED <<kept, cache>>)
    <3>1. Good(r)
      BY DEF StreamsInv
    <3>2. CASE OpenFails(r) \/ RecvFails(r)
      BY <2>1, <3>1, <3>2, ErrorStep DEF OpenFails, RecvFails, Abandon
    <3>3. CASE Receive(r)
      BY <2>1, <3>1, <3>3, ReceiveStep DEF Receive
    <3>4. CASE Send(r)
      BY <2>1, <3>1, <3>4, SendStep DEF Send
    <3>5. CASE EndOfStream(r)
      <4>1. UNCHANGED <<kept, cache>>
        BY <3>5 DEF EndOfStream
      <4>2. QED  BY <2>1, <3>1, <3>5, <4>1, EndStep
    <3>6. CASE Adjust(r)
      BY <2>1, <3>1, <3>6, AdjustStep DEF Adjust
    <3>7. CASE Store(r)
      BY <2>1, <3>1, <3>7, StoreStep
    <3>8. CASE \/ Arrive(r) \/ Open(r) \/ Break(r) \/ SendFails(r)
               \/ Stall(r) \/ Leave(r) \/ Tick(r)
      BY <2>1, <3>1, <3>8, QuietSteps
         DEF Arrive, Open, Break, SendFails, Stall, Leave, Tick
    <3>9. QED  BY <2>2, <3>2, <3>3, <3>4, <3>5, <3>6, <3>7, <3>8 DEF Step, Handle
  <2>3. CASE \E r \in Requests : Step(r)
    <3>1. PICK r \in Requests : Step(r)
      BY <2>3
    <3>2. Good(r)' /\ (kept'[r] # None \/ UNCHANGED <<kept, cache>>)
      BY <2>2, <3>1
    <3>3. \A s \in Requests : Good(s)'
      BY Zenon, <2>1, <3>1, <3>2, OthersStay DEF StreamsInv
    <3>4. cache' # None => kept'[cache'] # None
      <4>1. cache' = r \/ cache' = cache
        BY <3>1 DEF Step, Handle, Arrive, Open, OpenFails, Receive, Break, Send, SendFails,
           EndOfStream, RecvFails, Adjust, Store, Stall, Leave, Tick
      <4>2. kept' = kept \/ \E a : kept' = [kept EXCEPT ![r] = a]
        BY <3>1 DEF Step, Handle, Arrive, Open, OpenFails, Receive, Break, Send, SendFails,
           EndOfStream, RecvFails, Adjust, Store, Stall, Leave, Tick
      <4>3. CASE UNCHANGED <<kept, cache>>
        BY <4>3 DEF StreamsInv
      <4>4. CASE kept'[r] # None
        <5>1. \A s \in Requests \ {r} : kept'[s] = kept[s]
          BY <2>1, <4>2 DEF TypeOK
        <5>2. QED  BY <2>1, <4>1, <4>4, <5>1 DEF StreamsInv, TypeOK
      <4>5. QED  BY <3>2, <4>3, <4>4
    <3>5. QED  BY <2>1, <3>3, <3>4 DEF StreamsInv
  <2>4. CASE Crash
    <3>1. \A s \in Requests : Good(s)'
      BY <2>1, <2>4, CrashStep DEF StreamsInv
    <3>2. kept' = kept /\ cache' = cache
      BY <2>4 DEF Crash
    <3>3. QED  BY <2>1, <3>1, <3>2 DEF StreamsInv
  <2>5. CASE UNCHANGED vars
    <3>1. \A s \in Requests : Good(s)'
      BY Zenon, <2>5, LeftAlone DEF StreamsInv, vars
    <3>2. kept' = kept /\ cache' = cache
      BY <2>5 DEF vars
    <3>3. QED  BY <2>1, <3>1, <3>2 DEF StreamsInv
  <2>6. QED  BY Zenon, <2>3, <2>4, <2>5 DEF Next, Step
<1>3. QED  BY <1>1, <1>2, PTL DEF Spec

-----------------------------------------------------------------------------
(* Every variable keeps its type: collectors, chunks and answers stay whole*)
(* whatever the providers send (collector.go, anthropic.go, gemini.go).    *)
THEOREM TypeCorrect == Spec => []TypeOK
<1>1. StreamsInv => TypeOK
  BY DEF StreamsInv
<1>2. QED  BY <1>1, StreamsInvariant, PTL

(* The goroutine bills the counts the client was told, though the handler  *)
(* has returned when it works them out again (chat_stream.go).             *)
THEOREM BilledCorrectly == Spec => []BilledAsTold
<1>1. StreamsInv => BilledAsTold
  BY DEF StreamsInv, Good, Billed, BilledAsTold
<1>2. QED  BY <1>1, StreamsInvariant, PTL

(* However the four readers spread counts over chunks, the counts told are *)
(* the last ones reported: only a missing completion is guessed, from the  *)
(* text that was written, and only a missing total is added up             *)
(* (collector.go, gemini.go).                                              *)
THEOREM CountedCorrectly == Spec => []CountedOnce
<1>1. StreamsInv => CountedOnce
  BY Zenon DEF StreamsInv, Good, Counted, Report, CountedOnce
<1>2. QED  BY <1>1, StreamsInvariant, PTL

(* Whatever the order of adjusting, storing, failing and crashing, answers *)
(* stored in the cache are texts that were written up to a "[DONE]", with  *)
(* the counts that were told (chat_stream.go, collector.go).               *)
THEOREM KeptCorrectly == Spec => []KeptWasRelayed
<1>1. StreamsInv => KeptWasRelayed
  BY Zenon DEF StreamsInv, Good, Kept, KeptWasRelayed, TextFrames
<1>2. QED  BY <1>1, StreamsInvariant, PTL

(* A text's frames end in nothing, in the metadata and "[DONE]", or in an  *)
(* error.                                                                  *)
LEMMA EndedOnce ==
    ASSUME NEW t \in Seq(1..MaxPieces), NEW f,
           \/ f = TextFrames(t)
           \/ f = TextFrames(t) \o <<MetaFrame, DoneFrame>>
           \/ f = Append(TextFrames(t), ErrorFrame)
    PROVE  \A i \in 1..Len(f) :
              /\ f[i] \in {DoneFrame, ErrorFrame} => i = Len(f)
              /\ f[i] = MetaFrame => i + 1 \in 1..Len(f) /\ f[i + 1] = DoneFrame
              /\ f[i] = DoneFrame => i > 1 /\ f[i - 1] = MetaFrame
<1> DEFINE g == TextFrames(t)
<1>1. g \in Seq(Frames)
  BY FramesOfText
<1>2. \A i \in 1..Len(g) : g[i] \notin {MetaFrame, DoneFrame, ErrorFrame}
  BY FramesOfText DEF TextFrame, MetaFrame, DoneFrame, ErrorFrame
<1>3. MetaFrame # DoneFrame /\ MetaFrame # ErrorFrame /\ DoneFrame # ErrorFrame
  BY DEF MetaFrame, DoneFrame, ErrorFrame
<1>4. MetaFrame \in Frames /\ DoneFrame \in Frames /\ ErrorFrame \in Frames
  BY DEF Frames
<1> HIDE DEF g
<1>5. CASE f = g
  BY <1>1, <1>2, <1>5
<1>6. CASE f = g \o <<MetaFrame, DoneFrame>>
  <2>1. /\ Len(f) = Len(g) + 2 /\ Len(g) \in Nat
        /\ \A i \in 1..Len(g) : f[i] = g[i]
        /\ f[Len(g) + 1] = MetaFrame /\ f[Len(g) + 2] = DoneFrame
    BY <1>1, <1>4, <1>6
  <2> SUFFICES ASSUME NEW i \in 1..Len(f)
               PROVE  /\ f[i] \in {DoneFrame, ErrorFrame} => i = Len(f)
                      /\ f[i] = MetaFrame => i + 1 \in 1..Len(f) /\ f[i + 1] = DoneFrame
                      /\ f[i] = DoneFrame => i > 1 /\ f[i - 1] = MetaFrame
    OBVIOUS
  <2>2. CASE i \in 1..Len(g)
    <3>1. f[i] \notin {MetaFrame, DoneFrame, ErrorFrame}
      BY <1>2, <2>1, <2>2
    <3>2. QED  BY <3>1
  <2>3. CASE i = Len(g) + 1
    <3>1. f[i] = MetaFrame /\ f[i + 1] = DoneFrame /\ i + 1 = Len(f)
      BY <2>1, <2>3
    <3>2. i + 1 \in 1..Len(f)
      BY <2>1, <3>1
    <3>3. QED  BY Zenon, <1>3, <3>1, <3>2
  <2>4. CASE i = Len(g) + 2
    <3>1. f[i] = DoneFrame /\ f[i - 1] = MetaFrame /\ i = Len(f) /\ i > 1
      BY <2>1, <2>4
    <3>2. QED  BY Zenon, <1>3, <3>1
  <2>5. i \in 1..Len(g) \/ i = Len(g) + 1 \/ i = Len(g) + 2
    BY <2>1
  <2>6. QED  BY Zenon, <2>2, <2>3, <2>4, <2>5
<1>7. CASE f = Append(g, ErrorFrame)
  <2>1. /\ Len(f) = Len(g) + 1 /\ Len(g) \in Nat
        /\ \A i \in 1..Len(g) : f[i] = g[i]
        /\ f[Len(g) + 1] = ErrorFrame
    BY <1>1, <1>4, <1>7
  <2>2. QED  BY <1>2, <1>3, <2>1
<1>8. QED  BY <1>5, <1>6, <1>7 DEF g

(* A client gets at most one terminator, last, and "[DONE]" only right     *)
(* after the metadata, for answers of any length (chat_stream.go).         *)
THEOREM EndedCorrectly == Spec => []OneTerminator
<1>1. StreamsInv => OneTerminator
  <2> SUFFICES ASSUME StreamsInv, NEW r \in Requests, NEW f, f = frames[r]
               PROVE  \A i \in 1..Len(f) :
                         /\ f[i] \in {DoneFrame, ErrorFrame} => i = Len(f)
                         /\ f[i] = MetaFrame => i + 1 \in 1..Len(f) /\ f[i + 1] = DoneFrame
                         /\ f[i] = DoneFrame => i > 1 /\ f[i - 1] = MetaFrame
    BY Zenon DEF OneTerminator
  <2>1. PICK t \in Seq(1..MaxPieces) :
           \/ f = TextFrames(t)
           \/ f = TextFrames(t) \o <<MetaFrame, DoneFrame>>
           \/ f = Append(TextFrames(t), ErrorFrame)
    BY Zenon DEF StreamsInv, Good, Written
  <2>2. QED  BY Zenon, <2>1, EndedOnce
<1>2. QED  BY <1>1, StreamsInvariant, PTL

-----------------------------------------------------------------------------
(* Streams as relays                                                       *)
(*                                                                         *)
(* The pieces are collected in the order they were said: the collector's   *)
(* text is all of them, but for the one in the chunk that waits.           *)
UpTo(n) == [i \in 1..n |-> i]
Waiting(r) == IF pc[r] = "chunk" THEN chunk[r].text ELSE 0

InOrder(r) == Receiving(r) =>
    /\ Waiting(r) \in {0, said[r]}
    /\ coll[r].text = UpTo(IF Waiting(r) = 0 THEN said[r] ELSE said[r] - 1)

(* One more piece.                                                         *)
LEMMA OneMore ==
    ASSUME NEW n \in Nat
    PROVE  Len(UpTo(n)) = n /\ Append(UpTo(n), n + 1) = UpTo(n + 1)
BY DEF UpTo

(* A step that neither says nor collects a piece.                          *)
LEMMA OrderKept ==
    ASSUME NEW r, InOrder(r), coll'[r] = coll[r], said'[r] = said[r],
           Receiving(r)' => Receiving(r) /\ Waiting(r)' = Waiting(r)
    PROVE  InOrder(r)'
BY DEF InOrder

(* An event says the next piece or none, and its chunk carries it.         *)
LEMMA ReceivedInOrder ==
    ASSUME TypeOK, NEW r \in Requests, Good(r), InOrder(r), Receive(r)
    PROVE  InOrder(r)'
<1>1. PICK e, next :
         /\ Suits(provider, stage[r], said[r], e, next)
         /\ Carries(e, Recv(provider, e))
         /\ said' = [said EXCEPT ![r] = IF e.text # 0 THEN e.text ELSE @]
         /\ chunk' = [chunk EXCEPT ![r] = Recv(provider, e)]
         /\ pc' = [pc EXCEPT ![r] = IF Recv(provider, e) = None THEN "recv" ELSE "chunk"]
  BY Zenon, Received
<1> DEFINE c == Recv(provider, e)
<1>2. /\ said'[r] = (IF e.text # 0 THEN e.text ELSE said[r])
      /\ chunk'[r] = c /\ pc'[r] = (IF c = None THEN "recv" ELSE "chunk")
  BY <1>1 DEF TypeOK
<1>3. e.text \in {0, said[r] + 1}
  BY <1>1 DEF Suits
<1>4. IF c = None THEN e.text = 0 ELSE c.text = e.text
  BY <1>1 DEF Carries
<1> HIDE DEF c
<1>5. /\ said[r] \in Nat /\ coll'[r] = coll[r] /\ pc[r] = "recv"
      /\ coll[r].text = UpTo(said[r])
  BY DEF Receive, TypeOK, InOrder, Receiving, Waiting
<1>6. Waiting(r)' = e.text
  BY <1>2, <1>4 DEF Waiting
<1>7. CASE e.text = 0
  BY <1>2, <1>5, <1>6, <1>7 DEF InOrder
<1>8. CASE e.text = said[r] + 1
  <2>1. said'[r] = said[r] + 1 /\ Waiting(r)' = said'[r] /\ said'[r] - 1 = said[r]
    BY <1>2, <1>5, <1>6, <1>8
  <2>2. Waiting(r)' # 0
    BY <1>5, <2>1
  <2>3. QED  BY <1>5, <2>1, <2>2 DEF InOrder
<1>9. QED  BY <1>3, <1>7, <1>8

(* The chunk that is written is collected.                                 *)
LEMMA SentInOrder ==
    ASSUME TypeOK, NEW r \in Requests, Good(r), InOrder(r), Send(r)
    PROVE  InOrder(r)'
<1>1. /\ pc[r] = "chunk" /\ pc'[r] = "recv" /\ said'[r] = said[r]
      /\ coll'[r] = Collect(coll[r], chunk[r])
  BY DEF Send, TypeOK
<1>2. chunk[r] \in ChunkType /\ coll[r] \in CollectorType /\ said[r] \in Nat
  BY <1>1 DEF TypeOK, Good, Counting, Receiving
<1>3. coll'[r].text = IF chunk[r].text = 0 THEN coll[r].text
                      ELSE Append(coll[r].text, chunk[r].text)
  <2>1. Collect(coll[r], chunk[r]).text =
           IF chunk[r].text = 0 THEN coll[r].text ELSE Append(coll[r].text, chunk[r].text)
    BY Zenon, <1>2, Collecting
  <2>2. QED  BY Zenon, <1>1, <2>1
<1>4. /\ chunk[r].text \in {0, said[r]} /\ Waiting(r)' = 0
      /\ coll[r].text = UpTo(IF chunk[r].text = 0 THEN said[r] ELSE said[r] - 1)
  BY <1>1 DEF InOrder, Receiving, Waiting
<1>5. CASE chunk[r].text = 0
  BY <1>1, <1>3, <1>4, <1>5 DEF InOrder
<1>6. CASE chunk[r].text # 0
  <2>1. chunk[r].text = said[r] /\ said[r] - 1 \in Nat /\ said[r] - 1 + 1 = said[r]
    BY <1>2, <1>4, <1>6
  <2>2. Append(UpTo(said[r] - 1), said[r]) = UpTo(said[r])
    BY <2>1, OneMore
  <2>3. coll'[r].text = UpTo(said[r])
    BY <1>3, <1>4, <1>6, <2>1, <2>2
  <2>4. QED  BY <1>1, <1>4, <2>3 DEF InOrder
<1>7. QED  BY <1>5, <1>6

(* Every step of the request keeps the order.                              *)
LEMMA OrderStep ==
    ASSUME TypeOK, NEW r \in Requests, Good(r), InOrder(r), Step(r)
    PROVE  InOrder(r)'
<1>1. CASE Receive(r)
  BY <1>1, ReceivedInOrder
<1>2. CASE Send(r)
  BY <1>2, SentInOrder
<1>3. CASE Arrive(r) \/ Open(r) \/ Break(r) \/ Stall(r) \/ Leave(r) \/ Tick(r)
  <2>1. /\ coll'[r] = coll[r] /\ said'[r] = said[r]
        /\ Receiving(r)' => Receiving(r) /\ Waiting(r)' = Waiting(r)
    BY <1>3 DEF Arrive, Open, Break, Stall, Leave, Tick, Receiving, Waiting, TypeOK
  <2>2. QED  BY <2>1, OrderKept
<1>4. CASE \/ OpenFails(r) \/ SendFails(r) \/ EndOfStream(r) \/ RecvFails(r)
           \/ Adjust(r) \/ Store(r)
  <2>1. ~Receiving(r)'
    BY <1>4
       DEF OpenFails, SendFails, EndOfStream, RecvFails, Abandon, Adjust, Store, Receiving,
           TypeOK
  <2>2. QED  BY <2>1 DEF InOrder
<1>5. QED  BY <1>1, <1>2, <1>3, <1>4 DEF Step, Handle

RelayInv == StreamsInv /\ \A r \in Requests : InOrder(r)

(* The pieces of every stream are written in the order they were said, by  *)
(* every reader and however the stream is cut (chat_stream.go).            *)
THEOREM PiecesInOrder == Spec => []RelayInv
<1>1. Init => \A r \in Requests : InOrder(r)
  <2> SUFFICES ASSUME Init, NEW r \in Requests PROVE InOrder(r)
    OBVIOUS
  <2>1. pc[r] = "idle" /\ said[r] = 0 /\ coll[r].text = <<>>
    BY NewCollector DEF Init
  <2>2. UpTo(0) = <<>>
    BY DEF UpTo
  <2>3. QED  BY <2>1, <2>2 DEF InOrder, Waiting
<1>2. StreamsInv /\ (\A r \in Requests : InOrder(r)) /\ [Next]_vars
        => (\A r \in Requests : InOrder(r))'
  <2> SUFFICES ASSUME StreamsInv, \A r \in Requests : InOrder(r), [Next]_vars,
                      NEW s \in Requests
               PROVE  InOrder(s)'
    OBVIOUS
  <2>1. TypeOK /\ Good(s) /\ InOrder(s)
    BY DEF StreamsInv
  <2>2. ASSUME NEW r \in Requests, Step(r) PROVE InOrder(s)'
    <3>1. CASE r = s
      BY <2>1, <2>2, <3>1, OrderStep
    <3>2. CASE r # s
      <4>1. Same(s)
        BY <2>1, <2>2, <3>2, Elsewhere
      <4>2. QED  BY <2>1, <4>1, OrderKept DEF Same, Receiving, Waiting
    <3>3. QED  BY <3>1, <3>2
  <2>3. CASE Crash
    <3>1. /\ said'[s] = said[s] /\ coll'[s] = NewStreamCollector
          /\ pc'[s] = IF pc[s] = "idle" THEN "idle" ELSE "over"
      BY <2>3 DEF Crash
    <3>2. CASE pc[s] = "idle"
      <4>1. coll'[s] = coll[s]
        BY <2>1, <3>1, <3>2 DEF Good, Written
      <4>2. QED  BY <2>1, <3>1, <3>2, <4>1, OrderKept DEF Receiving, Waiting
    <3>3. CASE pc[s] # "idle"
      BY <3>1, <3>3 DEF InOrder, Receiving
    <3>4. QED  BY <3>2, <3>3
  <2>4. CASE UNCHANGED vars
    BY <2>1, <2>4, OrderKept DEF vars, Receiving, Waiting
  <2>5. QED  BY <2>2, <2>3, <2>4 DEF Next, Step
<1>3. QED  BY <1>1, <1>2, StreamsInvariant, PTL DEF Spec, RelayInv

(* The elements of 1..m are m.                                             *)
LEMMA IntervalSize == \A m \in Nat : Cardinality(1..m) = m
<1> TAKE m \in Nat
<1>1. Cardinality(1..m) = IF 1 > m THEN 0 ELSE m - 1 + 1
  BY FS_Interval
<1>2. QED  BY <1>1

(* Two more at the end of a sequence.                                      *)
LEMMA TwoMore ==
    ASSUME NEW S, NEW g \in Seq(S), NEW a \in S, NEW b \in S, NEW f, f = g \o <<a, b>>
    PROVE  /\ f \in Seq(S) /\ Len(f) = Len(g) + 2 /\ DOMAIN f = 1..Len(f)
           /\ \A i \in 1..Len(g) : f[i] = g[i]
           /\ f[Len(g) + 1] = a /\ f[Len(g) + 2] = b
OBVIOUS

(* The text frames of a sequence that begins with them are counted off by  *)
(* their places.                                                           *)
LEMMA PiecesInFront ==
    ASSUME NEW f, NEW n \in Nat, DOMAIN f \subseteq Nat \ {0}, 1..n \subseteq DOMAIN f,
           \A i \in DOMAIN f : f[i][1] = "text" <=> i \in 1..n
    PROVE  Pieces(f) = [i \in 1..n |-> f[i][2]]
<1> DEFINE texts == {i \in DOMAIN f : f[i][1] = "text"}
           Nth(k) == CHOOSE i \in texts : Cardinality(texts \cap 1..i) = k
<1>1. texts = 1..n
  OBVIOUS
<1>2. Pieces(f) = [k \in 1..Cardinality(texts) |-> f[Nth(k)][2]]
  BY DEF Pieces
<1>3. \A m \in Nat : Cardinality(1..m) = m
  BY IntervalSize
<1>4. Cardinality(texts) = n
  BY <1>1, <1>3
<1>5. ASSUME NEW k \in 1..n PROVE Nth(k) = k
  <2>1. ASSUME NEW i \in 1..n PROVE Cardinality(texts \cap 1..i) = i
    <3>1. texts \cap 1..i = 1..i
      BY <1>1
    <3>2. QED  BY <1>3, <3>1
  <2>2. k \in texts /\ Cardinality(texts \cap 1..k) = k
    BY <1>1, <2>1
  <2>3. \A i \in texts : Cardinality(texts \cap 1..i) = k => i = k
    BY <1>1, <2>1
  <2> HIDE DEF texts
  <2>4. QED  BY <2>2, <2>3
<1> HIDE DEF Nth, texts
<1>6. QED  BY <1>2, <1>4, <1>5

(* So the pieces of frames that begin with a text's are the text.          *)
LEMMA TextInFront ==
    ASSUME NEW t \in Seq(1..MaxPieces), NEW f, DOMAIN f \subseteq Nat \ {0},
           1..Len(t) \subseteq DOMAIN f,
           \A i \in 1..Len(t) : f[i] = TextFrame(t[i]),
           \A i \in DOMAIN f : i \notin 1..Len(t) => f[i] \in {MetaFrame, DoneFrame, ErrorFrame}
    PROVE  Pieces(f) = t
<1> DEFINE n == Len(t)
<1>1. n \in Nat /\ t = [i \in 1..n |-> t[i]]
  OBVIOUS
<1>2. \A i \in 1..n : f[i][1] = "text" /\ f[i][2] = t[i]
  BY DEF TextFrame
<1>3. MetaFrame[1] # "text" /\ DoneFrame[1] # "text" /\ ErrorFrame[1] # "text"
  BY DEF MetaFrame, DoneFrame, ErrorFrame
<1>4. \A i \in DOMAIN f : f[i][1] = "text" <=> i \in 1..n
  BY <1>2, <1>3
<1>5. 1..n \subseteq DOMAIN f
  OBVIOUS
<1> HIDE DEF n
<1>6. Pieces(f) = [i \in 1..n |-> f[i][2]]
  BY <1>1, <1>4, <1>5, PiecesInFront
<1>7. QED  BY <1>1, <1>2, <1>6

(* What the relay sees of a text's frames and their end.                   *)
LEMMA View ==
    ASSUME NEW t \in Seq(1..MaxPieces), NEW f, NEW at
    PROVE  /\ f = TextFrames(t) =>
                  Pieces(f) = t /\ Closing(f, at) = IF at = "over" THEN "left" ELSE "open"
           /\ f = TextFrames(t) \o <<MetaFrame, DoneFrame>> =>
                  Pieces(f) = t /\ Closing(f, at) = "done"
           /\ f = Append(TextFrames(t), ErrorFrame) =>
                  Pieces(f) = t /\ Closing(f, at) = "error"
<1> DEFINE g == TextFrames(t)  n == Len(t)
<1>1. /\ g \in Seq(Frames) /\ Len(g) = n /\ n \in Nat
      /\ \A i \in 1..n : g[i] = TextFrame(t[i])
  BY FramesOfText
<1>2. \A i \in 1..n : g[i] # DoneFrame /\ g[i] # ErrorFrame
  BY <1>1 DEF TextFrame, DoneFrame, ErrorFrame
<1>3. /\ MetaFrame \in Frames /\ DoneFrame \in Frames /\ ErrorFrame \in Frames
      /\ ErrorFrame # DoneFrame
  BY DEF Frames, ErrorFrame, DoneFrame
<1> HIDE DEF g
<1>4. ASSUME f = g PROVE Pieces(f) = t /\ Closing(f, at) = IF at = "over" THEN "left" ELSE "open"
  <2>1. DOMAIN f = 1..n /\ \A i \in 1..n : f[i] = g[i]
    BY <1>1, <1>4
  <2>2. Pieces(f) = t
    BY <1>1, <2>1, TextInFront
  <2>3. \A i \in DOMAIN f : f[i] # DoneFrame /\ f[i] # ErrorFrame
    BY <1>2, <2>1
  <2>4. QED  BY <2>2, <2>3 DEF Closing
<1>5. ASSUME f = g \o <<MetaFrame, DoneFrame>> PROVE Pieces(f) = t /\ Closing(f, at) = "done"
  <2>1. /\ Len(f) = Len(g) + 2 /\ DOMAIN f = 1..Len(f)
        /\ \A i \in 1..Len(g) : f[i] = g[i]
        /\ f[Len(g) + 1] = MetaFrame /\ f[Len(g) + 2] = DoneFrame
    <3>1. g \in Seq(Frames)
      BY <1>1
    <3>2. QED  BY <1>3, <1>5, <3>1, TwoMore
  <2>2. DOMAIN f = 1..(n + 2) /\ f[n + 1] = MetaFrame /\ f[n + 2] = DoneFrame
    BY <1>1, <2>1
  <2>3. /\ \A i \in 1..n : f[i] = TextFrame(t[i])
        /\ \A i \in DOMAIN f : i \notin 1..n => i = n + 1 \/ i = n + 2
        /\ DOMAIN f \subseteq Nat \ {0} /\ 1..n \subseteq DOMAIN f /\ n + 2 \in DOMAIN f
    <3>1. \A i \in 1..n : f[i] = TextFrame(t[i])
      BY <1>1, <2>1
    <3>2. \A i \in 1..(n + 2) : i \in 1..n \/ i = n + 1 \/ i = n + 2
      BY <1>1
    <3>3. DOMAIN f \subseteq Nat \ {0} /\ 1..n \subseteq DOMAIN f /\ n + 2 \in DOMAIN f
      BY <1>1, <2>2
    <3>4. QED  BY <2>2, <3>1, <3>2, <3>3
  <2>4. \A i \in DOMAIN f : i \notin 1..n => f[i] \in {MetaFrame, DoneFrame, ErrorFrame}
    BY <2>2, <2>3
  <2>5. Pieces(f) = t
    BY <2>3, <2>4, TextInFront
  <2>6. QED  BY <2>2, <2>3, <2>5 DEF Closing
<1>6. ASSUME f = Append(g, ErrorFrame) PROVE Pieces(f) = t /\ Closing(f, at) = "error"
  <2>1. /\ DOMAIN f = 1..(n + 1) /\ \A i \in 1..n : f[i] = g[i]
        /\ f[n + 1] = ErrorFrame
    BY <1>1, <1>3, <1>6
  <2>2. /\ \A i \in 1..n : f[i] = TextFrame(t[i])
        /\ \A i \in DOMAIN f : i \notin 1..n => i = n + 1
        /\ DOMAIN f \subseteq Nat \ {0} /\ 1..n \subseteq DOMAIN f /\ n + 1 \in DOMAIN f
    BY <1>1, <2>1
  <2>3. \A i \in DOMAIN f : i \notin 1..n => f[i] \in {MetaFrame, DoneFrame, ErrorFrame}
    BY <2>1, <2>2
  <2>4. Pieces(f) = t
    BY <2>2, <2>3, TextInFront
  <2>5. \A i \in DOMAIN f : f[i] # DoneFrame
    BY <1>2, <1>3, <2>1, <2>2
  <2>6. QED  BY <2>1, <2>2, <2>4, <2>5 DEF Closing
<1>7. QED  BY <1>4, <1>5, <1>6 DEF g

(* What the relay sees of a text that goes on.                             *)
LEMMA ViewOpen ==
    ASSUME NEW t \in Seq(1..MaxPieces), NEW f, f = TextFrames(t), NEW at
    PROVE  Pieces(f) = t /\ Closing(f, at) = IF at = "over" THEN "left" ELSE "open"
BY View

(* The same of a text that was ended by "[DONE]".                           *)
LEMMA ViewDone ==
    ASSUME NEW t \in Seq(1..MaxPieces), NEW f, NEW at,
           f = TextFrames(t) \o <<MetaFrame, DoneFrame>>
    PROVE  Pieces(f) = t /\ Closing(f, at) = "done"
BY View


(* Frames at every stage, as the relay sees them.                          *)
LEMMA SeenSoFar ==
    ASSUME TypeOK, NEW r \in Requests, Good(r), InOrder(r), Receiving(r)
    PROVE  /\ frames[r] = TextFrames(coll[r].text)
           /\ Pieces(frames[r]) = coll[r].text /\ Closing(frames[r], pc[r]) = "open"
           /\ kept[r] = None
           /\ \A at : Closing(frames[r], at) = IF at = "over" THEN "left" ELSE "open"
<1>1. coll[r].text \in Seq(1..MaxPieces)
  BY DEF TypeOK, CollectorType
<1>2. frames[r] = TextFrames(coll[r].text) /\ kept[r] = None /\ pc[r] # "over"
  BY NothingYet DEF Receiving
<1>3. \A at : /\ Pieces(frames[r]) = coll[r].text
              /\ Closing(frames[r], at) = IF at = "over" THEN "left" ELSE "open"
  BY <1>1, <1>2, View
<1>4. QED  BY <1>2, <1>3

(* Frames once the answer is complete, as the relay sees them.             *)
LEMMA SeenDone ==
    ASSUME TypeOK, NEW r \in Requests, Good(r), pc[r] \in {"post", "adjusted"}
    PROVE  /\ Pieces(frames[r]) = coll[r].text /\ kept[r] = None
           /\ \A at : Closing(frames[r], at) = "done"
<1>1. coll[r].text \in Seq(1..MaxPieces)
  BY DEF TypeOK, CollectorType
<1>2. frames[r] = TextFrames(coll[r].text) \o <<MetaFrame, DoneFrame>> /\ kept[r] = None
  BY DEF Good, Written, Kept
<1>3. ASSUME NEW at
      PROVE  Pieces(frames[r]) = coll[r].text /\ Closing(frames[r], at) = "done"
  BY Zenon, <1>1, <1>2, ViewDone
<1>4. QED  BY <1>2, <1>3

(* A step that says, writes, closes and keeps nothing.                     *)
LEMMA RelayStays ==
    ASSUME NEW r, said'[r] = said[r], stage'[r] = stage[r], frames'[r] = frames[r],
           kept'[r] = kept[r], Closing(frames[r], pc'[r]) = Closing(frames[r], pc[r])
    PROVE  UNCHANGED Relay(r)!relayVars
BY DEF Relay!relayVars

(* The client has left, or is served from the cache, or the process died.  *)
LEMMA RelayLeft ==
    ASSUME TypeOK, NEW r \in Requests, Good(r), InOrder(r), Receiving(r), pc'[r] = "over",
           said'[r] = said[r], stage'[r] = stage[r], frames'[r] = frames[r],
           kept'[r] = kept[r]
    PROVE  Relay(r)!Next
<1>1. Closing(frames[r], pc[r]) = "open" /\ Closing(frames'[r], pc'[r]) = "left"
  BY SeenSoFar
<1>2. Relay(r)!GiveUp
  BY <1>1 DEF Relay!GiveUp
<1>3. QED  BY <1>2 DEF Relay!Next

(* An error frame.                                                         *)
LEMMA RelayFails ==
    ASSUME TypeOK, NEW r \in Requests, Good(r), InOrder(r), OpenFails(r) \/ RecvFails(r)
    PROVE  Relay(r)!Next
<1>1. /\ Receiving(r) /\ pc'[r] = "over" /\ said'[r] = said[r] /\ kept'[r] = kept[r]
      /\ frames'[r] = Append(frames[r], ErrorFrame)
      /\ stage'[r] \in {stage[r], "failed"}
  BY DEF OpenFails, RecvFails, Abandon, Receiving, TypeOK
<1>2. /\ frames[r] = TextFrames(coll[r].text)
      /\ Pieces(frames[r]) = coll[r].text /\ Closing(frames[r], pc[r]) = "open"
  BY <1>1, SeenSoFar
<1>3. Pieces(frames'[r]) = coll[r].text /\ Closing(frames'[r], pc'[r]) = "error"
  <2>1. coll[r].text \in Seq(1..MaxPieces)
    BY DEF TypeOK, CollectorType
  <2>2. frames'[r] = Append(TextFrames(coll[r].text), ErrorFrame)
    BY <1>1, <1>2
  <2>3. QED  BY <2>1, <2>2, View
<1>4. Relay(r)!GiveUp
  BY <1>1, <1>2, <1>3 DEF Relay!GiveUp
<1>5. QED  BY <1>4 DEF Relay!Next

(* The provider says a piece, or ends its body, or neither.                *)
LEMMA RelaySays ==
    ASSUME TypeOK, NEW r \in Requests, Good(r), InOrder(r), Receive(r) \/ Break(r)
    PROVE  [Relay(r)!Next]_(Relay(r)!relayVars)
<1>1. /\ Receiving(r) /\ Receiving(r)' /\ frames'[r] = frames[r] /\ kept'[r] = kept[r]
      /\ pc'[r] # "over"
  BY DEF Receive, Break, Receiving, TypeOK
<1>2. Closing(frames[r], pc[r]) = "open" /\ Closing(frames'[r], pc'[r]) = "open"
  BY <1>1, SeenSoFar
<1>3. /\ stage[r] \notin {"over", "cut", "failed"}
      /\ said'[r] = said[r] \/ said'[r] = said[r] + 1
  <2>1. CASE Receive(r)
    <3>1. PICK e, next :
             /\ Suits(provider, stage[r], said[r], e, next)
             /\ said' = [said EXCEPT ![r] = IF e.text # 0 THEN e.text ELSE @]
      BY Zenon, <2>1, Received
    <3>2. e.text \in {0, said[r] + 1} /\ stage[r] \notin {"over", "cut", "failed"}
      BY <3>1 DEF Suits
    <3>3. QED  BY <3>1, <3>2 DEF TypeOK
  <2>2. CASE Break(r)
    BY <2>2 DEF Break
  <2>3. QED  BY <2>1, <2>2
<1>4. CASE said'[r] = said[r] + 1
  <2>1. Relay(r)!Say
    BY <1>1, <1>2, <1>3, <1>4 DEF Relay!Say
  <2>2. QED  BY <2>1 DEF Relay!Next
<1>5. CASE said'[r] = said[r] /\ stage'[r] \in {"over", "cut", "failed"}
  <2>1. Relay(r)!Finish
    BY <1>1, <1>2, <1>3, <1>5 DEF Relay!Finish
  <2>2. QED  BY <2>1 DEF Relay!Next
<1>6. CASE said'[r] = said[r] /\ stage'[r] \notin {"over", "cut", "failed"}
  BY <1>1, <1>2, <1>3, <1>6 DEF Relay!relayVars
<1>7. QED  BY <1>3, <1>4, <1>5, <1>6

(* A chunk with text relays the next piece.                                *)
LEMMA RelayRelays ==
    ASSUME TypeOK, TypeOK', NEW r \in Requests, Good(r), Good(r)', InOrder(r), Send(r)
    PROVE  [Relay(r)!Next]_(Relay(r)!relayVars)
<1>1. /\ Receiving(r) /\ Receiving(r)' /\ pc[r] = "chunk"
      /\ said'[r] = said[r] /\ stage'[r] = stage[r] /\ kept'[r] = kept[r]
  BY DEF Send, Receiving, TypeOK
<1>2. InOrder(r)'
  BY SentInOrder
<1>3. /\ Pieces(frames[r]) = coll[r].text /\ Closing(frames[r], pc[r]) = "open"
  BY <1>1, SeenSoFar
<1>4. /\ Pieces(frames[r])' = coll'[r].text /\ Closing(frames'[r], pc'[r]) = "open"
  <2>1. coll'[r].text \in Seq(1..MaxPieces)
    BY DEF TypeOK, CollectorType
  <2>2. frames'[r] = TextFrames(coll'[r].text) /\ pc'[r] # "over"
    BY <1>1 DEF Good, Written, Receiving
  <2>3. QED  BY <2>1, <2>2, ViewOpen
<1>5. /\ coll'[r].text = UpTo(said[r]) /\ said[r] \in Nat
      /\ Waiting(r) \in {0, said[r]}
      /\ coll[r].text = UpTo(IF Waiting(r) = 0 THEN said[r] ELSE said[r] - 1)
  <2>1. Waiting(r)' = 0
    BY DEF Send, Waiting, TypeOK
  <2>2. QED  BY <1>1, <1>2, <2>1 DEF InOrder, TypeOK
<1>6. CASE Waiting(r) = 0
  BY <1>1, <1>3, <1>4, <1>5, <1>6 DEF Relay!relayVars
<1>7. CASE Waiting(r) # 0
  <2> DEFINE n == said[r] - 1
  <2>1. n \in Nat /\ n + 1 = said[r] /\ coll[r].text = UpTo(n)
    BY <1>5, <1>7
  <2>2. Len(coll[r].text) = n /\ coll'[r].text = Append(coll[r].text, Len(coll[r].text) + 1)
    BY <1>5, <2>1, OneMore
  <2>3. Relay(r)!Relay
    BY <1>1, <1>3, <1>4, <2>1, <2>2 DEF Relay!Relay
  <2>4. QED  BY <2>3 DEF Relay!Next
<1>8. QED  BY <1>6, <1>7

(* "[DONE]" is written when the body has ended and every piece is written. *)
LEMMA RelayEnds ==
    ASSUME TypeOK, TypeOK', NEW r \in Requests, Good(r), Good(r)', InOrder(r), EndOfStream(r)
    PROVE  Relay(r)!Next
<1>1. /\ Receiving(r) /\ pc[r] = "recv" /\ pc'[r] = "post" /\ stage[r] \in {"over", "cut"}
      /\ said'[r] = said[r] /\ stage'[r] = stage[r] /\ kept'[r] = kept[r]
      /\ frames'[r] = frames[r] \o <<MetaFrame, DoneFrame>>
  <2>1. /\ pc[r] = "recv" /\ pc' = [pc EXCEPT ![r] = "post"] /\ stage[r] \in {"over", "cut"}
        /\ said' = said /\ stage' = stage /\ kept' = kept
        /\ frames' = [frames EXCEPT ![r] = @ \o <<MetaFrame, DoneFrame>>]
    BY Zenon DEF EndOfStream
  <2>2. QED  BY <2>1 DEF Receiving, TypeOK
<1>2. /\ frames[r] = TextFrames(coll[r].text)
      /\ Pieces(frames[r]) = coll[r].text /\ Closing(frames[r], pc[r]) = "open"
  BY <1>1, SeenSoFar
<1>3. Pieces(frames'[r]) = coll[r].text /\ Closing(frames'[r], pc'[r]) = "done"
  <2>1. coll[r].text \in Seq(1..MaxPieces)
    BY DEF TypeOK, CollectorType
  <2>2. frames'[r] = TextFrames(coll[r].text) \o <<MetaFrame, DoneFrame>>
    BY <1>1, <1>2
  <2>3. QED  BY Zenon, <2>1, <2>2, ViewDone
<1>4. Len(coll[r].text) = said[r]
  <2>1. coll[r].text = UpTo(said[r]) /\ said[r] \in Nat
    BY <1>1 DEF InOrder, Waiting, TypeOK
  <2>2. QED  BY <2>1, OneMore
<1>5. Relay(r)!Done
  BY <1>1, <1>2, <1>3, <1>4 DEF Relay!Done
<1>6. QED  BY <1>5 DEF Relay!Next

(* What is kept is the text that was written.                              *)
LEMMA RelayKeeps ==
    ASSUME TypeOK, NEW r \in Requests, Good(r), Store(r)
    PROVE  [Relay(r)!Next]_(Relay(r)!relayVars)
<1>1. /\ pc[r] = "adjusted" /\ said'[r] = said[r] /\ stage'[r] = stage[r]
      /\ frames'[r] = frames[r]
      /\ kept'[r] = kept[r] \/ kept'[r] = ToResponse(coll[r])
  BY DEF Store, TypeOK
<1>2. /\ Pieces(frames[r]) = coll[r].text /\ kept[r] = None
      /\ Closing(frames[r], pc[r]) = "done" /\ Closing(frames[r], pc'[r]) = "done"
  BY <1>1, SeenDone
<1>3. ToResponse(coll[r]) # None /\ ToResponse(coll[r]).text = coll[r].text
  BY Responses DEF TypeOK
<1>4. CASE kept'[r] = kept[r]
  BY <1>1, <1>2, <1>4, RelayStays
<1>5. CASE kept'[r] = ToResponse(coll[r])
  <2>1. Relay(r)!Keep
    BY <1>1, <1>2, <1>3, <1>5 DEF Relay!Keep
  <2>2. QED  BY <2>1 DEF Relay!Next
<1>6. QED  BY <1>1, <1>4, <1>5

(* The request's own steps, the others' and the end of the process.        *)
LEMMA RelayStep ==
    ASSUME StreamsInv, StreamsInv', NEW r \in Requests, InOrder(r), [Next]_vars
    PROVE  [Relay(r)!Next]_(Relay(r)!relayVars)
<1>1. TypeOK /\ TypeOK' /\ Good(r) /\ Good(r)'
  BY DEF StreamsInv
<1>2. ASSUME NEW s \in Requests, Step(s), s # r
      PROVE  [Relay(r)!Next]_(Relay(r)!relayVars)
  <2>1. Same(r)
    BY <1>1, <1>2, Elsewhere
  <2>2. QED  BY <2>1, RelayStays DEF Same
<1>3. CASE Step(r)
  <2>1. CASE Receive(r) \/ Break(r)
    BY <1>1, <2>1, RelaySays
  <2>2. CASE Send(r)
    BY <1>1, <2>2, RelayRelays
  <2>3. CASE EndOfStream(r)
    BY <1>1, <2>3, RelayEnds
  <2>4. CASE OpenFails(r) \/ RecvFails(r)
    BY <1>1, <2>4, RelayFails
  <2>5. CASE Store(r)
    BY <1>1, <2>5, RelayKeeps
  <2>6. CASE Arrive(r) \/ Open(r) \/ SendFails(r) \/ Stall(r) \/ Leave(r) \/ Tick(r)
    <3>1. /\ Receiving(r) /\ said'[r] = said[r] /\ stage'[r] = stage[r]
          /\ frames'[r] = frames[r] /\ kept'[r] = kept[r]
      <4>1. CASE Arrive(r) \/ Open(r)      BY <4>1 DEF Arrive, Open, Receiving
      <4>2. CASE SendFails(r)              BY <4>2 DEF SendFails, Receiving
      <4>3. CASE Stall(r) \/ Leave(r) \/ Tick(r)
        BY <4>3 DEF Stall, FrameDue, Leave, Tick, Receiving
      <4>4. QED  BY <2>6, <4>1, <4>2, <4>3
    <3>2. CASE pc'[r] = "over"
      BY <1>1, <3>1, <3>2, RelayLeft
    <3>3. CASE pc'[r] # "over"
      <4>1. Closing(frames[r], pc'[r]) = Closing(frames[r], pc[r])
        BY <1>1, <3>1, <3>3, SeenSoFar
      <4>2. QED  BY <3>1, <4>1, RelayStays
    <3>4. QED  BY <3>2, <3>3
  <2>7. CASE Adjust(r)
    <3>1. /\ pc[r] = "post" /\ said'[r] = said[r] /\ stage'[r] = stage[r]
          /\ frames'[r] = frames[r] /\ kept'[r] = kept[r]
      BY <1>1, <2>7 DEF Adjust, TypeOK
    <3>2. Closing(frames[r], pc'[r]) = Closing(frames[r], pc[r])
      BY <1>1, <3>1, SeenDone
    <3>3. QED  BY <3>1, <3>2, RelayStays
  <2>8. QED  BY <1>3, <2>1, <2>2, <2>3, <2>4, <2>5, <2>6, <2>7 DEF Step, Handle
<1>4. CASE Crash
  <2>1. /\ said'[r] = said[r] /\ stage'[r] = stage[r]
        /\ frames'[r] = frames[r] /\ kept'[r] = kept[r]
        /\ pc'[r] = IF pc[r] = "idle" THEN "idle" ELSE "over"
    BY <1>4 DEF Crash
  <2>2. CASE pc[r] \in {"idle", "over"}
    BY <2>1, <2>2, RelayStays
  <2>3. CASE pc[r] \in {"open", "recv", "chunk"}
    BY <1>1, <2>1, <2>3, RelayLeft DEF Receiving
  <2>4. CASE pc[r] \in {"post", "adjusted"}
    <3>1. Closing(frames[r], pc'[r]) = Closing(frames[r], pc[r])
      BY <1>1, <2>4, SeenDone
    <3>2. QED  BY <2>1, <3>1, RelayStays
  <2>5. QED  BY <1>1, <2>2, <2>3, <2>4 DEF TypeOK
<1>5. CASE UNCHANGED vars
  BY <1>5, RelayStays DEF vars
<1>6. QED  BY <1>2, <1>3, <1>4, <1>5 DEF Next, Step

(* Every stream is a relay of its provider's pieces, for any number of     *)
(* requests and answers of any length: nothing is lost, repeated or        *)
(* reordered on the way to the client, "[DONE]" means that all was written *)
(* and nothing else is kept (chat_stream.go, collector.go).                *)
THEOREM StreamsRelay == Spec => Relays
<1>1. Init => \A r \in Requests : Relay(r)!Init
  <2> SUFFICES ASSUME Init, NEW r \in Requests PROVE Relay(r)!Init
    OBVIOUS
  <2>1. /\ frames[r] = <<>> /\ pc[r] = "idle" /\ kept[r] = None
        /\ said[r] = 0 /\ stage[r] = "start"
    BY DEF Init
  <2>2. <<>> \in Seq(1..MaxPieces) /\ TextFrames(<<>>) = <<>>
    BY DEF TextFrames
  <2>3. Pieces(frames[r]) = <<>> /\ Closing(frames[r], pc[r]) = "open"
    <3>1. /\ Pieces(frames[r]) = <<>>
          /\ Closing(frames[r], pc[r]) = IF pc[r] = "over" THEN "left" ELSE "open"
      BY Zenon, <2>1, <2>2, ViewOpen
    <3>2. QED  BY <2>1, <3>1
  <2>4. QED  BY <2>1, <2>3 DEF Relay!Init
<1>2. RelayInv /\ RelayInv' /\ [Next]_vars
        => [\A r \in Requests : [Relay(r)!Next]_(Relay(r)!relayVars)]_vars
  BY RelayStep DEF RelayInv
<1>3. QED  BY <1>1, <1>2, PiecesInOrder, PTL DEF Spec, Relays
=============================================================================
