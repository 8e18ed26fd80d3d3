------------------------------ MODULE Streams ------------------------------
(***************************************************************************)
(* Streamed chat completions that ask the same question of the same        *)
(* model: the handler's loop (chat_stream.go), the collector, the frames   *)
(* it writes, and the goroutine that adjusts the spend and caches the      *)
(* answer after "[DONE]".  The rate limit, the spend check and the lookup  *)
(* of other questions are modelled in TokenBucket, SpendLedger and         *)
(* ResponseCaches; here a request starts with its estimate reserved.       *)
(***************************************************************************)
EXTENDS StreamReaders, FiniteSets, Sequences

CONSTANTS Requests,       \* requests for one question, of one model
          PromptBytes,    \* bytes of the prompt
          PieceBytes,     \* bytes of one piece of text
          ClientTimeout   \* per provider, the http.Client's Timeout; 0: none

ASSUME StreamsAssumption ==
  /\ PromptBytes \in Nat /\ PieceBytes \in Nat
  /\ ClientTimeout \in [Providers -> Nat]

VARIABLES pc,        \* where the request is
          provider,  \* the provider of the model they name
          stage,     \* its upstream: see StreamReaders; "failed": broken
          said,      \* pieces the provider has said
          reported,  \* the counts told rest on: the provider's last, or None
          age,       \* time since the upstream call was made
          chunk,     \* received and not yet written
          coll,      \* the StreamCollector
          frames,    \* what was written to the client
          told,      \* the counts of the metadata frame
          billed,    \* the counts whose cost replaced the estimate
          kept,      \* the answer it stored
          cache,     \* the request whose answer is stored
          client     \* it "reads", has "stalled" under a write, or is "gone"

vars == <<pc, provider, stage, said, reported, age, chunk, coll, frames, told,
          billed, kept, cache, client>>

TextFrame(k) == <<"text", k>>
MetaFrame == <<"meta", 0>>
DoneFrame == <<"done", 0>>
ErrorFrame == <<"error", 0>>
Frames == {TextFrame(k) : k \in 1..MaxPieces} \cup {MetaFrame, DoneFrame, ErrorFrame}

Stages == {"start", "text", "stop", "over", "cut", "failed"}
Finishes == {"", "stop", "length", "content_filter", "tool_use"}
CountsType == [prompt : Nat, completion : Nat, total : Nat]
ChunkType == [text : 0..MaxPieces, finish : Finishes, usage : CountsType \cup {None}]
CollectorType ==
  [text : Seq(1..MaxPieces), finish : Finishes, prompt : Nat, completion : Nat,
   total : Nat]
AnswerType == [text : Seq(1..MaxPieces), finish : Finishes, usage : CountsType]

ASSUME NoneAssumption == None \notin CountsType \cup ChunkType \cup AnswerType

(* An empty collector: the prompt's tokens are guessed from its bytes.     *)
NewStreamCollector ==
  [text |-> <<>>, finish |-> "", prompt |-> PromptBytes \div 4,
   completion |-> 0, total |-> 0]

Init ==
  /\ pc = [r \in Requests |-> "idle"]
  /\ provider \in Providers
  /\ stage = [r \in Requests |-> "start"]
  /\ said = [r \in Requests |-> 0]
  /\ reported = [r \in Requests |-> None]
  /\ age = [r \in Requests |-> 0]
  /\ chunk = [r \in Requests |-> None]
  /\ coll = [r \in Requests |-> NewStreamCollector]
  /\ frames = [r \in Requests |-> <<>>]
  /\ told = [r \in Requests |-> None]
  /\ billed = [r \in Requests |-> None]
  /\ kept = [r \in Requests |-> None]
  /\ cache = None
  /\ client = [r \in Requests |-> "reads"]

-----------------------------------------------------------------------------
(* A request arrives: a hit is answered from the cache and never streamed. *)
Arrive(r) ==
  /\ pc[r] = "idle"
  /\ pc' = [pc EXCEPT ![r] = IF cache # None THEN "over" ELSE "open"]
  /\ UNCHANGED <<provider, stage, said, reported, age, chunk, coll, frames,
                 told, billed, kept, cache, client>>

(* The provider answers the call with its stream ...                       *)
Open(r) ==
  /\ pc[r] = "open"
  /\ pc' = [pc EXCEPT ![r] = "recv"]
  /\ UNCHANGED <<provider, stage, said, reported, age, chunk, coll, frames, told,
                 billed, kept, cache, client>>

(* ... or the call fails: an error frame is all the client gets.           *)
OpenFails(r) ==
  /\ pc[r] = "open"
  /\ stage' = [stage EXCEPT ![r] = "failed"]
  /\ frames' = [frames EXCEPT ![r] = Append(@, ErrorFrame)]
  /\ pc' = [pc EXCEPT ![r] = "over"]
  /\ UNCHANGED <<provider, said, reported, age, chunk, coll, told, billed, kept,
                 cache, client>>

(* One upstream event is read; Recv goes on when it makes no chunk of it.  *)
Receive(r) ==
  /\ pc[r] = "recv" /\ client[r] # "stalled"
  /\ \E es \in Sends(provider, stage[r], said[r]) :
       LET e == es[1]
           c == Recv(provider, e)
       IN /\ stage' = [stage EXCEPT ![r] = es[2]]
          /\ said' = [said EXCEPT ![r] = IF e.text # 0 THEN e.text ELSE @]
          /\ reported' = [reported EXCEPT ![r] = IF e.usage # None THEN e.usage ELSE @]
          /\ chunk' = [chunk EXCEPT ![r] = c]
          /\ pc' = [pc EXCEPT ![r] = IF c = None THEN "recv" ELSE "chunk"]
  /\ UNCHANGED <<provider, age, coll, frames, told, billed, kept, cache, client>>

(* The transport breaks under the reader, or the payload does not parse.   *)
Break(r) ==
  /\ pc[r] \in {"recv", "chunk"} /\ stage[r] \notin {"over", "cut", "failed"}
  /\ stage' = [stage EXCEPT ![r] = "failed"]
  /\ UNCHANGED <<pc, provider, said, reported, age, chunk, coll, frames, told,
                 billed, kept, cache, client>>

-----------------------------------------------------------------------------
(* A variant of AddChunk that collects empty deltas too.                   *)
AddChunkAlways(sc, k) == [sc EXCEPT !.text = Append(@, k)]

AddChunk(sc, k) == IF k # 0 THEN [sc EXCEPT !.text = Append(@, k)] ELSE sc

SetFinishReason(sc, why) == IF why # "" THEN [sc EXCEPT !.finish = why] ELSE sc

(* A variant of AddUsage that adds each report to the counts so far.       *)
AddUsageSummed(sc, u) ==
  IF u = None THEN sc
  ELSE [sc EXCEPT !.prompt = u.prompt, !.completion = @ + u.completion,
                  !.total = @ + u.total]

(* The counts reported last replace all three counts.                      *)
AddUsage(sc, u) ==
  IF u = None THEN sc
  ELSE [sc EXCEPT !.prompt = u.prompt, !.completion = u.completion, !.total = u.total]

EstimateTokensIfNeeded(sc) ==
  LET guess == IF sc.completion = 0 THEN (Len(sc.text) * PieceBytes) \div 4
               ELSE sc.completion
  IN [sc EXCEPT !.completion = guess,
                !.total = IF sc.total = 0 THEN sc.prompt + guess ELSE @]

(* A variant of Collect that takes a chunk for text or for counts.         *)
CollectEither(sc, c) ==
  IF c.usage = None THEN SetFinishReason(AddChunk(sc, c.text), c.finish)
  ELSE AddUsage(SetFinishReason(sc, c.finish), c.usage)

Collect(sc, c) ==
  AddUsage(SetFinishReason(AddChunk(sc, c.text), c.finish), c.usage)

(* The chunk is written and collected.  A write after the client has left  *)
(* may still succeed; one to a client that has stalled does not return.    *)
Send(r) ==
  /\ pc[r] = "chunk" /\ client[r] # "stalled"
  /\ frames' = [frames EXCEPT ![r] =
                  IF chunk[r].text # 0 THEN Append(@, TextFrame(chunk[r].text)) ELSE @]
  /\ coll' = [coll EXCEPT ![r] = Collect(@, chunk[r])]
  /\ chunk' = [chunk EXCEPT ![r] = None]
  /\ pc' = [pc EXCEPT ![r] = "recv"]
  /\ UNCHANGED <<provider, stage, said, reported, age, told, billed, kept, cache, client>>

(* The request's context ends, as its client leaves or its handler returns: *)
(* so does the upstream call, and its timer runs no further.               *)
Close(r) ==
  /\ age' = [age EXCEPT ![r] = 0]
  /\ client' = [client EXCEPT ![r] = "gone"]

(* It returns without postStreamProcessing: what it collected is dropped.  *)
Abandon(r) ==
  /\ pc' = [pc EXCEPT ![r] = "over"]
  /\ coll' = [coll EXCEPT ![r] = NewStreamCollector]
  /\ reported' = [reported EXCEPT ![r] = None]
  /\ Close(r)

(* The write fails: the handler returns, and nothing of this stream is     *)
(* billed beyond its estimate, or kept.                                    *)
SendFails(r) ==
  /\ pc[r] = "chunk" /\ client[r] = "gone"
  /\ chunk' = [chunk EXCEPT ![r] = None]
  /\ Abandon(r)
  /\ UNCHANGED <<provider, stage, said, frames, told, billed, kept, cache>>

(* A variant of EndOfStream that tells the counts before it completes them. *)
EndOfStreamToldFirst(r) ==
  /\ pc[r] = "recv" /\ stage[r] \in {"over", "cut"} /\ client[r] # "stalled"
  /\ coll' = [coll EXCEPT ![r] = EstimateTokensIfNeeded(@)]
  /\ told' = [told EXCEPT ![r] =
                 Counts(coll[r].prompt, coll[r].completion, coll[r].total)]
  /\ frames' = [frames EXCEPT ![r] = @ \o <<MetaFrame, DoneFrame>>]
  /\ pc' = [pc EXCEPT ![r] = "post"]
  /\ Close(r)
  /\ UNCHANGED <<provider, stage, said, reported, chunk, billed, kept, cache>>

(* The body has ended: missing counts are guessed, then the metadata and   *)
(* "[DONE]" are written, whatever becomes of the writes.                   *)
EndOfStream(r) ==
  /\ pc[r] = "recv" /\ stage[r] \in {"over", "cut"} /\ client[r] # "stalled"
  /\ LET sc == EstimateTokensIfNeeded(coll[r])
     IN /\ coll' = [coll EXCEPT ![r] = sc]
        /\ told' = [told EXCEPT ![r] = Counts(sc.prompt, sc.completion, sc.total)]
  /\ frames' = [frames EXCEPT ![r] = @ \o <<MetaFrame, DoneFrame>>]
  /\ pc' = [pc EXCEPT ![r] = "post"]
  /\ Close(r)
  /\ UNCHANGED <<provider, stage, said, reported, chunk, billed, kept, cache>>

(* A variant of TimedOut: a timer that stops when the headers have come.   *)
TimedOutBeforeBody(r) == FALSE

(* The three ways Recv fails: the upstream broke, the request's context    *)
(* ended with its client, or the http.Client's timer ran out, which also   *)
(* covers reading the body.                                                *)
BrokenUpstream(r) == stage[r] = "failed"
ClientGone(r) == client[r] = "gone"
TimedOut(r) == ClientTimeout[provider] > 0 /\ age[r] = ClientTimeout[provider]

(* A variant of RecvFails whose handler goes on receiving.                 *)
RecvFailsGoesOn(r) ==
  /\ pc[r] = "recv" /\ client[r] # "stalled" /\ Len(frames[r]) < MaxPieces
  /\ BrokenUpstream(r) \/ ClientGone(r) \/ TimedOut(r)
  /\ frames' = [frames EXCEPT ![r] = Append(@, ErrorFrame)]
  /\ UNCHANGED <<pc, provider, stage, said, reported, age, chunk, coll, told,
                 billed, kept, cache, client>>

RecvFails(r) ==
  /\ pc[r] = "recv" /\ client[r] # "stalled"
  /\ BrokenUpstream(r) \/ ClientGone(r) \/ TimedOut(r)
  /\ frames' = [frames EXCEPT ![r] = Append(@, ErrorFrame)]
  /\ Abandon(r)
  /\ UNCHANGED <<provider, stage, said, chunk, told, billed, kept, cache>>

-----------------------------------------------------------------------------
(* postStreamProcessing: the estimate gives way to the cost of the counts, *)
(* unless Redis fails; then the answer is cached, unless that fails.       *)
Adjust(r) ==
  /\ pc[r] = "post"
  /\ billed' \in {billed, [billed EXCEPT ![r] =
                    [prompt |-> coll[r].prompt, completion |-> coll[r].completion]]}
  /\ pc' = [pc EXCEPT ![r] = "adjusted"]
  /\ UNCHANGED <<provider, stage, said, reported, age, chunk, coll, frames, told,
                 kept, cache, client>>

ToResponse(sc) ==
  [text |-> sc.text, finish |-> sc.finish,
   usage |-> Counts(sc.prompt, sc.completion, sc.total)]

Store(r) ==
  /\ pc[r] = "adjusted"
  /\ \/ /\ kept' = [kept EXCEPT ![r] = ToResponse(coll[r])]
        /\ cache' = r
     \/ UNCHANGED <<kept, cache>>
  /\ pc' = [pc EXCEPT ![r] = "over"]
  /\ coll' = [coll EXCEPT ![r] = NewStreamCollector]
  /\ UNCHANGED <<provider, stage, said, reported, age, chunk, frames, told,
                 billed, client>>

-----------------------------------------------------------------------------
(* A frame is due and the client, still connected, reads no more: the      *)
(* write, whose deadline was lifted, does not return until it leaves.      *)
FrameDue(r) ==
  \/ pc[r] = "chunk"
  \/ pc[r] = "recv" /\ (stage[r] \in {"over", "cut", "failed"} \/ TimedOut(r))

Stall(r) ==
  /\ client[r] = "reads" /\ FrameDue(r)
  /\ client' = [client EXCEPT ![r] = "stalled"]
  /\ UNCHANGED <<pc, provider, stage, said, reported, age, chunk, coll, frames, told,
                 billed, kept, cache>>

(* The client disconnects. *)
Leave(r) ==
  /\ client[r] # "gone" /\ pc[r] \in {"open", "recv", "chunk"}
  /\ Close(r)
  /\ UNCHANGED <<pc, provider, stage, said, reported, chunk, coll, frames, told,
                 billed, kept, cache>>

(* Time passes for one upstream call, while there is a timer to run.       *)
Tick(r) ==
  /\ pc[r] \in {"recv", "chunk"} /\ client[r] # "gone"
  /\ age[r] < ClientTimeout[provider]
  /\ age' = [age EXCEPT ![r] = @ + 1]
  /\ UNCHANGED <<pc, provider, stage, said, reported, chunk, coll, frames, told,
                 billed, kept, cache, client>>

(* The process dies: handlers and their goroutines end where they are.     *)
Crash ==
  /\ \E r \in Requests : pc[r] \notin {"idle", "over"}
  /\ pc' = [r \in Requests |-> IF pc[r] = "idle" THEN "idle" ELSE "over"]
  /\ chunk' = [r \in Requests |-> None]
  /\ coll' = [r \in Requests |-> NewStreamCollector]
  /\ age' = [r \in Requests |-> 0]
  /\ reported' = [r \in Requests |-> IF told[r] = None THEN None ELSE reported[r]]
  /\ client' = [r \in Requests |-> IF pc[r] = "idle" THEN client[r] ELSE "gone"]
  /\ UNCHANGED <<provider, stage, said, frames, told, billed, kept, cache>>

Handle(r) ==
  \/ Arrive(r) \/ Open(r) \/ OpenFails(r) \/ Send(r) \/ SendFails(r)
  \/ EndOfStream(r) \/ RecvFails(r) \/ Adjust(r) \/ Store(r)

Next ==
  \/ \E r \in Requests :
        Handle(r) \/ Receive(r) \/ Break(r) \/ Stall(r) \/ Leave(r) \/ Tick(r)
  \/ Crash

Spec == Init /\ [][Next]_vars

(* Time passes, and the handler's steps are taken, but for the writes to a *)
(* client that has stalled.  The provider owes nothing, the client may     *)
(* stay for ever, and what follows the handler's return has no deadline.   *)
Fairness == \A r \in Requests :
  /\ WF_vars(Tick(r))
  /\ WF_vars(Send(r) \/ SendFails(r) \/ EndOfStream(r) \/ RecvFails(r))

FairSpec == Spec /\ Fairness

-----------------------------------------------------------------------------
(* The values every variable takes.                                        *)
TypeOK ==
  /\ pc \in [Requests -> {"idle", "open", "recv", "chunk", "post", "adjusted", "over"}]
  /\ provider \in Providers
  /\ stage \in [Requests -> Stages]
  /\ said \in [Requests -> 0..MaxPieces]
  /\ reported \in [Requests -> CountsType \cup {None}]
  /\ age \in [Requests -> Nat]
  /\ chunk \in [Requests -> ChunkType \cup {None}]
  /\ coll \in [Requests -> CollectorType]
  /\ frames \in [Requests -> Seq(Frames)]
  /\ told \in [Requests -> CountsType \cup {None}]
  /\ billed \in [Requests -> [prompt : Nat, completion : Nat] \cup {None}]
  /\ kept \in [Requests -> AnswerType \cup {None}]
  /\ cache \in Requests \cup {None}
  /\ client \in [Requests -> {"reads", "stalled", "gone"}]

(* An answer served to later requests is the one a client was streamed:    *)
(* its text is what was written, up to a "[DONE]", and its counts are the  *)
(* ones the client was told.                                               *)
KeptWasRelayed ==
  /\ \A r \in Requests : kept[r] # None =>
       /\ frames[r] = [i \in 1..Len(kept[r].text) |-> TextFrame(kept[r].text[i])]
                      \o <<MetaFrame, DoneFrame>>
       /\ kept[r].usage = told[r]
  /\ cache # None => kept[cache] # None

(* A client is written at most one terminator and nothing after it, and    *)
(* the metadata frame comes right before every "[DONE]" and nowhere else.  *)
OneTerminator == \A r \in Requests : LET f == frames[r] IN
  \A i \in 1..Len(f) :
    /\ f[i] \in {DoneFrame, ErrorFrame} => i = Len(f)
    /\ f[i] = MetaFrame => i + 1 \in 1..Len(f) /\ f[i + 1] = DoneFrame
    /\ f[i] = DoneFrame => i > 1 /\ f[i - 1] = MetaFrame

(* The cost that replaces the estimate is that of the counts the client    *)
(* was told, though it is worked out again after the handler has returned. *)
BilledAsTold == \A r \in Requests : billed[r] # None =>
  told[r] # None /\ billed[r].prompt = told[r].prompt
                 /\ billed[r].completion = told[r].completion

(* A stream that reports its tokens as it goes is counted once: the counts *)
(* told are those of the last report.  The completion is guessed from the  *)
(* bytes written when that report had none, the prompt from its own when   *)
(* there was no report, and the total is the sum of the two unless the     *)
(* provider gave one (which a guess does not change).                      *)
CountedOnce == \A r \in Requests : told[r] # None =>
  LET last == IF reported[r] = None THEN Counts(PromptBytes \div 4, 0, 0) ELSE reported[r]
      pieces == Len(frames[r]) - 2
  IN /\ told[r].prompt = last.prompt
     /\ told[r].completion = IF last.completion > 0 THEN last.completion
                              ELSE (pieces * PieceBytes) \div 4
     /\ told[r].total = IF last.total > 0 THEN last.total
                         ELSE told[r].prompt + told[r].completion

-----------------------------------------------------------------------------
(* Each request as a relay of its provider's pieces. *)
Closing(f, at) ==
  IF \E i \in DOMAIN f : f[i] = DoneFrame THEN "done"
  ELSE IF \E i \in DOMAIN f : f[i] = ErrorFrame THEN "error"
  ELSE IF at = "over" THEN "left" ELSE "open"

Pieces(f) ==
  LET texts == {i \in DOMAIN f : f[i][1] = "text"}
      Nth(n) == CHOOSE i \in texts : Cardinality(texts \cap 1..i) = n
  IN [n \in 1..Cardinality(texts) |-> f[Nth(n)][2]]

Relay(r) == INSTANCE StreamRelay WITH
  Nothing <- None, said <- said[r], over <- stage[r] \in {"over", "cut", "failed"},
  written <- Pieces(frames[r]), closing <- Closing(frames[r], pc[r]),
  kept <- IF kept[r] = None THEN None ELSE kept[r].text

(* Every request's stream is a relay: no piece is lost, repeated or        *)
(* reordered between the provider and the client, "[DONE]" comes only when *)
(* every piece has been written, and only then is the text kept.           *)
Relays ==
  /\ \A r \in Requests : Relay(r)!Init
  /\ [][\A r \in Requests : [Relay(r)!Next]_(Relay(r)!relayVars)]_vars

(* The handler of a stream from a provider whose http.Client has a timer   *)
(* returns, however long the provider is silent, unless the client stops   *)
(* reading without leaving.                                                *)
TimedStreamsEnd == \A r \in Requests :
  (pc[r] = "recv" /\ ClientTimeout[provider] > 0)
    ~> pc[r] \in {"post", "adjusted", "over"} \/ client[r] = "stalled"
=============================================================================
