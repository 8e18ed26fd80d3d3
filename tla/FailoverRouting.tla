-------------------------- MODULE FailoverRouting --------------------------
(***************************************************************************)
(* What happens to one chat request between the gateway's configuration    *)
(* and the providers: the handler detects a provider for the model, and    *)
(* either streams from that provider alone or hands the model's chain to   *)
(* the executor.                                                           *)
(***************************************************************************)
EXTENDS FailoverExecutor, FailoverChains

CONSTANT Configs     \* records of FAILOVER_MODE and whether OLLAMA_BASE_URL is set

(* What a request may turn to: a cloud for a model of the tables, Ollama   *)
(* for the model of a tier or, by a stream, for the requested model.       *)
RoutedSteps ==
    [provider : Clouds, model : Models]
      \cup [provider : {"ollama"}, model : Models \cup {"flagship", "balanced", "budget"}]

ASSUME ConfigsAssumption == Configs \subseteq [mode : Modes, ollama : BOOLEAN]
ASSUME RoutedAssumption == RoutedSteps \subseteq Steps /\ NoOwner = None

VARIABLES
    config,     \* the gateway's configuration
    request     \* the model and kind of the request, NoRequest before it comes

routing == <<registered, steps, attempts, stage, result, config, request>>

NoRequest == [model |-> None, stream |-> FALSE]
Registry(c) == Clouds \cup (IF c.ollama THEN {"ollama"} ELSE {})

RoutingTypeOK ==
    /\ config \in Configs
    /\ registered = Registry(config)
    /\ steps \in Seq(Steps)
    /\ request \in [model : Models \cup {None}, stream : BOOLEAN]
    /\ stage \in {"idle", "trying", "streaming", "invalid_model"} \cup Ended

RoutingInit ==
    /\ Init
    /\ config \in Configs
    /\ registered = Registry(config)
    /\ request = NoRequest

-----------------------------------------------------------------------------
(* No provider for the model: 400.                                         *)
RejectModel(model, stream) ==
    /\ stage = "idle"
    /\ Detected(model, config.mode, config.ollama) = None
    /\ stage' = "invalid_model"
    /\ request' = [model |-> model, stream |-> stream]
    /\ UNCHANGED <<registered, steps, attempts, result, config>>

(* A blocking request: the executor gets the chain, not the provider that  *)
(* was detected.                                                           *)
RouteSync(model) ==
    /\ Detected(model, config.mode, config.ollama) # None
    /\ \E chain \in FailoverChainsFor(model, config.mode, config.ollama) :
          Execute(chain, DetectProviderForModel(model), model)
    /\ request' = [model |-> model, stream |-> FALSE]
    /\ UNCHANGED config

(* A variant of RouteStream that does not check that a provider was found. *)
RouteStreamAnyway(model) ==
    LET p == Detected(model, config.mode, config.ollama)
    IN  /\ stage = "idle"
        /\ stage' = "streaming"
        /\ steps' = <<Step(p, model)>>
        /\ request' = [model |-> model, stream |-> TRUE]
        /\ UNCHANGED <<registered, attempts, result, config>>

(* A stream is opened at the detected provider, for the requested model.   *)
RouteStream(model) ==
    LET p == Detected(model, config.mode, config.ollama)
    IN  /\ stage = "idle"
        /\ p # None
        /\ stage' = "streaming"
        /\ steps' = <<Step(p, model)>>
        /\ request' = [model |-> model, stream |-> TRUE]
        /\ UNCHANGED <<registered, attempts, result, config>>

(* The stream ends, or breaks, before or after its first chunk.            *)
StreamEnds ==
    /\ stage = "streaming"
    /\ \/ Record("answered", NoError) /\ stage' = "answered"
       \/ \E e \in Errors : Record("failed", e) /\ stage' = "stopped"
    /\ UNCHANGED <<registered, steps, result, config, request>>

(* The executor deals with one step of a blocking request.                 *)
Attempt == TryStep /\ UNCHANGED <<config, request>>

RoutingNext ==
    \/ \E model \in Models :
          \/ \E stream \in BOOLEAN : RejectModel(model, stream)
          \/ RouteSync(model)
          \/ RouteStream(model)
    \/ StreamEnds
    \/ Attempt

RoutingSpec == RoutingInit /\ [][RoutingNext]_routing

(* Every attempt of the executor has a deadline.  A stream has none: the   *)
(* handler lifts the server's, OpenAI's client sets none, and a client of  *)
(* the gateway that stops reading holds up the writes to it for ever.      *)
RoutingFairSpec == RoutingSpec /\ WF_routing(Attempt)

-----------------------------------------------------------------------------
Contacted == {attempts[i].step.provider : i \in {j \in 1..Len(attempts) : attempts[j].how # "skipped"}}
Sync == request.model # None /\ ~request.stream

(* The operating modes' promise: local_only contacts no cloud, whatever    *)
(* model is named, streaming or not.  Blocking requests follow the others  *)
(* too: cloud_only never turns to Ollama, local_first turns to it first,   *)
(* and cloud_first turns to it only when the chain of a model it has one   *)
(* for is used up.                                                         *)
ModeOrdersProviders ==
    /\ config.mode = "local_only" => Contacted \subseteq {"ollama"}
    /\ Sync =>
        /\ config.mode = "cloud_only" => "ollama" \notin Contacted
        /\ config.mode = "local_first" /\ config.ollama /\ attempts # <<>> =>
              attempts[1].step.provider = "ollama"
        /\ config.mode = "cloud_first" /\ "ollama" \in Contacted =>
              \/ Clouds \subseteq Contacted
              \/ CloudChains(request.model) = {<<>>}

(* A blocking request with a cloud chain is given up only after all three  *)
(* clouds had their turn, unless local_first spent a turn on Ollama or an  *)
(* error told it to stop.                                                  *)
CloudsExhausted ==
    /\ stage = "exhausted"
    /\ request.model \in ChainKeys
    /\ config.mode \in {"cloud_first", "cloud_only"}
    => Clouds \subseteq Contacted

(* A request is admitted for the cloud whose ValidateModel claims the      *)
(* model, and no other cloud sees it before that one, also when its chain  *)
(* was found by prefix among several.  Only a request that was admitted    *)
(* for Ollama under cloud_only has no chain and can reach a cloud all the  *)
(* same: the one that the executor reads off the name in lower case.       *)
OwnerGoesFirst ==
    /\ Sync
    /\ Contacted \cap Clouds # {}
    => LET first == CHOOSE i \in 1..Len(attempts) :
                       /\ attempts[i].step.provider \in Clouds
                       /\ \A j \in 1..(i - 1) : attempts[j].step.provider \notin Clouds
           admitted == Detected(request.model, config.mode, config.ollama)
       IN  IF admitted \in Clouds
           THEN attempts[first].step.provider = admitted
           ELSE /\ config.mode = "cloud_only" /\ Len(steps) = 1
                /\ attempts[first].step.provider = DetectProviderForModel(request.model)

(* Every blocking request gets an answer or an error.                      *)
EveryRequestReturns ==
    request.model # None ~> stage \in Ended \cup {"invalid_model"} \/ request.stream
=============================================================================
