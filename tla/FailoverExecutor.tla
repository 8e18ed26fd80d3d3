-------------------------- MODULE FailoverExecutor --------------------------
(***************************************************************************)
(* Execute of the failover package: one request is offered to the steps of *)
(* a chain, in order, until a provider answers, an error is not worth      *)
(* another provider, or the steps run out.  The executor keeps no state    *)
(* between requests (the provider registry is filled before the server     *)
(* starts), so one request is enough.                                      *)
(*                                                                         *)
(* An error has a cause, which the executor does not see, and a text, from *)
(* which it guesses: the providers' clients write the status they received *)
(* into it, each in its own way, and append what the provider's body said, *)
(* which may be anything.                                                  *)
(***************************************************************************)
EXTENDS Integers, Sequences, FiniteSets

CONSTANTS
    Steps,           \* records with a provider and a model
    Providers,       \* every provider a step may name
    Registrations,   \* sets of providers a gateway may be started with
    Chains,          \* chains a caller may pass, <<>> for nil
    Owners,          \* what detectProviderForModel may say, NoOwner for ""
    NoOwner,
    MaxAttempts,     \* maxAttempts
    Errors           \* errors an attempt may end with: the cause and the body

ASSUME StepsAssumption ==
    /\ \A s \in Steps : s \in [provider : Providers, model : {s.model}]
    /\ Chains \subseteq Seq(Steps)
    /\ Registrations \subseteq SUBSET Providers
ASSUME LimitAssumption == MaxAttempts \in Nat \ {0}

(* An error: did the attempt's deadline pass; did the provider answer with *)
(* a status, did the connection fail, or was it something else (the client *)
(* left, an answer that does not parse); the kinds of words in the body    *)
(* and the numbers it names after "status ", 0 where no number follows.    *)
WordKinds == {"rate", "auth", "server", "connection", "invalid"}
ASSUME ErrorsAssumption ==
    \A e \in Errors :
        /\ e \in [deadline : BOOLEAN, cause : {"status", "connection", "other"},
                  status : 0..599, words : SUBSET WordKinds, mentions : Seq(Nat)]
        /\ e.cause = "status" => e.status >= 100
        /\ e.cause # "status" => e.mentions = <<>>

(* A chain names a provider once.                                          *)
ASSUME ChainsAssumption ==
    \A chain \in Chains : \A i, j \in 1..Len(chain) :
        chain[i].provider = chain[j].provider => i = j

VARIABLES
    registered,   \* e.providers
    steps,        \* the steps the loop goes through
    attempts,     \* result.Attempts
    stage,        \* where Execute is, or how it returned
    result        \* what FailoverResult says of the attempts

vars == <<registered, steps, attempts, stage, result>>

NoStep == [provider |-> "", model |-> ""]
NoError == [deadline |-> FALSE, cause |-> "none", status |-> 200, words |-> {}, mentions |-> <<>>]
NoResult == [original |-> "", final |-> NoStep, failedOver |-> FALSE, count |-> 0]

Attempts == [step : Steps, how : {"skipped", "failed", "answered"}, error : Errors \cup {NoError}]
Ended == {"answered", "stopped", "exhausted", "no_provider"}

TypeOK ==
    /\ registered \in Registrations
    /\ steps \in Seq(Steps)
    /\ attempts \in Seq(Attempts)
    /\ stage \in {"idle", "trying"} \cup Ended
    /\ result.count \in Nat
    /\ result.failedOver \in BOOLEAN

Init ==
    /\ registered \in Registrations
    /\ steps = <<>>
    /\ attempts = <<>>
    /\ stage = "idle"
    /\ result = NoResult

-----------------------------------------------------------------------------
(* The words of an error's text: its body's, and those that are numbers    *)
(* when the client wrote the status into the text.                         *)
Words(e) ==
    e.words \cup
        CASE e.cause = "status" /\ e.status = 429 -> {"rate"}
          [] e.cause = "status" /\ e.status \in {401, 403} -> {"auth"}
          [] e.cause = "status" /\ e.status \in {500, 502, 503, 504} -> {"server"}
          [] OTHER -> {}

(* What follows each "status " of the text: "(status N)" of the clients    *)
(* written here, "status code: N" of the OpenAI library, which Ollama's    *)
(* client uses too, and then whatever the body quotes.                     *)
Mentioned(p, e) ==
    IF e.cause # "status" THEN <<>>
    ELSE <<IF p \in {"openai", "ollama"} THEN 0 ELSE e.status>> \o e.mentions

Patterns == {429, 500, 502, 503, 504, 400, 401, 403, 404}

(* A variant of extractStatusCode that reads the number after the last     *)
(* "status ".                                                              *)
extractStatusCodeLast(codes) ==
    IF /\ \E i \in 1..Len(codes) : codes[i] \in Patterns
       /\ codes[Len(codes)] \in 100..599
    THEN codes[Len(codes)]
    ELSE 0

(* Any of nine codes anywhere in the text makes it read the first number.  *)
extractStatusCode(codes) ==
    IF /\ \E i \in 1..Len(codes) : codes[i] \in Patterns
       /\ codes[1] \in 100..599
    THEN codes[1]
    ELSE 0

(* classifyError and isRetriableError: words decide first, the code only   *)
(* when none of them is there.                                             *)
IsRetriable(p, e) ==
    LET code == extractStatusCode(Mentioned(p, e))
    IN  \/ e.deadline
        \/ Words(e) \cap {"rate", "auth", "server", "connection"} # {}
        \/ code \in {0, 401, 403, 404, 429} \cup 500..599
        \/ code = 400 /\ "invalid" \in e.words

(* A variant of Truncated that keeps one step too few.                     *)
TruncatedShort(chain) ==
    IF Len(chain) >= MaxAttempts THEN SubSeq(chain, 1, MaxAttempts - 1) ELSE chain

Truncated(chain) == IF Len(chain) > MaxAttempts THEN SubSeq(chain, 1, MaxAttempts) ELSE chain

(* The chain, or without one a step for the provider that owns the model.  *)
StepsFor(chain, owner, model) ==
    Truncated(IF chain = <<>> THEN <<[provider |-> owner, model |-> model]>> ELSE chain)

(* A variant of Execute that does not check that a provider was found.     *)
ExecuteAnyOwner(chain, owner, model) ==
    /\ stage = "idle"
    /\ stage' = "trying"
    /\ steps' = StepsFor(chain, owner, model)
    /\ UNCHANGED <<registered, attempts, result>>

(* Execute is called.                                                      *)
Execute(chain, owner, model) ==
    /\ stage = "idle"
    /\ IF chain = <<>> /\ owner = NoOwner
       THEN stage' = "no_provider" /\ UNCHANGED steps
       ELSE stage' = "trying" /\ steps' = StepsFor(chain, owner, model)
    /\ UNCHANGED <<registered, attempts, result>>

-----------------------------------------------------------------------------
(* A variant of Current that does not count skipped steps.                 *)
CurrentByCount == steps[result.count + 1]

Current == steps[Len(attempts) + 1]

(* What the result says once step has been dealt with.                     *)
ResultAfter(step, count, failedOver) ==
    [original |-> IF attempts = <<>> THEN step.provider ELSE result.original,
     final |-> step,
     failedOver |-> failedOver,
     count |-> result.count + count]

Record(how, error) ==
    attempts' = Append(attempts, [step |-> Current, how |-> how, error |-> error])

(* A variant of AfterFailure that leaves the loop at the first failure.    *)
AfterFailureGivesUp == stage' = "exhausted"

(* The loop goes on to the next step, or is over.                          *)
AfterFailure ==
    stage' = IF Len(attempts) + 1 = Len(steps) THEN "exhausted" ELSE "trying"

SkipStep ==
    /\ stage = "trying"
    /\ Current.provider \notin registered
    /\ Record("skipped", NoError)
    /\ result' = ResultAfter(Current, 0, FALSE)
    /\ AfterFailure
    /\ UNCHANGED <<registered, steps>>

(* A variant of StepAnswers that takes the number of attempts for the      *)
(* position in the chain.                                                  *)
StepAnswersByCount ==
    /\ stage = "trying"
    /\ Current.provider \in registered
    /\ Record("answered", NoError)
    /\ result' = ResultAfter(Current, 1, result.count > 0)
    /\ stage' = "answered"
    /\ UNCHANGED <<registered, steps>>

StepAnswers ==
    /\ stage = "trying"
    /\ Current.provider \in registered
    /\ Record("answered", NoError)
    /\ result' = ResultAfter(Current, 1, attempts # <<>>)
    /\ stage' = "answered"
    /\ UNCHANGED <<registered, steps>>

(* A variant of StepFails that goes through the steps again when they ran  *)
(* out.                                                                    *)
StepFailsStartsOver(e) ==
    /\ stage = "trying"
    /\ Current.provider \in registered
    /\ IF Len(attempts) + 1 = Len(steps) /\ IsRetriable(Current.provider, e)
       THEN attempts' = <<>> /\ result' = NoResult /\ UNCHANGED stage
       ELSE /\ Record("failed", e)
            /\ result' = ResultAfter(Current, 1, FALSE)
            /\ stage' = IF IsRetriable(Current.provider, e) THEN "trying" ELSE "stopped"
    /\ UNCHANGED <<registered, steps>>

(* The provider fails, or times out, or the client has left: its cancelled *)
(* context is an error without words and code, which is retriable.         *)
StepFails(e) ==
    /\ stage = "trying"
    /\ Current.provider \in registered
    /\ Record("failed", e)
    /\ result' = ResultAfter(Current, 1, FALSE)
    /\ IF IsRetriable(Current.provider, e) THEN AfterFailure ELSE stage' = "stopped"
    /\ UNCHANGED <<registered, steps>>

TryStep == SkipStep \/ StepAnswers \/ \E e \in Errors : StepFails(e)

Next ==
    \/ \E chain \in Chains, owner \in Owners, s \in Steps :
          /\ owner \in {s.provider, NoOwner}
          /\ Execute(chain, owner, s.model)
    \/ TryStep

Spec == Init /\ [][Next]_vars

-----------------------------------------------------------------------------
(* A request is not offered twice to the same provider, so one whose       *)
(* answer was lost cannot be charged for twice by it.                      *)
NoProviderTwice ==
    \A i, j \in 1..Len(attempts) :
        attempts[i].step.provider = attempts[j].step.provider => i = j

(* The documented triggers are what really happened: a timeout, a failed   *)
(* connection, an answer of 429, 5xx, 401, 403 or 404.  None of them ends  *)
(* a request while steps are left, in whichever words the provider puts it *)
(* and whatever other codes its body quotes: what ends a request early is  *)
(* an answer with another status.                                          *)
IsTrigger(e) ==
    \/ e.deadline
    \/ e.cause = "connection"
    \/ e.cause = "status" /\ e.status \in {401, 403, 404, 429} \cup 500..599
TriggersHonoured ==
    stage = "stopped" =>
        LET e == attempts[Len(attempts)].error IN e.cause = "status" /\ ~IsTrigger(e)

(* When Execute gives up, every step whose provider is configured was      *)
(* offered the request and failed, and only the others were skipped.       *)
GivesUpLast ==
    stage = "exhausted" =>
        /\ Len(attempts) = Len(steps)
        /\ \A i \in 1..Len(attempts) :
              attempts[i].how = IF steps[i].provider \in registered THEN "failed" ELSE "skipped"

(* What is billed, cached and logged is told from the result alone: it     *)
(* names the step that was really first and the one that was really last,  *)
(* and a failover exactly when an answer did not come from the first step. *)
ResultTellsAttempts ==
    attempts # <<>> =>
        LET last == attempts[Len(attempts)]
        IN  /\ result.original = attempts[1].step.provider
            /\ result.final = last.step
            /\ result.failedOver <=> last.how = "answered" /\ Len(attempts) > 1
            /\ result.count = Cardinality({i \in 1..Len(attempts) : attempts[i].how # "skipped"})
=============================================================================
