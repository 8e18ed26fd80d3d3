--------------------------- MODULE FailoverProofs ---------------------------
(***************************************************************************)
(* Proofs about FailoverExecutor for every chain that names a provider     *)
(* once, every registry, every limit and every set of errors, and about    *)
(* FailoverRouting for the chains of the tables, every limit and every set *)
(* of errors.                                                              *)
(***************************************************************************)
EXTENDS FailoverRouting, FiniteSetTheorems, SequenceTheorems, TLAPS

Offered(sq) == {i \in 1..Len(sq) : sq[i].how # "skipped"}

(* What the loop knows at every moment: the steps are those of a chain, cut *)
(* at the limit; the attempts are the steps so far, skipped exactly when    *)
(* their provider is not registered; the result tells the attempts.         *)
LoopInv ==
    /\ TypeOK
    /\ \A i, j \in 1..Len(steps) : steps[i].provider = steps[j].provider => i = j
    /\ Len(attempts) <= Len(steps)
    /\ \A i \in 1..Len(attempts) :
          /\ attempts[i].step = steps[i]
          /\ attempts[i].how = "skipped" <=> steps[i].provider \notin registered
          /\ i < Len(attempts) \/ stage \in {"trying", "exhausted"} =>
                attempts[i].how # "answered"
    /\ stage = "idle" => attempts = <<>>
    /\ stage = "trying" => Len(attempts) < Len(steps)
    /\ stage = "exhausted" => Len(attempts) = Len(steps)
    /\ stage = "stopped" =>
          /\ attempts # <<>>
          /\ LET last == attempts[Len(attempts)]
             IN  last.error \in Errors /\ ~IsRetriable(last.step.provider, last.error)
    /\ result.count = Cardinality(Offered(attempts))
    /\ ResultTellsAttempts

(* Truncation keeps a chain's steps in place and keeps some of them.       *)
LEMMA TruncatedSteps ==
    ASSUME NEW chain \in Seq(Steps)
    PROVE  /\ Truncated(chain) \in Seq(Steps)
           /\ Len(Truncated(chain)) <= Len(chain)
           /\ chain # <<>> => Len(Truncated(chain)) > 0
           /\ \A i \in 1..Len(Truncated(chain)) : Truncated(chain)[i] = chain[i]
<1>1. CASE Len(chain) > MaxAttempts
  <2>1. \A i \in 1..MaxAttempts : chain[i] \in Steps
    BY <1>1, LimitAssumption
  <2>2. /\ SubSeq(chain, 1, MaxAttempts) \in Seq(Steps)
        /\ Len(SubSeq(chain, 1, MaxAttempts)) = MaxAttempts
        /\ \A i \in 1..MaxAttempts : SubSeq(chain, 1, MaxAttempts)[i] = chain[i]
    BY <2>1, LimitAssumption, SubSeqProperties
  <2>3. QED  BY <1>1, <2>2, LimitAssumption DEF Truncated
<1>2. CASE ~(Len(chain) > MaxAttempts)
  <2>1. Truncated(chain) = chain
    BY <1>2 DEF Truncated
  <2>2. chain # <<>> => Len(chain) > 0
    BY EmptySeq, LenProperties
  <2>3. QED  BY <2>1, <2>2, LenProperties
<1>3. QED  BY <1>1, <1>2

(* Whichever chain or owner Execute is given, it loops over at least one   *)
(* step, and over no provider twice.                                       *)
LEMMA ExecuteSteps ==
    ASSUME NEW chain \in Chains, NEW owner, NEW s \in Steps,
           owner \in {s.provider, NoOwner}, ~(chain = <<>> /\ owner = NoOwner)
    PROVE  LET new == StepsFor(chain, owner, s.model)
           IN  /\ new \in Seq(Steps)
               /\ Len(new) > 0
               /\ \A i, j \in 1..Len(new) : new[i].provider = new[j].provider => i = j
<1> DEFINE one == <<[provider |-> owner, model |-> s.model]>>
<1>1. CASE chain = <<>>
  <2>1. [provider |-> owner, model |-> s.model] = s
    BY <1>1, StepsAssumption
  <2>2. one \in Seq(Steps) /\ Len(one) = 1
    BY <2>1
  <2>3. Truncated(one) = one
    BY <2>2, LimitAssumption DEF Truncated
  <2>4. StepsFor(chain, owner, s.model) = one
    BY <1>1, <2>3 DEF StepsFor
  <2>5. \A i, j \in 1..Len(one) : i = j
    BY <2>2
  <2>6. QED  BY <2>2, <2>4, <2>5
<1>2. CASE chain # <<>>
  <2>1. chain \in Seq(Steps)
    BY StepsAssumption
  <2>2. StepsFor(chain, owner, s.model) = Truncated(chain)
    BY <1>2 DEF StepsFor
  <2>3. QED  BY <1>2, <2>1, <2>2, TruncatedSteps, ChainsAssumption, LenProperties
<1>3. QED  BY <1>1, <1>2

(* One more attempt adds itself to the providers that were offered the     *)
(* request, unless it was skipped.                                         *)
LEMMA OfferedGrows ==
    ASSUME NEW sq \in Seq(Attempts), NEW a \in Attempts
    PROVE  Cardinality(Offered(Append(sq, a)))
              = Cardinality(Offered(sq)) + IF a.how = "skipped" THEN 0 ELSE 1
<1> DEFINE n == Len(sq)
           more == Append(sq, a)
<1>1. n \in Nat /\ Len(more) = n + 1
  OBVIOUS
<1>2. more[n + 1] = a
  OBVIOUS
<1>3. \A i \in 1..n : more[i] = sq[i]
  OBVIOUS
<1>4. IsFiniteSet(Offered(sq)) /\ Cardinality(Offered(sq)) \in Nat /\ n + 1 \notin Offered(sq)
  <2>1. IsFiniteSet(1..n)
    BY <1>1, FS_Interval
  <2>2. Offered(sq) \in SUBSET (1..n)
    BY DEF Offered
  <2>3. IsFiniteSet(Offered(sq))
    BY <2>1, <2>2, FS_Subset
  <2>4. QED  BY <1>1, <2>2, <2>3, FS_CardinalityType
<1>5. 1..(n + 1) = (1..n) \cup {n + 1}
  BY <1>1
<1>6. CASE a.how = "skipped"
  <2>1. Offered(more) = Offered(sq)
    BY <1>1, <1>2, <1>3, <1>5, <1>6 DEF Offered
  <2>2. QED  BY <1>4, <1>6, <2>1
<1>7. CASE a.how # "skipped"
  <2>1. Offered(more) = Offered(sq) \cup {n + 1}
    BY <1>1, <1>2, <1>3, <1>5, <1>7 DEF Offered
  <2>2. Cardinality(Offered(sq) \cup {n + 1}) = Cardinality(Offered(sq)) + 1
    BY <1>4, FS_AddElement
  <2>3. QED  BY <1>7, <2>1, <2>2
<1>8. QED  BY <1>6, <1>7

(* What the three outcomes of an attempt have in common keeps the          *)
(* invariant: the step at hand is appended and the result follows.         *)
LEMMA AttemptKeepsInv ==
    ASSUME LoopInv,
           NEW how \in {"skipped", "failed", "answered"}, NEW e \in Errors \cup {NoError},
           stage = "trying",
           how = "skipped" <=> Current.provider \notin registered,
           Record(how, e),
           result' = ResultAfter(Current, IF how = "skipped" THEN 0 ELSE 1,
                                 how = "answered" /\ attempts # <<>>),
           UNCHANGED <<registered, steps>>,
           \/ stage' = "answered"
           \/ how # "answered" /\ AfterFailure
           \/ stage' = "stopped" /\ e \in Errors /\ ~IsRetriable(Current.provider, e)
    PROVE  LoopInv'
<1> DEFINE n == Len(attempts)
           a == [step |-> Current, how |-> how, error |-> e]
<1>1. n \in Nat /\ n < Len(steps) /\ Len(steps) \in Nat /\ n + 1 \in 1..Len(steps)
  BY DEF LoopInv, TypeOK
<1>2. Current = steps[n + 1] /\ Current \in Steps
  BY <1>1 DEF Current, LoopInv, TypeOK
<1>3. a \in Attempts /\ a.step = Current /\ a.how = how /\ a.error = e
  BY <1>2 DEF Attempts
<1>4. /\ attempts' \in Seq(Attempts)
      /\ attempts' = Append(attempts, a)
      /\ attempts' # <<>>
      /\ Len(attempts') = n + 1
      /\ attempts'[n + 1] = a
      /\ \A i \in 1..n : attempts'[i] = attempts[i]
  BY <1>3, AppendProperties DEF Record, LoopInv, TypeOK
<1>5. stage' \in {"trying", "answered", "stopped", "exhausted"}
  BY DEF AfterFailure
<1>6. /\ result'.original = IF attempts = <<>> THEN Current.provider ELSE result.original
      /\ result'.final = Current
      /\ result'.failedOver = (how = "answered" /\ attempts # <<>>)
      /\ result'.count = result.count + IF how = "skipped" THEN 0 ELSE 1
  BY DEF ResultAfter
<1>7. TypeOK'
  <2>1. result.count \in Nat
    BY DEF LoopInv, TypeOK
  <2>2. result'.count \in Nat
    BY <2>1, <1>6
  <2>3. (how = "answered" /\ attempts # <<>>) \in BOOLEAN
    OBVIOUS
  <2>4. result'.failedOver \in BOOLEAN
    BY <2>3, <1>6, Zenon
  <2>5. QED  BY <1>4, <1>5, <2>2, <2>4 DEF LoopInv, TypeOK, Ended
<1>8. \A i \in 1..Len(attempts') :
         /\ attempts'[i].step = steps'[i]
         /\ attempts'[i].how = "skipped" <=> steps'[i].provider \notin registered'
         /\ i < Len(attempts') \/ stage' \in {"trying", "exhausted"} =>
               attempts'[i].how # "answered"
  <2>1. \A i \in 1..n :
           /\ attempts[i].step = steps[i]
           /\ attempts[i].how = "skipped" <=> steps[i].provider \notin registered
           /\ attempts[i].how # "answered"
    BY DEF LoopInv
  <2>2. stage' \in {"trying", "exhausted"} => how # "answered"
    BY DEF AfterFailure
  <2>3. QED  BY <1>1, <1>2, <1>3, <1>4, <2>1, <2>2
<1>9. /\ stage' = "trying" => Len(attempts') < Len(steps')
      /\ stage' = "exhausted" => Len(attempts') = Len(steps')
  BY <1>1, <1>4 DEF AfterFailure
<1>10. stage' = "stopped" =>
          LET last == attempts'[Len(attempts')]
          IN  last.error \in Errors /\ ~IsRetriable(last.step.provider, last.error)
  BY <1>3, <1>4 DEF AfterFailure
<1>11. result'.count = Cardinality(Offered(attempts'))
  BY <1>3, <1>4, <1>6, OfferedGrows DEF LoopInv, TypeOK
<1>12. attempts'[1].step.provider = result'.original
  <2>1. CASE attempts = <<>>
    BY <2>1, <1>3, <1>4, <1>6
  <2>2. CASE attempts # <<>>
    <3>1. n > 0
      BY <2>2, EmptySeq DEF LoopInv, TypeOK
    <3>2. attempts'[1] = attempts[1]
      BY <1>1, <1>4, <3>1
    <3>3. result.original = attempts[1].step.provider
      BY <2>2 DEF LoopInv, ResultTellsAttempts
    <3>4. QED  BY <2>2, <3>2, <3>3, <1>6
  <2>3. QED  BY <2>1, <2>2
<1>13. ResultTellsAttempts'
  <2>1. attempts # <<>> <=> Len(attempts') > 1
    BY <1>1, <1>4, EmptySeq DEF LoopInv, TypeOK
  <2>2. result'.failedOver <=> (attempts'[Len(attempts')].how = "answered" /\ Len(attempts') > 1)
    BY <1>3, <1>4, <1>6, <2>1
  <2>3. result'.final = attempts'[Len(attempts')].step
    BY <1>3, <1>4, <1>6
  <2>4. QED  BY <1>11, <1>12, <2>2, <2>3 DEF ResultTellsAttempts, Offered
<1>14. QED
  BY <1>1, <1>4, <1>5, <1>7, <1>8, <1>9, <1>10, <1>11, <1>13 DEF LoopInv

(* The invariant holds before Execute is called.                           *)
LEMMA InitInv == Init => LoopInv
<1> SUFFICES ASSUME Init PROVE LoopInv
  OBVIOUS
<1>1. Len(<<>>) = 0 /\ <<>> \in Seq(Steps) /\ <<>> \in Seq(Attempts)
  BY EmptySeq
<1>2. Offered(<<>>) = {}
  BY <1>1 DEF Offered
<1>3. TypeOK
  BY <1>1 DEF Init, TypeOK, NoResult
<1>4. result.count = Cardinality(Offered(attempts))
  BY <1>2, FS_EmptySet DEF Init, NoResult
<1>5. QED
  BY <1>1, <1>3, <1>4 DEF Init, LoopInv, ResultTellsAttempts

(* Every action keeps the invariant.                                       *)
LEMMA StepInv == LoopInv /\ [Next]_vars => LoopInv'
<1> SUFFICES ASSUME LoopInv, [Next]_vars PROVE LoopInv'
  OBVIOUS
<1>1. ASSUME NEW chain \in Chains, NEW owner \in Owners, NEW s \in Steps,
             owner \in {s.provider, NoOwner}, Execute(chain, owner, s.model)
      PROVE  LoopInv'
  <2>1. attempts = <<>> /\ attempts' = <<>> /\ Len(attempts') = 0
    BY <1>1 DEF Execute, LoopInv
  <2>2. CASE chain = <<>> /\ owner = NoOwner
    BY <1>1, <2>1, <2>2 DEF Execute, LoopInv, TypeOK, Ended, ResultTellsAttempts, Offered
  <2>3. CASE ~(chain = <<>> /\ owner = NoOwner)
    <3>1. stage' = "trying" /\ steps' = StepsFor(chain, owner, s.model)
      BY <1>1, <2>3 DEF Execute
    <3>2. /\ steps' \in Seq(Steps)
          /\ Len(steps') > 0
          /\ \A i, j \in 1..Len(steps') : steps'[i].provider = steps'[j].provider => i = j
      BY <1>1, <2>3, <3>1, ExecuteSteps
    <3>3. TypeOK'
      BY <1>1, <3>1, <3>2 DEF Execute, LoopInv, TypeOK
    <3>4. QED
      BY <1>1, <2>1, <3>1, <3>2, <3>3 DEF Execute, LoopInv, ResultTellsAttempts, Offered
  <2>4. QED  BY <2>2, <2>3
<1>2. ASSUME SkipStep PROVE LoopInv'
  <2>1. result' = ResultAfter(Current, IF "skipped" = "skipped" THEN 0 ELSE 1,
                              "skipped" = "answered" /\ attempts # <<>>)
    BY <1>2 DEF SkipStep
  <2>2. QED  BY <1>2, <2>1, AttemptKeepsInv DEF SkipStep
<1>3. ASSUME StepAnswers PROVE LoopInv'
  <2>1. result' = ResultAfter(Current, IF "answered" = "skipped" THEN 0 ELSE 1,
                              "answered" = "answered" /\ attempts # <<>>)
    BY <1>3 DEF StepAnswers
  <2>2. QED  BY <1>3, <2>1, AttemptKeepsInv DEF StepAnswers
<1>4. ASSUME NEW e \in Errors, StepFails(e) PROVE LoopInv'
  <2>1. result' = ResultAfter(Current, IF "failed" = "skipped" THEN 0 ELSE 1,
                              "failed" = "answered" /\ attempts # <<>>)
    BY <1>4 DEF StepFails
  <2>2. QED  BY <1>4, <2>1, AttemptKeepsInv DEF StepFails
<1>5. CASE UNCHANGED vars
  BY <1>5 DEF vars, LoopInv, TypeOK, ResultTellsAttempts
<1>6. QED  BY <1>1, <1>2, <1>3, <1>4, <1>5 DEF Next, TryStep

(* LoopInv is what Execute maintains.                                      *)
THEOREM LoopInvariant == Spec => []LoopInv
BY InitInv, StepInv, PTL DEF Spec

(* Every variable of the executor keeps its type.                          *)
THEOREM ExecutorTypes == Spec => []TypeOK
<1>1. LoopInv => TypeOK
  BY DEF LoopInv
<1>2. QED  BY <1>1, LoopInvariant, PTL

(* No provider is offered the same request twice.                          *)
THEOREM OfferedOnce == Spec => []NoProviderTwice
<1>1. LoopInv => NoProviderTwice
  <2> SUFFICES ASSUME LoopInv, NEW i \in 1..Len(attempts), NEW j \in 1..Len(attempts),
                      attempts[i].step.provider = attempts[j].step.provider
               PROVE  i = j
    BY DEF NoProviderTwice
  <2>1. i \in 1..Len(steps) /\ j \in 1..Len(steps)
    BY DEF LoopInv, TypeOK
  <2>2. QED  BY <2>1 DEF LoopInv
<1>2. QED  BY <1>1, LoopInvariant, PTL

(* A status that is a trigger is found in the text, whichever client wrote *)
(* it and whatever its body says: by the words, or as the first number.    *)
LEMMA TriggersRetriable ==
    ASSUME NEW p, NEW e \in Errors, e.cause # "status" \/ IsTrigger(e)
    PROVE  IsRetriable(p, e)
<1> DEFINE codes == Mentioned(p, e)
           code == extractStatusCode(codes)
<1>1. /\ e.cause \in {"status", "connection", "other"}
      /\ e.status \in 0..599 /\ e.mentions \in Seq(Nat)
      /\ e.cause = "status" => e.status >= 100
  BY ErrorsAssumption
<1>2. CASE e.cause # "status"
  <2>1. codes = <<>>
    BY <1>2 DEF Mentioned
  <2>2. Len(codes) = 0
    BY <2>1
  <2>3. code = 0
    BY <2>2 DEF extractStatusCode
  <2>4. QED  BY <2>3 DEF IsRetriable
<1>3. CASE e.cause = "status" /\ e.deadline
  BY <1>3 DEF IsRetriable
<1>4. CASE e.cause = "status" /\ ~e.deadline
  <2>1. e.status \in {401, 403, 404, 429} \cup 500..599
    BY <1>4 DEF IsTrigger
  <2>2. codes[1] = (IF p \in {"openai", "ollama"} THEN 0 ELSE e.status)
    <3> DEFINE first == IF p \in {"openai", "ollama"} THEN 0 ELSE e.status
    <3>1. first \in Nat
      <4>1. e.status \in 0..599
        BY <1>1
      <4>2. e.status \in Nat
        BY ONLY <4>1
      <4>3. QED  BY <4>2
    <3> HIDE DEF first
    <3>2. <<first>> \in Seq(Nat) /\ Len(<<first>>) = 1 /\ <<first>>[1] = first
      BY <3>1
    <3>3. (<<first>> \o e.mentions)[1] = <<first>>[1]
      BY <1>1, <3>2, ConcatProperties
    <3>4. codes = <<first>> \o e.mentions
      BY <1>4 DEF Mentioned, first
    <3>5. QED  BY <3>2, <3>3, <3>4 DEF first
  <2>3. code \in {0, e.status}
    BY <2>2 DEF extractStatusCode
  <2>4. QED  BY <2>1, <2>3 DEF IsRetriable
<1>5. QED  BY <1>2, <1>3, <1>4

(* The documented triggers never end a request early: what does is an      *)
(* answer with a status that is none of them.                              *)
THEOREM EarlyEnds == Spec => []TriggersHonoured
<1>1. LoopInv => TriggersHonoured
  <2> SUFFICES ASSUME LoopInv, stage = "stopped" PROVE TriggersHonoured
    BY DEF TriggersHonoured
  <2> DEFINE last == attempts[Len(attempts)]
  <2>1. last.error \in Errors /\ ~IsRetriable(last.step.provider, last.error)
    BY DEF LoopInv
  <2>2. last.error.cause = "status" /\ ~IsTrigger(last.error)
    BY <2>1, TriggersRetriable
  <2>3. QED  BY <2>2 DEF TriggersHonoured
<1>2. QED  BY <1>1, LoopInvariant, PTL

(* Giving up means that every step had its turn and failed, or is not      *)
(* configured.                                                             *)
THEOREM LateEnds == Spec => []GivesUpLast
<1>1. LoopInv => GivesUpLast
  <2> SUFFICES ASSUME LoopInv, stage = "exhausted" PROVE GivesUpLast
    BY DEF GivesUpLast
  <2>1. Len(attempts) = Len(steps)
    BY DEF LoopInv
  <2>2. ASSUME NEW i \in 1..Len(attempts)
        PROVE  attempts[i].how = IF steps[i].provider \in registered
                                 THEN "failed" ELSE "skipped"
    <3>1. attempts[i] \in Attempts
      BY DEF LoopInv, TypeOK
    <3>2. attempts[i].how \in {"skipped", "failed", "answered"}
      BY <3>1 DEF Attempts
    <3>3. /\ attempts[i].how = "skipped" <=> steps[i].provider \notin registered
          /\ attempts[i].how # "answered"
      BY DEF LoopInv
    <3>4. QED  BY <3>2, <3>3
  <2>3. QED  BY <2>1, <2>2 DEF GivesUpLast
<1>2. QED  BY <1>1, LoopInvariant, PTL

(* The result, from which the caller bills, caches and logs, names the     *)
(* attempts as they happened.                                              *)
THEOREM ResultIsTrue == Spec => []ResultTellsAttempts
<1>1. LoopInv => ResultTellsAttempts
  BY DEF LoopInv
<1>2. QED  BY <1>1, LoopInvariant, PTL

-----------------------------------------------------------------------------
(* The chains of the tables                                                *)

(* Every model of the tables is claimed by one cloud at most.              *)
LEMMA Claimants ==
    /\ \A k \in GptModels \cup ReasoningModels : Claimant(k) = "openai"
    /\ \A k \in ClaudeModels : Claimant(k) = "anthropic"
    /\ \A k \in GeminiModels : Claimant(k) = "google"
    /\ \A k \in LocalModels \cup MixedCaseModels : Claimant(k) = None
<1>1. \A k \in GptModels \cup ReasoningModels : Claimant(k) = "openai"
  BY DEF Claimant, GptModels, ReasoningModels, ClaudeModels, GeminiModels
<1>2. \A k \in ClaudeModels : Claimant(k) = "anthropic"
  BY DEF Claimant, GptModels, ReasoningModels, ClaudeModels, GeminiModels
<1>3. \A k \in GeminiModels : Claimant(k) = "google"
  BY DEF Claimant, GptModels, ReasoningModels, ClaudeModels, GeminiModels
<1>4. \A k \in LocalModels \cup MixedCaseModels : Claimant(k) = None
  BY DEF Claimant, GptModels, ReasoningModels, ClaudeModels, GeminiModels, LocalModels,
         MixedCaseModels
<1>5. QED  BY <1>1, <1>2, <1>3, <1>4

(* The cloud that sees a model first: the one that claims it, or else the  *)
(* one that the executor reads off its name in lower case.                 *)
Owner(model) == IF Claimant(model) # None THEN Claimant(model) ELSE DetectProviderForModel(model)

(* The executor's detection names a cloud, and where the model is claimed, *)
(* the one that claims it.                                                 *)
LEMMA Detections ==
    ASSUME NEW model \in Models
    PROVE  /\ Claimant(model) \in Clouds \cup {None}
           /\ DetectProviderForModel(model) # None =>
                 /\ DetectProviderForModel(model) \in Clouds
                 /\ DetectProviderForModel(model) = Owner(model)
<1>1. \A name : Claimant(name) \in Clouds \cup {None}
  BY DEF Claimant, Clouds
<1>2. Claimant(model) # None => model \notin MixedCaseModels
  BY Claimants
<1>3. model \notin MixedCaseModels => ToLower(model) = model
  BY DEF ToLower, MixedCaseModels
<1>4. QED  BY <1>1, <1>2, <1>3 DEF DetectProviderForModel, Owner

(* The fallbacks of a chain are the two clouds that do not own its model.  *)
LEMMA FallbackClouds ==
    ASSUME NEW k \in ChainKeys
    PROVE  \E p, q \in Clouds, m, n \in Models :
              Fallbacks(k) = <<Step(p, m), Step(q, n)>> /\ {Claimant(k), p, q} = Clouds
<1> DEFINE Others(o, p, m, q, n) ==
             /\ Fallbacks(k) = <<Step(p, m), Step(q, n)>> /\ Claimant(k) = o
             /\ p \in Clouds /\ q \in Clouds /\ m \in Models /\ n \in Models
             /\ {o, p, q} = Clouds
<1>1. CASE k \in {"gpt-4o", "gpt-4-turbo"}
  <2>1. Others("openai", "anthropic", "claude-sonnet-4-6", "google", "gemini-2.5-pro")
    BY <1>1, Claimants
       DEF Fallbacks, Clouds, Models, GptModels, ClaudeModels, GeminiModels
  <2>2. QED  BY <2>1
<1>2. CASE k = "gpt-4o-mini"
  <2>1. Others("openai", "anthropic", "claude-haiku-4-5-20251001", "google", "gemini-2.5-flash")
    BY <1>2, Claimants
       DEF Fallbacks, Clouds, Models, GptModels, ClaudeModels, GeminiModels
  <2>2. QED  BY <2>1
<1>3. CASE k = "gpt-3.5-turbo"
  <2>1. Others("openai", "anthropic", "claude-3-haiku-20240307", "google", "gemini-2.0-flash")
    BY <1>3, Claimants
       DEF Fallbacks, Clouds, Models, GptModels, ClaudeModels, GeminiModels
  <2>2. QED  BY <2>1
<1>4. CASE k = "claude-haiku-4-5-20251001"
  <2>1. Others("anthropic", "openai", "gpt-4o-mini", "google", "gemini-2.5-flash")
    BY <1>4, Claimants
       DEF Fallbacks, Clouds, Models, GptModels, ClaudeModels, GeminiModels
  <2>2. QED  BY <2>1
<1>5. CASE k = "claude-3-haiku-20240307"
  <2>1. Others("anthropic", "openai", "gpt-4o-mini", "google", "gemini-2.0-flash")
    BY <1>5, Claimants
       DEF Fallbacks, Clouds, Models, GptModels, ClaudeModels, GeminiModels
  <2>2. QED  BY <2>1
<1>6. CASE k \in ClaudeModels \ {"claude-haiku-4-5-20251001", "claude-3-haiku-20240307"}
  <2>1. Others("anthropic", "openai", "gpt-4o", "google", "gemini-2.5-pro")
    BY <1>6, Claimants
       DEF Fallbacks, Clouds, Models, GptModels, ClaudeModels, GeminiModels
  <2>2. QED  BY <2>1
<1>7. CASE k = "gemini-2.5-pro"
  <2>1. Others("google", "openai", "gpt-4o", "anthropic", "claude-sonnet-4-6")
    BY <1>7, Claimants
       DEF Fallbacks, Clouds, Models, GptModels, ClaudeModels, GeminiModels
  <2>2. QED  BY <2>1
<1>8. CASE k = "gemini-2.5-flash"
  <2>1. Others("google", "openai", "gpt-4o-mini", "anthropic", "claude-haiku-4-5-20251001")
    BY <1>8, Claimants
       DEF Fallbacks, Clouds, Models, GptModels, ClaudeModels, GeminiModels
  <2>2. QED  BY <2>1
<1>9. CASE k = "gemini-2.0-flash"
  <2>1. Others("google", "openai", "gpt-4o-mini", "anthropic", "claude-3-haiku-20240307")
    BY <1>9, Claimants
       DEF Fallbacks, Clouds, Models, GptModels, ClaudeModels, GeminiModels
  <2>2. QED  BY <2>1
<1>10. CASE k = "gemini-2.0-flash-lite"
  <2>1. Others("google", "openai", "gpt-3.5-turbo", "anthropic", "claude-3-haiku-20240307")
    BY <1>10, Claimants
       DEF Fallbacks, Clouds, Models, GptModels, ClaudeModels, GeminiModels
  <2>2. QED  BY <2>1
<1>11. QED
  BY <1>1, <1>2, <1>3, <1>4, <1>5, <1>6, <1>7, <1>8, <1>9, <1>10
     DEF ChainKeys, Models, GptModels, ReasoningModels, ClaudeModels, GeminiModels

(* A chain found by prefix is one of the same owner's.                     *)
LEMMA PrefixOwner ==
    ASSUME NEW model \in Models, NEW k \in PrefixKeys(model)
    PROVE  k \in ChainKeys /\ Claimant(k) = Claimant(model)
<1>1. CASE model = "gpt-3.5-turbo-16k"
  <2>1. k = "gpt-3.5-turbo"
    BY <1>1 DEF PrefixKeys
  <2>2. QED  BY <1>1, <2>1, Claimants
       DEF ChainKeys, Models, GptModels, LocalModels, MixedCaseModels
<1>2. CASE model = "gpt-4o-mini-2024-07-18"
  <2>1. k \in {"gpt-4o", "gpt-4o-mini"}
    BY <1>2 DEF PrefixKeys
  <2>2. QED  BY <1>2, <2>1, Claimants
       DEF ChainKeys, Models, GptModels, LocalModels, MixedCaseModels
<1>3. CASE model = "gemini-2.0-flash-lite-001"
  <2>1. k \in {"gemini-2.0-flash", "gemini-2.0-flash-lite"}
    BY <1>3 DEF PrefixKeys
  <2>2. QED  BY <1>3, <2>1, Claimants
       DEF ChainKeys, Models, GeminiModels, LocalModels, MixedCaseModels
<1>4. CASE model \notin {"gpt-3.5-turbo-16k", "gpt-4o-mini-2024-07-18", "gemini-2.0-flash-lite-001"}
  BY <1>4 DEF PrefixKeys
<1>5. QED  BY <1>1, <1>2, <1>3, <1>4

(* A cloud chain goes through all three clouds, the model's owner first.   *)
ThroughClouds(chain, owner) ==
    /\ chain \in Seq(RoutedSteps) /\ Len(chain) = 3
    /\ chain[1].provider = owner
    /\ {chain[1].provider, chain[2].provider, chain[3].provider} = Clouds

(* Every chain of the tables does, for the owner of its key.               *)
LEMMA ChainThroughClouds ==
    ASSUME NEW k \in ChainKeys
    PROVE  ThroughClouds(DefaultFailoverChains[k], Claimant(k))
<1>1. PICK p, q \in Clouds, m, n \in Models :
         Fallbacks(k) = <<Step(p, m), Step(q, n)>> /\ {Claimant(k), p, q} = Clouds
  BY FallbackClouds
<1> DEFINE one == <<Step(Claimant(k), k)>>
           two == <<Step(p, m), Step(q, n)>>
<1>2. k \in Models /\ Claimant(k) \in Clouds
  BY <1>1 DEF ChainKeys
<1>3. /\ Step(Claimant(k), k) \in RoutedSteps /\ Step(p, m) \in RoutedSteps
      /\ Step(q, n) \in RoutedSteps
  BY <1>2 DEF RoutedSteps, Step
<1>4. /\ one \in Seq(RoutedSteps) /\ Len(one) = 1 /\ one[1] = Step(Claimant(k), k)
      /\ two \in Seq(RoutedSteps) /\ Len(two) = 2 /\ two[1] = Step(p, m) /\ two[2] = Step(q, n)
  BY <1>3
<1>5. DefaultFailoverChains[k] = one \o two
  BY <1>1 DEF DefaultFailoverChains
<1> HIDE DEF one, two
<1>6. /\ one \o two \in Seq(RoutedSteps) /\ Len(one \o two) = 3
      /\ (one \o two)[1] = one[1] /\ (one \o two)[2] = two[1] /\ (one \o two)[3] = two[2]
  <2>1. /\ one \o two \in Seq(RoutedSteps) /\ Len(one \o two) = Len(one) + Len(two)
        /\ \A i \in 1..Len(one) + Len(two) :
              (one \o two)[i] = IF i <= Len(one) THEN one[i] ELSE two[i - Len(one)]
    BY ONLY <1>4, ConcatProperties
  <2>2. QED  BY <1>4, <2>1
<1>7. QED  BY <1>1, <1>4, <1>5, <1>6 DEF ThroughClouds, Step

(* So a lookup finds no chain at all or such chains only.                  *)
LEMMA CloudChainShape ==
    ASSUME NEW model \in Models
    PROVE  /\ \/ CloudChains(model) = {<<>>}
              \/ \A chain \in CloudChains(model) : ThroughClouds(chain, Claimant(model))
           /\ model \in ChainKeys =>
                 \A chain \in CloudChains(model) : ThroughClouds(chain, Claimant(model))
<1>1. CASE model \in ChainKeys
  BY <1>1, ChainThroughClouds DEF CloudChains
<1>2. CASE model \notin ChainKeys /\ PrefixKeys(model) = {}
  BY <1>2 DEF CloudChains
<1>3. CASE model \notin ChainKeys /\ PrefixKeys(model) # {}
  <2>1. CloudChains(model) = {DefaultFailoverChains[k] : k \in PrefixKeys(model)}
    BY <1>3 DEF CloudChains
  <2>2. QED  BY <1>3, <2>1, ChainThroughClouds, PrefixOwner
<1>4. QED  BY <1>1, <1>2, <1>3

(* What the steps of a blocking request are, as the mode orders them.      *)
ProvidersOf(sq, n) == {sq[j].provider : j \in 1..n}
Routed(sq, m, c) ==
    /\ sq \in Seq(Steps) /\ sq # <<>>
    /\ \A i \in 1..Len(sq) :
          /\ sq[i] \in RoutedSteps
          /\ c.mode = "local_only" => sq[i].provider = "ollama"
          /\ c.mode = "cloud_only" \/ ~c.ollama => sq[i].provider \in Clouds
          /\ c.mode = "local_first" /\ c.ollama => sq[1].provider = "ollama"
          /\ c.mode = "cloud_first" /\ sq[i].provider = "ollama" =>
                CloudChains(m) = {<<>>} \/ Clouds \subseteq ProvidersOf(sq, i - 1)
          /\ sq[i].provider \in Clouds =>
                \E j \in 1..i : /\ sq[j].provider = Owner(m)
                                /\ \A h \in 1..(j - 1) : sq[h].provider \notin Clouds
          /\ sq[i].provider \in Clouds /\ Claimant(m) = None =>
                c.mode = "cloud_only" /\ Len(sq) = 1
    /\ m \in ChainKeys /\ c.mode \in {"cloud_first", "cloud_only"} /\ MaxAttempts >= 3 =>
          Len(sq) >= 3 /\ Clouds \subseteq ProvidersOf(sq, 3)

(* Ollama alone, for the model of a tier.                                  *)
LEMMA LocalStep ==
    ASSUME NEW model \in Models
    PROVE  LET local == <<OllamaStep(model)>>
           IN  /\ local \in Seq(RoutedSteps) /\ Len(local) = 1 /\ local # <<>>
               /\ local[1].provider = "ollama"
<1>1. OllamaStep(model) \in RoutedSteps
  <2>1. ModelTier(model) \in {"flagship", "balanced", "budget"}
    BY DEF ModelTier
  <2>2. QED  BY <2>1 DEF OllamaStep, RoutedSteps, Step
<1>2. QED  BY <1>1 DEF OllamaStep, Step

(* The chain of a model the clouds have one for, before and after Ollama.  *)
LEMMA CloudsThenLocal ==
    ASSUME NEW model \in Models, NEW cl, ThroughClouds(cl, Claimant(model))
    PROVE  LET local == <<OllamaStep(model)>>
           IN  /\ cl # <<>>
               /\ cl \o local \in Seq(RoutedSteps) /\ Len(cl \o local) = 4
               /\ \A i \in 1..3 : (cl \o local)[i] = cl[i]
               /\ (cl \o local)[4] = OllamaStep(model)
               /\ local \o cl \in Seq(RoutedSteps) /\ Len(local \o cl) = 4
               /\ (local \o cl)[1] = OllamaStep(model)
               /\ \A i \in 2..4 : (local \o cl)[i] = cl[i - 1]
<1> DEFINE local == <<OllamaStep(model)>>
<1>1. local \in Seq(RoutedSteps) /\ Len(local) = 1 /\ local[1] = OllamaStep(model)
  BY LocalStep
<1>2. cl \in Seq(RoutedSteps) /\ Len(cl) = 3
  BY DEF ThroughClouds
<1> HIDE DEF local
<1>3. cl \o local \in Seq(RoutedSteps) /\ Len(cl \o local) = 4
      /\ \A i \in 1..4 : (cl \o local)[i] = IF i <= 3 THEN cl[i] ELSE local[i - 3]
  <2>1. /\ cl \o local \in Seq(RoutedSteps) /\ Len(cl \o local) = Len(cl) + Len(local)
        /\ \A i \in 1..Len(cl) + Len(local) :
              (cl \o local)[i] = IF i <= Len(cl) THEN cl[i] ELSE local[i - Len(cl)]
    BY ONLY <1>1, <1>2, ConcatProperties
  <2>2. QED  BY <1>1, <1>2, <2>1
<1>4. local \o cl \in Seq(RoutedSteps) /\ Len(local \o cl) = 4
      /\ \A i \in 1..4 : (local \o cl)[i] = IF i <= 1 THEN local[i] ELSE cl[i - 1]
  <2>1. /\ local \o cl \in Seq(RoutedSteps) /\ Len(local \o cl) = Len(local) + Len(cl)
        /\ \A i \in 1..Len(local) + Len(cl) :
              (local \o cl)[i] = IF i <= Len(local) THEN local[i] ELSE cl[i - Len(local)]
    BY ONLY <1>1, <1>2, ConcatProperties
  <2>2. QED  BY <1>1, <1>2, <2>1
<1>5. cl # <<>>
  BY <1>2
<1>6. QED  BY <1>1, <1>3, <1>4, <1>5 DEF local

-----------------------------------------------------------------------------
(* The chain of a mode                                                     *)

(* Whatever the mode, the chain of a model is ordered as the mode says.    *)
LEMMA ChainsRouted ==
    ASSUME NEW c \in [mode : Modes, ollama : BOOLEAN], NEW m \in Models,
           Detected(m, c.mode, c.ollama) # None,
           NEW chain \in FailoverChainsFor(m, c.mode, c.ollama), chain # <<>>
    PROVE  Routed(chain, m, c)
<1> DEFINE local == <<OllamaStep(m)>>
<1>1. /\ c.mode \in Modes /\ c.ollama \in BOOLEAN
      /\ c.mode = "local_only" => c.ollama
      /\ OllamaStep(m).provider = "ollama" /\ "ollama" \notin Clouds
      /\ None \notin Clouds
  BY DEF Detected, OllamaStep, Step, Clouds, None
<1>owned. ASSUME NEW cl, ThroughClouds(cl, Claimant(m))
          PROVE  Claimant(m) # None /\ Owner(m) = Claimant(m)
  BY <1>1, <1>owned DEF ThroughClouds, Owner
<1>typed. ASSUME chain \in Seq(RoutedSteps)
      PROVE  chain \in Seq(Steps) /\ \A i \in 1..Len(chain) : chain[i] \in RoutedSteps
  BY <1>typed, RoutedAssumption, SeqMonotonic, ElementOfSeq
<1>2. ASSUME chain = local, c.ollama, c.mode # "cloud_only",
             c.mode = "cloud_first" => CloudChains(m) = {<<>>}
      PROVE  Routed(chain, m, c)
  <2>1. chain \in Seq(RoutedSteps) /\ Len(chain) = 1 /\ chain[1].provider = "ollama"
    BY <1>2, LocalStep
  <2>2. m \in ChainKeys => c.mode # "cloud_first"
    <3>1. m \in ChainKeys /\ c.mode = "cloud_first" => <<>> \in CloudChains(m)
      BY <1>2
    <3>2. QED  BY <3>1, CloudChainShape DEF ThroughClouds
  <2>3. \A i \in 1..Len(chain) : i = 1
    BY <2>1
  <2>4. QED  BY <1>1, <1>typed, <1>2, <2>1, <2>2, <2>3 DEF Routed
<1>3. ASSUME ThroughClouds(chain, Claimant(m)), c.mode = "cloud_only" \/ ~c.ollama
      PROVE  Routed(chain, m, c)
  <2>1. /\ chain \in Seq(RoutedSteps) /\ Len(chain) = 3 /\ chain[1].provider = Claimant(m)
        /\ chain[1].provider \in Clouds /\ chain[2].provider \in Clouds
        /\ chain[3].provider \in Clouds
        /\ {chain[1].provider, chain[2].provider, chain[3].provider} = Clouds
    BY <1>3 DEF ThroughClouds
  <2>2. \A i \in 1..Len(chain) : chain[i].provider \in Clouds /\ 1 \in 1..i
    BY <2>1
  <2>3. Clouds \subseteq ProvidersOf(chain, 3)
    BY <2>1 DEF ProvidersOf
  <2>4. \A h \in 1..(1 - 1) : FALSE
    OBVIOUS
  <2>5. QED  BY <1>1, <1>owned, <1>typed, <1>3, <2>1, <2>2, <2>3, <2>4 DEF Routed
<1>4. ASSUME NEW cl, ThroughClouds(cl, Claimant(m)), chain = local \o cl,
             c.ollama, c.mode = "local_first"
      PROVE  Routed(chain, m, c)
  <2>1. /\ chain \in Seq(RoutedSteps) /\ Len(chain) = 4 /\ chain[1].provider = "ollama"
        /\ chain[2].provider = Claimant(m)
    BY <1>1, <1>4, CloudsThenLocal DEF ThroughClouds
  <2>2. \A i \in 1..Len(chain) : chain[i].provider \in Clouds =>
           /\ 2 \in 1..i
           /\ \A h \in 1..(2 - 1) : chain[h].provider \notin Clouds
    <3> SUFFICES ASSUME NEW i \in 1..4, chain[i].provider \in Clouds
                 PROVE  2 \in 1..i /\ \A h \in 1..1 : chain[h].provider \notin Clouds
      BY <2>1
    <3>1. i # 1
      BY <1>1, <2>1
    <3>2. QED  BY <1>1, <2>1, <3>1
  <2>3. QED  BY <1>1, <1>owned, <1>typed, <1>4, <2>1, <2>2 DEF Routed
<1>5. ASSUME NEW cl, ThroughClouds(cl, Claimant(m)), chain = cl \o local,
             c.ollama, c.mode = "cloud_first"
      PROVE  Routed(chain, m, c)
  <2>1. /\ chain \in Seq(RoutedSteps) /\ Len(chain) = 4
        /\ chain[1].provider = Claimant(m) /\ chain[4].provider = "ollama"
        /\ {chain[1].provider, chain[2].provider, chain[3].provider} = Clouds
        /\ chain[1].provider \in Clouds /\ chain[2].provider \in Clouds
        /\ chain[3].provider \in Clouds
    BY <1>1, <1>5, CloudsThenLocal DEF ThroughClouds
  <2>2. Clouds \subseteq ProvidersOf(chain, 3)
    BY <2>1 DEF ProvidersOf
  <2>3. ASSUME NEW i \in 1..Len(chain)
        PROVE  /\ chain[i].provider = "ollama" => Clouds \subseteq ProvidersOf(chain, i - 1)
               /\ 1 \in 1..i
    <3>1. i \in {1, 2, 3, 4}
      BY <2>1
    <3>2. chain[i].provider = "ollama" => i = 4
      BY <1>1, <2>1, <3>1
    <3>3. QED  BY <2>2, <3>1, <3>2
  <2>4. \A h \in 1..(1 - 1) : FALSE
    OBVIOUS
  <2>5. QED  BY <1>1, <1>owned, <1>typed, <1>5, <2>1, <2>2, <2>3, <2>4 DEF Routed
<1>6. CASE c.mode = "local_only"
  BY <1>1, <1>2, <1>6 DEF FailoverChainsFor
<1>7. CASE c.mode # "local_only" /\ (c.mode = "cloud_only" \/ ~c.ollama)
  <2>1. chain \in CloudChains(m)
    BY <1>7 DEF FailoverChainsFor
  <2>2. QED  BY <1>3, <1>7, <2>1, CloudChainShape
<1>8. CASE c.ollama /\ c.mode \in {"cloud_first", "local_first"}
  <2>1. PICK cl \in CloudChains(m) :
           chain = CASE cl = <<>> -> local
                     [] c.mode = "local_first" -> local \o cl
                     [] OTHER -> cl \o local
    BY <1>8 DEF FailoverChainsFor
  <2>2. CASE cl = <<>>
    <3>1. CloudChains(m) = {<<>>}
      BY <2>2, CloudChainShape DEF ThroughClouds
    <3>2. chain = local
      <4>1. local \o <<>> = local
        BY LocalStep, ConcatEmptySeq
      <4>2. QED  BY <2>1, <2>2, <4>1
    <3>3. QED  BY <1>2, <1>8, <3>1, <3>2
  <2>3. CASE cl # <<>>
    <3>1. ThroughClouds(cl, Claimant(m))
      BY <2>3, CloudChainShape
    <3>2. CASE c.mode = "local_first"
      <4>1. chain = local \o cl
        BY <2>1, <2>3, <3>2
      <4>2. QED  BY <1>4, <1>8, <3>1, <3>2, <4>1
    <3>3. CASE c.mode = "cloud_first"
      <4>1. chain = cl \o local
        BY <2>1, <2>3, <3>3
      <4>2. QED  BY <1>5, <1>8, <3>1, <3>3, <4>1
    <3>4. QED  BY <1>8, <3>2, <3>3
  <2>4. QED  BY <2>2, <2>3
<1>9. QED  BY <1>1, <1>6, <1>7, <1>8 DEF Modes

(* Without a chain, the one step is for the cloud that owns the model, and *)
(* one that only the executor sees is there under cloud_only alone.        *)
LEMMA OwnerRouted ==
    ASSUME NEW c \in [mode : Modes, ollama : BOOLEAN], NEW m \in Models,
           Detected(m, c.mode, c.ollama) # None,
           <<>> \in FailoverChainsFor(m, c.mode, c.ollama),
           DetectProviderForModel(m) # None
    PROVE  Routed(<<Step(DetectProviderForModel(m), m)>>, m, c)
<1> DEFINE local == <<OllamaStep(m)>>
           s == Step(DetectProviderForModel(m), m)
<1>1. c.mode \in Modes /\ c.ollama \in BOOLEAN /\ (c.mode = "local_only" => c.ollama)
  BY DEF Detected
<1>2. /\ local # <<>>
      /\ \A cl \in CloudChains(m) : cl # <<>> => local \o cl # <<>> /\ cl \o local # <<>>
  <2>1. local # <<>>
    BY LocalStep
  <2>2. ASSUME NEW cl \in CloudChains(m), cl # <<>>
        PROVE  local \o cl # <<>> /\ cl \o local # <<>>
    <3>1. ThroughClouds(cl, Claimant(m))
      BY <2>2, CloudChainShape
    <3>2. Len(local \o cl) = 4 /\ Len(cl \o local) = 4
      BY <3>1, CloudsThenLocal
    <3>3. QED  BY <3>2
  <2>3. QED  BY <2>1, <2>2
<1>3. c.mode # "local_only"
  BY <1>1, <1>2 DEF FailoverChainsFor
<1>4. c.mode = "cloud_only" \/ ~c.ollama
  <2> SUFFICES ASSUME c.mode # "cloud_only", c.ollama PROVE FALSE
    BY <1>1
  <2>1. PICK cl \in CloudChains(m) :
           <<>> = CASE cl = <<>> -> local
                     [] c.mode = "local_first" -> local \o cl
                     [] OTHER -> cl \o local
    BY <1>3 DEF FailoverChainsFor
  <2>2. CASE cl = <<>>
    <3>1. local \o <<>> = local
      BY LocalStep, ConcatEmptySeq
    <3>2. QED  BY <1>2, <2>1, <2>2, <3>1
  <2>3. CASE cl # <<>>
    BY <1>2, <2>1, <2>3
  <2>4. QED  BY <2>2, <2>3
<1>5. <<>> \in CloudChains(m)
  BY <1>3, <1>4 DEF FailoverChainsFor
<1>6. m \notin ChainKeys
  BY <1>5, CloudChainShape DEF ThroughClouds
<1>7. s.provider = Owner(m) /\ s.provider \in Clouds /\ s \in RoutedSteps
  BY Detections DEF Step, RoutedSteps
<1>claimed. Claimant(m) = None => c.mode = "cloud_only"
  BY <1>1, <1>4 DEF Detected
<1>8. s \in Steps /\ "ollama" \notin Clouds
  BY <1>7, RoutedAssumption DEF Clouds
<1> HIDE DEF s
<1>9. <<s>> \in Seq(Steps) /\ Len(<<s>>) = 1 /\ <<s>>[1] = s /\ <<s>> # <<>>
  BY <1>8
<1>10. \A i \in 1..Len(<<s>>) : i = 1 /\ 1 \in 1..i /\ \A h \in 1..(1 - 1) : FALSE
  BY <1>9
<1>11. Routed(<<s>>, m, c)
  BY <1>3, <1>4, <1>6, <1>7, <1>claimed, <1>8, <1>9, <1>10 DEF Routed
<1>12. QED  BY <1>11 DEF s

(* The executor's limit cuts the steps short, and changes no order.        *)
LEMMA TruncatedRouted ==
    ASSUME NEW sq, NEW m, NEW c, Routed(sq, m, c)
    PROVE  Routed(Truncated(sq), m, c)
<1> DEFINE short == Truncated(sq)
<1>1. sq \in Seq(Steps) /\ sq # <<>> /\ Len(sq) \in Nat
  BY DEF Routed
<1>2. /\ short \in Seq(Steps) /\ Len(short) <= Len(sq) /\ Len(short) > 0 /\ Len(short) \in Nat
      /\ \A i \in 1..Len(short) : short[i] = sq[i]
  BY <1>1, TruncatedSteps
<1>3. MaxAttempts >= 3 /\ Len(sq) >= 3 => Len(short) >= 3
  <2>1. CASE Len(sq) > MaxAttempts
    <3>1. short = SubSeq(sq, 1, MaxAttempts) /\ MaxAttempts \in 1..Len(sq)
      BY <1>1, <2>1, LimitAssumption DEF Truncated
    <3>2. Len(short) = MaxAttempts
      BY <1>1, <3>1, LimitAssumption
    <3>3. QED  BY <3>2
  <2>2. CASE ~(Len(sq) > MaxAttempts)
    BY <2>2 DEF Truncated
  <2>3. QED  BY <2>1, <2>2
<1> HIDE DEF short
<1>4. \A n \in Nat : n <= Len(short) => ProvidersOf(short, n) = ProvidersOf(sq, n)
  <2> SUFFICES ASSUME NEW n \in Nat, n <= Len(short)
               PROVE  ProvidersOf(short, n) = ProvidersOf(sq, n)
    OBVIOUS
  <2>1. \A j \in 1..n : short[j] = sq[j]
    BY <1>2
  <2>2. QED  BY <2>1 DEF ProvidersOf
<1>5. ASSUME NEW i \in 1..Len(short)
      PROVE  /\ short[i] \in RoutedSteps
             /\ c.mode = "local_only" => short[i].provider = "ollama"
             /\ c.mode = "cloud_only" \/ ~c.ollama => short[i].provider \in Clouds
             /\ c.mode = "local_first" /\ c.ollama => short[1].provider = "ollama"
             /\ c.mode = "cloud_first" /\ short[i].provider = "ollama" =>
                   CloudChains(m) = {<<>>} \/ Clouds \subseteq ProvidersOf(short, i - 1)
             /\ short[i].provider \in Clouds =>
                   \E j \in 1..i : /\ short[j].provider = Owner(m)
                                   /\ \A h \in 1..(j - 1) : short[h].provider \notin Clouds
             /\ short[i].provider \in Clouds /\ Claimant(m) = None =>
                   c.mode = "cloud_only" /\ Len(short) = 1
  <2>1. i \in 1..Len(sq) /\ short[i] = sq[i] /\ short[1] = sq[1]
    BY <1>1, <1>2
  <2>2. ProvidersOf(short, i - 1) = ProvidersOf(sq, i - 1)
    BY <1>2, <1>4
  <2>3. ASSUME NEW j \in 1..i PROVE short[j] = sq[j] /\ \A h \in 1..(j - 1) : short[h] = sq[h]
    BY <1>2
  <2>4. short[i].provider \in Clouds =>
           \E j \in 1..i : /\ short[j].provider = Owner(m)
                           /\ \A h \in 1..(j - 1) : short[h].provider \notin Clouds
    <3>1. short[i].provider \in Clouds =>
             \E j \in 1..i : /\ sq[j].provider = Owner(m)
                             /\ \A h \in 1..(j - 1) : sq[h].provider \notin Clouds
      BY <2>1 DEF Routed
    <3>2. QED  BY <2>3, <3>1
  <2>5. short[i].provider \in Clouds /\ Claimant(m) = None =>
           c.mode = "cloud_only" /\ Len(short) = 1
    <3>1. short[i].provider \in Clouds /\ Claimant(m) = None =>
             c.mode = "cloud_only" /\ Len(sq) = 1
      BY <2>1 DEF Routed
    <3>2. Len(sq) = 1 => Len(short) = 1
      BY <1>1, <1>2
    <3>3. QED  BY <3>1, <3>2
  <2>6. QED  BY <2>1, <2>2, <2>4, <2>5 DEF Routed
<1>6. m \in ChainKeys /\ c.mode \in {"cloud_first", "cloud_only"} /\ MaxAttempts >= 3 =>
         Len(short) >= 3 /\ Clouds \subseteq ProvidersOf(short, 3)
  <2> SUFFICES ASSUME m \in ChainKeys, c.mode \in {"cloud_first", "cloud_only"}, MaxAttempts >= 3
               PROVE  Len(short) >= 3 /\ Clouds \subseteq ProvidersOf(short, 3)
    OBVIOUS
  <2>1. Len(sq) >= 3 /\ Clouds \subseteq ProvidersOf(sq, 3)
    BY DEF Routed
  <2>2. Len(short) >= 3
    BY <1>3, <2>1
  <2>3. QED  BY <1>2, <1>4, <2>1, <2>2
<1>7. short # <<>>
  BY <1>2
<1>8. Routed(short, m, c)
  BY <1>2, <1>5, <1>6, <1>7 DEF Routed
<1>9. QED  BY <1>8 DEF short

-----------------------------------------------------------------------------
(* A request on its route                                                  *)

(* What routing adds to the loop: nothing is skipped, because the steps of *)
(* a request name only providers that the configuration registers, and the *)
(* steps are ordered as the mode says or are the one step of a stream.     *)
Stages == {"idle", "trying", "streaming", "invalid_model"} \cup Ended

StepsRouted ==
    steps # <<>> =>
        /\ request.model \in Models
        /\ Detected(request.model, config.mode, config.ollama) # None
        /\ ~request.stream => Routed(steps, request.model, config)
        /\ request.stream =>
              steps = <<Step(Detected(request.model, config.mode, config.ollama),
                             request.model)>>

RoutingInv ==
    /\ config \in Configs /\ registered = Registry(config)
    /\ request \in [model : Models \cup {None}, stream : BOOLEAN]
    /\ stage \in Stages
    /\ steps \in Seq(Steps) /\ attempts \in Seq(Attempts)
    /\ Len(attempts) <= Len(steps)
    /\ \A i \in 1..Len(attempts) :
          attempts[i].step = steps[i] /\ attempts[i].how # "skipped"
    /\ stage \in {"idle", "invalid_model", "no_provider"} => attempts = <<>> /\ steps = <<>>
    /\ stage \in {"trying", "streaming"} => Len(attempts) < Len(steps)
    /\ stage = "exhausted" => attempts # <<>> /\ Len(attempts) = Len(steps)
    /\ stage \in {"trying", "exhausted"} => ~request.stream
    /\ StepsRouted

(* A step's provider is registered.                                        *)
LEMMA StepsRegistered ==
    ASSUME RoutingInv, NEW i \in 1..Len(steps)
    PROVE  steps[i].provider \in registered
<1>1. steps # <<>> /\ config \in [mode : Modes, ollama : BOOLEAN]
  BY ConfigsAssumption DEF RoutingInv
<1>2. CASE request.stream
  <2> DEFINE d == Detected(request.model, config.mode, config.ollama)
  <2>1. d # None /\ steps = <<Step(d, request.model)>> /\ request.model \in Models
    BY <1>1, <1>2 DEF RoutingInv, StepsRouted
  <2>2. d \in registered
    BY <2>1, Claimants DEF Detected, RoutingInv, Registry, Models, Clouds
  <2> HIDE DEF d
  <2>3. i = 1 /\ steps[1].provider = d
    BY <2>1 DEF Step
  <2>4. QED  BY <2>2, <2>3
<1>3. CASE ~request.stream
  <2>1. /\ steps[i] \in RoutedSteps
        /\ ~config.ollama => steps[i].provider \in Clouds
    BY <1>1, <1>3 DEF RoutingInv, StepsRouted, Routed
  <2>2. steps[i].provider \in Clouds \cup {"ollama"}
    BY <2>1 DEF RoutedSteps
  <2>3. QED  BY <1>1, <2>1, <2>2 DEF RoutingInv, Registry
<1>4. request.stream \in BOOLEAN
  BY DEF RoutingInv
<1>5. QED  BY <1>2, <1>3, <1>4

(* An attempt that is not skipped keeps the invariant.                     *)
LEMMA AttemptRouted ==
    ASSUME RoutingInv, stage \in {"trying", "streaming"},
           NEW how \in {"failed", "answered"}, NEW e \in Errors \cup {NoError},
           Record(how, e), UNCHANGED <<registered, steps, config, request>>,
           \/ stage' \in {"answered", "stopped"}
           \/ stage = "trying" /\ AfterFailure
    PROVE  RoutingInv'
<1> DEFINE n == Len(attempts)
           a == [step |-> Current, how |-> how, error |-> e]
<1>1. n \in Nat /\ n < Len(steps) /\ Len(steps) \in Nat /\ n + 1 \in 1..Len(steps)
  BY DEF RoutingInv
<1>2. Current = steps[n + 1] /\ Current \in Steps
  BY <1>1 DEF Current, RoutingInv
<1>3. a \in Attempts /\ a.step = Current /\ a.how = how
  BY <1>2 DEF Attempts
<1>4. /\ attempts' \in Seq(Attempts)
      /\ Len(attempts') = n + 1
      /\ attempts'[n + 1] = a
      /\ \A i \in 1..n : attempts'[i] = attempts[i]
  BY <1>3, AppendProperties DEF Record, RoutingInv
<1>5. \A i \in 1..Len(attempts') :
         attempts'[i].step = steps'[i] /\ attempts'[i].how # "skipped"
  BY <1>1, <1>2, <1>3, <1>4 DEF RoutingInv
<1>6. /\ stage' \in {"answered", "stopped", "trying", "exhausted"}
      /\ stage' \in {"trying", "exhausted"} => stage = "trying"
      /\ stage' = "trying" => Len(attempts') < Len(steps')
      /\ stage' = "exhausted" => attempts' # <<>> /\ Len(attempts') = Len(steps')
  BY <1>1, <1>4 DEF AfterFailure
<1>7. StepsRouted'
  BY DEF RoutingInv, StepsRouted
<1>8. QED
  BY <1>1, <1>4, <1>5, <1>6, <1>7 DEF RoutingInv, Stages, Ended

(* The handler and the executor keep the invariant.                        *)
LEMMA RoutingStep == RoutingInv /\ [RoutingNext]_routing => RoutingInv'
<1> SUFFICES ASSUME RoutingInv, [RoutingNext]_routing PROVE RoutingInv'
  OBVIOUS
<1>1. ASSUME NEW model \in Models, NEW stream \in BOOLEAN, RejectModel(model, stream)
      PROVE  RoutingInv'
  BY <1>1 DEF RejectModel, RoutingInv, StepsRouted, Stages
<1>2. ASSUME NEW model \in Models, RouteSync(model) PROVE RoutingInv'
  <2> DEFINE d == DetectProviderForModel(model)
  <2>1. PICK chain \in FailoverChainsFor(model, config.mode, config.ollama) :
           Execute(chain, d, model)
    BY <1>2 DEF RouteSync
  <2>2. /\ Detected(model, config.mode, config.ollama) # None
        /\ request' = [model |-> model, stream |-> FALSE]
        /\ UNCHANGED <<config, registered, attempts>>
        /\ attempts = <<>> /\ steps = <<>> /\ Len(attempts) = 0
        /\ config \in [mode : Modes, ollama : BOOLEAN]
    BY <1>2, <2>1, ConfigsAssumption DEF RouteSync, Execute, RoutingInv
  <2>3. CASE chain = <<>> /\ d = NoOwner
    <3>1. stage' = "no_provider" /\ steps' = <<>>
      BY <2>1, <2>2, <2>3 DEF Execute
    <3>2. QED  BY <2>2, <3>1 DEF RoutingInv, StepsRouted, Stages, Ended
  <2>4. CASE ~(chain = <<>> /\ d = NoOwner)
    <3>1. stage' = "trying" /\ steps' = StepsFor(chain, d, model)
      BY <2>1, <2>4 DEF Execute
    <3>2. Routed(steps', model, config)
      <4>1. CASE chain = <<>>
        <5>1. Routed(<<Step(d, model)>>, model, config)
          BY <2>2, <2>4, <4>1, OwnerRouted, RoutedAssumption
        <5>2. steps' = Truncated(<<Step(d, model)>>)
          BY <3>1, <4>1 DEF StepsFor, Step
        <5>3. QED  BY <5>1, <5>2, TruncatedRouted
      <4>2. CASE chain # <<>>
        <5>1. Routed(chain, model, config)
          BY <2>2, <4>2, ChainsRouted
        <5>2. steps' = Truncated(chain)
          BY <3>1, <4>2 DEF StepsFor
        <5>3. QED  BY <5>1, <5>2, TruncatedRouted
      <4>3. QED  BY <4>1, <4>2
    <3>3. steps' \in Seq(Steps) /\ Len(steps') > 0 /\ Len(attempts') = 0
      BY <2>2, <3>2 DEF Routed
    <3>4. QED  BY <2>2, <3>1, <3>2, <3>3 DEF RoutingInv, StepsRouted, Stages
  <2>5. QED  BY <2>3, <2>4
<1>3. ASSUME NEW model \in Models, RouteStream(model) PROVE RoutingInv'
  <2> DEFINE d == Detected(model, config.mode, config.ollama)
             s == Step(d, model)
  <2>1. /\ d # None /\ stage' = "streaming" /\ steps' = <<s>>
        /\ request' = [model |-> model, stream |-> TRUE]
        /\ UNCHANGED <<config, registered, attempts>>
        /\ attempts = <<>> /\ Len(attempts) = 0
    BY <1>3 DEF RouteStream, RoutingInv
  <2>2. s \in Steps
    <3>1. d \in Clouds \cup {"ollama"}
      BY <2>1, Claimants DEF Detected, Models, Clouds
    <3> HIDE DEF d
    <3>2. s \in RoutedSteps
      BY <3>1 DEF Step, RoutedSteps
    <3>3. QED  BY <3>2, RoutedAssumption
  <2> HIDE DEF s
  <2>3. steps' \in Seq(Steps) /\ Len(steps') = 1
    BY <2>1, <2>2
  <2>4. StepsRouted'
    BY <2>1 DEF StepsRouted, s
  <2>5. QED  BY <2>1, <2>3, <2>4 DEF RoutingInv, Stages
<1>4. CASE StreamEnds
  <2>1. UNCHANGED <<registered, steps, config, request>> /\ stage = "streaming"
    BY <1>4 DEF StreamEnds
  <2>2. CASE Record("answered", NoError) /\ stage' = "answered"
    BY <2>1, <2>2, AttemptRouted
  <2>3. ASSUME NEW e \in Errors, Record("failed", e), stage' = "stopped" PROVE RoutingInv'
    BY <2>1, <2>3, AttemptRouted
  <2>4. QED  BY <1>4, <2>2, <2>3 DEF StreamEnds
<1>5. CASE Attempt
  <2>0. TryStep /\ UNCHANGED <<config, request>>
    BY <1>5 DEF Attempt
  <2>1. ~SkipStep
    <3> SUFFICES ASSUME SkipStep PROVE FALSE
      OBVIOUS
    <3>1. Len(attempts) + 1 \in 1..Len(steps)
      BY DEF SkipStep, RoutingInv
    <3>2. QED  BY <3>1, StepsRegistered DEF SkipStep, Current
  <2>2. CASE StepAnswers
    BY <2>0, <2>2, AttemptRouted DEF StepAnswers
  <2>3. ASSUME NEW e \in Errors, StepFails(e) PROVE RoutingInv'
    BY <2>0, <2>3, AttemptRouted DEF StepFails
  <2>4. QED  BY <2>0, <2>1, <2>2, <2>3 DEF TryStep
<1>6. CASE UNCHANGED routing
  BY <1>6 DEF routing, RoutingInv, StepsRouted
<1>7. QED  BY <1>1, <1>2, <1>3, <1>4, <1>5, <1>6 DEF RoutingNext

(* RoutingInv is what the handler and the executor maintain together.      *)
THEOREM RoutingInvariant == RoutingSpec => []RoutingInv
<1>1. RoutingInit => RoutingInv
  <2> SUFFICES ASSUME RoutingInit PROVE RoutingInv
    OBVIOUS
  <2>1. Len(<<>>) = 0 /\ <<>> \in Seq(Steps) /\ <<>> \in Seq(Attempts)
    BY EmptySeq
  <2>2. QED  BY <2>1 DEF RoutingInit, Init, RoutingInv, NoRequest, StepsRouted, Stages
<1>2. QED  BY <1>1, RoutingStep, PTL DEF RoutingSpec

(* Every variable of a request's route keeps its type.                     *)
THEOREM RoutingTypes == RoutingSpec => []RoutingTypeOK
<1>1. RoutingInv => RoutingTypeOK
  BY DEF RoutingInv, RoutingTypeOK, Stages
<1>2. QED  BY <1>1, RoutingInvariant, PTL

(* The providers that were contacted are those of the first steps.         *)
LEMMA ContactedAre ==
    ASSUME RoutingInv
    PROVE  /\ Contacted = ProvidersOf(steps, Len(attempts))
           /\ Len(attempts) \in Nat /\ 1..Len(attempts) \subseteq 1..Len(steps)
           /\ Contacted # {} => steps # <<>>
<1>1. Len(attempts) \in Nat /\ Len(steps) \in Nat /\ Len(attempts) <= Len(steps)
  BY DEF RoutingInv
<1>2. {j \in 1..Len(attempts) : attempts[j].how # "skipped"} = 1..Len(attempts)
  BY DEF RoutingInv
<1>3. \A i \in 1..Len(attempts) : attempts[i].step.provider = steps[i].provider
  BY DEF RoutingInv
<1>4. Contacted = ProvidersOf(steps, Len(attempts))
  BY <1>2, <1>3 DEF Contacted, ProvidersOf
<1>5. Contacted # {} => steps # <<>>
  BY <1>1, <1>4 DEF ProvidersOf
<1>6. QED  BY <1>1, <1>4, <1>5

(* A blocking request with steps is one that Routed speaks of.             *)
LEMMA SyncRouted ==
    ASSUME RoutingInv, steps # <<>>, ~request.stream
    PROVE  Routed(steps, request.model, config) /\ request.model \in Models
  BY DEF RoutingInv, StepsRouted

(* The operating modes keep their promise for every model of the tables    *)
(* and some that the tables do not know, whatever the providers answer.    *)
THEOREM ModesKeepTheirPromise == RoutingSpec => []ModeOrdersProviders
<1>1. RoutingInv => ModeOrdersProviders
  <2> SUFFICES ASSUME RoutingInv PROVE ModeOrdersProviders
    OBVIOUS
  <2> DEFINE n == Len(attempts)
  <2>1. /\ Contacted = ProvidersOf(steps, n) /\ n \in Nat /\ 1..n \subseteq 1..Len(steps)
        /\ Contacted # {} => steps # <<>>
    BY ContactedAre
  <2>2. "ollama" \notin Clouds
    BY DEF Clouds
  <2>3. ASSUME config.mode = "local_only" PROVE Contacted \subseteq {"ollama"}
    <3> SUFFICES ASSUME NEW i \in 1..n PROVE steps[i].provider = "ollama"
      BY <2>1 DEF ProvidersOf
    <3>1. i \in 1..Len(steps) /\ steps # <<>>
      BY <2>1 DEF ProvidersOf
    <3>2. CASE request.stream
      <4> DEFINE d == Detected(request.model, config.mode, config.ollama)
      <4>1. d # None /\ steps = <<Step(d, request.model)>>
        BY <3>1, <3>2 DEF RoutingInv, StepsRouted
      <4>2. d = "ollama"
        BY <2>3, <4>1 DEF Detected
      <4> HIDE DEF d
      <4>3. i = 1 /\ steps[1].provider = d
        BY <3>1, <4>1 DEF Step
      <4>4. QED  BY <4>2, <4>3
    <3>3. CASE ~request.stream
      BY <2>3, <3>1, <3>3, SyncRouted DEF Routed
    <3>4. QED  BY <3>2, <3>3
  <2>4. ASSUME Sync, config.mode = "cloud_only" PROVE "ollama" \notin Contacted
    <3> SUFFICES ASSUME NEW i \in 1..n PROVE steps[i].provider \in Clouds
      BY <2>1, <2>2 DEF ProvidersOf
    <3>1. i \in 1..Len(steps) /\ steps # <<>> /\ ~request.stream
      BY <2>1, <2>4 DEF ProvidersOf, Sync
    <3>2. QED  BY <2>4, <3>1, SyncRouted DEF Routed
  <2>5. ASSUME Sync, config.mode = "local_first", config.ollama, attempts # <<>>
        PROVE  attempts[1].step.provider = "ollama"
    <3>1. n > 0
      BY <2>5 DEF RoutingInv
    <3>2. 1 \in 1..n /\ 1 \in 1..Len(steps)
      BY <2>1, <3>1
    <3>3. steps # <<>> /\ ~request.stream
      BY <2>5, <3>2 DEF Sync
    <3>4. steps[1].provider = "ollama"
      BY <2>5, <3>2, <3>3, SyncRouted DEF Routed
    <3>5. QED  BY <3>2, <3>4 DEF RoutingInv
  <2>6. ASSUME Sync, config.mode = "cloud_first", "ollama" \in Contacted
        PROVE  Clouds \subseteq Contacted \/ CloudChains(request.model) = {<<>>}
    <3>1. PICK i \in 1..n : steps[i].provider = "ollama"
      BY <2>1, <2>6 DEF ProvidersOf
    <3>2. i \in 1..Len(steps) /\ steps # <<>> /\ ~request.stream
      BY <2>1, <2>6 DEF Sync
    <3>3. \/ CloudChains(request.model) = {<<>>}
          \/ Clouds \subseteq ProvidersOf(steps, i - 1)
      BY <2>6, <3>1, <3>2, SyncRouted DEF Routed
    <3>4. ProvidersOf(steps, i - 1) \subseteq ProvidersOf(steps, n)
      <4>1. 1..(i - 1) \subseteq 1..n
        BY <2>1
      <4>2. QED  BY <4>1 DEF ProvidersOf
    <3>5. QED  BY <2>1, <3>3, <3>4
  <2>7. QED  BY <2>3, <2>4, <2>5, <2>6 DEF ModeOrdersProviders
<1>2. QED  BY <1>1, RoutingInvariant, PTL

(* With the executor's three attempts, a request with a cloud chain is not *)
(* given up before all three clouds had their turn.                        *)
THEOREM GivenUpAfterTheClouds == MaxAttempts >= 3 => (RoutingSpec => []CloudsExhausted)
<1> SUFFICES ASSUME MaxAttempts >= 3 PROVE RoutingSpec => []CloudsExhausted
  OBVIOUS
<1>1. RoutingInv => CloudsExhausted
  <2> SUFFICES ASSUME RoutingInv, stage = "exhausted", request.model \in ChainKeys,
                      config.mode \in {"cloud_first", "cloud_only"}
               PROVE  Clouds \subseteq Contacted
    BY DEF CloudsExhausted
  <2>1. attempts # <<>> /\ Len(attempts) = Len(steps) /\ ~request.stream
    BY DEF RoutingInv
  <2>2. steps # <<>>
    <3>1. Len(attempts) # 0
      BY <2>1 DEF RoutingInv
    <3>2. QED  BY <2>1, <3>1
  <2>3. Len(steps) >= 3 /\ Clouds \subseteq ProvidersOf(steps, 3)
    BY <2>1, <2>2, SyncRouted DEF Routed
  <2>4. Contacted = ProvidersOf(steps, Len(steps)) /\ Len(steps) \in Nat
    BY <2>1, ContactedAre
  <2>5. ProvidersOf(steps, 3) \subseteq ProvidersOf(steps, Len(steps))
    <3>1. 1..3 \subseteq 1..Len(steps)
      BY <2>3, <2>4
    <3>2. QED  BY <3>1 DEF ProvidersOf
  <2>6. QED  BY <2>3, <2>4, <2>5
<1>2. QED  BY <1>1, RoutingInvariant, PTL

(* A request goes to the cloud it was admitted for before any other cloud  *)
(* sees it, whichever chain the lookup by prefix came upon; one admitted   *)
(* for Ollama reaches a cloud under cloud_only alone, and only the cloud   *)
(* that its name in lower case belongs to.                                 *)
THEOREM OwnersGoFirst == RoutingSpec => []OwnerGoesFirst
<1>1. RoutingInv => OwnerGoesFirst
  <2> DEFINE First(i) == /\ attempts[i].step.provider \in Clouds
                         /\ \A j \in 1..(i - 1) : attempts[j].step.provider \notin Clouds
             first == CHOOSE i \in 1..Len(attempts) : First(i)
             admitted == Detected(request.model, config.mode, config.ollama)
  <2> SUFFICES ASSUME RoutingInv, Sync, Contacted \cap Clouds # {}
               PROVE  IF admitted \in Clouds
                      THEN attempts[first].step.provider = admitted
                      ELSE /\ config.mode = "cloud_only" /\ Len(steps) = 1
                           /\ attempts[first].step.provider
                                = DetectProviderForModel(request.model)
    BY DEF OwnerGoesFirst
  <2> DEFINE n == Len(attempts)
  <2>1. /\ Contacted = ProvidersOf(steps, n) /\ n \in Nat /\ 1..n \subseteq 1..Len(steps)
        /\ steps # <<>>
    BY ContactedAre
  <2>2. ~request.stream
    BY DEF Sync
  <2>3. \A i \in 1..n : attempts[i].step = steps[i]
    BY DEF RoutingInv
  <2>4. PICK i \in 1..n : steps[i].provider \in Clouds
    BY <2>1 DEF ProvidersOf
  <2>5. PICK j \in 1..i : /\ steps[j].provider = Owner(request.model)
                          /\ \A h \in 1..(j - 1) : steps[h].provider \notin Clouds
    BY <2>1, <2>2, <2>4, SyncRouted DEF Routed
  <2>6. j \in 1..n /\ j \in 1..Len(steps)
    BY <2>1
  <2>7. request.model \in Models /\ config.mode # "local_only" /\ steps[j].provider \in Clouds
    <3>1. request.model \in Models /\ config.mode # "local_only"
      <4>1. "ollama" \notin Clouds
        BY DEF Clouds
      <4>2. QED  BY <2>1, <2>2, <2>4, <4>1, SyncRouted DEF Routed
    <3>2. steps[j] \in RoutedSteps
      BY <2>1, <2>2, <2>6, SyncRouted DEF Routed
    <3>3. steps[j].provider \in Clouds \cup {"ollama"}
      BY <3>2 DEF RoutedSteps
    <3>4. Owner(request.model) \in Clouds \cup {None}
      BY <3>1, Detections DEF Owner
    <3>5. QED  BY <2>5, <3>1, <3>3, <3>4 DEF None
  <2>8. First(j)
    <3>1. \A h \in 1..(j - 1) : h \in 1..n
      BY <2>1, <2>6
    <3>2. QED  BY <2>3, <2>5, <2>6, <2>7, <3>1
  <2>9. \A k \in 1..n : First(k) => k = j
    <3> SUFFICES ASSUME NEW k \in 1..n, First(k) PROVE k = j
      OBVIOUS
    <3>1. ~(k < j)
      <4>1. k < j => k \in 1..(j - 1)
        BY <2>6
      <4>2. QED  BY <2>8, <4>1
    <3>2. ~(j < k)
      <4>1. j < k => j \in 1..(k - 1)
        BY <2>6
      <4>2. QED  BY <2>8, <4>1
    <3>3. QED  BY <2>1, <2>6, <3>1, <3>2
  <2>10. first = j
    <3>1. first \in 1..n /\ First(first)
      BY <2>6, <2>8
    <3>2. QED  BY <2>9, <3>1
  <2>11. attempts[first].step.provider = Owner(request.model)
    BY <2>3, <2>5, <2>6, <2>10
  <2> HIDE DEF first
  <2>12. CASE Claimant(request.model) # None
    <3>1. Claimant(request.model) \in Clouds
      BY <2>7, <2>12, Detections
    <3>2. admitted = Claimant(request.model)
      BY <2>7, <2>12 DEF Detected
    <3>3. QED  BY <2>11, <2>12, <3>1, <3>2 DEF Owner
  <2>13. CASE Claimant(request.model) = None
    <3>1. admitted \notin Clouds
      BY <2>13 DEF Detected, Clouds, None
    <3>2. config.mode = "cloud_only" /\ Len(steps) = 1
      BY <2>1, <2>2, <2>4, <2>13, SyncRouted DEF Routed
    <3>3. Owner(request.model) = DetectProviderForModel(request.model)
      BY <2>13 DEF Owner
    <3>4. QED  BY <2>11, <3>1, <3>2, <3>3
  <2>14. QED  BY <2>12, <2>13
<1>2. QED  BY <1>1, RoutingInvariant, PTL
=============================================================================
