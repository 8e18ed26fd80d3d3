--------------------------- MODULE ResponseCaches ---------------------------
(***************************************************************************)
(* The caches of answers as the two handlers use them.  The exact cache    *)
(* has a hot tier in Redis and a warm one in Postgres, under a key of      *)
(* project, route (provider and model) and conversation; the semantic      *)
(* cache has one row per prompt, the last user message of a conversation.  *)
(* A request looks under the route it asks for and stores under the route  *)
(* that answered.  An answer is named by the request that got it from a    *)
(* provider.  All projects here have both caches switched on.              *)
(***************************************************************************)
EXTENDS Integers, FiniteSets

CONSTANTS
    Requests,
    Streams,         \* those with req.Stream
    NoRequest,
    Projects,
    Routes,          \* pairs of a provider and a model
    Conversations,   \* values of req.Messages
    Prompts,
    LastUser,        \* normalizePrompt: the prompt of a conversation
    NoPrompt,        \* of one without a user message
    NoKey,
    Similar,         \* pairs of prompts closer than the threshold
    TTL,             \* cacheTTL
    SemanticTTL,     \* sc.ttl
    Promotion,       \* the hour of a promoted entry
    FaultSets,       \* sets of "failover", "evict" and "fail" that may occur
    MaxTime          \* bound: the clock

ASSUME TimesAssumption ==
    TTL \in Nat \ {0} /\ SemanticTTL \in Nat /\ Promotion \in Nat \ {0} /\ MaxTime \in Nat
ASSUME PromptsAssumption ==
    /\ LastUser \in [Conversations -> Prompts \cup {NoPrompt}]
    /\ \A p \in Prompts : <<p, p>> \in Similar

Keys == [project : Projects, route : Routes, messages : Conversations]

ASSUME StreamsAssumption == Streams \subseteq Requests
ASSUME NamesAssumption ==
    NoRequest \notin Requests /\ NoPrompt \notin Prompts /\ NoKey \notin Keys \cup Routes

VARIABLES
    now,
    faults,      \* what may go wrong in this behaviour
    failed,      \* whether a call or a request has, at most one does
    hot,         \* Redis: cache:exact:{key}
    warm,        \* exact_cache by cache_key
    rows,        \* semantic_cache by cache_key
    stage,       \* where each request is
    key,         \* the key it looks under, NoKey before it arrives
    route,       \* the route that answered it, NoKey before
    served,      \* the answer it found in a cache
    writing,     \* requests whose goroutine in Set is to write the warm tier
    stored,      \* for the properties: when it stored its answer, -1 before,
    earlier      \* and the requests whose answer it must find

vars == <<now, faults, failed, hot, warm, rows, stage, key, route, served, writing,
          stored, earlier>>
caches == <<hot, warm, rows>>
asked == <<key, earlier>>

Entries(life) == [by : Requests \cup {NoRequest}, expires : 0..(MaxTime + life)]
Nothing == [by |-> NoRequest, expires |-> 0]
Longest == IF TTL > Promotion THEN TTL ELSE Promotion
Over == {"exactHit", "semanticHit", "done", "ended"}
Stages == {"idle", "warm", "promote", "semantic", "calling", "storeSemantic"} \cup Over

TypeOK ==
    /\ now \in 0..MaxTime
    /\ faults \in FaultSets
    /\ failed \in BOOLEAN
    /\ hot \in [Keys -> Entries(Longest)]
    /\ warm \in [Keys -> Entries(TTL)]
    /\ rows \in [Prompts -> Entries(SemanticTTL)]
    /\ stage \in [Requests -> Stages]
    /\ key \in [Requests -> Keys \cup {NoKey}]
    /\ route \in [Requests -> Routes \cup {NoKey}]
    /\ served \in [Requests -> Requests \cup {NoRequest}]
    /\ writing \subseteq Requests
    /\ stored \in [Requests -> -1..MaxTime]
    /\ earlier \in [Requests -> SUBSET Requests]

Init ==
    /\ now = 0
    /\ faults \in FaultSets
    /\ failed = FALSE
    /\ hot = [k \in Keys |-> Nothing]
    /\ warm = [k \in Keys |-> Nothing]
    /\ rows = [p \in Prompts |-> Nothing]
    /\ stage = [r \in Requests |-> "idle"]
    /\ key = [r \in Requests |-> NoKey]
    /\ route = [r \in Requests |-> NoKey]
    /\ served = [r \in Requests |-> NoRequest]
    /\ writing = {}
    /\ stored = [r \in Requests |-> -1]
    /\ earlier = [r \in Requests |-> {}]

-----------------------------------------------------------------------------
Live(entry) == now < entry.expires
Works == UNCHANGED failed
Fails == "fail" \in faults /\ ~failed /\ failed' = TRUE

(* A variant of StoreKey that keeps the key of the lookup.                 *)
StoreKeyAsked(k, rt) == k

(* The key of the answer of route rt to a request that asked with key k.   *)
StoreKey(k, rt) == [k EXCEPT !.route = rt]
Prompt(r) == LastUser[key[r].messages]

Goes(r, next) == stage' = [stage EXCEPT ![r] = next]

(* For the properties: what the answer of q is an answer to.               *)
AnswerKey(q) == [project |-> key[q].project, route |-> route[q], messages |-> key[q].messages]

(* For the properties: requests whose answer is where one with key k that  *)
(* comes now must find it: in Postgres, when Redis may lose it.            *)
Findable(k) ==
    {q \in Requests : /\ stage[q] = "done" /\ AnswerKey(q) = k
                      /\ "evict" \in faults => q \notin writing}

(* CacheKey and the lookup in Redis, where no entry and no reply are the   *)
(* same; a hit ends the request.                                           *)
LookHot(r) ==
    /\ stage[r] = "idle"
    /\ \E k \in Keys :
          /\ key' = [key EXCEPT ![r] = k]
          /\ earlier' = [earlier EXCEPT ![r] = Findable(k)]
          /\ \/ /\ Works /\ Live(hot[k])
                /\ served' = [served EXCEPT ![r] = hot[k].by]
                /\ Goes(r, "exactHit")
             \/ /\ (Works /\ ~Live(hot[k])) \/ Fails
                /\ Goes(r, "warm")
                /\ UNCHANGED served
    /\ UNCHANGED <<now, faults, caches, route, writing, stored>>

(* A variant of Unexpired that finds every row.                            *)
UnexpiredAnyway(entry) == entry # Nothing

Unexpired(entry) == Live(entry)

(* Streams have no semantic lookup.                                        *)
LookWarm(r) ==
    /\ stage[r] = "warm"
    /\ \/ /\ Works /\ Unexpired(warm[key[r]])
          /\ served' = [served EXCEPT ![r] = warm[key[r]].by]
          /\ Goes(r, "promote")
       \/ /\ (Works /\ ~Unexpired(warm[key[r]])) \/ Fails
          /\ Goes(r, IF r \in Streams THEN "calling" ELSE "semantic")
          /\ UNCHANGED served
    /\ UNCHANGED <<now, faults, caches, asked, route, writing, stored>>

Promote(r) ==
    /\ stage[r] = "promote"
    /\ \/ Works /\ hot' = [hot EXCEPT ![key[r]] = [by |-> served[r], expires |-> now + Promotion]]
       \/ Fails /\ UNCHANGED hot
    /\ Goes(r, "exactHit")
    /\ UNCHANGED <<now, faults, warm, rows, asked, route, served, writing, stored>>

(* The rows a lookup of r may find, the identical prompt before the others. *)
Matches(r) ==
    LET near == {p \in Prompts :
                    /\ Live(rows[p]) /\ <<p, Prompt(r)>> \in Similar
                    /\ key[rows[p].by].project = key[r].project
                    /\ route[rows[p].by] = key[r].route}
    IN  IF Prompt(r) \in near THEN {Prompt(r)} ELSE near

LookSemantic(r) ==
    /\ stage[r] = "semantic"
    /\ \/ /\ Works
          /\ \E p \in Matches(r) : served' = [served EXCEPT ![r] = rows[p].by]
          /\ Goes(r, "semanticHit")
       \/ /\ (Works /\ Matches(r) = {}) \/ Fails
          /\ Goes(r, "calling")
          /\ UNCHANGED served
    /\ UNCHANGED <<now, faults, caches, asked, route, writing, stored>>

(* A provider has answered: of a blocking request maybe another than was   *)
(* asked, with another model.  Set writes Redis at once and leaves Postgres *)
(* to a goroutine.                                                         *)
Answer(r) ==
    /\ stage[r] = "calling"
    /\ \E rt \in Routes :
          /\ rt = key[r].route \/ ("failover" \in faults /\ r \notin Streams)
          /\ route' = [route EXCEPT ![r] = rt]
          /\ \/ /\ Works
                /\ hot' = [hot EXCEPT ![StoreKey(key[r], rt)] = [by |-> r, expires |-> now + TTL]]
             \/ Fails /\ UNCHANGED hot
    /\ writing' = writing \cup {r}
    /\ stored' = [stored EXCEPT ![r] = now]
    /\ Goes(r, "storeSemantic")
    /\ UNCHANGED <<now, faults, warm, rows, asked, served>>

(* A variant of Upserted that leaves a row that is there alone.            *)
UpsertedNever(entry, r) ==
    IF entry = Nothing THEN [by |-> r, expires |-> now + TTL] ELSE entry

(* A variant of Upserted that adds to the life of the row.                 *)
UpsertedLonger(entry, r) ==
    [by |-> IF entry = Nothing THEN r ELSE entry.by,
     expires |-> IF entry = Nothing THEN now + TTL ELSE entry.expires + TTL]

(* A row that is there, expired or not, keeps its answer.                  *)
Upserted(entry, r) ==
    [by |-> IF entry = Nothing THEN r ELSE entry.by, expires |-> now + TTL]

StoreWarm(r) ==
    /\ r \in writing
    /\ writing' = writing \ {r}
    /\ \/ Works /\ warm' = [warm EXCEPT ![StoreKey(key[r], route[r])] = Upserted(@, r)]
       \/ Fails /\ UNCHANGED warm
    /\ UNCHANGED <<now, faults, hot, rows, stage, asked, route, served, stored>>

(* A row that is there, of whatever project and route, expired or not,     *)
(* stays as it is.                                                         *)
Inserted(entry, r) ==
    IF entry = Nothing THEN [by |-> r, expires |-> now + SemanticTTL] ELSE entry

StoreSemantic(r) ==
    /\ stage[r] = "storeSemantic"
    /\ \/ /\ Works /\ Prompt(r) # NoPrompt
          /\ rows' = [rows EXCEPT ![Prompt(r)] = Inserted(@, r)]
       \/ ((Works /\ Prompt(r) = NoPrompt) \/ Fails) /\ UNCHANGED rows
    /\ Goes(r, "done")
    /\ UNCHANGED <<now, faults, hot, warm, asked, route, served, writing, stored>>

-----------------------------------------------------------------------------
(* The spend cap, no provider that answers, a client that leaves, or the   *)
(* end of the process.                                                     *)
End(r) ==
    /\ Fails
    /\ stage[r] \notin {"idle"} \cup Over
    /\ Goes(r, "ended")
    /\ UNCHANGED <<now, faults, caches, asked, route, served, writing, stored>>

(* Redis evicts or loses an entry.                                         *)
Evict(k) ==
    /\ "evict" \in faults
    /\ hot[k] # Nothing
    /\ hot' = [hot EXCEPT ![k] = Nothing]
    /\ UNCHANGED <<now, faults, failed, warm, rows, stage, asked, route, served, writing, stored>>

(* The hourly clean-up of the warm tier.  That of semantic_cache fails,    *)
(* because it names a column that is not there.                            *)
Clean ==
    /\ \E k \in Keys : warm[k] # Nothing /\ warm[k].expires < now
    /\ warm' = [k \in Keys |-> IF warm[k].expires < now THEN Nothing ELSE warm[k]]
    /\ UNCHANGED <<now, faults, failed, hot, rows, stage, asked, route, served, writing, stored>>

(* A tick is long against calls to Redis, Postgres and the embedding       *)
(* service; only an answer may take as long.                               *)
Tick ==
    /\ now < MaxTime
    /\ writing = {}
    /\ \A r \in Requests : stage[r] \in {"idle", "calling"} \cup Over
    /\ now' = now + 1
    /\ UNCHANGED <<faults, failed, caches, stage, asked, route, served, writing, stored>>

Next ==
    \/ \E r \in Requests :
          \/ LookHot(r) \/ LookWarm(r) \/ Promote(r) \/ LookSemantic(r)
          \/ Answer(r) \/ StoreWarm(r) \/ StoreSemantic(r) \/ End(r)
    \/ \E k \in Keys : Evict(k)
    \/ Clean
    \/ Tick

Spec == Init /\ [][Next]_vars

-----------------------------------------------------------------------------
(* A hit gives an answer of the asker's project and of the provider and    *)
(* model it asked for, to the very conversation or, semantically, to a     *)
(* similar prompt; also after a failover, two tiers and a row per prompt   *)
(* that all projects share (chat.go:285 and :420, exact_cache.go:32,       *)
(* semantic_cache.go:97).                                                  *)
HitBelongsToAsker ==
    \A r \in Requests :
        LET q == served[r]
        IN  /\ stage[r] = "exactHit" => AnswerKey(q) = key[r]
            /\ stage[r] = "semanticHit" =>
                   /\ key[q].project = key[r].project
                   /\ route[q] = key[r].route
                   /\ <<Prompt(q), Prompt(r)>> \in Similar

(* No entry of either tier outlives the last answer that was stored under  *)
(* its key by more than the lifetime and, in Redis, one promotion, however *)
(* often it is promoted (exact_cache.go:73).                               *)
LifetimeBounded ==
    \A k \in Keys :
        LET Until(entry, life) ==
                Live(entry) =>
                    \E q \in Requests :
                        /\ stored[q] >= 0 /\ AnswerKey(q) = k
                        /\ entry.expires <= stored[q] + life
        IN  Until(hot[k], TTL + Promotion) /\ Until(warm[k], TTL)

(* A request for which an answer was stored, and is in its lifetime, does  *)
(* not go to a provider: not while the warm tier is written, if Redis      *)
(* keeps its entries, and not when Redis loses them, once it is; unless a  *)
(* call to either fails (README.md:126, exact_cache.go:84).                *)
RepeatsServed ==
    ~failed =>
        \A r \in Requests : \A q \in earlier[r] :
            stage[r] = "calling" => now >= stored[q] + TTL
=============================================================================
