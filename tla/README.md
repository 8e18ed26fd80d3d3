# llm0-gateway in TLA+

A specification of the parts of llm0-gateway in which several actors move
shared state, or in which tables and modes decide together where a request
goes. TLC checks it on small instances; TLAPS proves what matters most for
every value of the constants. Every definition that stands for code is listed,
with the lines it stands for, under `map` in `PROJECT.json`; the hazards the
properties are aimed at are listed there too, each at its line.

## The system

A Go process (`cmd/gateway/main.go`), usually several replicas of it, between
clients and LLM providers. Redis holds counters and caches, Postgres holds
configuration, caches, and logs. Every HTTP request is a goroutine; what it
leaves for later (recording, logging, cache writes) are goroutines of their own
that nothing waits for.

| Component | State it keeps | Operations | Talks to |
|---|---|---|---|
| API key validation (`auth/`) | Redis `apikey:*` records with a TTL | validate a bearer token, middleware | Redis, Postgres |
| Chat handler (`handlers/chat.go`) | none between requests | rate limit, customer check, caches, spend check, provider call with failover, adjustment, cache store, background log and record | everything |
| Streaming handler (`handlers/chat_stream.go`, `streaming/`) | the collector of one stream | as above without customer check, failover and semantic lookup; relaying chunk by chunk; adjustment and storing detached from the stream | everything |
| Redis client (`shared/redis/client.go`) | Redis keys | token bucket, spend check, customer spend and request scripts, plain commands | Redis |
| Failover (`gateway/failover/`) | chain tables, the provider registry, both constant after start | build a chain for a model and a mode, try its steps, classify errors, log | providers |
| Customer limiter (`gateway/ratelimit/`) | Redis counters per customer and window | `Check` before, `RecordRequest` after a request | Redis, the limits cache, Postgres |
| Limits data access (`shared/database/customer_limits*.go`) | one in-memory cache per process | read through, upsert, delete, sweep | Postgres |
| Exact cache (`gateway/cache/exact_cache.go`) | Redis entry and Postgres row per key | get with promotion, set, invalidate | Redis, Postgres |
| Semantic cache (`gateway/cache/semantic_cache.go`) | Postgres rows with vectors | get by similarity, set, clean-up | Postgres, embedding service |
| Cost calculator (`gateway/cost/`) | price table | cost and estimate | Postgres at start |
| Providers (`gateway/providers/`) | the reader of one stream | complete, stream, claim a model name | the vendors |
| Workers (`gateway/workers/`) | none | monthly reset, clean-ups, reconciliation on schedules | Postgres, Redis |
| Start-up, configuration, TLS, pools, health and model listings, scripts | none | | |

## What is hard, and what would make it right

- **Several actors on one counter.** Every replica checks and moves the same
  Redis keys. A spend check and its increment are one script; a customer's check
  and its recording are a read before and several writes after the request.
- **Calls without a reply.** go-redis repeats a call that got no answer, and the
  callers fail open when the repeats are used up. A counter may have moved
  once, several times, or not at all.
- **Late corrections.** A reservation is an estimate. It is corrected after the
  provider's answer, maybe in another month, maybe never: the client leaves, the
  provider fails, the process stops.
- **Values read earlier.** Limits, keys and answers are cached; what is stored may
  have been read before the row it came from was replaced.
- **Three opinions on one route.** `detectProvider`, the chain tables and
  `detectProviderForModel` are separate tables of prefixes; a mode builds a chain
  that the executor then cuts.
- **Streams break anywhere.** Four readers turn four kinds of events into chunks; text,
  finish and counts come in any order, the client may leave, the provider may fail or
  fall silent, and what is billed and kept afterwards comes from what was collected.
- **Clocks.** Every process takes its own time for a rate limit, a key name or a
  deadline.

What each component must get right:

| Component | Correct means |
|---|---|
| Spend reservation and settlement | the counter stays within a cap that was checked; without faults it is exactly what requests booked; with them it drifts by a request's own attempts only; a closed month moves only by its own requests; every request ends |
| Token bucket | every window of grants is bounded by a full bucket and the refill, whatever order and clocks calls come with |
| Customer limiter | an overshoot is no more than the requests under way cost; counters that belong together agree after any break-off |
| Limits cache | staleness bounded by a lifetime; an upsert is seen by its own process |
| Failover executor | no provider twice, no retriable error ends the loop, the result tells what happened, it returns |
| Routing | each mode contacts the providers it promises, in the order it promises |
| Response caches | a hit belongs to the caller's project, route and prompt, and is no older than its lifetime |
| API key cache | a revoked key or an old cap is in force for a lifetime and one validation at most; a key is accepted with its own record, however overlapping validations store |
| Streams | the client is written the provider's pieces, in order, and one terminator; what is kept for others and what is billed is what this client was written and told |
| Workers | a monthly reset happens once for every month, also after downtime (false of the code, see the findings) |

All but the last are modelled.

## The modules

| Module | Models | State |
|---|---|---|
| `SpendLedger` | the monthly spend key of a project: `CheckSpendCap` and its script, the reservation in both handlers, the adjustment, disconnects, shutdown | the Redis keys by month; each request's stage, key, cap, estimate, bill and failed attempts |
| `SpendAccounting` | (extends `SpendLedger`) what the counter means in money; the refinement mapping | none |
| `SpendHolds` | abstract: a request books an amount in at most one month, within a cap | stage, month and amount per request |
| `FailoverChains` | the tables and functions of `failover/chains.go`, the providers' claims, `detectProvider` | none |
| `FailoverExecutor` | `Executor.Execute` with error classification | registry, steps, attempts, stage, result |
| `FailoverRouting` | (extends both) the handlers' way from a configuration to providers, blocking and streaming | configuration, request |
| `LimitCache` | `database/customer_limits*.go`: read-through, eviction, upsert, sweep, in every process | row, its history, entries, readers, writers, sweepers |
| `CustomerLimiter` | `Limiter.Check` and `RecordRequest`, the Redis counters under them | counters by period, each request's stage, clock |
| `TokenBucket` | `CheckRateLimit` and its script | bucket, each call's time, attempts and outcome |
| `ResponseCaches` | the exact and the semantic cache, looked up and stored to as both handlers do | both tiers by key, rows by prompt, each request's stage, key, route and answer |
| `StreamReaders` | what each provider's upstream may send, and the chunk its reader makes of it | none |
| `Streams` | (extends `StreamReaders`) the streaming handler's loop, the collector, the frames and `postStreamProcessing` | each request's stage, upstream, pending chunk, collector, frames, counts told and billed; the exact cache's entry |
| `StreamRelay` | abstract: pieces relayed in order, one terminator, only whole relays kept | pieces said, written and kept, how it closed |
| `KeyCache` | `ValidateAPIKey` in every gateway, the Redis records, the operators' changes | rows and their history, records, each validation's stage and what it read |
| `RedisCalls`, `Sums` | the repeats of a call without a reply; the sum of amounts over a finite set | none |
| `MC*` | definitions and symmetry for the configurations | |
| `*Proofs`, `SumTheorems` | theorems | |

### SpendLedger

A request goes `idle` → `reserve` → `calling` → `settle` → an end. `Arrive` fixes
the key, the estimate and the cap its cached API key carries, so two requests may
carry different caps. `Reserve` and `Settle` are a call whose reply arrives;
`ReserveNoReply` and `SettleNoReply` are one attempt without a reply, which Redis
ran or not. A model with no price makes the handler take the estimate for the
actual cost. `ClientLeaves` cancels what the handler does later on its context;
the adjustment of a stream has a context of its own and goes on. `GatewayDies`
ends a request wherever it is. An attempt that timed out is run by Redis before
the timeout or never; a command that a stalled Redis runs later than that is not
in the model. `MaxRetries` counts the repeats of one call, of `EvalSha` and of
the `Eval` that follows `NOSCRIPT` together. Amounts are integers; the code
adds floats, whose rounding is not modelled.

`SpendAccounting` defines what a request has booked, and maps the ledger to
`SpendHolds` by forgetting the counter: a ledger that implements the holds counts
nothing twice and nothing on another month.

### FailoverChains, FailoverExecutor, FailoverRouting

Models are their names: those of the tables and a few that clients send and the
tables do not have, one for each way of missing a table (a prefix of one entry,
of two, an owner without a chain, no owner, a table's name in capitals).
`CloudChains` is a set because Go ranges over the map in any order. The tables and
`ValidateModel` are case-sensitive and `detectProviderForModel` is not: `Claimant`
and `DetectProviderForModel` disagree on `MixedCaseModels`.

An error has a cause, which the executor does not see (an answer with a status, a failed
connection, something else; and whether the attempt's deadline passed), and a text, from
which it guesses. `Words` are the kinds of words in the text: those of the body, and
those that are numbers when a client wrote the status into the text. `Mentioned` is what
follows each "status " of it. The clients written in the repository put "(status N)"
there; the OpenAI library, which the Ollama client uses too, puts "status code: N", in
which `extractStatusCode` finds no number; then come the numbers that the body quotes.
`IsRetriable` reads these alone, and `TriggersHonoured` is about the causes: whatever
the texts say, no trigger of the documentation ends a request while steps are left.

`SkipStep`, `StepAnswers` and `StepFails` are one turn of the loop, and `Attempt` is such a
turn for a blocking request. `RouteSync` hands the executor the model's chain;
`RouteStream` opens one stream at the detected provider and has no failover. `OwnerGoesFirst`
says that the cloud for which a request was admitted sees it before any other; only one
that was admitted for Ollama under cloud_only can reach a cloud at all, the one that the
executor reads off the name.

### LimitCache

Each access to the `sync.Map` or the database is one step, so a reader can be
anywhere between the lookup, the deletion of an expired entry, the query and the
store. A version stands for a row or for its absence, which is cached too.
`CommitFails` is a statement that returns an error, committed or not;
`ScriptWrites` is `manage_limits.sh` or plain SQL. `QueryTime` bounds the time
from the database's answer to the end of the store: the code has no deadline of
its own there beyond the request's, so the bound is a parameter and what is
claimed depends on it.

### CustomerLimiter

`Snapshot` is the row and the one `MGET` of the standard counters; the model's and
the label's counters are read by later calls (`CheckModel`, `CheckLabel`).
`CheckFails` is the fail-open of the handler. Recording is four calls, each with
attempts; `Recorded` says what follows an attempt. Every call computes its keys
from its own time, so a recording may span a change of the day. Streams are
neither checked nor recorded. Redis does not lose keys here; their expiry is not
modelled, since a key is read only in the period it is named after.

### TokenBucket

Time is in milliseconds and the bucket in thousandths of a token, which makes the
script's arithmetic exact. A call takes its time when it is sent, from a clock
that may be off by a skew; Redis runs calls in any order. `Forget` is the expiry of
the key or the loss of Redis' data, at any moment. The remaining tokens and the
reset time that are only reported are left out. The definitions `BucketTypeOK`, `BucketInit`,
`BucketNext` and `BucketSpec` have names of their own because the proofs about both scripts
extend `SpendLedger` and `TokenBucket` in one module.

### ResponseCaches

A request looks under the route it asks for (`LookHot`, `LookWarm`, `Promote`,
`LookSemantic`) and stores under the route that answered (`Answer`, `StoreWarm`,
`StoreSemantic`). A key is a record, not a hash. An answer is named by the request that got it,
so a hit can be traced to what that request asked. `Upserted` and `Inserted` are the
two ON CONFLICT clauses. The semantic rows are never removed: the worker's statement
fails on a missing column, and `CleanupExpired` has no caller. Similarity is a
relation on prompts. A tick is long against calls to Redis, Postgres and the
embedding service, so only requests that wait for a provider let time pass. `faults`
says what may go wrong in a behaviour; of failed calls and ended requests there is one at
most.

### StreamReaders, Streams, StreamRelay

A request goes `idle` → `open` → `recv` and `chunk` in turn → `post` → `adjusted` →
`over`. `Sends` is what an upstream may send in its stage: Anthropic's typed events,
Gemini's payloads with counts so far, OpenAI's and Ollama's deltas without counts, since
the requests do not ask for any. `Recv` is the reader's conversion
(`convertEventToChunk`, `convertChunkToOpenAI`); an event of which no chunk is made
keeps the handler in `recv`, as the reader's loop does. Stage `cut` is a provider that
gave its answer up with an error event and then closed the body: the readers skip the
event, and to the handler the body has ended. `Break` is a transport error or a payload
that does not parse. Text is a number: the k-th piece the provider says. Counts are a
record or none: the `message_delta` of Anthropic may come without, and a Gemini payload
(`GeminiReports`) has a total that the provider has worked out, with `ThinkingTokens` in
it, and perhaps no count of the answer. `convertChunkToOpenAI` copies the three numbers
as they are, `convertEventToChunk` adds its two up. What a client is told therefore need
not add up, and `CountedOnce` does not say that it does.

A `client` reads, has stalled or is gone. `Stall` is a client that stays connected and
stops reading when a frame is due (`FrameDue`): the write that the handler is in does
not return, since its deadline was lifted, and none of the handler's steps is enabled
until the client leaves. `Close` is the end of the request's context, and `Abandon` the
handler's return without `postStreamProcessing`.

`Send` writes a chunk and collects it; `SendFails` needs a client that has left, but a write
after that may also still succeed into a buffer. `EndOfStream` completes the counts and writes
metadata and `[DONE]`, ignoring write errors. `RecvFails` has the three causes the handler
does not tell apart: the upstream, the request's context, and the `http.Client`'s timer, which
runs while the body is read. `ClientTimeout` gives it in units of sixty seconds: one for
Anthropic and Gemini, two for Ollama, none for OpenAI. `Adjust` and `Store` are the goroutine
that goes on after the handler has returned; each may fail. `Crash` is the end of the
process, after which its requests do nothing more. A request starts with its estimate
reserved, which is `SpendLedger`'s part, and the requests of an instance ask the same question,
so that one may be served what the other stored.

`StreamRelay` says what a stream promises without collectors, events or counts. `Streams`
maps to it by reading the text frames as pieces and the last frame as the way it closed;
`Relays` is the refinement, for every request at once.

### KeyCache

A version stands for the row of a key and of its project together: cap, limits,
settings, and whether both are active (`Revoked` are the versions in which one is not).
The record in Redis is under the key's hash; the query is by the key's prefix and takes
any one row that has it (`LIMIT 1`), so `Query` chooses a key of the same prefix and
`Verdict` compares the hash. `Hit`, `Miss`, `Query`, `Store` are one call each;
`StoreNoReply` is a store whose reply is lost and which the client repeats. `Patience`
is the middleware's timeout with what the bcrypt comparison, which no context ends,
takes beyond it. `Flush` is an operator's, or a loss of Redis' data. The gateways keep
nothing of their own: one that stops is a validation whose remaining calls fail. A
lifetime is positive: to the Redis client zero means no expiry, in `ResponseCaches` as
well as here.

## The checks

All runs use breadth-first search without constraints; deadlock is not checked,
because in every model the requests, the clock and the versions are finite and
the system stops when they are used up.

| Run | Shows | Bounds, and why they are enough |
|---|---|---|
| `SpendLedger_reliable` | `LedgerExact`, `OverspendBounded`, `ClosedMonthMovedByItsOwn`, `ImplementsHolds` | three requests over two months: two race at the cap while the third settles the month before; estimates below and above the bill; caps that fit one and two |
| `SpendLedger_faulty` | `TypeOK`, `SpendWithinCap`, `DriftBounded`, `EveryRequestEnds` | two requests, one repeat of each call, every fault |
| `SpendLedger_reconciled` | a violation of `Reconciled` | one request, no faults: its estimate fits the cap and its bill does not |
| `FailoverExecutor_loop` | `TypeOK`, `NoProviderTwice`, `TriggersHonoured`, `GivesUpLast`, `ResultTellsAttempts` | chains of one, three and four steps and none against a limit of three; registries with gaps; answers of retriable and other statuses, failed connections, deadlines and other errors, with bodies that say nothing, hold a word or quote another code |
| `FailoverRouting_modes` | `RoutingTypeOK`, `ModeOrdersProviders`, `CloudsExhausted`, `OwnerGoesFirst`, `EveryRequestReturns` | every model, mode and Ollama setting: the tables are finite, so nothing is left out but further names; one name in capitals for each cloud |
| `LimitCache_bounded` | `StalenessBounded`, `InvalidationTakesEffect`, `TypeOK` | two processes, two readers, one writer, three versions, a clock past TTL and query: a fill can overlap an upsert, an eviction and a second fill |
| `CustomerLimiter_counters` | `OvershootBounded`, `MonthIsItsDays`, `RecordedAsPrefix`, `TypeOK` | two requests, two days of one month, limits of a day and a month that the second request passes, one repeat |
| `ResponseCaches_hits` | `HitBelongsToAsker`, `LifetimeBounded`, `RepeatsServed`, `TypeOK` | three requests, one of them a stream, two projects, routes and similar prompts: a row, its conflict and a lookup between or after them (every two prompts are similar: that a hit needs similarity is shown by the proof alone); a promotion longer than a lifetime and a clock past both |
| `TokenBucket_window` | `WindowBounded` | four calls on a bucket of two, half-second steps and a skew of half a second, one repeat: the bucket empties, goes below zero and refills |
| `TokenBucket_per_minute` | a violation of `PerMinuteRate` | a limit of one, three calls |
| `Streams_relay` | `TypeOK`, `KeptWasRelayed`, `OneTerminator`, `BilledAsTold`, `CountedOnce`, `Relays`, `TimedStreamsEnd` | two requests for one question, any of the four providers, answers of up to two pieces: text before, between and after counts, a first, a next and a last chunk, and a second request that comes before or after the first has stored; reports with and without a count of the answer, totals with thinking tokens; clients that leave or stop reading; sizes at which guesses and reports differ |
| `KeyCache_records` | `OldRecordsEnd`, `OwnRecordOnly`, `RefusalsAreCurrent` | two keys of one prefix, two validations, a lifetime of two, a patience of one, two changes of each row (one revokes), a clock past lifetime and patience: a store may overlap a change, a flush, another store and a lapse |

The type invariants of `TokenBucket` and `KeyCache` are proved and not part of a run;
nor is `StreamsInv` or any other strengthening.

### Fairness

`SpendLedger`, `FailoverRouting` and `Streams` state fairness, each for steps
that the code bounds in time. A Redis call has a read timeout and a bounded
number of repeats; an attempt of the executor has a deadline of sixty seconds
(`attemptRequest`), so `Attempt`, which belongs to blocking requests alone, is weakly fair.
A stream is different: the handler lifts the server's write deadline
(`chat_stream.go:31`), the writer sets none (`sse.go:27`) and the loop has none; the clients of
Anthropic, Gemini and Ollama have a timeout for the whole body, which interrupts a
read and not a write, and OpenAI's has none. `RoutingFairSpec` and the `FairSpec` of
`SpendLedger` therefore assume nothing of any stream, and `EveryRequestReturns` and
`EveryRequestEnds` have the open stream as their exception.

`Streams` shows where the difference comes from. Its `FairSpec` is fair to the passing
of time and to the steps by which the loop goes on or returns, but a stalled client
disables these steps, so it says nothing of a write to such a client; it assumes nothing
of providers, which may say nothing for ever, or of clients, which may stay, or stall
and stay. `TimedStreamsEnd` follows for the providers whose client has a timer: the
handler returns unless its client has stopped reading. It says nothing of OpenAI's.
Nothing else is fair: no client has to come, no month has to pass.

## The findings

| Where | What the documentation says | What the run shows |
|---|---|---|
| `handlers/chat.go:411` | `README.md:910`: the difference is reconciled against the spend counters | the adjustment goes through the cap's script, can be refused, and the refusal is ignored: the counter ends below the bill |
| `handlers/chat.go:198` | `README.md:187`: a per-minute rate | the script refills per second, so the sustained rate is sixty times the limit |

Seen while modelling, without a run of their own. About routes, limits and caches:

- The chain of cloud_first has four steps and is cut to three (`failover/executor.go:82`):
  Ollama, the last-resort fallback of `README.md:97` and `README.md:645`, is never tried.
- A reader that queried before an upsert stores the old row after the invalidation
  (`database/customer_limits.go:64`), against "the very next Check() sees the fresh value"
  (`customer_limits.go:104`). `StalenessBounded` is what holds.
- The query of a customer's limits selects `label_limits`
  (`database/customer_limits.go:35`), which `schema.sql:160` does not create: every
  lookup fails and the handler fails open, against `README.md:741`. `CustomerLimiter`
  models the code on a schema that has the column.
- Streams are not checked against customer limits (`chat_stream.go` never calls the
  limiter), against `README.md:741`.
- `warn` blocks like `block`: `models/customer_limits.go:23` against
  `limiter.go:187`. `ShouldDegrade` is set and read by nobody, against
  `README.md:796`.
- After a failover the counter of the final model moves (`chat.go:454`), while the
  requested model's was checked.
- A new model of a known vendor has no chain (`chains.go:260`), against
  `README.md:488`.
- cloud_only streams may come from Ollama (`chat.go:137` against `README.md:100`), and
  local_first streams go to a cloud first (`chat_stream.go:174` against
  `README.md:98`).
- A 400 whose text says "invalid" is retried (`executor.go:282` against the comment at
  `executor.go:129`). So is every 4xx that the OpenAI library or Ollama's client
  reports: in "status code: N" `extractStatusCode` finds no number, and an error without
  one is retriable.
- A model's name in capitals has no chain and no claimant. Under cloud_only with Ollama
  configured, "GPT-4o" is admitted for Ollama (`chat.go:137`), reserved at Ollama's price, and
  then sent to OpenAI, which the executor detects in any case (`executor.go:305`).
- The clean-up of the semantic cache uses a column `ttl_seconds` that its table does
  not have (`workers/cache_cleanup.go:53`).
- A row found in the warm tier is put into Redis for a fixed hour
  (`exact_cache.go:73`). An upsert extends a row and keeps its old answer
  (`exact_cache.go:179`), so an expired answer comes back into force when a newer one is stored:
  what has a lifetime is the entry, not the answer (`README.md:573`).
- A request that failed over is stored under the final route and looked up under the requested
  one: its repeat goes to the providers again, against `README.md:126`.
- A row of the semantic cache is unique by the prompt alone (`semantic_cache.go:175`), and since
  the clean-up fails, an expired one blocks its prompt for every project for good.
- The semantic cache embeds the last user message (`semantic_cache.go:62`) against "the first"
  at `README.md:128`, and ignores what was said before it; the threshold is fixed
  (`chat.go:92`) against `README.md:676`.
- A hit does not write the warm row again, against the comment at `exact_cache.go:95`.

About streams:

- The timers of `anthropic.go:130`, `gemini.go:104` and `ollama.go:30` are those of an
  `http.Client` and cover the body: an answer that streams longer is cut and ends in an
  error frame, against `README.md:183` and the comment at `chat_stream.go:24`, which lifts
  the server's own deadline for the sake of such answers.
- A provider's error in the middle of an answer is skipped (`anthropic.go:486`; a Gemini error
  payload becomes an empty chunk), and the end of the body that follows is taken for "Stream
  completed successfully" (`chat_stream.go:218`): a part of an answer is closed with `[DONE]`,
  billed and cached. `KeptWasRelayed` is what holds: no more and no less than was written
  is kept.
- A client that stays connected and stops reading holds its handler, and the provider's
  connection, for as long as it likes: the write deadline is lifted (`chat_stream.go:31`),
  and the upstream timer does not interrupt a write.
- Gemini's total is copied (`gemini.go:413`) and counts thinking, which the answer's count does
  not; a total without a count of the answer stays while the completion is guessed
  (`collector.go:57`). The counts a client is told need not add up.
- Anthropic's closing event may carry no input tokens; the prompt's count is then replaced by
  zero (`collector.go:46`), though the opening event reported it.
- A stream looks into the exact cache alone, against the semantic hits of `README.md:181`.

About keys:

- A record is cached for its lifetime and nothing invalidates it, against "Takes effect
  immediately" (`manage_limits.sh:129`) and `README.md:845`; `README.md:573` says so itself.
  `OldRecordsEnd` is what holds. The flush that `README.md:692` recommends can be undone
  by a validation that queried before the change.
- The prefix of a key is not unique (`schema.sql:58`) and the query takes one row
  (`validator.go:77`): of two keys that share it, one may be refused on every miss.
- A failure of the database is answered like a wrong key, 401 (`middleware.go:59`).

About the workers, which are not modelled:

- `spend-reset` waits for the next month when it starts after the first
  (`scheduler.go:174`), against the catch-up of `README.md:214`, `README.md:832` and
  `README.md:885`. What it resets, `current_month_spend_usd`, nothing writes, and the
  sum it logs is taken from the new values and is always zero (`maintenance.go:68`).

## The proofs

TLAPS checks every proof to its leaves. The assumptions are the modules'
named ASSUMEs: amounts and times are natural numbers, limits and lifetimes are positive, an answer has
some cost and models are finitely many (the price table is), a
chain names a provider once, and the steps of the tables are among the executor's (they do
and they are; `FailoverRouting_modes` evaluates both on all of them). A theorem that needs
more says so in its statement: `"redis" \notin Faults` is a Redis that answers every call,
while clients, providers and the process still fail; `MaxAttempts >= 3` holds of the code,
where it is three (`failover/executor.go:28`).

- **`SumTheorems`.** The ledgers are about sums over sets of any size: the requests of a
  month, the days of a month, the requests that overlapped. The library's sum is a CHOOSE
  over functions on the subsets of the set. `SolvedOnce` shows that on a finite set there
  is one such function, by `SubsetInduction`, which takes the well-foundedness of strict
  subsets for a set of cases instead of the library's induction over a predicate, and
  `SumTakesAny` that it may take the elements in any order. `SumMovesOrJoins` is what the
  ledgers cite: how a sum changes when one element changes or is added.
- **`RedisScriptsProofs`, the spend counter.** `TypeCorrect`; `CapRespected`, that
  `SpendWithinCap` holds for any number of requests, caps, months and retries and under
  every fault; and `ClosedMonths`, the action property. `SpendWithinCap` is inductive
  together with the types: the script moves a key only to a value that fits the caller's
  cap, and the caller is itself a witness for the month it moves. It holds across the
  fail-open because failing open moves nothing. The ledger's properties need more, which
  is `Ordered`: what a request carries agrees with its stage, it repeats only the call it
  is in, and each month has finitely many requests. Together with it `LedgerExact` is
  inductive: every step moves the counter by what it moves the bookings of one request
  (`BookedAsPosted`). `OverspendIsBounded` follows from it and `SpendWithinCap`, since a
  bill is booked but for its unbooked part. `DriftIsBounded` needs no reliable Redis: a
  step moves the counter between the changes of its request's least and most
  (`HoldDrifts`, `AdjustmentDrifts`), and a new stage begins where the attempts of the
  last one ended. `HoldsImplemented` is the refinement: the initial states map to those
  of `SpendHolds`, and `HoldsStep` maps every step to one of its steps or a stutter; that
  a booking fits the cap in the abstract, where there is no counter, is `LedgerExact`.
- **`RedisScriptsProofs`, the token bucket.** `WindowBounded` speaks of past grants, and
  the next grant depends on the tokens that are left. `BucketPays` adds them: what was
  granted since any grant, and what is left now, was in a full bucket then or was refilled
  since. It survives calls whose clock runs behind, because the script takes the tokens of
  the time that went back away again. `EveryWindowBounded` follows for every rate, skew
  and number of calls.
- **`FailoverProofs`.** The properties of the executor say little about a loop that is
  half done, so they are not inductive. `LoopInv` adds that the steps are those of a
  chain that names a provider once, that the attempts are a prefix of them, skipped
  exactly when a provider is missing, that the stage agrees with their number, and
  that the result's count is the number of attempts that were offered.
  `OfferedOnce`, `LateEnds` and `ResultIsTrue` follow from it, and so does
  `EarlyEnds`, with a lemma about the texts: an error whose cause is a trigger is taken for
  retriable whichever words and codes surround it (`TriggersRetriable`).
  About the routes, `Routed` says what the steps of a blocking request are for each mode:
  where Ollama may stand, that all three clouds are among the first three steps of a model
  with a chain, and that the first cloud is the one it was admitted for, or, admitted for
  Ollama under cloud_only, the one the executor detects (`Detections`). `ChainsRouted` and
  `TruncatedRouted` prove it of every model, prefix match, mode and Ollama setting.
  `RoutingInv` adds that the attempts are a prefix of such steps in which nothing is
  skipped, since every step of these chains is registered (`StepsRegistered`).
  `ModesKeepTheirPromise`, `GivenUpAfterTheClouds` and `OwnersGoFirst` follow.
- **`LimitCacheProofs`.** Staleness grows with the clock, so `StalenessBounded` is not
  inductive. `GivenUpInTime` bounds instead the moment until which an old value may be
  served: an entry expires at most `QueryTime + TTL` after its version was replaced, and
  a reader's deadline is at most `QueryTime` after that. `StaleReadsBounded` follows.
  `StoredSince` says of a process whose upsert has returned that what its cache holds of
  earlier versions, live or expired, was stored after the return, which a later tick or
  a late reader's fill cannot undo; `UpsertsTakeEffect` follows.
- **`KeyCacheProofs`.** `OldRecordsEnd` is about ages, which grow by themselves, and
  `RefusalsAreCurrent` about outcomes. What the steps keep is when a validation
  began: what it has read from the database was in force at some moment since
  (`ReadSinceBegun`), and is stored, if at all, before its patience is over, so that a
  record expires at most a lifetime and a patience after it was replaced
  (`GivenUpInTime`).
- **`ResponseCachesProofs`.** `CachesInv`: an answer, once stored, is never asked or
  routed anew, so what is under its key stays what belongs there; what sits in a tier
  expires within a lifetime of some answer stored under its key, a promoted entry
  because its row was live when it was promoted; and what a request has found is what
  it asked for. `HitsBelong` and `LifetimesEnd` follow for any requests, projects,
  similarity and faults. `KeptInv` follows an answer, as long as nothing has failed,
  from Redis to Postgres: until its goroutine has written the row it is in Redis, or
  an older row is live from which a promotion overwrote it; afterwards the row lasts
  its lifetime; and a lookup that found nothing in one of them goes on while the other
  still answers. `RepeatsAreServed` follows, also for promotions shorter than the
  lifetime, which the run's constants do not have.
- **`CustomerLimiterProofs`.** `TypeCorrect`, with the lemma that every key the limiter
  computes names a period of the clock (`PeriodsAreTicks`). `MonthsAreTheirDays`: one
  pipeline moves both, and a day lies in one month because a month's length is a multiple
  of a day's (`DayInOneMonth`). `RecordedAsPrefix` is not inductive: a request whose spend
  is recorded may still count, and one that lost a reply may count again. `Prefix` adds to
  what is counted the attempts that are still to come; then a step takes from the one what
  it adds to the other. `OvershootBounded` charges a request all its attempts from the
  start, and so says nothing about how much it may still add. `Overshoot` charges it what
  it has put there so far, and `Overlaps` says who may still put something on a period's
  key: who has yet to record is among those that overlap the current period, and who
  repeats a call among those of the period the call names.
- **`StreamsProofs`.** `SendsSuit` and `RecvCarries` say what every reader gets and
  passes on. `StreamsInv` adds to the properties how they come about: until the end the
  frames are the collector's text; the last report of counts is in the collector or in
  the chunk that waits; from the end on, the collector and the counts told agree, and
  these are the last report's, with a missing completion guessed and a missing total
  summed. `KeptCorrectly`, `EndedCorrectly`, `CountedCorrectly` and `BilledCorrectly`
  follow for any number of requests, answers of any length and any sizes.
  `NoneAssumption` says that the value that stands for nothing is neither a chunk nor a
  count. `PiecesInOrder` adds `InOrder`: the collector's text is every piece the
  provider has said, but for the one in the waiting chunk. `View` says what a relay sees
  of the frames, and with both `StreamsRelay` maps every step to a step of `StreamRelay`
  or to a stutter (`Relays`).

Only model-checked:

- every liveness property (`EveryRequestEnds`, `EveryRequestReturns`,
  `TimedStreamsEnd`): fairness is out of the prover's reach.

## Not modelled

- **Workers.** The hourly clean-up of `exact_cache` is an action of `ResponseCaches`, and
  the reconciliation job only reads and logs. The monthly, weekly and daily loops are
  sequential: each sleeps to an hour and runs one statement, and the columns the reset
  writes are read by nothing that decides. Their one hazard, the hour that a stopped
  process misses, goes wrong in the code without any interleaving, and is described
  above.
- **Cost calculator.** Arithmetic over a table read at start. `SpendLedger` takes any
  estimate and any bill; `Streams` ends where the counts are priced.
- **Wire formats** of requests and blocking answers, and the JSON of server-sent events.
- **The whole pipeline in one state space.** What one stage hands the next is a
  parameter of the next module: the cap a validated key carries, the route that
  answered, the counts of a stream. The modules agree on these by their types only.
- **Wiring.** Start-up, TLS, pools, the failover log, model and health listings, and the
  scripts, whose effects appear as actions (`ScriptWrites`, `Change`, `Flush`).

The components' status and reasons are under `components` in `PROJECT.json`.

## Plan

What would come next, in this order:

1. `SpendLedger` composed with `KeyCache`, so that the caps requests carry are those a
   validation has returned, and the overspend after a cap was lowered is bounded by
   `OldRecordsEnd`.
2. `Streams` composed with `SpendLedger`, so that bills are those of `BilledAsTold`.
3. Real time in the executor: attempts against the server's write deadline
   (`main.go:173`), which one answer may outlast.

The runs are kept to one for each distinct question; when a module is added, the question
a run asks is joined to the run of the same state space wherever it has one.
