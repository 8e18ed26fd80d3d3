----------------------------- MODULE LimitCache -----------------------------
(***************************************************************************)
(* The in-memory cache of customer limits that every gateway process keeps *)
(* in front of Postgres: read-through with a time to live, invalidated by  *)
(* the process that writes, swept in the background.                       *)
(*                                                                         *)
(* One key (a project and a customer) is enough: entries of different keys *)
(* never meet.  A value is the number of the write that made it current in *)
(* the database; "no row", which is cached too, is a value like the others.*)
(* Each call to the database or to the sync.Map is one step.               *)
(***************************************************************************)
EXTENDS Integers

CONSTANTS
    Gateways,      \* processes, each with its own cache
    Readers,       \* goroutines in GetCustomerLimit
    Writers,       \* goroutines in UpsertCustomerLimit or DeleteCustomerLimit
    TTL,           \* db.limitCache.ttl
    QueryTime,     \* bound: from the database's answer to the end of the store
    LastVersion,   \* bound: writes to the row
    MaxTime        \* bound: the clock

ASSUME TimesAssumption == TTL \in Nat /\ QueryTime \in Nat /\ MaxTime \in Nat
ASSUME VersionsAssumption == LastVersion \in Nat

VARIABLES
    now,
    db,           \* the version in customer_limits
    replaced,     \* when each earlier version was replaced
    held,         \* the version in each process's cache, or Absent
    expires,      \* expiresAt of that entry
    stage,        \* where each reader is
    at,           \* the process a reader runs in
    value,        \* the version it has read
    due,          \* when its store will be over at the latest
    writing,      \* where each writer is
    origin,       \* the process a writer runs in
    wrote,        \* the version it wrote
    returned,     \* when it returned, for the properties only
    sweeping      \* processes whose sweeper has seen an expired entry

vars == <<now, db, replaced, held, expires, stage, at, value, due,
          writing, origin, wrote, returned, sweeping>>
cache == <<held, expires>>
readers == <<stage, at, value, due>>
writers == <<writing, origin, wrote, returned>>

Versions == 0..LastVersion
Absent == -1

TypeOK ==
    /\ now \in 0..MaxTime
    /\ db \in Versions
    /\ replaced \in [Versions -> Nat]
    /\ held \in [Gateways -> Versions \cup {Absent}]
    /\ expires \in [Gateways -> Nat]
    /\ stage \in [Readers -> {"resting", "evict", "query", "store"}]
    /\ at \in [Readers -> Gateways]
    /\ value \in [Readers -> Versions]
    /\ due \in [Readers -> Nat]
    /\ writing \in [Writers -> {"idle", "invalidate", "done", "failed"}]
    /\ origin \in [Writers -> Gateways]
    /\ wrote \in [Writers -> Versions]
    /\ returned \in [Writers -> Nat]
    /\ sweeping \subseteq Gateways

Init ==
    /\ now = 0
    /\ db = 0
    /\ replaced = [v \in Versions |-> 0]
    /\ held = [g \in Gateways |-> Absent]
    /\ expires = [g \in Gateways |-> 0]
    /\ stage = [q \in Readers |-> "resting"]
    /\ at \in [Readers -> Gateways]
    /\ value = [q \in Readers |-> 0]
    /\ due = [q \in Readers |-> 0]
    /\ writing = [w \in Writers |-> "idle"]
    /\ origin \in [Writers -> Gateways]
    /\ wrote = [w \in Writers |-> 0]
    /\ returned = [w \in Writers |-> 0]
    /\ sweeping = {}

-----------------------------------------------------------------------------
Expired(g) == held[g] # Absent /\ now > expires[g]
Live(g) == held[g] # Absent /\ now <= expires[g]

(* get: a live entry answers the reader, an expired one is deleted first.  *)
Lookup(q) ==
    /\ stage[q] = "resting"
    /\ \/ /\ Live(at[q])
          /\ value' = [value EXCEPT ![q] = held[at[q]]]
          /\ UNCHANGED stage
       \/ /\ Expired(at[q])
          /\ stage' = [stage EXCEPT ![q] = "evict"]
          /\ UNCHANGED value
       \/ /\ held[at[q]] = Absent
          /\ stage' = [stage EXCEPT ![q] = "query"]
          /\ UNCHANGED value
    /\ UNCHANGED <<now, db, replaced, cache, at, due, writers, sweeping>>

(* The deletion is by key: it takes whatever is there by now.              *)
Evict(q) ==
    /\ stage[q] = "evict"
    /\ held' = [held EXCEPT ![at[q]] = Absent]
    /\ stage' = [stage EXCEPT ![q] = "query"]
    /\ UNCHANGED <<now, db, replaced, expires, at, value, due, writers, sweeping>>

(* A variant of Query that caches the outcome of a failed query too.       *)
QueryCachesFailure(q) ==
    /\ stage[q] = "query"
    /\ \E v \in {db, Absent} : value' = [value EXCEPT ![q] = v]
    /\ due' = [due EXCEPT ![q] = now + QueryTime]
    /\ stage' = [stage EXCEPT ![q] = "store"]
    /\ UNCHANGED <<now, db, replaced, cache, at, writers, sweeping>>

(* The row is read, or the query fails and nothing is cached.              *)
Query(q) ==
    /\ stage[q] = "query"
    /\ \/ /\ value' = [value EXCEPT ![q] = db]
          /\ due' = [due EXCEPT ![q] = now + QueryTime]
          /\ stage' = [stage EXCEPT ![q] = "store"]
       \/ /\ stage' = [stage EXCEPT ![q] = "resting"]
          /\ UNCHANGED <<value, due>>
    /\ UNCHANGED <<now, db, replaced, cache, at, writers, sweeping>>

(* A variant of Store that prolongs an entry that is there already.        *)
StoreProlongs(q) ==
    /\ stage[q] = "store"
    /\ held' = [held EXCEPT ![at[q]] = IF @ = Absent THEN value[q] ELSE @]
    /\ expires' = [expires EXCEPT ![at[q]] = now + TTL]
    /\ stage' = [stage EXCEPT ![q] = "resting"]
    /\ UNCHANGED <<now, db, replaced, at, value, due, writers, sweeping>>

(* set, and the reader has its answer.                                     *)
Store(q) ==
    /\ stage[q] = "store"
    /\ held' = [held EXCEPT ![at[q]] = value[q]]
    /\ expires' = [expires EXCEPT ![at[q]] = now + TTL]
    /\ stage' = [stage EXCEPT ![q] = "resting"]
    /\ UNCHANGED <<now, db, replaced, at, value, due, writers, sweeping>>

-----------------------------------------------------------------------------
RowChanges ==
    /\ db < LastVersion
    /\ db' = db + 1
    /\ replaced' = [replaced EXCEPT ![db] = now]

Commit(w) ==
    /\ writing[w] = "idle"
    /\ RowChanges
    /\ wrote' = [wrote EXCEPT ![w] = db + 1]
    /\ writing' = [writing EXCEPT ![w] = "invalidate"]
    /\ UNCHANGED <<now, cache, readers, origin, returned, sweeping>>

(* The statement returns an error, after it was committed or not: the      *)
(* entry stays.                                                            *)
CommitFails(w) ==
    /\ writing[w] = "idle"
    /\ RowChanges \/ UNCHANGED <<db, replaced>>
    /\ writing' = [writing EXCEPT ![w] = "failed"]
    /\ UNCHANGED <<now, cache, readers, origin, wrote, returned, sweeping>>

(* A variant of Invalidate that deletes an expired entry only.             *)
InvalidateExpired(w) ==
    /\ writing[w] = "invalidate"
    /\ held' = [held EXCEPT ![origin[w]] = IF Expired(origin[w]) THEN Absent ELSE @]
    /\ returned' = [returned EXCEPT ![w] = now]
    /\ writing' = [writing EXCEPT ![w] = "done"]
    /\ UNCHANGED <<now, db, replaced, expires, readers, origin, wrote, sweeping>>

Invalidate(w) ==
    /\ writing[w] = "invalidate"
    /\ held' = [held EXCEPT ![origin[w]] = Absent]
    /\ returned' = [returned EXCEPT ![w] = now]
    /\ writing' = [writing EXCEPT ![w] = "done"]
    /\ UNCHANGED <<now, db, replaced, expires, readers, origin, wrote, sweeping>>

(* An operator changes the row with manage_limits.sh or SQL.               *)
ScriptWrites ==
    /\ RowChanges
    /\ UNCHANGED <<now, cache, readers, writers, sweeping>>

SweepSees(g) ==
    /\ Expired(g)
    /\ sweeping' = sweeping \cup {g}
    /\ UNCHANGED <<now, db, replaced, cache, readers, writers>>

SweepDeletes(g) ==
    /\ g \in sweeping
    /\ held' = [held EXCEPT ![g] = Absent]
    /\ sweeping' = sweeping \ {g}
    /\ UNCHANGED <<now, db, replaced, expires, readers, writers>>

Tick ==
    /\ now < MaxTime
    /\ \A q \in Readers : stage[q] = "store" => now < due[q]
    /\ now' = now + 1
    /\ UNCHANGED <<db, replaced, cache, readers, writers, sweeping>>

Next ==
    \/ \E q \in Readers : Lookup(q) \/ Evict(q) \/ Query(q) \/ Store(q)
    \/ \E w \in Writers : Commit(w) \/ CommitFails(w) \/ Invalidate(w)
    \/ \E g \in Gateways : SweepSees(g) \/ SweepDeletes(g)
    \/ ScriptWrites
    \/ Tick

Spec == Init /\ [][Next]_vars

-----------------------------------------------------------------------------
(* For how long v has not been what the database says.                     *)
Staleness(v) == IF v = db THEN 0 ELSE now - replaced[v]

(* Stale reads are bounded: no process enforces a limit that was replaced  *)
(* longer ago than one TTL and the query that fetched it, whoever wrote    *)
(* the row and whatever deletions, fills and sweeps overlapped.            *)
StalenessBounded ==
    /\ \A g \in Gateways : Live(g) => Staleness(held[g]) <= QueryTime + TTL
    /\ \A q \in Readers : stage[q] = "store" => Staleness(value[q]) <= QueryTime

(* After an upsert has returned, its process answers from an earlier       *)
(* version only if that was stored later still, by a reader that was late: *)
(* nothing that was cached when the row changed survives the invalidation. *)
InvalidationTakesEffect ==
    \A w \in Writers :
        LET g == origin[w]
        IN  writing[w] = "done" /\ Live(g) /\ held[g] < wrote[w]
            => expires[g] >= returned[w] + TTL
=============================================================================
