------------------------------ MODULE KeyCache ------------------------------
(***************************************************************************)
(* Validation of API keys in front of every request: a record of the key   *)
(* and its project is looked up in Redis, else queried from Postgres by    *)
(* the key's prefix, compared with the key's hash, and cached for every    *)
(* gateway.  No code path invalidates a record; operators change the rows  *)
(* with scripts and flush the cache by hand.                               *)
(*                                                                         *)
(* Rows are numbered by their changes: a version stands for the key's      *)
(* limit, its project's cap and settings, and whether both are active.     *)
(* Each call to Redis or Postgres is one step.  The gateways keep nothing  *)
(* of their own, so a validation that dies with its process is one whose   *)
(* remaining calls fail.                                                   *)
(***************************************************************************)
EXTENDS Integers

CONSTANTS
    Keys,          \* issued keys
    Prefix,        \* the first fifteen characters of each
    Validations,   \* requests in ValidateAPIKey, in whatever gateway
    Revoked,       \* versions in which the key or its project is inactive
    TTL,           \* CacheTTLSeconds
    Patience,      \* the middleware's timeout, and what bcrypt takes beyond it
    LastVersion,   \* bound: changes of a row
    MaxTime        \* bound: the clock

ASSUME TimesAssumption == TTL \in Nat \ {0} /\ Patience \in Nat /\ MaxTime \in Nat
ASSUME VersionsAssumption == LastVersion \in Nat /\ DOMAIN Prefix = Keys

VARIABLES
    now,
    row,        \* the version of each key's row
    replaced,   \* when each earlier version was replaced, for the properties
    blob,       \* the record in Redis under each key's hash
    stage,      \* where each validation is, and how it ended
    asked,      \* the key it was given
    began,      \* when
    got         \* the record it has read

vars == <<now, row, replaced, blob, stage, asked, began, got>>

Versions == 0..LastVersion
Records == [key : Keys, version : Versions]
Empty == [k \in Keys |-> [key |-> k, version |-> 0, expires |-> 0]]
Pending == {"get", "query", "set"}
Verdicts == {"accepted", "inactive", "unknown", "failed"}

TypeOK ==
    /\ now \in 0..MaxTime
    /\ row \in [Keys -> Versions]
    /\ replaced \in [Keys -> [Versions -> Nat]]
    /\ blob \in [Keys -> [key : Keys, version : Versions, expires : Nat]]
    /\ stage \in [Validations -> {"idle"} \cup Pending \cup Verdicts]
    /\ asked \in [Validations -> Keys]
    /\ began \in [Validations -> Nat]
    /\ got \in [Validations -> Records]

Init ==
    /\ now = 0
    /\ row = [k \in Keys |-> 0]
    /\ replaced = [k \in Keys |-> [v \in Versions |-> 0]]
    /\ blob = Empty
    /\ stage = [q \in Validations |-> "idle"]
    /\ asked \in [Validations -> Keys]
    /\ began = [q \in Validations |-> 0]
    /\ got = [q \in Validations |-> [key |-> asked[q], version |-> 0]]

-----------------------------------------------------------------------------
Live(k) == now < blob[k].expires
Goto(q, where) == stage' = [stage EXCEPT ![q] = where]

(* A request with a bearer token; its timeout starts.                      *)
Begin(q) ==
    /\ stage[q] = "idle"
    /\ began' = [began EXCEPT ![q] = now]
    /\ Goto(q, "get")
    /\ UNCHANGED <<now, row, replaced, blob, asked, got>>

(* getFromCache finds a record: its flags decide.                          *)
Hit(q) ==
    LET cached == blob[asked[q]]
    IN  /\ stage[q] = "get"
        /\ Live(asked[q])
        /\ got' = [got EXCEPT ![q] = [key |-> cached.key, version |-> cached.version]]
        /\ Goto(q, IF cached.version \in Revoked THEN "inactive" ELSE "accepted")
        /\ UNCHANGED <<now, row, replaced, blob, asked, began>>

(* Nothing is there, or Redis fails: the database is asked.                *)
Miss(q) ==
    /\ stage[q] = "get"
    /\ Goto(q, "query")
    /\ UNCHANGED <<now, row, replaced, blob, asked, began, got>>

(* A variant of Verdict without the comparison of the hashes.              *)
VerdictByPrefix(q, k) == IF row[k] \in Revoked THEN "inactive" ELSE "set"

(* A variant of Verdict that leaves the flags to the next lookup.          *)
VerdictLater(q, k) == IF k # asked[q] THEN "unknown" ELSE "set"

(* What the row of k says of a validation that found it.                   *)
Verdict(q, k) ==
    IF k # asked[q] THEN "unknown"
    ELSE IF row[k] \in Revoked THEN "inactive"
    ELSE "set"

(* validateFromDatabase: any one row that has the prefix of the key.       *)
Query(q) ==
    /\ stage[q] = "query"
    /\ \E k \in Keys :
          /\ Prefix[k] = Prefix[asked[q]]
          /\ got' = [got EXCEPT ![q] = [key |-> k, version |-> row[k]]]
          /\ Goto(q, Verdict(q, k))
    /\ UNCHANGED <<now, row, replaced, blob, asked, began>>

(* The database fails, or the timeout is over: the request is refused.     *)
QueryFails(q) ==
    /\ stage[q] = "query"
    /\ Goto(q, "failed")
    /\ UNCHANGED <<now, row, replaced, blob, asked, began, got>>

(* A variant of Stored that keeps a record for as long as it is stored.    *)
StoredProlonging(q) ==
    LET k == asked[q]
    IN  IF Live(k) THEN [blob EXCEPT ![k].expires = now + TTL]
        ELSE [blob EXCEPT ![k] =
                [key |-> got[q].key, version |-> got[q].version, expires |-> now + TTL]]

(* storeInCache: what was there is overwritten, newer or not.              *)
Stored(q) ==
    [blob EXCEPT ![asked[q]] =
        [key |-> got[q].key, version |-> got[q].version, expires |-> now + TTL]]

(* The record is stored, or that fails; the key is valid in both cases.    *)
Store(q) ==
    /\ stage[q] = "set"
    /\ blob' \in {Stored(q), blob}
    /\ Goto(q, "accepted")
    /\ UNCHANGED <<now, row, replaced, asked, began, got>>

(* Redis stores the record and its reply is lost: the client repeats.      *)
StoreNoReply(q) ==
    /\ stage[q] = "set"
    /\ blob' = Stored(q)
    /\ UNCHANGED <<now, row, replaced, stage, asked, began, got>>

-----------------------------------------------------------------------------
(* manage_limits.sh or SQL changes rows: those of some keys, or of all     *)
(* that have a prefix.                                                     *)
ChangeRows(K) ==
    /\ \A k \in K : row[k] < LastVersion
    /\ row' = [k \in Keys |-> IF k \in K THEN row[k] + 1 ELSE row[k]]
    /\ replaced' = [k \in Keys |->
                       IF k \in K THEN [replaced[k] EXCEPT ![row[k]] = now] ELSE replaced[k]]
    /\ UNCHANGED <<now, blob, stage, asked, began, got>>

Change ==
    \/ \E k \in Keys : ChangeRows({k})
    \/ \E k \in Keys : ChangeRows({j \in Keys : Prefix[j] = Prefix[k]})

(* An operator flushes apikey:*, or Redis loses its data.                  *)
Flush ==
    /\ blob' = Empty
    /\ UNCHANGED <<now, row, replaced, stage, asked, began, got>>

Tick ==
    /\ now < MaxTime
    /\ \A q \in Validations : stage[q] \in Pending => now < began[q] + Patience
    /\ now' = now + 1
    /\ UNCHANGED <<row, replaced, blob, stage, asked, began, got>>

Validate(q) ==
    \/ Begin(q) \/ Hit(q) \/ Miss(q) \/ Query(q) \/ QueryFails(q)
    \/ Store(q) \/ StoreNoReply(q)

Next ==
    \/ \E q \in Validations : Validate(q)
    \/ Change \/ Flush \/ Tick

Spec == Init /\ [][Next]_vars

-----------------------------------------------------------------------------
(* For how long version v has not been what the row of k says.             *)
Staleness(k, v) == IF v = row[k] THEN 0 ELSE now - replaced[k][v]

(* A revoked key, an old cap and an old rate limit end: no record is in    *)
(* force that was replaced longer ago than one lifetime and the patience   *)
(* of the validation that stored it, whatever stores overlap, are repeated *)
(* or come after a flush.                                                  *)
OldRecordsEnd ==
    /\ \A k \in Keys : Live(k) => Staleness(blob[k].key, blob[k].version) <= Patience + TTL
    /\ \A q \in Validations :
          stage[q] = "set" => Staleness(got[q].key, got[q].version) <= Patience

(* Keys may share their prefix, rows are found by it and records by a      *)
(* hash: a key is nevertheless accepted only with its own record, and no   *)
(* other key's limits are cached for it.                                   *)
OwnRecordOnly ==
    /\ \A q \in Validations : stage[q] = "accepted" => got[q].key = asked[q]
    /\ \A k \in Keys : Live(k) => blob[k].key = k

(* A refusal is never served from the cache: a key refused as inactive was *)
(* so at some moment of that validation, and one that has been enabled     *)
(* again is valid at once.                                                 *)
RefusalsAreCurrent ==
    \A q \in Validations : stage[q] = "inactive" =>
        LET g == got[q]
        IN  g.version = row[g.key] \/ replaced[g.key][g.version] >= began[q]
=============================================================================
