-------------------------- MODULE LimitCacheProofs --------------------------
(***************************************************************************)
(* Proofs about LimitCache.  How stale a cached value is follows from how  *)
(* long it may still be served: an entry expires no later than QueryTime + *)
(* TTL after its value was replaced, and a reader stores what it has read  *)
(* no later than QueryTime after that.                                     *)
(***************************************************************************)
EXTENDS LimitCache, TLAPS

(* One step after the other keeps the types.                               *)
LEMMA TypeInv == TypeOK /\ [Next]_vars => TypeOK'
<1> SUFFICES ASSUME TypeOK, [Next]_vars PROVE TypeOK'
  OBVIOUS
<1> USE TimesAssumption, VersionsAssumption DEF TypeOK, Versions, Absent, cache, readers, writers
<1>1. ASSUME NEW q \in Readers, Lookup(q) PROVE TypeOK'
  <2>1. UNCHANGED <<now, db, replaced, held, expires, at, due, writing, origin, wrote, returned, sweeping>>
    BY <1>1 DEF Lookup
  <2>2. CASE Live(at[q]) /\ value' = [value EXCEPT ![q] = held[at[q]]] /\ UNCHANGED stage
    BY <1>1, <2>1, <2>2 DEF Lookup, Live
  <2>3. CASE stage' = [stage EXCEPT ![q] = "evict"] /\ UNCHANGED value
    BY <2>1, <2>3
  <2>4. CASE stage' = [stage EXCEPT ![q] = "query"] /\ UNCHANGED value
    BY <2>1, <2>4
  <2> QED
    BY <1>1, <2>2, <2>3, <2>4 DEF Lookup
<1>2. ASSUME NEW q \in Readers, Evict(q) PROVE TypeOK'
  BY <1>2 DEF Evict
<1>3. ASSUME NEW q \in Readers, Query(q) PROVE TypeOK'
  <2>1. UNCHANGED <<now, db, replaced, held, expires, at, writing, origin, wrote, returned, sweeping>>
    BY <1>3 DEF Query
  <2>2. CASE /\ value' = [value EXCEPT ![q] = db]
             /\ due' = [due EXCEPT ![q] = now + QueryTime]
             /\ stage' = [stage EXCEPT ![q] = "store"]
    BY <2>1, <2>2
  <2>3. CASE stage' = [stage EXCEPT ![q] = "resting"] /\ UNCHANGED <<value, due>>
    BY <2>1, <2>3
  <2> QED
    BY <1>3, <2>2, <2>3 DEF Query
<1>4. ASSUME NEW q \in Readers, Store(q) PROVE TypeOK'
  BY <1>4 DEF Store
<1>5. ASSUME NEW w \in Writers, Commit(w) PROVE TypeOK'
  BY <1>5 DEF Commit, RowChanges
<1>6. ASSUME NEW w \in Writers, CommitFails(w) PROVE TypeOK'
  <2>1. db' \in Versions /\ replaced' \in [Versions -> Nat]
    BY <1>6 DEF CommitFails, RowChanges
  <2> QED
    BY <1>6, <2>1 DEF CommitFails
<1>7. ASSUME NEW w \in Writers, Invalidate(w) PROVE TypeOK'
  BY <1>7 DEF Invalidate
<1>8. ASSUME NEW g \in Gateways, SweepSees(g) PROVE TypeOK'
  BY <1>8 DEF SweepSees
<1>9. ASSUME NEW g \in Gateways, SweepDeletes(g) PROVE TypeOK'
  BY <1>9 DEF SweepDeletes
<1>10. CASE ScriptWrites
  BY <1>10 DEF ScriptWrites, RowChanges
<1>11. CASE Tick
  BY <1>11 DEF Tick
<1>12. CASE UNCHANGED vars
  BY <1>12 DEF vars
<1> QED
  BY <1>1, <1>2, <1>3, <1>4, <1>5, <1>6, <1>7, <1>8, <1>9, <1>10, <1>11, <1>12 DEF Next

(* Every variable of the cache keeps its type.                             *)
THEOREM TypeCorrect == Spec => []TypeOK
<1>1. Init => TypeOK
  BY TimesAssumption, VersionsAssumption DEF Init, TypeOK, Versions, Absent
<1> QED
  BY <1>1, TypeInv, PTL DEF Spec

-----------------------------------------------------------------------------
(* The inductive invariant: deadlines instead of ages.  A value that is no *)
(* longer current is given up within a bounded time of its replacement, a  *)
(* current one within the same time from now.                              *)
GivenUpInTime ==
    /\ \A g \in Gateways : held[g] # Absent =>
          IF held[g] = db THEN expires[g] <= now + QueryTime + TTL
          ELSE expires[g] <= replaced[held[g]] + QueryTime + TTL
    /\ \A q \in Readers : stage[q] = "store" =>
          /\ now <= due[q]
          /\ IF value[q] = db THEN due[q] <= now + QueryTime
             ELSE due[q] <= replaced[value[q]] + QueryTime
    /\ \A g \in Gateways : held[g] <= db
    /\ \A q \in Readers : value[q] <= db

(* When the row changes, the deadlines that counted from now count from    *)
(* the replacement.                                                        *)
LEMMA RowChangeKeeps ==
    ASSUME TypeOK, GivenUpInTime, RowChanges, UNCHANGED <<now, cache, readers>>
    PROVE  GivenUpInTime'
<1> USE TimesAssumption, VersionsAssumption DEF TypeOK, Versions, Absent, GivenUpInTime, RowChanges, cache, readers
<1>1. ASSUME NEW g \in Gateways, held[g] # Absent
      PROVE  IF held[g] = db' THEN expires[g] <= now + QueryTime + TTL
             ELSE expires[g] <= replaced'[held[g]] + QueryTime + TTL
  BY <1>1
<1>2. ASSUME NEW q \in Readers, stage[q] = "store"
      PROVE  IF value[q] = db' THEN due[q] <= now + QueryTime
             ELSE due[q] <= replaced'[value[q]] + QueryTime
  BY <1>2
<1>3. (\A g \in Gateways : held[g] <= db') /\ (\A q \in Readers : value[q] <= db')
  <2>1. db' = db + 1 /\ db \in Nat /\ \A q \in Readers : value[q] \in Nat
    OBVIOUS
  <2>2. \A g \in Gateways : held[g] \in Int
    OBVIOUS
  <2> QED
    BY <2>1, <2>2
<1>4. UNCHANGED <<now, held, expires, stage, at, value, due>>
  OBVIOUS
<1> HIDE DEF RowChanges
<1> QED
  BY <1>1, <1>2, <1>3, <1>4

(* Every action keeps the deadlines.                                       *)
LEMMA DeadlineInv == TypeOK /\ GivenUpInTime /\ [Next]_vars => GivenUpInTime'
<1> SUFFICES ASSUME TypeOK, GivenUpInTime, [Next]_vars PROVE GivenUpInTime'
  OBVIOUS
<1> USE TimesAssumption, VersionsAssumption DEF TypeOK, Versions, Absent, GivenUpInTime, cache, readers, writers
<1>1. ASSUME NEW q \in Readers, Lookup(q) PROVE GivenUpInTime'
  <2>1. UNCHANGED <<now, db, replaced, held, expires, at, due, writing, origin, wrote, returned, sweeping>>
    BY <1>1 DEF Lookup
  <2>2. CASE Live(at[q]) /\ value' = [value EXCEPT ![q] = held[at[q]]] /\ UNCHANGED stage
    BY <1>1, <2>1, <2>2 DEF Lookup, Live
  <2>3. CASE stage' = [stage EXCEPT ![q] = "evict"] /\ UNCHANGED value
    BY <2>1, <2>3
  <2>4. CASE stage' = [stage EXCEPT ![q] = "query"] /\ UNCHANGED value
    BY <2>1, <2>4
  <2> QED
    BY <1>1, <2>2, <2>3, <2>4 DEF Lookup
<1>2. ASSUME NEW q \in Readers, Evict(q) PROVE GivenUpInTime'
  BY <1>2 DEF Evict
<1>3. ASSUME NEW q \in Readers, Query(q) PROVE GivenUpInTime'
  <2>1. UNCHANGED <<now, db, replaced, held, expires, at, writing, origin, wrote, returned, sweeping>>
    BY <1>3 DEF Query
  <2>2. CASE /\ value' = [value EXCEPT ![q] = db]
             /\ due' = [due EXCEPT ![q] = now + QueryTime]
             /\ stage' = [stage EXCEPT ![q] = "store"]
    BY <2>1, <2>2
  <2>3. CASE stage' = [stage EXCEPT ![q] = "resting"] /\ UNCHANGED <<value, due>>
    BY <2>1, <2>3
  <2> QED
    BY <1>3, <2>2, <2>3 DEF Query
<1>4. ASSUME NEW q \in Readers, Store(q) PROVE GivenUpInTime'
  BY <1>4 DEF Store
<1>5. ASSUME NEW w \in Writers, Commit(w) PROVE GivenUpInTime'
  BY <1>5, RowChangeKeeps DEF Commit
<1>6. ASSUME NEW w \in Writers, CommitFails(w) PROVE GivenUpInTime'
  <2>1. CASE RowChanges
    BY <1>6, <2>1, RowChangeKeeps DEF CommitFails
  <2>2. CASE UNCHANGED <<db, replaced>>
    BY <1>6, <2>2 DEF CommitFails
  <2> QED
    BY <1>6, <2>1, <2>2 DEF CommitFails
<1>7. ASSUME NEW w \in Writers, Invalidate(w) PROVE GivenUpInTime'
  BY <1>7 DEF Invalidate
<1>8. ASSUME NEW g \in Gateways, SweepSees(g) PROVE GivenUpInTime'
  BY <1>8 DEF SweepSees
<1>9. ASSUME NEW g \in Gateways, SweepDeletes(g) PROVE GivenUpInTime'
  BY <1>9 DEF SweepDeletes
<1>10. CASE ScriptWrites
  BY <1>10, RowChangeKeeps DEF ScriptWrites
<1>11. CASE Tick
  BY <1>11 DEF Tick
<1>12. CASE UNCHANGED vars
  BY <1>12 DEF vars
<1> QED
  BY <1>1, <1>2, <1>3, <1>4, <1>5, <1>6, <1>7, <1>8, <1>9, <1>10, <1>11, <1>12 DEF Next

(* No process enforces a limit that was replaced longer ago than one TTL   *)
(* and one query, for any number of processes, readers and writers.        *)
THEOREM StaleReadsBounded == Spec => []StalenessBounded
<1>1. Init => GivenUpInTime
  BY TimesAssumption, VersionsAssumption DEF Init, GivenUpInTime, Absent, Versions
<1>2. ASSUME TypeOK, GivenUpInTime PROVE StalenessBounded
  <2> USE <1>2, TimesAssumption DEF TypeOK, Versions, Absent, GivenUpInTime
  <2>1. ASSUME NEW g \in Gateways, Live(g) PROVE Staleness(held[g]) <= QueryTime + TTL
    <3>1. held[g] \in Versions /\ held[g] # Absent /\ now <= expires[g]
      BY <2>1 DEF Live
    <3>2. replaced[held[g]] \in Nat /\ expires[g] \in Nat /\ now \in Nat
      BY <3>1
    <3>3. CASE held[g] = db
      BY <3>3 DEF Staleness
    <3>4. CASE held[g] # db
      <4>1. expires[g] <= replaced[held[g]] + QueryTime + TTL
        BY <3>1, <3>4
      <4> QED
        BY <3>1, <3>2, <3>4, <4>1 DEF Staleness
    <3> QED
      BY <3>3, <3>4
  <2>2. ASSUME NEW q \in Readers, stage[q] = "store" PROVE Staleness(value[q]) <= QueryTime
    <3>1. now <= due[q] /\ due[q] \in Nat /\ now \in Nat /\ replaced[value[q]] \in Nat
      BY <2>2
    <3>2. CASE value[q] = db
      BY <3>2 DEF Staleness
    <3>3. CASE value[q] # db
      BY <2>2, <3>1, <3>3 DEF Staleness
    <3> QED
      BY <3>2, <3>3
  <2> QED
    BY <2>1, <2>2 DEF StalenessBounded
<1> QED
  BY <1>1, <1>2, DeadlineInv, TypeCorrect, PTL DEF Spec

-----------------------------------------------------------------------------
(* What the process of a writer that has returned holds of earlier         *)
(* versions was stored since, dead or alive.                               *)
StoredSince ==
    \A w \in Writers : writing[w] = "done" =>
        /\ returned[w] <= now
        /\ held[origin[w]] # Absent /\ held[origin[w]] < wrote[w] =>
              expires[origin[w]] >= returned[w] + TTL

(* Whatever happens next, and however long it takes, this remains so.      *)
LEMMA SinceInv == TypeOK /\ StoredSince /\ [Next]_vars => StoredSince'
<1> SUFFICES ASSUME TypeOK, StoredSince, [Next]_vars PROVE StoredSince'
  OBVIOUS
<1> USE TimesAssumption DEF TypeOK, Versions, StoredSince, cache, readers, writers
<1>1. ASSUME UNCHANGED <<now, held, expires, writers>> PROVE StoredSince'
  BY <1>1
<1>2. ASSUME NEW q \in Readers, Lookup(q) \/ Query(q) PROVE StoredSince'
  BY <1>1, <1>2 DEF Lookup, Query
<1>3. ASSUME NEW q \in Readers, Evict(q) PROVE StoredSince'
  BY <1>3 DEF Evict
<1>4. ASSUME NEW q \in Readers, Store(q) PROVE StoredSince'
  BY <1>4 DEF Store
<1>5. ASSUME NEW w \in Writers, Commit(w) PROVE StoredSince'
  BY <1>5 DEF Commit
<1>6. ASSUME NEW w \in Writers, CommitFails(w) PROVE StoredSince'
  BY <1>6 DEF CommitFails
<1>7. ASSUME NEW w \in Writers, Invalidate(w) PROVE StoredSince'
  BY <1>7 DEF Invalidate
<1>8. ASSUME NEW g \in Gateways, SweepSees(g) PROVE StoredSince'
  BY <1>1, <1>8 DEF SweepSees
<1>9. ASSUME NEW g \in Gateways, SweepDeletes(g) PROVE StoredSince'
  BY <1>9 DEF SweepDeletes
<1>10. CASE ScriptWrites
  BY <1>1, <1>10 DEF ScriptWrites
<1>11. CASE Tick
  BY <1>11 DEF Tick
<1>12. CASE UNCHANGED vars
  BY <1>1, <1>12 DEF vars
<1> QED
  BY <1>2, <1>3, <1>4, <1>5, <1>6, <1>7, <1>8, <1>9, <1>10, <1>11, <1>12 DEF Next

(* After an upsert has returned, its process serves an earlier version only *)
(* from an entry that was stored later still, for any number of processes, *)
(* readers and writers (customer_limits.go, customer_limits_cache.go).     *)
THEOREM UpsertsTakeEffect == Spec => []InvalidationTakesEffect
<1>1. Init => StoredSince
  BY DEF Init, StoredSince
<1>2. StoredSince => InvalidationTakesEffect
  BY DEF StoredSince, InvalidationTakesEffect, Live
<1> QED
  BY <1>1, <1>2, SinceInv, TypeCorrect, PTL DEF Spec
=============================================================================
