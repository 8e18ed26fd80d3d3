--------------------------- MODULE KeyCacheProofs ---------------------------
(***************************************************************************)
(* Proofs about KeyCache.  The properties speak of ages and of outcomes;   *)
(* what the steps preserve is when each validation began: a record it has  *)
(* read from the database was in force at some moment since, and it is     *)
(* stored, if at all, before its patience is over.                         *)
(***************************************************************************)
EXTENDS KeyCache, TLAPS

(* A change of rows moves some of them to their next version, and notes    *)
(* when the versions before were replaced.                                 *)
LEMMA ChangedRows ==
    ASSUME TypeOK, NEW K \in SUBSET Keys, ChangeRows(K)
    PROVE  /\ row' \in [Keys -> Versions]
           /\ replaced' \in [Keys -> [Versions -> Nat]]
           /\ \A k \in Keys : IF k \in K
                 THEN row'[k] = row[k] + 1 /\ replaced'[k] = [replaced[k] EXCEPT ![row[k]] = now]
                 ELSE row'[k] = row[k] /\ replaced'[k] = replaced[k]
<1> USE TimesAssumption, VersionsAssumption DEF TypeOK, Versions, ChangeRows
<1>1. row' \in [Keys -> Versions]
  <2>1. ASSUME NEW k \in Keys PROVE (IF k \in K THEN row[k] + 1 ELSE row[k]) \in 0..LastVersion
    BY <2>1
  <2> QED
    BY <2>1
<1>2. replaced' \in [Keys -> [Versions -> Nat]]
  <2>1. ASSUME NEW k \in Keys
        PROVE  (IF k \in K THEN [replaced[k] EXCEPT ![row[k]] = now] ELSE replaced[k])
                  \in [0..LastVersion -> Nat]
    BY <2>1
  <2> QED
    BY <2>1
<1> QED
  BY <1>1, <1>2

(* Both kinds of changes are changes of some rows.                         *)
LEMMA ChangeIsOfRows == Change => \E K \in SUBSET Keys : ChangeRows(K)
  BY DEF Change

(* A validation's steps keep the types.                                    *)
LEMMA ValidateTypes ==
    ASSUME TypeOK, NEW q \in Validations, Validate(q)
    PROVE  TypeOK'
<1> USE TimesAssumption, VersionsAssumption DEF TypeOK, Versions, Records, Pending, Verdicts, Goto
<1>1. CASE Begin(q)
  <2>1. began' \in [Validations -> Nat]
    BY <1>1 DEF Begin
  <2>2. stage' \in [Validations -> {"idle"} \cup Pending \cup Verdicts]
    BY <1>1 DEF Begin
  <2> QED
    BY <1>1, <2>1, <2>2 DEF Begin
<1>2. CASE Hit(q)
  <2>1. blob[asked[q]] \in [key : Keys, version : Versions, expires : Nat]
    OBVIOUS
  <2>2. [key |-> blob[asked[q]].key, version |-> blob[asked[q]].version] \in Records
    BY <2>1
  <2>3. got' \in [Validations -> Records]
    BY <1>2, <2>2 DEF Hit
  <2> QED
    BY <1>2, <2>3 DEF Hit
<1>3. CASE Miss(q)
  BY <1>3 DEF Miss
<1>4. CASE Query(q)
  <2>1. PICK k \in Keys : /\ got' = [got EXCEPT ![q] = [key |-> k, version |-> row[k]]]
                          /\ stage' = [stage EXCEPT ![q] = Verdict(q, k)]
    BY <1>4 DEF Query
  <2>2. got' \in [Validations -> Records]
    BY <2>1
  <2>3. Verdict(q, k) \in Pending \cup Verdicts
    BY DEF Verdict
  <2>4. stage' \in [Validations -> {"idle"} \cup Pending \cup Verdicts]
    BY <2>1, <2>3
  <2> QED
    BY <1>4, <2>2, <2>4 DEF Query
<1>5. CASE QueryFails(q)
  BY <1>5 DEF QueryFails
<1>6. ASSUME Store(q) \/ StoreNoReply(q) PROVE TypeOK'
  <2>1. Stored(q) \in [Keys -> [key : Keys, version : Versions, expires : Nat]]
    <3>1. [key |-> got[q].key, version |-> got[q].version, expires |-> now + TTL]
             \in [key : Keys, version : Versions, expires : Nat]
      OBVIOUS
    <3> QED
      BY <3>1 DEF Stored
  <2>2. blob' \in [Keys -> [key : Keys, version : Versions, expires : Nat]]
    BY <1>6, <2>1 DEF Store, StoreNoReply
  <2>3. stage' \in [Validations -> {"idle"} \cup Pending \cup Verdicts]
    BY <1>6 DEF Store, StoreNoReply
  <2> QED
    BY <1>6, <2>2, <2>3 DEF Store, StoreNoReply
<1> QED
  BY <1>1, <1>2, <1>3, <1>4, <1>5, <1>6 DEF Validate

(* So does every step.                                                     *)
LEMMA TypeInv == TypeOK /\ [Next]_vars => TypeOK'
<1> SUFFICES ASSUME TypeOK, [Next]_vars PROVE TypeOK'
  OBVIOUS
<1>1. ASSUME NEW q \in Validations, Validate(q) PROVE TypeOK'
  BY <1>1, ValidateTypes
<1>2. ASSUME NEW K \in SUBSET Keys, ChangeRows(K) PROVE TypeOK'
  <2>1. row' \in [Keys -> Versions] /\ replaced' \in [Keys -> [Versions -> Nat]]
    BY <1>2, ChangedRows
  <2> QED
    BY <1>2, <2>1 DEF ChangeRows, TypeOK
<1>3. CASE Flush
  <2>1. Empty \in [Keys -> [key : Keys, version : Versions, expires : Nat]]
    BY VersionsAssumption DEF Empty, Versions
  <2> QED
    BY <1>3, <2>1 DEF Flush, TypeOK
<1>4. CASE Tick
  BY <1>4, TimesAssumption DEF Tick, TypeOK
<1>5. CASE UNCHANGED vars
  BY <1>5 DEF vars, TypeOK
<1> QED
  BY <1>1, <1>2, <1>3, <1>4, <1>5, ChangeIsOfRows DEF Next

(* Every variable keeps its type, for any keys, validations and times.     *)
THEOREM TypeCorrect == Spec => []TypeOK
<1>1. Init => TypeOK
  BY TimesAssumption, VersionsAssumption DEF Init, TypeOK, Versions, Records, Empty, Pending, Verdicts
<1> QED
  BY <1>1, TypeInv, PTL DEF Spec

-----------------------------------------------------------------------------
(* What a validation holds was in force at some moment since it began.     *)
ReadSinceBegun(q) ==
    \/ got[q].version = row[got[q].key]
    \/ replaced[got[q].key][got[q].version] >= began[q]

(* A record that is replaced is given up within bounded time, a current    *)
(* one within the same time from now.                                      *)
GivenUpInTime(k) ==
    IF blob[k].version = row[k] THEN blob[k].expires <= now + Patience + TTL
    ELSE blob[k].expires <= replaced[k][blob[k].version] + Patience + TTL

(* The inductive invariant: of each validation, and of each record.        *)
ValidationInv(q) ==
    /\ began[q] <= now
    /\ stage[q] \in Pending => now <= began[q] + Patience
    /\ stage[q] \in {"set", "accepted"} => got[q].key = asked[q]
    /\ stage[q] \in {"set", "inactive"} => ReadSinceBegun(q)
    /\ stage[q] = "set" => got[q].version \notin Revoked
    /\ got[q].version <= row[got[q].key]

BlobInv(k) ==
    /\ blob[k].key = k
    /\ blob[k].version <= row[k]
    /\ Live(k) => blob[k].version \notin Revoked
    /\ GivenUpInTime(k)

CacheInv ==
    /\ \A q \in Validations : ValidationInv(q)
    /\ \A k \in Keys : BlobInv(k)

(* A step of one validation that leaves the rows and records as they are   *)
(* keeps every other validation's part and all records'.                   *)
LEMMA OthersKeep ==
    ASSUME CacheInv, NEW q \in Validations,
           UNCHANGED <<now, row, replaced, asked>>,
           \A p \in Validations : p # q =>
              stage'[p] = stage[p] /\ began'[p] = began[p] /\ got'[p] = got[p]
    PROVE  /\ \A p \in Validations : p # q => ValidationInv(p)'
           /\ UNCHANGED blob => \A k \in Keys : BlobInv(k)'
<1>1. ASSUME NEW p \in Validations, p # q PROVE ValidationInv(p)'
  BY <1>1 DEF CacheInv, ValidationInv, ReadSinceBegun
<1>2. ASSUME UNCHANGED blob, NEW k \in Keys PROVE BlobInv(k)'
  BY <1>2 DEF CacheInv, BlobInv, GivenUpInTime, Live
<1> QED
  BY <1>1, <1>2

(* What a validation stores is given up in time.                           *)
LEMMA StoredKeeps ==
    ASSUME TypeOK, CacheInv, NEW q \in Validations, stage[q] = "set",
           UNCHANGED <<now, row, replaced>>, blob' = Stored(q)
    PROVE  \A k \in Keys : BlobInv(k)'
<1> DEFINE a == asked[q]
           v == got[q].version
<1>1. ASSUME NEW k \in Keys, k # a PROVE BlobInv(k)'
  <2>1. blob'[k] = blob[k]
    BY <1>1 DEF Stored, TypeOK
  <2> QED
    BY <2>1 DEF CacheInv, BlobInv, GivenUpInTime, Live
<1>2. ASSUME NEW k \in Keys, k = a PROVE BlobInv(k)'
  <2>1. got[q].key = k /\ v \in Versions
    BY <1>2 DEF TypeOK, Records, CacheInv, ValidationInv
  <2>2. blob'[k] = [key |-> k, version |-> v, expires |-> now + TTL]
    BY <1>2, <2>1 DEF Stored, TypeOK
  <2>3. v <= row[k] /\ v \notin Revoked
    BY <2>1 DEF CacheInv, ValidationInv
  <2>4. now \in Nat /\ began[q] \in Nat /\ replaced[k][v] \in Nat
    BY <2>1, TimesAssumption DEF TypeOK
  <2>5. IF v = row[k] THEN now + TTL <= now + Patience + TTL
        ELSE now + TTL <= replaced[k][v] + Patience + TTL
    <3>1. now <= began[q] + Patience /\ (v = row[k] \/ replaced[k][v] >= began[q])
      BY <2>1 DEF CacheInv, ValidationInv, ReadSinceBegun, Pending
    <3> QED
      BY <2>4, <3>1, TimesAssumption
  <2>6. blob'[k].key = k /\ blob'[k].version = v /\ blob'[k].expires = now + TTL
    BY <2>2
  <2>7. GivenUpInTime(k)'
    BY <2>5, <2>6 DEF GivenUpInTime
  <2> QED
    BY <2>3, <2>6, <2>7 DEF BlobInv
<1> QED
  BY <1>1, <1>2

(* A validation's steps keep the invariant.                                *)
LEMMA ValidateKeeps ==
    ASSUME TypeOK, CacheInv, NEW q \in Validations, Validate(q)
    PROVE  CacheInv'
<1>0. UNCHANGED <<now, row, replaced, asked>>
  BY DEF Validate, Begin, Hit, Miss, Query, QueryFails, Store, StoreNoReply
<1>1. CASE Begin(q)
  <2>1. \A p \in Validations : p # q =>
           stage'[p] = stage[p] /\ began'[p] = began[p] /\ got'[p] = got[p]
    BY <1>1 DEF Begin, Goto, TypeOK
  <2>2. ValidationInv(q)'
    <3>1. began'[q] = now /\ stage'[q] = "get" /\ got' = got /\ now \in Nat
      BY <1>1, TimesAssumption DEF Begin, Goto, TypeOK
    <3> QED
      BY <1>0, <3>1, TimesAssumption DEF CacheInv, ValidationInv
  <2>3. UNCHANGED blob
    BY <1>1 DEF Begin
  <2> QED
    BY <1>0, <2>1, <2>2, <2>3, OthersKeep DEF CacheInv
<1>2. CASE Hit(q)
  <2>1. \A p \in Validations : p # q =>
           stage'[p] = stage[p] /\ began'[p] = began[p] /\ got'[p] = got[p]
    BY <1>2 DEF Hit, Goto, TypeOK
  <2>2. ValidationInv(q)'
    <3> DEFINE a == asked[q]
    <3>1. a \in Keys /\ BlobInv(a) /\ Live(a)
      BY <1>2 DEF Hit, TypeOK, CacheInv
    <3>2. got'[q].key = a /\ got'[q].version = blob[a].version
      BY <1>2, <3>1 DEF Hit, TypeOK, BlobInv
    <3>3. stage'[q] = "accepted" /\ began'[q] = began[q]
      BY <1>2, <3>1 DEF Hit, Goto, TypeOK, BlobInv
    <3>4. blob[a].version <= row[a]
      BY <3>1 DEF BlobInv
    <3> QED
      BY <1>0, <3>2, <3>3, <3>4 DEF CacheInv, ValidationInv, Pending
  <2>3. UNCHANGED blob
    BY <1>2 DEF Hit
  <2> QED
    BY <1>0, <2>1, <2>2, <2>3, OthersKeep DEF CacheInv
<1>3. CASE Miss(q) \/ QueryFails(q)
  <2>1. \A p \in Validations : p # q =>
           stage'[p] = stage[p] /\ began'[p] = began[p] /\ got'[p] = got[p]
    BY <1>3 DEF Miss, QueryFails, Goto, TypeOK
  <2>2. ValidationInv(q)'
    <3>1. /\ stage'[q] \in {"query", "failed"} /\ stage[q] \in {"get", "query"}
          /\ UNCHANGED <<began, got>>
      BY <1>3 DEF Miss, QueryFails, Goto, TypeOK
    <3> QED
      BY <1>0, <3>1 DEF CacheInv, ValidationInv, Pending
  <2>3. UNCHANGED blob
    BY <1>3 DEF Miss, QueryFails
  <2> QED
    BY <1>0, <2>1, <2>2, <2>3, OthersKeep DEF CacheInv
<1>4. CASE Query(q)
  <2>1. PICK k \in Keys : /\ got' = [got EXCEPT ![q] = [key |-> k, version |-> row[k]]]
                          /\ stage' = [stage EXCEPT ![q] = Verdict(q, k)]
    BY <1>4 DEF Query, Goto
  <2>2. \A p \in Validations : p # q =>
           stage'[p] = stage[p] /\ began'[p] = began[p] /\ got'[p] = got[p]
    BY <1>4, <2>1 DEF Query, TypeOK
  <2>3. ValidationInv(q)'
    <3>1. got'[q].key = k /\ got'[q].version = row[k] /\ row[k] \in Int
      BY <2>1 DEF TypeOK, Versions
    <3>2. stage[q] = "query" /\ stage'[q] = Verdict(q, k) /\ began' = began
      BY <1>4, <2>1 DEF Query, TypeOK
    <3>3. ReadSinceBegun(q)'
      BY <1>0, <3>1 DEF ReadSinceBegun
    <3>4. Verdict(q, k) \in {"set", "accepted"} => k = asked[q]
      BY DEF Verdict
    <3>5. Verdict(q, k) = "set" => row[k] \notin Revoked
      BY DEF Verdict
    <3>6. got'[q].version <= row'[got'[q].key]
      BY <1>0, <3>1
    <3>7. began[q] <= now /\ now <= began[q] + Patience
      BY <3>2 DEF CacheInv, ValidationInv, Pending
    <3> QED
      BY <1>0, <3>1, <3>2, <3>3, <3>4, <3>5, <3>6, <3>7 DEF ValidationInv
  <2>4. UNCHANGED blob
    BY <1>4 DEF Query
  <2> QED
    BY <1>0, <2>2, <2>3, <2>4, OthersKeep DEF CacheInv
<1>5. CASE Store(q) \/ StoreNoReply(q)
  <2>1. \A p \in Validations : p # q =>
           stage'[p] = stage[p] /\ began'[p] = began[p] /\ got'[p] = got[p]
    BY <1>5 DEF Store, StoreNoReply, Goto, TypeOK
  <2>2. ValidationInv(q)'
    <3>1. /\ stage'[q] \in {"set", "accepted"} /\ stage[q] = "set"
          /\ UNCHANGED <<began, got>>
      BY <1>5 DEF Store, StoreNoReply, Goto, TypeOK
    <3> QED
      BY <1>0, <3>1 DEF CacheInv, ValidationInv, ReadSinceBegun, Pending
  <2>3. stage[q] = "set" /\ (blob' = Stored(q) \/ UNCHANGED blob)
    BY <1>5 DEF Store, StoreNoReply
  <2>4. \A k \in Keys : BlobInv(k)'
    BY <1>0, <2>1, <2>3, OthersKeep, StoredKeeps
  <2> QED
    BY <1>0, <2>1, <2>2, <2>4, OthersKeep DEF CacheInv
<1> QED
  BY <1>1, <1>2, <1>3, <1>4, <1>5 DEF Validate

(* A change of rows turns what was current into what was replaced now.     *)
LEMMA ChangeKeeps ==
    ASSUME TypeOK, CacheInv, NEW K \in SUBSET Keys, ChangeRows(K)
    PROVE  CacheInv'
<1>0. UNCHANGED <<now, blob, stage, asked, began, got>>
  BY DEF ChangeRows
<1>1. ASSUME NEW k \in Keys, NEW v \in Versions
      PROVE  /\ v <= row[k] => v <= row'[k]
             /\ v = row[k] => v = row'[k] \/ replaced'[k][v] = now
             /\ v # row[k] /\ v <= row[k] => v # row'[k] /\ replaced'[k][v] = replaced[k][v]
  <2>1. row[k] \in Int /\ v \in Int /\ replaced[k] \in [Versions -> Nat]
    BY DEF TypeOK, Versions
  <2>2. CASE k \in K
    <3>1. row'[k] = row[k] + 1 /\ replaced'[k] = [replaced[k] EXCEPT ![row[k]] = now]
      BY <2>2, ChangedRows
    <3> QED
      BY <2>1, <3>1
  <2>3. CASE k \notin K
    BY <2>3, ChangedRows
  <2> QED
    BY <2>2, <2>3
<1>2. ASSUME NEW q \in Validations PROVE ValidationInv(q)'
  <2>1. got[q].key \in Keys /\ got[q].version \in Versions
    BY DEF TypeOK, Records
  <2>2. began[q] <= now /\ got[q].version <= row[got[q].key]
    BY DEF CacheInv, ValidationInv
  <2>3. ReadSinceBegun(q) => ReadSinceBegun(q)'
    BY <1>0, <1>1, <2>1, <2>2 DEF ReadSinceBegun
  <2>4. got'[q].version <= row'[got'[q].key]
    BY <1>0, <1>1, <2>1, <2>2
  <2> QED
    BY <1>0, <2>3, <2>4 DEF CacheInv, ValidationInv
<1>3. ASSUME NEW k \in Keys PROVE BlobInv(k)'
  <2>1. blob[k].version \in Versions /\ blob[k].version <= row[k]
    BY DEF TypeOK, CacheInv, BlobInv
  <2>2. GivenUpInTime(k)
    BY DEF CacheInv, BlobInv
  <2>3. GivenUpInTime(k)'
    BY <1>0, <1>1, <2>1, <2>2 DEF GivenUpInTime
  <2> QED
    BY <1>0, <1>1, <2>1, <2>3 DEF CacheInv, BlobInv, Live
<1> QED
  BY <1>2, <1>3 DEF CacheInv

(* Every step keeps the invariant.                                         *)
LEMMA CacheInductive == TypeOK /\ CacheInv /\ [Next]_vars => CacheInv'
<1> SUFFICES ASSUME TypeOK, CacheInv, [Next]_vars PROVE CacheInv'
  OBVIOUS
<1>0. TypeOK'
  BY TypeInv
<1>1. ASSUME NEW q \in Validations, Validate(q) PROVE CacheInv'
  BY <1>1, ValidateKeeps
<1>2. ASSUME NEW K \in SUBSET Keys, ChangeRows(K) PROVE CacheInv'
  BY <1>2, ChangeKeeps
<1>3. CASE Flush
  <2>1. ASSUME NEW k \in Keys PROVE BlobInv(k)'
    <3>1. blob'[k].key = k /\ blob'[k].version = 0 /\ blob'[k].expires = 0
      BY <1>3 DEF Flush, Empty
    <3>2. now' \in Nat /\ row'[k] \in Nat /\ replaced'[k][0] \in Nat
      BY <1>0, TimesAssumption, VersionsAssumption DEF TypeOK, Versions
    <3> QED
      BY <3>1, <3>2, TimesAssumption DEF BlobInv, GivenUpInTime, Live
  <2>2. ASSUME NEW q \in Validations PROVE ValidationInv(q)'
    BY <1>3 DEF Flush, CacheInv, ValidationInv, ReadSinceBegun
  <2> QED
    BY <2>1, <2>2 DEF CacheInv
<1>4. CASE Tick
  <2>1. now' = now + 1 /\ now \in Nat /\ UNCHANGED <<row, replaced, blob, stage, asked, began, got>>
    BY <1>4, TimesAssumption DEF Tick, TypeOK
  <2>2. ASSUME NEW q \in Validations PROVE ValidationInv(q)'
    <3>1. began[q] \in Nat /\ (stage[q] \in Pending => now < began[q] + Patience)
      BY <1>4 DEF Tick, TypeOK
    <3> QED
      BY <2>1, <3>1, TimesAssumption DEF CacheInv, ValidationInv, ReadSinceBegun
  <2>3. ASSUME NEW k \in Keys PROVE BlobInv(k)'
    <3>1. blob[k].expires \in Nat
      BY DEF TypeOK
    <3> QED
      BY <2>1, <3>1, TimesAssumption DEF CacheInv, BlobInv, GivenUpInTime, Live
  <2> QED
    BY <2>2, <2>3 DEF CacheInv
<1>5. CASE UNCHANGED vars
  BY <1>5 DEF vars, CacheInv, ValidationInv, BlobInv, ReadSinceBegun, GivenUpInTime, Live
<1> QED
  BY <1>1, <1>2, <1>3, <1>4, <1>5, ChangeIsOfRows DEF Next

(* The invariant of the cache and of every validation.                     *)
THEOREM CacheInvariant == Spec => [](TypeOK /\ CacheInv)
<1>1. ASSUME Init PROVE TypeOK /\ CacheInv
  <2>1. TypeOK
    BY <1>1, TimesAssumption, VersionsAssumption
       DEF Init, TypeOK, Versions, Records, Empty, Pending, Verdicts
  <2>2. ASSUME NEW k \in Keys PROVE BlobInv(k)
    <3>1. blob[k].key = k /\ blob[k].version = 0 /\ blob[k].expires = 0
      BY <1>1 DEF Init, Empty
    <3>2. now = 0 /\ row[k] = 0 /\ replaced[k][0] = 0
      BY <1>1, VersionsAssumption DEF Init, Versions
    <3> QED
      BY <3>1, <3>2, TimesAssumption DEF BlobInv, GivenUpInTime, Live
  <2>3. ASSUME NEW q \in Validations PROVE ValidationInv(q)
    BY <1>1 DEF Init, ValidationInv, Pending
  <2> QED
    BY <2>1, <2>2, <2>3 DEF CacheInv
<1> QED
  BY <1>1, TypeInv, CacheInductive, PTL DEF Spec

(* No revoked key, old cap or old limit is in force for longer than one    *)
(* lifetime and one validation after the change.                           *)
THEOREM OldRecordsEndForAll == Spec => []OldRecordsEnd
<1>1. ASSUME TypeOK, CacheInv PROVE OldRecordsEnd
  <2> USE <1>1
  <2>1. ASSUME NEW k \in Keys, Live(k)
        PROVE  Staleness(blob[k].key, blob[k].version) <= Patience + TTL
    <3>1. blob[k].key = k /\ blob[k].version \in Versions /\ now < blob[k].expires
      BY <2>1 DEF CacheInv, BlobInv, TypeOK, Live
    <3>2. now \in Nat /\ blob[k].expires \in Nat /\ replaced[k][blob[k].version] \in Nat
      BY <3>1, TimesAssumption DEF TypeOK
    <3>3. GivenUpInTime(k)
      BY DEF CacheInv, BlobInv
    <3> QED
      BY <3>1, <3>2, <3>3, TimesAssumption DEF GivenUpInTime, Staleness
  <2>2. ASSUME NEW q \in Validations, stage[q] = "set"
        PROVE  Staleness(got[q].key, got[q].version) <= Patience
    <3>1. got[q].key \in Keys /\ got[q].version \in Versions
      BY DEF TypeOK, Records
    <3>2. now \in Nat /\ began[q] \in Nat /\ replaced[got[q].key][got[q].version] \in Nat
      BY <3>1, TimesAssumption DEF TypeOK
    <3>3. now <= began[q] + Patience /\ ReadSinceBegun(q)
      BY <2>2 DEF CacheInv, ValidationInv, Pending
    <3> QED
      BY <3>2, <3>3, TimesAssumption DEF ReadSinceBegun, Staleness
  <2> QED
    BY <2>1, <2>2 DEF OldRecordsEnd
<1> QED
  BY <1>1, CacheInvariant, PTL

(* A key is accepted, and cached, with its own record alone, whatever keys *)
(* share its prefix.                                                       *)
THEOREM OwnRecordForAll == Spec => []OwnRecordOnly
<1>1. CacheInv => OwnRecordOnly
  BY DEF CacheInv, ValidationInv, BlobInv, OwnRecordOnly
<1> QED
  BY <1>1, CacheInvariant, PTL

(* A key refused as inactive was inactive while it was validated.          *)
THEOREM RefusalsCurrentForAll == Spec => []RefusalsAreCurrent
<1>1. CacheInv => RefusalsAreCurrent
  BY DEF CacheInv, ValidationInv, ReadSinceBegun, RefusalsAreCurrent
<1> QED
  BY <1>1, CacheInvariant, PTL
=============================================================================
