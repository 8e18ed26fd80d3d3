------------------------ MODULE ResponseCachesProofs ------------------------
(***************************************************************************)
(* Proofs about ResponseCaches for any requests, projects, routes,         *)
(* conversations, lifetimes and faults: hits belong to the asker, and      *)
(* entries live no longer than they may, and repeats within a lifetime     *)
(* are served from a cache while nothing fails.                            *)
(***************************************************************************)
EXTENDS ResponseCaches, TLAPS

Answered(r) == stored[r] >= 0

(* Where a request is, and what it has fixed by then.  The goroutine that  *)
(* writes the warm tier does so in the tick of the answer.                 *)
StagesAgree ==
    \A r \in Requests :
        /\ stage[r] # "idle" => key[r] \in Keys
        /\ Answered(r) => /\ stage[r] \in {"storeSemantic", "done", "ended"}
                          /\ route[r] \in Routes
        /\ stage[r] \in {"storeSemantic", "done"} => Answered(r)
        /\ r \in writing => stored[r] = now

(* Some answer that belongs under k was stored, and life after it is not   *)
(* before t.                                                               *)
Within(t, k, life) ==
    \E q \in Requests : Answered(q) /\ AnswerKey(q) = k /\ t <= stored[q] + life

(* The answer of q belongs under k. *)
Belongs(q, k) == q \in Requests /\ Answered(q) /\ AnswerKey(q) = k

HotSound ==
    \A k \in Keys : hot[k] # Nothing =>
        Belongs(hot[k].by, k) /\ Within(hot[k].expires, k, TTL + Promotion)

WarmSound ==
    \A k \in Keys : warm[k] # Nothing =>
        Belongs(warm[k].by, k) /\ Within(warm[k].expires, k, TTL)

RowsSound ==
    \A p \in Prompts : rows[p] # Nothing =>
        rows[p].by \in Requests /\ Answered(rows[p].by) /\ Prompt(rows[p].by) = p

(* What a request has found stays what it asked for. *)
ServedSound ==
    \A r \in Requests :
        /\ stage[r] \in {"promote", "exactHit"} => Belongs(served[r], key[r])
        /\ stage[r] = "promote" => Within(now, key[r], TTL)
        /\ stage[r] = "semanticHit" =>
              /\ served[r] \in Requests /\ Answered(served[r])
              /\ key[served[r]].project = key[r].project
              /\ route[served[r]] = key[r].route
              /\ <<Prompt(served[r]), Prompt(r)>> \in Similar

CachesInv ==
    TypeOK /\ StagesAgree /\ HotSound /\ WarmSound /\ RowsSound /\ ServedSound

-----------------------------------------------------------------------------
USE DEF Answered

(* The first state has the types.                                          *)
LEMMA InitTypes == Init => TypeOK
<1> SUFFICES ASSUME Init PROVE TypeOK
  OBVIOUS
<1>1. Nothing \in Entries(Longest) /\ Nothing \in Entries(TTL) /\ Nothing \in Entries(SemanticTTL)
  BY TimesAssumption DEF Nothing, Entries, Longest
<1>2. failed \in BOOLEAN
  BY DEF Init
<1>3. now \in 0..MaxTime /\ stored \in [Requests -> -1..MaxTime]
  BY TimesAssumption DEF Init
<1>4. QED  BY <1>1, <1>2, <1>3 DEF Init, TypeOK, Stages

(* The steps of a request keep the types of what they change. *)
LEMMA TypeStep == TypeOK /\ StagesAgree /\ [Next]_vars => TypeOK'
<1> SUFFICES ASSUME TypeOK, StagesAgree, [Next]_vars PROVE TypeOK'
  OBVIOUS
<1> USE TimesAssumption, NamesAssumption
<1>0. failed' \in BOOLEAN
  <2>1. failed \in BOOLEAN
    BY DEF TypeOK
  <2>2. failed' = failed \/ failed' = TRUE
    BY DEF Next, LookHot, LookWarm, Promote, LookSemantic, Answer, StoreWarm,
           StoreSemantic, End, Evict, Clean, Tick, Works, Fails, vars
  <2>3. QED  BY <2>1, <2>2
<1>1. ASSUME NEW r \in Requests, LookHot(r) PROVE TypeOK'
  <2>1. earlier' \in [Requests -> SUBSET Requests]
    BY <1>1 DEF LookHot, TypeOK, Findable
  <2>2. /\ key' \in [Requests -> Keys \cup {NoKey}]
        /\ stage' \in [Requests -> Stages]
    BY <1>1 DEF LookHot, TypeOK, Goes, Stages, Over
  <2>3. \A k \in Keys : hot[k].by \in Requests \cup {NoRequest}
    BY DEF TypeOK, Entries
  <2>4. served' \in [Requests -> Requests \cup {NoRequest}]
    BY <1>1, <2>3 DEF LookHot, TypeOK
  <2>5. QED  BY <1>0, <1>1, <2>1, <2>2, <2>4 DEF LookHot, TypeOK, caches
<1>2. ASSUME NEW r \in Requests, LookWarm(r) PROVE TypeOK'
  <2>1. key[r] \in Keys
    BY <1>2 DEF LookWarm, StagesAgree
  <2>2. warm[key[r]].by \in Requests \cup {NoRequest}
    BY <2>1 DEF TypeOK, Entries
  <2>3. served' \in [Requests -> Requests \cup {NoRequest}]
    BY <1>2, <2>2 DEF LookWarm, TypeOK
  <2>4. stage' \in [Requests -> Stages]
    BY <1>2 DEF LookWarm, TypeOK, Goes, Stages, Over
  <2>5. QED  BY <1>0, <1>2, <2>3, <2>4 DEF LookWarm, TypeOK, caches, asked
<1>3. ASSUME NEW r \in Requests, Promote(r) PROVE TypeOK'
  <2>1. now + Promotion \in 0..(MaxTime + Longest)
    BY DEF TypeOK, Longest
  <2>2. hot' \in [Keys -> Entries(Longest)]
    BY <1>3, <2>1 DEF Promote, TypeOK, Entries
  <2>3. stage' \in [Requests -> Stages]
    BY <1>3 DEF Promote, TypeOK, Goes, Stages, Over
  <2>4. QED  BY <1>0, <1>3, <2>2, <2>3 DEF Promote, TypeOK, asked
<1>4. ASSUME NEW r \in Requests, LookSemantic(r) PROVE TypeOK'
  <2>1. \A p \in Matches(r) : p \in Prompts
    BY DEF Matches
  <2>2. \A p \in Prompts : rows[p].by \in Requests \cup {NoRequest}
    BY DEF TypeOK, Entries
  <2>3. served' \in [Requests -> Requests \cup {NoRequest}]
    BY <1>4, <2>1, <2>2 DEF LookSemantic, TypeOK
  <2>4. stage' \in [Requests -> Stages]
    BY <1>4 DEF LookSemantic, TypeOK, Goes, Stages, Over
  <2>5. QED  BY <1>0, <1>4, <2>3, <2>4 DEF LookSemantic, TypeOK, caches, asked
<1>5. ASSUME NEW r \in Requests, Answer(r) PROVE TypeOK'
  <2>1. now + TTL \in 0..(MaxTime + Longest)
    BY DEF TypeOK, Longest
  <2>2. hot' \in [Keys -> Entries(Longest)]
    BY <1>5, <2>1 DEF Answer, TypeOK, Entries
  <2>3. /\ stage' \in [Requests -> Stages]
        /\ route' \in [Requests -> Routes \cup {NoKey}]
        /\ writing' \subseteq Requests
        /\ stored' \in [Requests -> -1..MaxTime]
    BY <1>5 DEF Answer, TypeOK, Goes, Stages, Over
  <2>4. QED  BY <1>0, <1>5, <2>2, <2>3 DEF Answer, TypeOK, asked
<1>6. ASSUME NEW r \in Requests, StoreWarm(r) PROVE TypeOK'
  <2>1. now + TTL \in 0..(MaxTime + TTL)
    BY DEF TypeOK
  <2>2. warm' \in [Keys -> Entries(TTL)]
    BY <1>6, <2>1 DEF StoreWarm, TypeOK, Entries, Upserted
  <2>3. writing' \subseteq Requests
    BY <1>6 DEF StoreWarm, TypeOK
  <2>4. QED  BY <1>0, <1>6, <2>2, <2>3 DEF StoreWarm, TypeOK, asked
<1>7. ASSUME NEW r \in Requests, StoreSemantic(r) PROVE TypeOK'
  <2>1. now + SemanticTTL \in 0..(MaxTime + SemanticTTL)
    BY DEF TypeOK
  <2>2. rows' \in [Prompts -> Entries(SemanticTTL)]
    BY <1>7, <2>1 DEF StoreSemantic, TypeOK, Entries, Inserted
  <2>3. stage' \in [Requests -> Stages]
    BY <1>7 DEF StoreSemantic, TypeOK, Goes, Stages, Over
  <2>4. QED  BY <1>0, <1>7, <2>2, <2>3 DEF StoreSemantic, TypeOK, asked
<1>8. ASSUME NEW r \in Requests, End(r) PROVE TypeOK'
  <2>1. stage' \in [Requests -> Stages]
    BY <1>8 DEF End, TypeOK, Goes, Stages, Over
  <2>2. QED  BY <1>0, <1>8, <2>1 DEF End, TypeOK, caches, asked
<1>9. ASSUME NEW k \in Keys, Evict(k) PROVE TypeOK'
  <2>1. hot' \in [Keys -> Entries(Longest)]
    BY <1>9 DEF Evict, TypeOK, Entries, Nothing, Longest
  <2>2. QED  BY <1>0, <1>9, <2>1 DEF Evict, TypeOK, asked
<1>10. CASE Clean
  <2>1. warm' \in [Keys -> Entries(TTL)]
    BY <1>10 DEF Clean, TypeOK, Entries, Nothing
  <2>2. QED  BY <1>0, <1>10, <2>1 DEF Clean, TypeOK, asked
<1>11. CASE Tick
  BY <1>11 DEF Tick, TypeOK, caches, asked
<1>12. CASE UNCHANGED vars
  BY <1>12 DEF vars, TypeOK
<1>13. QED
  BY <1>1, <1>2, <1>3, <1>4, <1>5, <1>6, <1>7, <1>8, <1>9, <1>10, <1>11, <1>12
     DEF Next

-----------------------------------------------------------------------------
(* A stored answer is never asked or routed anew. *)
AnswersKept ==
    \A q \in Requests : Answered(q) =>
        stored'[q] = stored[q] /\ key'[q] = key[q] /\ route'[q] = route[q]

(* Whatever a step does, the answers that were given stay what they are.   *)
LEMMA AnswersStay == TypeOK /\ StagesAgree /\ [Next]_vars => AnswersKept
<1> SUFFICES ASSUME TypeOK, StagesAgree, [Next]_vars, NEW q \in Requests, Answered(q)
             PROVE  stored'[q] = stored[q] /\ key'[q] = key[q] /\ route'[q] = route[q]
  BY DEF AnswersKept
<1>1. stage[q] # "idle" /\ stage[q] # "calling"
  BY DEF StagesAgree
<1>2. ASSUME NEW r \in Requests, LookHot(r)
      PROVE  stored'[q] = stored[q] /\ key'[q] = key[q] /\ route'[q] = route[q]
  BY <1>1, <1>2 DEF LookHot, TypeOK
<1>3. ASSUME NEW r \in Requests, Answer(r)
      PROVE  stored'[q] = stored[q] /\ key'[q] = key[q] /\ route'[q] = route[q]
  BY <1>1, <1>3 DEF Answer, TypeOK, asked
<1>4. CASE UNCHANGED <<stored, key, route>>
  BY <1>4
<1>5. QED
  BY <1>2, <1>3, <1>4
     DEF Next, LookWarm, Promote, LookSemantic, StoreWarm, StoreSemantic, End, Evict,
         Clean, Tick, asked, vars

(* Where a request is and what it holds continue to agree.                 *)
LEMMA StagesStep == TypeOK /\ StagesAgree /\ [Next]_vars => StagesAgree'
<1> SUFFICES ASSUME TypeOK, StagesAgree, [Next]_vars PROVE StagesAgree'
  OBVIOUS
<1>1. ASSUME NEW r \in Requests, LookHot(r) PROVE StagesAgree'
  <2>1. UNCHANGED <<now, route, stored, writing>>
    BY <1>1 DEF LookHot
  <2>2. /\ key'[r] \in Keys /\ stage'[r] \in {"exactHit", "warm"}
        /\ \A q \in Requests \ {r} : key'[q] = key[q] /\ stage'[q] = stage[q]
    BY <1>1 DEF LookHot, Goes, TypeOK
  <2>3. ~Answered(r)
    BY <1>1 DEF LookHot, StagesAgree
  <2>4. QED  BY <2>1, <2>2, <2>3 DEF StagesAgree
<1>2. ASSUME NEW r \in Requests,
             LookWarm(r) \/ Promote(r) \/ LookSemantic(r) \/ StoreSemantic(r) \/ End(r)
      PROVE  StagesAgree'
  <2>1. UNCHANGED <<now, key, route, stored, writing>>
    BY <1>2 DEF LookWarm, Promote, LookSemantic, StoreSemantic, End, asked
  <2>2. /\ stage[r] \in {"warm", "promote", "semantic", "calling"} =>
              stage'[r] \notin {"storeSemantic", "done"}
        /\ stage[r] = "storeSemantic" => stage'[r] \in {"done", "ended"}
        /\ stage[r] \in {"warm", "promote", "semantic", "calling", "storeSemantic"}
        /\ \A q \in Requests \ {r} : stage'[q] = stage[q]
    BY <1>2
       DEF LookWarm, Promote, LookSemantic, StoreSemantic, End, Goes, TypeOK, Stages, Over
  <2>3. QED  BY <2>1, <2>2 DEF StagesAgree
<1>3. ASSUME NEW r \in Requests, Answer(r) PROVE StagesAgree'
  <2>1. UNCHANGED <<now, key>>
    BY <1>3 DEF Answer, asked
  <2>2. /\ stage[r] = "calling" /\ stage'[r] = "storeSemantic"
        /\ route'[r] \in Routes /\ stored'[r] = now /\ writing' = writing \cup {r}
        /\ \A q \in Requests \ {r} :
              stage'[q] = stage[q] /\ route'[q] = route[q] /\ stored'[q] = stored[q]
    BY <1>3 DEF Answer, Goes, TypeOK
  <2>3. now \in Nat
    BY TimesAssumption DEF TypeOK
  <2>4. QED  BY <2>1, <2>2, <2>3 DEF StagesAgree
<1>4. ASSUME NEW r \in Requests, StoreWarm(r) PROVE StagesAgree'
  BY <1>4 DEF StoreWarm, asked, StagesAgree
<1>5. ASSUME NEW k \in Keys, Evict(k) PROVE StagesAgree'
  BY <1>5 DEF Evict, asked, StagesAgree
<1>6. CASE Clean
  BY <1>6 DEF Clean, asked, StagesAgree
<1>7. CASE Tick
  BY <1>7 DEF Tick, asked, StagesAgree
<1>8. CASE UNCHANGED vars
  BY <1>8 DEF vars, StagesAgree
<1>9. QED
  BY <1>1, <1>2, <1>3, <1>4, <1>5, <1>6, <1>7, <1>8 DEF Next

-----------------------------------------------------------------------------
(* Only a promotion and an answer put something into Redis.                *)
LEMMA HotStep == CachesInv /\ [Next]_vars => HotSound'
<1> SUFFICES ASSUME CachesInv, [Next]_vars, NEW k \in Keys, hot'[k] # Nothing
             PROVE  (Belongs(hot[k].by, k) /\ Within(hot[k].expires, k, TTL + Promotion))'
  BY DEF HotSound, Nothing
<1> USE TimesAssumption
<1>1. AnswersKept
  BY AnswersStay DEF CachesInv
<1>2. CASE hot'[k] = hot[k]
  <2>1. Belongs(hot[k].by, k) /\ Within(hot[k].expires, k, TTL + Promotion)
    BY <1>2 DEF CachesInv, HotSound
  <2>2. QED
    BY <1>1, <1>2, <2>1 DEF AnswersKept, Belongs, Within, AnswerKey
<1>3. ASSUME NEW r \in Requests, Promote(r), hot'[k] # hot[k]
      PROVE  (Belongs(hot[k].by, k) /\ Within(hot[k].expires, k, TTL + Promotion))'
  <2>1. k = key[r] /\ hot'[k] = [by |-> served[r], expires |-> now + Promotion]
    BY <1>3 DEF Promote, CachesInv, TypeOK
  <2>2. Belongs(served[r], k) /\ Within(now, k, TTL)
    BY <1>3, <2>1 DEF Promote, CachesInv, ServedSound
  <2>3. now \in Nat /\ \A q \in Requests : stored[q] \in Int
    BY DEF CachesInv, TypeOK
  <2>4. Within(now + Promotion, k, TTL + Promotion)
    BY <2>2, <2>3 DEF Within
  <2>5. QED
    BY <1>1, <2>1, <2>2, <2>4 DEF AnswersKept, Belongs, Within, AnswerKey
<1>4. ASSUME NEW r \in Requests, Answer(r), hot'[k] # hot[k]
      PROVE  (Belongs(hot[k].by, k) /\ Within(hot[k].expires, k, TTL + Promotion))'
  <2>1. /\ k = StoreKey(key[r], route'[r])
        /\ hot'[k] = [by |-> r, expires |-> now + TTL]
    BY <1>4 DEF Answer, CachesInv, TypeOK
  <2>2. key'[r] = key[r] /\ key[r] \in Keys /\ stored'[r] = now /\ now \in Nat
    BY <1>4 DEF Answer, CachesInv, StagesAgree, TypeOK, asked
  <2>3. AnswerKey(r)' = k
    BY <2>1, <2>2 DEF AnswerKey, StoreKey, Keys
  <2>4. QED  BY <2>1, <2>2, <2>3 DEF Belongs, Within
<1>5. ASSUME NEW j \in Keys, Evict(j) PROVE hot'[k] = hot[k]
  BY <1>5 DEF Evict, CachesInv, TypeOK
<1>6. QED
  BY <1>2, <1>3, <1>4, <1>5
     DEF Next, LookHot, LookWarm, LookSemantic, StoreWarm, StoreSemantic, End, Clean,
         Tick, caches, vars

(* The goroutine writes in the tick of the answer, so the row's life is    *)
(* counted from there; an older answer in it is carried on.                *)
LEMMA WarmStep == CachesInv /\ [Next]_vars => WarmSound'
<1> SUFFICES ASSUME CachesInv, [Next]_vars, NEW k \in Keys, warm'[k] # Nothing
             PROVE  (Belongs(warm[k].by, k) /\ Within(warm[k].expires, k, TTL))'
  BY DEF WarmSound, Nothing
<1> USE TimesAssumption
<1>1. AnswersKept
  BY AnswersStay DEF CachesInv
<1>2. CASE warm'[k] = warm[k]
  <2>1. Belongs(warm[k].by, k) /\ Within(warm[k].expires, k, TTL)
    BY <1>2 DEF CachesInv, WarmSound
  <2>2. QED
    BY <1>1, <1>2, <2>1 DEF AnswersKept, Belongs, Within, AnswerKey
<1>3. ASSUME NEW r \in Requests, StoreWarm(r), warm'[k] # warm[k]
      PROVE  (Belongs(warm[k].by, k) /\ Within(warm[k].expires, k, TTL))'
  <2>1. k = StoreKey(key[r], route[r]) /\ warm'[k] = Upserted(warm[k], r)
    BY <1>3 DEF StoreWarm, CachesInv, TypeOK
  <2>2. stored[r] = now /\ now \in Nat /\ key[r] \in Keys
    BY <1>3 DEF StoreWarm, CachesInv, StagesAgree, TypeOK
  <2>3. AnswerKey(r) = k
    BY <2>1, <2>2 DEF AnswerKey, StoreKey, Keys
  <2>4. Within(now + TTL, k, TTL) /\ Belongs(r, k)
    BY <2>2, <2>3 DEF Within, Belongs
  <2>5. Belongs(warm'[k].by, k) /\ warm'[k].expires = now + TTL
    BY <2>1, <2>4 DEF Upserted, CachesInv, WarmSound
  <2>6. QED
    BY <1>1, <2>4, <2>5 DEF AnswersKept, Belongs, Within, AnswerKey
<1>4. CASE Clean
  <2>1. warm'[k] = warm[k]
    BY <1>4 DEF Clean
  <2>2. QED  BY <1>2, <2>1
<1>5. QED
  BY <1>2, <1>3, <1>4
     DEF Next, LookHot, LookWarm, Promote, LookSemantic, Answer, StoreSemantic, End,
         Evict, Tick, caches, vars

(* The rows stay rows of answers that requests were given.                 *)
LEMMA RowsStep == CachesInv /\ [Next]_vars => RowsSound'
<1> SUFFICES ASSUME CachesInv, [Next]_vars, NEW p \in Prompts, rows'[p] # Nothing
             PROVE  (/\ rows[p].by \in Requests /\ Answered(rows[p].by)
                     /\ Prompt(rows[p].by) = p)'
  BY DEF RowsSound, Nothing
<1>1. AnswersKept
  BY AnswersStay DEF CachesInv
<1>2. CASE rows'[p] = rows[p]
  <2>1. rows[p].by \in Requests /\ Answered(rows[p].by) /\ Prompt(rows[p].by) = p
    BY <1>2 DEF CachesInv, RowsSound
  <2>2. QED  BY <1>1, <1>2, <2>1 DEF AnswersKept, Prompt
<1>3. ASSUME NEW r \in Requests, StoreSemantic(r), rows'[p] # rows[p]
      PROVE  (/\ rows[p].by \in Requests /\ Answered(rows[p].by)
              /\ Prompt(rows[p].by) = p)'
  <2>1. p = Prompt(r) /\ rows'[p] = Inserted(rows[p], r)
    BY <1>3 DEF StoreSemantic, CachesInv, TypeOK
  <2>2. rows'[p].by = r
    BY <1>3, <2>1 DEF Inserted
  <2>3. Answered(r)
    BY <1>3 DEF StoreSemantic, CachesInv, StagesAgree
  <2>4. QED  BY <1>1, <2>1, <2>2, <2>3 DEF AnswersKept, Prompt
<1>4. QED
  BY <1>2, <1>3
     DEF Next, LookHot, LookWarm, Promote, LookSemantic, Answer, StoreWarm, End,
         Evict, Clean, Tick, caches, vars

(* A request's own lookups find what belongs to it; the others' steps      *)
(* change neither what it found nor what that was an answer to.            *)
LEMMA ServedStep == CachesInv /\ [Next]_vars => ServedSound'
<1> SUFFICES ASSUME CachesInv, [Next]_vars, NEW r \in Requests
             PROVE  (/\ stage[r] \in {"promote", "exactHit"} => Belongs(served[r], key[r])
                     /\ stage[r] = "promote" => Within(now, key[r], TTL)
                     /\ stage[r] = "semanticHit" =>
                           /\ served[r] \in Requests /\ Answered(served[r])
                           /\ key[served[r]].project = key[r].project
                           /\ route[served[r]] = key[r].route
                           /\ <<Prompt(served[r]), Prompt(r)>> \in Similar)'
  BY DEF ServedSound
<1> DEFINE Goal == /\ stage[r] \in {"promote", "exactHit"} => Belongs(served[r], key[r])
                   /\ stage[r] = "promote" => Within(now, key[r], TTL)
                   /\ stage[r] = "semanticHit" =>
                         /\ served[r] \in Requests /\ Answered(served[r])
                         /\ key[served[r]].project = key[r].project
                         /\ route[served[r]] = key[r].route
                         /\ <<Prompt(served[r]), Prompt(r)>> \in Similar
<1> USE TimesAssumption
<1>1. AnswersKept
  BY AnswersStay DEF CachesInv
<1>2. Goal
  BY DEF CachesInv, ServedSound
<1>3. ASSUME stage'[r] = stage[r], served'[r] = served[r], key'[r] = key[r],
             now' = now \/ stage[r] # "promote"
      PROVE  Goal'
  <2>1. CASE stage[r] \in {"promote", "exactHit"}
    <3>1. Belongs(served[r], key[r])'
      BY <1>1, <1>2, <1>3, <2>1 DEF AnswersKept, Belongs, AnswerKey
    <3>2. CASE stage[r] = "promote"
      <4>1. Within(now, key[r], TTL) /\ now' = now
        BY <1>2, <1>3, <3>2
      <4>2. Within(now, key[r], TTL)'
        BY <1>1, <1>3, <4>1 DEF AnswersKept, Within, AnswerKey
      <4>3. QED  BY <1>3, <3>1, <3>2, <4>2
    <3>3. CASE stage[r] = "exactHit"
      BY <1>3, <3>1, <3>3
    <3>4. QED  BY <2>1, <3>2, <3>3
  <2>2. CASE stage[r] = "semanticHit"
    BY <1>1, <1>2, <1>3, <2>2 DEF AnswersKept, Prompt
  <2>3. CASE stage[r] \notin {"promote", "exactHit", "semanticHit"}
    BY <1>3, <2>3
  <2>4. QED  BY <2>1, <2>2, <2>3
<1>4. CASE LookHot(r)
  <2>1. CASE stage'[r] = "warm"
    BY <2>1
  <2>2. CASE stage'[r] = "exactHit"
    <3>1. PICK k \in Keys : /\ key' = [key EXCEPT ![r] = k]
                            /\ Live(hot[k])
                            /\ served' = [served EXCEPT ![r] = hot[k].by]
      BY <1>4, <2>2 DEF LookHot, Goes, CachesInv, TypeOK
    <3>2. hot[k] # Nothing
      BY <3>1 DEF Live, Nothing, CachesInv, TypeOK
    <3>3. Belongs(hot[k].by, k)
      BY <3>2 DEF CachesInv, HotSound
    <3>4. served'[r] = hot[k].by /\ key'[r] = k
      BY <3>1 DEF CachesInv, TypeOK
    <3>5. QED
      BY <1>1, <2>2, <3>3, <3>4 DEF AnswersKept, Belongs, AnswerKey
  <2>3. QED  BY <1>4, <2>1, <2>2 DEF LookHot, Goes, CachesInv, TypeOK
<1>5. CASE LookWarm(r)
  <2>1. CASE stage'[r] # "promote"
    BY <1>5, <2>1 DEF LookWarm, Goes, CachesInv, TypeOK
  <2>2. CASE stage'[r] = "promote"
    <3>1. /\ Live(warm[key[r]]) /\ served'[r] = warm[key[r]].by
          /\ UNCHANGED <<now, key>>
      BY <1>5, <2>2 DEF LookWarm, Unexpired, Goes, CachesInv, TypeOK, asked
    <3>2. key[r] \in Keys
      BY <1>5 DEF LookWarm, CachesInv, StagesAgree
    <3>3. warm[key[r]] # Nothing /\ now <= warm[key[r]].expires
      BY <3>1, <3>2 DEF Live, Nothing, Entries, CachesInv, TypeOK
    <3>4. /\ Belongs(warm[key[r]].by, key[r])
          /\ Within(warm[key[r]].expires, key[r], TTL)
      BY <3>2, <3>3 DEF CachesInv, WarmSound
    <3>5. Within(now, key[r], TTL)
      <4>1. warm[key[r]].expires \in Nat /\ now \in Nat /\ \A q \in Requests : stored[q] \in Int
        BY <3>2 DEF CachesInv, TypeOK, Entries
      <4>2. QED  BY <3>3, <3>4, <4>1 DEF Within
    <3>6. QED
      BY <1>1, <2>2, <3>1, <3>4, <3>5 DEF AnswersKept, Belongs, Within, AnswerKey
  <2>3. QED  BY <2>1, <2>2
<1>6. CASE Promote(r)
  <2>1. /\ stage[r] = "promote" /\ stage'[r] = "exactHit"
        /\ UNCHANGED <<served, key>>
    BY <1>6 DEF Promote, Goes, CachesInv, TypeOK, asked
  <2>2. QED
    BY <1>1, <1>2, <2>1 DEF AnswersKept, Belongs, AnswerKey
<1>7. CASE LookSemantic(r)
  <2>1. CASE stage'[r] # "semanticHit"
    BY <1>7, <2>1 DEF LookSemantic, Goes, CachesInv, TypeOK
  <2>2. CASE stage'[r] = "semanticHit"
    <3>1. UNCHANGED <<key, route>>
      BY <1>7 DEF LookSemantic, asked
    <3>2. PICK p \in Matches(r) : served'[r] = rows[p].by
      BY <1>7, <2>2 DEF LookSemantic, Goes, CachesInv, TypeOK
    <3>3. /\ p \in Prompts /\ Live(rows[p]) /\ <<p, Prompt(r)>> \in Similar
          /\ key[rows[p].by].project = key[r].project
          /\ route[rows[p].by] = key[r].route
      BY DEF Matches
    <3>4. rows[p] # Nothing
      BY <3>3 DEF Live, Nothing, CachesInv, TypeOK
    <3>5. /\ rows[p].by \in Requests /\ Answered(rows[p].by)
          /\ Prompt(rows[p].by) = p
      BY <3>3, <3>4 DEF CachesInv, RowsSound
    <3>6. QED
      BY <1>1, <2>2, <3>1, <3>2, <3>3, <3>5 DEF AnswersKept, Prompt
  <2>3. QED  BY <2>1, <2>2
<1>8. ASSUME Answer(r) \/ StoreSemantic(r) \/ End(r) PROVE Goal'
  BY <1>8 DEF Answer, StoreSemantic, End, Goes, CachesInv, TypeOK
<1>9. ASSUME NEW q \in Requests, q # r,
              \/ LookHot(q) \/ LookWarm(q) \/ Promote(q) \/ LookSemantic(q)
              \/ Answer(q) \/ StoreSemantic(q) \/ End(q)
       PROVE  Goal'
  <2>1. /\ stage'[r] = stage[r] /\ served'[r] = served[r] /\ key'[r] = key[r]
        /\ now' = now
    BY <1>9 DEF LookHot, LookWarm, Promote, LookSemantic, Answer, StoreSemantic, End,
                 Goes, CachesInv, TypeOK, asked
  <2>2. QED  BY <1>3, <2>1
<1>10. CASE Tick
  <2>1. stage[r] # "promote"
    BY <1>10 DEF Tick, Over
  <2>2. QED  BY <1>3, <1>10, <2>1 DEF Tick, asked
<1>11. ASSUME \/ \E q \in Requests : StoreWarm(q)
              \/ \E k \in Keys : Evict(k)
              \/ Clean \/ UNCHANGED vars
       PROVE  Goal'
  BY <1>3, <1>11 DEF StoreWarm, Evict, Clean, asked, vars
<1>12. QED
  BY <1>4, <1>5, <1>6, <1>7, <1>8, <1>9, <1>10, <1>11 DEF Next

-----------------------------------------------------------------------------
(* The inductive invariant: what is stored, found and promoted belongs     *)
(* where it is, and lives no longer than it may.                           *)
THEOREM CachesInvariant == Spec => []CachesInv
<1>1. Init => CachesInv
  <2> SUFFICES ASSUME Init PROVE CachesInv
    OBVIOUS
  <2>1. StagesAgree /\ ServedSound
    BY DEF Init, StagesAgree, ServedSound
  <2>2. HotSound /\ WarmSound /\ RowsSound
    BY DEF Init, HotSound, WarmSound, RowsSound
  <2>3. QED  BY InitTypes, <2>1, <2>2 DEF CachesInv
<1>2. CachesInv /\ [Next]_vars => CachesInv'
  BY TypeStep, StagesStep, HotStep, WarmStep, RowsStep, ServedStep DEF CachesInv
<1>3. QED  BY <1>1, <1>2, PTL DEF Spec

(* Every variable of the caches keeps its type. *)
THEOREM TypeCorrect == Spec => []TypeOK
<1>1. CachesInv => TypeOK
  BY DEF CachesInv
<1>2. QED  BY <1>1, CachesInvariant, PTL

(* A hit in either cache is an answer of the asker's project and route, to *)
(* its conversation or to a prompt that is similar.                        *)
THEOREM HitsBelong == Spec => []HitBelongsToAsker
<1>1. CachesInv => HitBelongsToAsker
  BY DEF CachesInv, ServedSound, Belongs, HitBelongsToAsker
<1>2. QED  BY <1>1, CachesInvariant, PTL

(* No entry outlives the last answer stored under its key by more than its *)
(* lifetime and, in Redis, one promotion.                                  *)
THEOREM LifetimesEnd == Spec => []LifetimeBounded
<1>1. CachesInv => LifetimeBounded
  <2> SUFFICES ASSUME CachesInv, NEW k \in Keys
               PROVE  /\ Live(hot[k]) => Within(hot[k].expires, k, TTL + Promotion)
                      /\ Live(warm[k]) => Within(warm[k].expires, k, TTL)
    BY DEF LifetimeBounded, Within
  <2>1. /\ Live(hot[k]) => hot[k] # Nothing
        /\ Live(warm[k]) => warm[k] # Nothing
    BY DEF Live, Nothing, CachesInv, TypeOK
  <2>2. QED  BY <2>1 DEF CachesInv, HotSound, WarmSound
<1>2. QED  BY <1>1, CachesInvariant, PTL

-----------------------------------------------------------------------------
(* As long as nothing has failed.  An answer is in Postgres for its        *)
(* lifetime once its goroutine has written it.                             *)
Stale(q) == stored[q] + TTL <= now
WarmKeeps ==
    \A q \in Requests : Answered(q) /\ q \notin writing =>
        stored[q] + TTL < now \/ warm[AnswerKey(q)].expires >= stored[q] + TTL

(* Until then it is in Redis, if Redis keeps its entries, or an older row  *)
(* stands in, from which a promotion may have overwritten the new entry.   *)
HotKeeps ==
    \A q \in writing : "evict" \notin faults /\ TTL > 0 =>
        Live(hot[AnswerKey(q)]) \/ Live(warm[AnswerKey(q)])

PromotesLive ==
    \A r \in Requests : stage[r] = "promote" /\ TTL > 0 => Live(warm[key[r]])

(* What a request must find, it finds in Redis or then in Postgres.        *)
RepeatsFind ==
    \A r \in Requests : \A q \in earlier[r] : stage[r] # "idle" =>
        /\ q \in Requests /\ Answered(q) /\ AnswerKey(q) = key[r]
        /\ stage[r] = "warm" => Stale(q) \/ Live(warm[key[r]])
        /\ stage[r] \in {"semantic", "calling"} => Stale(q)

Kept == WarmKeeps /\ HotKeeps /\ PromotesLive /\ RepeatsFind
KeptInv == (\A q \in Requests : stored[q] <= now) /\ (~failed => Kept)

(* Types that several steps need.                                          *)
LEMMA KeptTypes ==
    ASSUME CachesInv
    PROVE  /\ now \in Nat /\ TTL \in Nat /\ Promotion \in Nat /\ failed \in BOOLEAN
           /\ \A q \in Requests : stored[q] \in Int
           /\ \A k \in Keys : hot[k].expires \in Nat /\ warm[k].expires \in Nat
           /\ \A q \in Requests : Answered(q) => key[q] \in Keys /\ AnswerKey(q) \in Keys
           /\ \A q \in writing : q \in Requests /\ Answered(q) /\ stored[q] = now
<1> USE TimesAssumption DEF CachesInv, TypeOK
<1>1. now \in Nat /\ TTL \in Nat /\ Promotion \in Nat /\ failed \in BOOLEAN
  OBVIOUS
<1>2. \A q \in Requests : stored[q] \in Int
  OBVIOUS
<1>3. \A k \in Keys : hot[k].expires \in Nat /\ warm[k].expires \in Nat
  BY DEF Entries, Longest
<1>4. ASSUME NEW q \in Requests, Answered(q) PROVE key[q] \in Keys /\ AnswerKey(q) \in Keys
  <2>1. stage[q] # "idle" /\ route[q] \in Routes /\ key[q] \in Keys
    BY <1>4 DEF StagesAgree
  <2>2. QED  BY <2>1 DEF AnswerKey, Keys
<1>5. \A q \in writing : q \in Requests /\ Answered(q) /\ stored[q] = now
  BY DEF StagesAgree
<1>6. QED  BY <1>1, <1>2, <1>3, <1>4, <1>5

(* Answers stay what they were, also as answers to a key.                  *)
LEMMA KeysStay ==
    ASSUME CachesInv, [Next]_vars
    PROVE  \A q \in Requests : Answered(q) =>
              Answered(q)' /\ AnswerKey(q)' = AnswerKey(q) /\ stored'[q] = stored[q]
  BY AnswersStay DEF CachesInv, AnswersKept, AnswerKey

(* A failure is remembered.                                                *)
LEMMA FailedStays == [Next]_vars /\ ~failed' => ~failed
  BY DEF Next, LookHot, LookWarm, Promote, LookSemantic, Answer, StoreWarm,
         StoreSemantic, End, Evict, Clean, Tick, Works, Fails, vars

(* No answer was stored in the future, and a step moves the clock by one   *)
(* at most.                                                                *)
LEMMA StoredBefore ==
    ASSUME CachesInv, [Next]_vars, \A q \in Requests : stored[q] <= now
    PROVE  /\ \A q \in Requests : stored'[q] <= now'
           /\ \/ now' = now
              \/ Tick /\ now' = now + 1
<1>1. now \in Nat /\ \A q \in Requests : stored[q] \in Int
  BY KeptTypes
<1>2. ASSUME NEW r \in Requests, Answer(r)
      PROVE  now' = now /\ \A q \in Requests : stored'[q] <= now'
  BY <1>1, <1>2 DEF Answer, CachesInv, TypeOK
<1>3. \/ \E r \in Requests : Answer(r)
      \/ Tick /\ now' = now + 1 /\ stored' = stored
      \/ UNCHANGED <<now, stored>>
  BY DEF Next, LookHot, LookWarm, Promote, LookSemantic, StoreWarm, StoreSemantic, End,
         Evict, Clean, Tick, vars
<1>4. CASE Tick /\ now' = now + 1 /\ stored' = stored
  BY <1>1, <1>4
<1>5. CASE UNCHANGED <<now, stored>>
  BY <1>5
<1>6. QED  BY <1>2, <1>3, <1>4, <1>5

(* A row that is live stays live while the clock stands.                   *)
LEMMA WarmLives ==
    ASSUME CachesInv, [Next]_vars, now' = now, TTL > 0, NEW k \in Keys, Live(warm[k])
    PROVE  Live(warm[k])'
<1>1. now \in Nat /\ warm[k].expires \in Nat /\ TTL \in Nat
  BY KeptTypes
<1>2. ASSUME NEW r \in Requests, StoreWarm(r) PROVE Live(warm[k])'
  BY <1>1, <1>2 DEF StoreWarm, Upserted, Live, CachesInv, TypeOK
<1>3. CASE Clean
  BY <1>1, <1>3 DEF Clean, Live
<1>4. CASE warm' = warm
  BY <1>4 DEF Live
<1>5. QED
  BY <1>2, <1>3, <1>4
     DEF Next, LookHot, LookWarm, Promote, LookSemantic, Answer, StoreSemantic, End,
         Evict, Tick, caches, vars

(* While nothing fails, an answer that is in Postgres stays there until it *)
(* expires.                                                                *)
LEMMA WarmKeepsStep ==
    ASSUME CachesInv, CachesInv', [Next]_vars, KeptInv, ~failed' PROVE WarmKeeps'
<1> SUFFICES ASSUME NEW q \in Requests, Answered(q)', q \notin writing'
             PROVE  (stored[q] + TTL < now \/ warm[AnswerKey(q)].expires >= stored[q] + TTL)'
  BY DEF WarmKeeps
<1>1. WarmKeeps
  BY FailedStays DEF KeptInv, Kept
<1>2. CASE ~Answered(q)
  <2>1. PICK r \in Requests : Answer(r)
    BY <1>2
       DEF Next, LookHot, LookWarm, Promote, LookSemantic, StoreWarm, StoreSemantic, End,
           Evict, Clean, Tick, asked, vars
  <2>2. q = r
    BY <1>2, <2>1 DEF Answer, CachesInv, TypeOK
  <2>3. QED  BY <2>1, <2>2 DEF Answer
<1>3. CASE Answered(q) /\ q \in writing
  <2>1. PICK r \in Requests : StoreWarm(r)
    BY <1>3
       DEF Next, LookHot, LookWarm, Promote, LookSemantic, Answer, StoreSemantic, End,
           Evict, Clean, Tick, asked, vars
  <2>2. q = r
    BY <1>3, <2>1 DEF StoreWarm
  <2>3. warm' = [warm EXCEPT ![AnswerKey(q)] = Upserted(@, q)] /\ now' = now /\ UNCHANGED stored
    <3>1. Works
      BY <2>1 DEF StoreWarm, Fails
    <3>2. StoreKey(key[q], route[q]) = AnswerKey(q)
      <4>1. key[q] \in Keys
        BY <1>3, KeptTypes
      <4>2. QED  BY <4>1 DEF StoreKey, AnswerKey, Keys
    <3>3. failed' = failed /\ ~failed
      BY <3>1, FailedStays DEF Works
    <3>4. QED  BY <2>1, <2>2, <3>2, <3>3 DEF StoreWarm, Fails
  <2>4. AnswerKey(q) \in Keys /\ stored[q] = now /\ AnswerKey(q)' = AnswerKey(q)
    BY <1>3, KeptTypes, KeysStay
  <2>5. warm'[AnswerKey(q)].expires = now + TTL
    BY <2>3, <2>4 DEF Upserted, CachesInv, TypeOK
  <2>6. now + TTL \in Int
    BY KeptTypes
  <2>7. QED  BY <2>3, <2>4, <2>5, <2>6
<1>4. CASE Answered(q) /\ q \notin writing
  <2> DEFINE k == AnswerKey(q)
  <2>1. /\ k \in Keys /\ AnswerKey(q)' = k /\ stored'[q] = stored[q]
        /\ stored[q] \in Int /\ now \in Nat /\ TTL \in Nat /\ warm[k].expires \in Nat
    BY <1>4, KeptTypes, KeysStay
  <2>2. stored[q] <= now /\ now <= now'
    BY <2>1, StoredBefore DEF KeptInv
  <2>3. stored[q] + TTL < now \/ warm[k].expires >= stored[q] + TTL
    BY <1>1, <1>4 DEF WarmKeeps
  <2> HIDE DEF k
  <2>4. ASSUME NEW r \in Requests, StoreWarm(r)
        PROVE  now' = now /\ (warm'[k] = warm[k] \/ warm'[k].expires = now + TTL)
    BY <2>1, <2>4 DEF StoreWarm, Upserted, CachesInv, TypeOK
  <2>5. CASE Clean
    <3>1. now' = now /\ (warm'[k] = warm[k] \/ warm[k].expires < now)
      BY <2>1, <2>5 DEF Clean
    <3>2. QED  BY <2>1, <2>2, <2>3, <3>1
  <2>6. CASE warm' = warm
    <3>1. now' \in Nat
      BY KeptTypes DEF CachesInv, TypeOK
    <3>2. QED  BY <2>1, <2>2, <2>3, <2>6, <3>1
  <2>7. (\E r \in Requests : StoreWarm(r)) \/ Clean \/ warm' = warm
    BY DEF Next, LookHot, LookWarm, Promote, LookSemantic, Answer, StoreSemantic, End,
           Evict, Tick, caches, vars
  <2>8. CASE \E r \in Requests : StoreWarm(r)
    <3>1. now' = now /\ (warm'[k] = warm[k] \/ warm'[k].expires = now + TTL)
      BY <2>4, <2>8
    <3>2. QED  BY <2>1, <2>2, <2>3, <3>1
  <2>9. QED  BY <2>5, <2>6, <2>7, <2>8
<1>5. QED  BY <1>2, <1>3, <1>4

(* Until it is there, Redis has it, or Postgres an older one.              *)
LEMMA HotKeepsStep ==
    ASSUME CachesInv, CachesInv', [Next]_vars, KeptInv, ~failed' PROVE HotKeeps'
<1> SUFFICES ASSUME NEW q \in Requests, q \in writing', "evict" \notin faults', TTL > 0
             PROVE  (Live(hot[AnswerKey(q)]) \/ Live(warm[AnswerKey(q)]))'
  BY DEF HotKeeps, CachesInv, TypeOK
<1>1. ~failed /\ HotKeeps /\ PromotesLive
  BY FailedStays DEF KeptInv, Kept
<1>2. faults' = faults
  BY DEF Next, LookHot, LookWarm, Promote, LookSemantic, Answer, StoreWarm, StoreSemantic,
         End, Evict, Clean, Tick, vars
<1>3. now \in Nat /\ TTL \in Nat
  BY KeptTypes
<1>4. now' = now
  <2>1. CASE Tick
    BY <2>1 DEF Tick
  <2>2. QED  BY <2>1, StoredBefore DEF KeptInv
<1>5. CASE q \notin writing
  <2>1. Answer(q)
    BY <1>5
       DEF Next, LookHot, LookWarm, Promote, LookSemantic, Answer, StoreWarm, StoreSemantic,
           End, Evict, Clean, Tick, asked, vars
  <2>2. q \in Requests /\ key[q] \in Keys
    BY <2>1, <1>5 DEF Answer, CachesInv, StagesAgree, TypeOK, Next
  <2>3. PICK rt \in Routes :
            /\ route' = [route EXCEPT ![q] = rt]
            /\ hot' = [hot EXCEPT ![StoreKey(key[q], rt)] = [by |-> q, expires |-> now + TTL]]
    BY <1>1, <2>1 DEF Answer, Fails
  <2>4. StoreKey(key[q], rt) = AnswerKey(q)' /\ AnswerKey(q)' \in Keys
    BY <2>1, <2>2, <2>3 DEF StoreKey, AnswerKey, Keys, Answer, asked, CachesInv, TypeOK
  <2>5. hot'[AnswerKey(q)'].expires = now + TTL
    BY <2>3, <2>4 DEF CachesInv, TypeOK
  <2>6. QED  BY <1>3, <1>4, <2>5 DEF Live
<1>6. CASE q \in writing
  <2>1. PICK k \in Keys : k = AnswerKey(q) /\ k = AnswerKey(q)'
    BY <1>6, KeptTypes, KeysStay
  <2>2. Live(hot[k]) \/ Live(warm[k])
    BY <1>1, <1>2, <1>6, <2>1 DEF HotKeeps
  <2>3. Live(warm[k]) => Live(warm[k])'
    BY <1>4, <2>1, WarmLives
  <2>4. CASE hot'[k] = hot[k]
    <3>1. hot'[k].expires = hot[k].expires
      BY <2>4
    <3>2. QED  BY <1>4, <2>1, <2>2, <2>3, <3>1 DEF Live
  <2>5. ASSUME NEW r \in Requests, Promote(r), hot'[k] # hot[k] PROVE Live(warm[k])'
    <3>1. k = key[r] /\ stage[r] = "promote"
      BY <2>5 DEF Promote, CachesInv, TypeOK
    <3>2. QED  BY <1>1, <2>1, <1>4, <3>1, WarmLives DEF PromotesLive
  <2>6. ASSUME NEW r \in Requests, Answer(r), hot'[k] # hot[k] PROVE hot'[k].expires = now + TTL
    BY <2>6, <2>1 DEF Answer, CachesInv, TypeOK
  <2>7. ASSUME NEW j \in Keys PROVE ~Evict(j)
    BY <1>2 DEF Evict
  <2>8. QED
    BY <1>3, <1>4, <2>1, <2>4, <2>5, <2>6, <2>7
       DEF Next, LookHot, LookWarm, LookSemantic, StoreWarm, StoreSemantic, End,
           Clean, Tick, caches, vars, Live
<1>7. QED  BY <1>5, <1>6

(* The row that a request promotes to Redis has not expired.               *)
LEMMA PromotesLiveStep ==
    ASSUME CachesInv, CachesInv', [Next]_vars, KeptInv, ~failed' PROVE PromotesLive'
<1> SUFFICES ASSUME NEW r \in Requests, stage'[r] = "promote", TTL > 0
             PROVE  Live(warm[key[r]])'
  BY DEF PromotesLive
<1>1. PromotesLive
  BY FailedStays DEF KeptInv, Kept
<1>2. CASE stage[r] = "promote"
  <2>1. now' = now
    <3>1. ~Tick
      BY <1>2 DEF Tick, Over
    <3>2. QED  BY <3>1, StoredBefore DEF KeptInv
  <2>2. key'[r] = key[r] /\ key[r] \in Keys
    <3>1. ASSUME NEW p \in Requests, LookHot(p) PROVE key'[r] = key[r]
      BY <1>2, <3>1 DEF LookHot, CachesInv, TypeOK
    <3>2. key[r] \in Keys
      BY <1>2 DEF CachesInv, StagesAgree
    <3>3. QED
      BY <3>1, <3>2
         DEF Next, LookWarm, Promote, LookSemantic, Answer, StoreWarm, StoreSemantic, End,
             Evict, Clean, Tick, asked, vars
  <2>3. QED  BY <1>1, <1>2, <2>1, <2>2, WarmLives DEF PromotesLive
<1>3. CASE stage[r] # "promote"
  <2>1. ASSUME NEW p \in Requests,
               LookHot(p) \/ Promote(p) \/ LookSemantic(p) \/ Answer(p) \/ StoreSemantic(p)
               \/ End(p)
        PROVE  FALSE
    BY <1>3, <2>1
       DEF LookHot, Promote, LookSemantic, Answer, StoreSemantic, End, Goes, CachesInv, TypeOK
  <2>2. PICK p \in Requests : LookWarm(p)
    BY <1>3, <2>1 DEF Next, StoreWarm, Evict, Clean, Tick, vars
  <2>3. p = r /\ Live(warm[key[r]]) /\ UNCHANGED <<now, warm, key>>
    BY <1>3, <2>2 DEF LookWarm, Goes, Unexpired, CachesInv, TypeOK, caches, asked
  <2>4. QED  BY <2>3 DEF Live
<1>4. QED  BY <1>2, <1>3

(* A repeated request still finds the answer that was given before it      *)
(* came.                                                                   *)
LEMMA RepeatsFindStep ==
    ASSUME CachesInv, CachesInv', [Next]_vars, KeptInv, ~failed' PROVE RepeatsFind'
<1> SUFFICES ASSUME NEW r \in Requests, NEW q \in Requests, q \in earlier'[r],
                    stage'[r] # "idle"
             PROVE  (/\ q \in Requests /\ Answered(q) /\ AnswerKey(q) = key[r]
                     /\ stage[r] = "warm" => Stale(q) \/ Live(warm[key[r]])
                     /\ stage[r] \in {"semantic", "calling"} => Stale(q))'
  BY DEF RepeatsFind, CachesInv, TypeOK
<1> DEFINE Goal == /\ q \in Requests /\ Answered(q) /\ AnswerKey(q) = key[r]
                   /\ stage[r] = "warm" => Stale(q) \/ Live(warm[key[r]])
                   /\ stage[r] \in {"semantic", "calling"} => Stale(q)
<1>1. ~failed /\ Kept
  BY FailedStays DEF KeptInv
<1>2. /\ now \in Nat /\ TTL \in Nat /\ now' \in Nat /\ now <= now'
      /\ \A p \in Requests : stored[p] \in Int /\ stored[p] <= now
  <2>1. now' \in Nat
    BY TimesAssumption DEF CachesInv, TypeOK
  <2>2. QED  BY <2>1, KeptTypes, StoredBefore DEF KeptInv
<1>3. ASSUME stage[r] # "idle", key'[r] = key[r], earlier'[r] = earlier[r],
             stage'[r] \in {"warm"} => stage[r] = "warm",
             stage'[r] \in {"semantic", "calling"} =>
                 \/ stage[r] \in {"semantic", "calling"}
                 \/ stage[r] = "warm" /\ ~Live(warm[key[r]])
      PROVE  Goal'
  <2>1. /\ q \in Requests /\ Answered(q) /\ AnswerKey(q) = key[r]
        /\ stage[r] = "warm" => Stale(q) \/ Live(warm[key[r]])
        /\ stage[r] \in {"semantic", "calling"} => Stale(q)
    BY <1>1, <1>3 DEF Kept, RepeatsFind
  <2>2. Answered(q)' /\ AnswerKey(q)' = key'[r] /\ stored'[q] = stored[q]
    BY <1>3, <2>1, KeysStay
  <2>3. Stale(q) => Stale(q)'
    BY <1>2, <2>1, <2>2 DEF Stale
  <2>4. CASE stage'[r] = "warm"
    <3>1. stage[r] = "warm"
      BY <1>3, <2>4
    <3>2. now' = now
      <4>1. ~Tick
        BY <3>1 DEF Tick, Over
      <4>2. QED  BY <4>1, StoredBefore DEF KeptInv
    <3>3. CASE Live(warm[key[r]]) /\ TTL > 0
      <4>1. key[r] \in Keys
        BY <1>3 DEF CachesInv, StagesAgree
      <4>2. Live(warm[key[r]])'
        BY <1>3, <3>2, <3>3, <4>1, WarmLives
      <4>3. QED  BY <2>1, <2>2, <2>4, <4>2
    <3>4. CASE ~(TTL > 0)
      <4>1. Stale(q)
        BY <1>2, <2>1, <3>4 DEF Stale
      <4>2. QED  BY <2>1, <2>2, <2>3, <2>4, <4>1
    <3>5. QED  BY <2>1, <2>2, <2>3, <2>4, <3>1, <3>3, <3>4
  <2>5. CASE stage'[r] \in {"semantic", "calling"}
    BY <1>3, <2>1, <2>2, <2>3, <2>5
  <2>6. CASE stage'[r] \notin {"warm", "semantic", "calling"}
    BY <2>1, <2>2, <2>6
  <2>7. QED  BY <2>4, <2>5, <2>6
<1>4. CASE LookHot(r)
  <2>1. PICK k \in Keys :
            /\ key' = [key EXCEPT ![r] = k]
            /\ earlier' = [earlier EXCEPT ![r] = Findable(k)]
            /\ \/ /\ Live(hot[k])
                  /\ Goes(r, "exactHit")
               \/ /\ ~Live(hot[k])
                  /\ Goes(r, "warm")
    BY <1>1, <1>4 DEF LookHot, Fails, Works
  <2>2. /\ UNCHANGED <<now, faults, hot, warm, writing, stored, route>>
        /\ key'[r] = k /\ stage[r] = "idle"
    BY <1>4, <2>1 DEF LookHot, caches, CachesInv, TypeOK
  <2>3. /\ q \in Requests /\ stage[q] = "done" /\ AnswerKey(q) = k
        /\ "evict" \in faults => q \notin writing
    BY <2>1 DEF Findable, CachesInv, TypeOK
  <2>4. Answered(q)
    BY <2>3 DEF CachesInv, StagesAgree
  <2>5. Answered(q)' /\ AnswerKey(q)' = key'[r] /\ stored'[q] = stored[q]
    BY <2>2, <2>3, <2>4, KeysStay
  <2>6. stage'[r] = "warm" => Stale(q) \/ Live(warm[k])
    <3>1. SUFFICES ASSUME stage'[r] = "warm", ~Stale(q) PROVE Live(warm[k])
      OBVIOUS
    <3>2. ~Live(hot[k])
      BY <2>1, <3>1 DEF Goes, CachesInv, TypeOK
    <3>3. CASE q \in writing
      <4>1. stored[q] = now
        BY <3>3, KeptTypes
      <4>2. TTL > 0
        BY <1>2, <3>1, <4>1 DEF Stale
      <4>3. QED  BY <1>1, <2>3, <3>2, <3>3, <4>2 DEF Kept, HotKeeps
    <3>4. CASE q \notin writing
      <4>1. stored[q] + TTL < now \/ warm[k].expires >= stored[q] + TTL
        BY <1>1, <2>3, <2>4, <3>4 DEF Kept, WarmKeeps
      <4>2. warm[k].expires \in Nat
        BY KeptTypes
      <4>3. QED  BY <1>2, <2>3, <3>1, <4>1, <4>2 DEF Stale, Live
    <3>5. QED  BY <3>3, <3>4
  <2>7. stage'[r] \in {"exactHit", "warm"}
    BY <2>1 DEF Goes, CachesInv, TypeOK
  <2>8. QED  BY <2>2, <2>3, <2>5, <2>6, <2>7 DEF Stale, Live
<1>5. CASE LookWarm(r)
  <2>1. /\ stage[r] = "warm" /\ UNCHANGED <<key, earlier>>
        /\ stage'[r] \in {"promote", "semantic", "calling"}
        /\ stage'[r] # "promote" => ~Live(warm[key[r]])
    BY <1>1, <1>5 DEF LookWarm, Fails, Unexpired, Goes, asked, CachesInv, TypeOK
  <2>2. QED  BY <1>3, <2>1
<1>6. CASE LookSemantic(r)
  <2>1. /\ stage[r] = "semantic" /\ UNCHANGED <<key, earlier>>
        /\ stage'[r] \in {"semanticHit", "calling"}
    BY <1>6 DEF LookSemantic, Goes, asked, CachesInv, TypeOK
  <2>2. QED  BY <1>3, <2>1
<1>7. CASE Promote(r) \/ Answer(r) \/ StoreSemantic(r) \/ End(r)
  <2>1. /\ stage[r] # "idle" /\ UNCHANGED <<key, earlier>>
        /\ stage'[r] \in {"exactHit", "storeSemantic", "done", "ended"}
    BY <1>7
       DEF Promote, Answer, StoreSemantic, End, Goes, asked, CachesInv, TypeOK, Stages, Over
  <2>2. QED  BY <1>3, <2>1
<1>8. ASSUME NEW p \in Requests, p # r,
             \/ LookHot(p) \/ LookWarm(p) \/ Promote(p) \/ LookSemantic(p)
             \/ Answer(p) \/ StoreSemantic(p) \/ End(p)
      PROVE  Goal'
  <2>1. stage'[r] = stage[r] /\ key'[r] = key[r] /\ earlier'[r] = earlier[r]
    BY <1>8
       DEF LookHot, LookWarm, Promote, LookSemantic, Answer, StoreSemantic, End, Goes,
           asked, CachesInv, TypeOK
  <2>2. QED  BY <1>3, <2>1
<1>9. CASE \/ \E p \in Requests : StoreWarm(p)
           \/ \E k \in Keys : Evict(k)
           \/ Clean \/ Tick \/ UNCHANGED vars
  <2>1. UNCHANGED <<stage, key, earlier>>
    BY <1>9 DEF StoreWarm, Evict, Clean, Tick, asked, vars
  <2>2. QED  BY <1>3, <2>1
<1>10. QED
  BY <1>4, <1>5, <1>6, <1>7, <1>8, <1>9 DEF Next

(* While nothing fails, a request that asks what was answered within the   *)
(* lifetime does not go to a provider, for any requests, lifetimes and     *)
(* promotions, while Redis loses entries and rows are cleaned.             *)
THEOREM RepeatsAreServed == Spec => []RepeatsServed
<1>1. Init => KeptInv
  BY TimesAssumption
     DEF Init, KeptInv, Kept, WarmKeeps, HotKeeps, PromotesLive, RepeatsFind
<1>2. CachesInv /\ CachesInv' /\ KeptInv /\ [Next]_vars => KeptInv'
  <2> SUFFICES ASSUME CachesInv, CachesInv', KeptInv, [Next]_vars PROVE KeptInv'
    OBVIOUS
  <2>1. \A q \in Requests : stored'[q] <= now'
    BY StoredBefore DEF KeptInv
  <2>2. ~failed' => Kept'
    BY WarmKeepsStep, HotKeepsStep, PromotesLiveStep, RepeatsFindStep DEF Kept
  <2>3. QED  BY <2>1, <2>2 DEF KeptInv
<1>3. CachesInv /\ KeptInv => RepeatsServed
  <2> SUFFICES ASSUME CachesInv, KeptInv, ~failed, NEW r \in Requests,
                      NEW q \in earlier[r], stage[r] = "calling"
               PROVE  now >= stored[q] + TTL
    BY DEF RepeatsServed
  <2>1. q \in Requests /\ Stale(q)
    BY DEF KeptInv, Kept, RepeatsFind
  <2>2. now \in Nat /\ TTL \in Nat /\ stored[q] \in Int
    BY <2>1, KeptTypes
  <2>3. QED  BY <2>1, <2>2 DEF Stale
<1>4. QED  BY <1>1, <1>2, <1>3, CachesInvariant, PTL DEF Spec
=============================================================================
