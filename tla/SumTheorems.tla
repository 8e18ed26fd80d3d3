---------------------------- MODULE SumTheorems ----------------------------
(***************************************************************************)
(* What the sum of a finite set of amounts is, for the ledgers that keep   *)
(* one.  The library defines a sum by a CHOOSE over functions on the       *)
(* subsets of the set; the induction over these subsets is the well-       *)
(* foundedness of the strict subset ordering, which the library states     *)
(* for a set of cases rather than for a predicate.                         *)
(***************************************************************************)
EXTENDS Sums, FiniteSetTheorems, WellFoundedInduction, TLAPS


(* A set of cases that holds every subset of S whose strict subsets it     *)
(* holds, holds all of them.                                               *)
LEMMA SubsetInduction ==
    ASSUME NEW S, IsFiniteSet(S), NEW P,
           \A t \in SUBSET S : (\A s \in SUBSET t : s # t => s \in P) => t \in P
    PROVE  \A t \in SUBSET S : t \in P
<1> DEFINE B == {t \in SUBSET S : t \notin P}
<1>1. SUFFICES ASSUME B # {} PROVE FALSE
  OBVIOUS
<1>2. IsWellFoundedOn(StrictSubsetOrdering(S), SUBSET S)
  BY FS_FiniteSubsetsOfFinite, FS_StrictSubsetOrderingWellFounded
<1>3. B \subseteq SUBSET S
  OBVIOUS
<1> HIDE DEF B
<1>4. \E t \in B : \A y \in B : ~ (<<y, t>> \in StrictSubsetOrdering(S))
  BY <1>1, <1>2, <1>3, WFMin
<1>5. PICK t \in B : \A y \in B : ~ (<<y, t>> \in StrictSubsetOrdering(S))
  BY <1>4
<1>6. ASSUME NEW s \in SUBSET t, s # t, s \in B PROVE FALSE
  <2>1. <<s, t>> \in StrictSubsetOrdering(S)
    BY <1>3, <1>6 DEF StrictSubsetOrdering
  <2>2. QED  BY <1>5, <1>6, <2>1
<1>7. QED  BY <1>3, <1>6, <1>5 DEF B

(* The element the library takes first, and the equation of its function.  *)
Some(s) == CHOOSE x \in s : TRUE
Solves(g, f, S) ==
    g = [s \in SUBSET S |-> IF s = {} THEN 0 ELSE f[Some(s)] + g[s \ {Some(s)}]]

(* A set that is not empty has a first element.                            *)
LEMMA SomeIsIn == ASSUME NEW s, s # {} PROVE Some(s) \in s
  BY DEF Some

(* The sum is the value of a function that solves the equation.            *)
LEMMA SumIs == ASSUME NEW f, NEW S PROVE SumOf(f, S) = (CHOOSE g : Solves(g, f, S))[S]
  BY DEF SumOf, MapThenSumSet, MapThenFoldSet, Solves, Some

(* On a finite set the equation has one solution.                          *)
LEMMA SolvedOnce ==
    ASSUME NEW f, NEW S, IsFiniteSet(S), NEW g, NEW h, Solves(g, f, S), Solves(h, f, S)
    PROVE  \A t \in SUBSET S : g[t] = h[t]
<1> DEFINE P == {t \in SUBSET S : g[t] = h[t]}
<1>1. ASSUME NEW t \in SUBSET S, \A s \in SUBSET t : s # t => s \in P PROVE t \in P
  <2>1. /\ g[t] = IF t = {} THEN 0 ELSE f[Some(t)] + g[t \ {Some(t)}]
        /\ h[t] = IF t = {} THEN 0 ELSE f[Some(t)] + h[t \ {Some(t)}]
    BY DEF Solves
  <2>2. t # {} => g[t \ {Some(t)}] = h[t \ {Some(t)}]
    BY <1>1, SomeIsIn
  <2>3. QED  BY <2>1, <2>2
<1> HIDE DEF P
<1>2. \A t \in SUBSET S : t \in P
  BY <1>1, SubsetInduction
<1>3. QED  BY <1>2 DEF P

(* The sum of a set is an element's amount and the sum of the others.      *)
LEMMA SumTakesSome ==
    ASSUME NEW f, NEW S, IsFiniteSet(S)
    PROVE  SumOf(f, S) = IF S = {} THEN 0 ELSE f[Some(S)] + SumOf(f, S \ {Some(S)})
<1> DEFINE Rest(s) == IF s = {} THEN 0 ELSE f[Some(s)] + SumOf(f, s \ {Some(s)})
           P == {t \in SUBSET S : SumOf(f, t) = Rest(t)}
<1>1. ASSUME NEW t \in SUBSET S, \A s \in SUBSET t : s # t => s \in P PROVE t \in P
  <2> DEFINE h == [s \in SUBSET t |-> Rest(s)]
  <2>1. ASSUME NEW s \in SUBSET t, s # {} PROVE h[s \ {Some(s)}] = SumOf(f, s \ {Some(s)})
    <3>1. s \ {Some(s)} \in SUBSET t /\ s \ {Some(s)} # t
      BY <2>1, SomeIsIn
    <3>2. s \ {Some(s)} \in P
      BY <1>1, <3>1
    <3>3. QED  BY <3>1, <3>2
  <2>2. Solves(h, f, t)
    <3>1. ASSUME NEW s \in SUBSET t
          PROVE  h[s] = IF s = {} THEN 0 ELSE f[Some(s)] + h[s \ {Some(s)}]
      BY <2>1
    <3>2. QED  BY <3>1 DEF Solves
  <2> DEFINE g == CHOOSE x : Solves(x, f, t)
  <2>3. Solves(g, f, t)
    BY <2>2
  <2>4. IsFiniteSet(t)
    BY FS_Subset
  <2>5. SumOf(f, t) = g[t]
    BY SumIs
  <2> HIDE DEF g, h
  <2>6. g[t] = h[t]
    BY <2>2, <2>3, <2>4, SolvedOnce
  <2>7. QED  BY <2>5, <2>6 DEF h
<1> HIDE DEF P
<1>2. \A t \in SUBSET S : t \in P
  BY <1>1, SubsetInduction
<1>3. QED  BY <1>2 DEF P

(* Sums of integers are integers, and any element may be taken first.      *)
LEMMA SumTakesAny ==
    ASSUME NEW S, IsFiniteSet(S), NEW f, \A x \in S : f[x] \in Int
    PROVE  /\ SumOf(f, S) \in Int
           /\ \A x \in S : SumOf(f, S) = f[x] + SumOf(f, S \ {x})
<1> DEFINE P == {t \in SUBSET S : /\ SumOf(f, t) \in Int
                                  /\ \A x \in t : SumOf(f, t) = f[x] + SumOf(f, t \ {x})}
<1>1. ASSUME NEW t \in SUBSET S, \A s \in SUBSET t : s # t => s \in P PROVE t \in P
  <2>1. IsFiniteSet(t)
    BY FS_Subset
  <2>2. SumOf(f, t) = IF t = {} THEN 0 ELSE f[Some(t)] + SumOf(f, t \ {Some(t)})
    BY <2>1, SumTakesSome
  <2>3. CASE t = {}
    BY <2>2, <2>3
  <2>4. CASE t # {}
    <3> DEFINE c == Some(t)
    <3>1. c \in t
      BY <2>4, SomeIsIn
    <3> HIDE DEF c
    <3>2. \A x \in t : t \ {x} \in P
      BY <1>1
    <3>3. \A x \in t : SumOf(f, t \ {x}) \in Int /\ f[x] \in Int
      BY <3>2
    <3>4. SumOf(f, t) = f[c] + SumOf(f, t \ {c})
      BY <2>2, <2>4 DEF c
    <3>5. ASSUME NEW x \in t, x # c PROVE SumOf(f, t) = f[x] + SumOf(f, t \ {x})
      <4>1. SumOf(f, t \ {c}) = f[x] + SumOf(f, (t \ {c}) \ {x})
        BY <3>1, <3>2, <3>5
      <4>2. SumOf(f, t \ {x}) = f[c] + SumOf(f, (t \ {x}) \ {c})
        BY <3>1, <3>2, <3>5
      <4>3. SumOf(f, (t \ {x}) \ {c}) = SumOf(f, (t \ {c}) \ {x})
        <5>1. (t \ {x}) \ {c} = (t \ {c}) \ {x}
          OBVIOUS
        <5>2. QED  BY <5>1
      <4>4. SumOf(f, (t \ {c}) \ {x}) \in Int
        <5>1. (t \ {c}) \ {x} \in SUBSET t /\ (t \ {c}) \ {x} # t
          BY <3>1
        <5>2. QED  BY <1>1, <5>1
      <4>5. QED  BY <3>1, <3>3, <3>4, <4>1, <4>2, <4>3, <4>4
    <3>6. \A x \in t : SumOf(f, t) = f[x] + SumOf(f, t \ {x})
      BY <3>4, <3>5
    <3>7. SumOf(f, t) \in Int
      BY <3>1, <3>3, <3>4
    <3>8. QED  BY <3>6, <3>7
  <2>5. QED  BY <2>3, <2>4
<1> HIDE DEF P
<1>2. \A t \in SUBSET S : t \in P
  BY <1>1, SubsetInduction
<1>3. S \in P
  BY <1>2
<1>4. QED  BY <1>3 DEF P

(* The sum of no amounts is zero.                                          *)
LEMMA SumOfNone == ASSUME NEW f PROVE SumOf(f, {}) = 0
  BY SumTakesSome, FS_EmptySet

(* A sum grows with its amounts.                                           *)
LEMMA SumGrows ==
    ASSUME NEW S, IsFiniteSet(S), NEW f, NEW g,
           \A x \in S : f[x] \in Int /\ g[x] \in Int /\ f[x] <= g[x]
    PROVE  SumOf(f, S) <= SumOf(g, S)
<1> DEFINE P == {t \in SUBSET S : SumOf(f, t) <= SumOf(g, t)}
<1>1. ASSUME NEW t \in SUBSET S, \A s \in SUBSET t : s # t => s \in P PROVE t \in P
  <2>1. IsFiniteSet(t)
    BY FS_Subset
  <2>2. CASE t = {}
    BY <2>2, SumOfNone
  <2>3. CASE t # {}
    <3>1. PICK x \in t : TRUE
      BY <2>3
    <3>2. IsFiniteSet(t \ {x}) /\ t \ {x} \in P
      BY <1>1, <2>1, FS_Subset
    <3>3. SumOf(f, t \ {x}) \in Int /\ SumOf(g, t \ {x}) \in Int
      BY <3>2, SumTakesAny
    <3>4. SumOf(f, t) = f[x] + SumOf(f, t \ {x}) /\ SumOf(g, t) = g[x] + SumOf(g, t \ {x})
      BY <2>1, SumTakesAny
    <3>5. QED  BY <3>2, <3>3, <3>4
  <2>4. QED  BY <2>2, <2>3
<1> HIDE DEF P
<1>2. S \in P
  BY <1>1, SubsetInduction
<1>3. QED  BY <1>2 DEF P

(* It depends on nothing but the amounts of its elements.                  *)
LEMMA SumOfSame ==
    ASSUME NEW S, IsFiniteSet(S), NEW f, NEW g, \A x \in S : f[x] \in Int /\ g[x] = f[x]
    PROVE  SumOf(g, S) = SumOf(f, S)
<1>1. SumOf(f, S) <= SumOf(g, S) /\ SumOf(g, S) <= SumOf(f, S)
  BY SumGrows
<1>2. SumOf(f, S) \in Int /\ SumOf(g, S) \in Int
  BY SumTakesAny
<1>3. QED  BY <1>1, <1>2

(* It moves with the amount of one element.                                *)
LEMMA SumMoves ==
    ASSUME NEW S, IsFiniteSet(S), NEW r \in S, NEW f, NEW g,
           \A x \in S : f[x] \in Int /\ g[x] \in Int /\ (x # r => g[x] = f[x])
    PROVE  SumOf(g, S) = SumOf(f, S) + g[r] - f[r]
<1>1. IsFiniteSet(S \ {r})
  BY FS_Subset
<1>2. SumOf(g, S \ {r}) = SumOf(f, S \ {r}) /\ SumOf(f, S \ {r}) \in Int
  BY <1>1, SumOfSame, SumTakesAny
<1>3. SumOf(f, S) = f[r] + SumOf(f, S \ {r}) /\ SumOf(g, S) = g[r] + SumOf(g, S \ {r})
  BY SumTakesAny
<1>4. QED  BY <1>2, <1>3

(* It takes in the amount of an element that joins the set.                *)
LEMMA SumJoins ==
    ASSUME NEW S, IsFiniteSet(S), NEW r, r \notin S, NEW f, NEW g, g[r] \in Int,
           \A x \in S : f[x] \in Int /\ g[x] = f[x]
    PROVE  IsFiniteSet(S \cup {r}) /\ SumOf(g, S \cup {r}) = SumOf(f, S) + g[r]
<1>1. IsFiniteSet(S \cup {r})
  BY FS_AddElement
<1>2. SumOf(g, S \cup {r}) = g[r] + SumOf(g, (S \cup {r}) \ {r})
  <2>1. \A x \in S \cup {r} : g[x] \in Int
    OBVIOUS
  <2>2. QED  BY <1>1, <2>1, SumTakesAny
<1>3. SumOf(g, (S \cup {r}) \ {r}) = SumOf(g, S)
  <2>1. (S \cup {r}) \ {r} = S
    OBVIOUS
  <2>2. QED  BY <2>1
<1>4. SumOf(g, S) = SumOf(f, S) /\ SumOf(f, S) \in Int
  BY SumOfSame, SumTakesAny
<1>5. QED  BY <1>1, <1>2, <1>3, <1>4

(* Both at once: the amount of r changes, and r is an element then.        *)
LEMMA SumMovesOrJoins ==
    ASSUME NEW S, IsFiniteSet(S), NEW r, NEW f, NEW g, f[r] \in Int, g[r] \in Int,
           r \notin S => f[r] = 0,
           \A x \in S : f[x] \in Int, \A x \in S \ {r} : g[x] = f[x]
    PROVE  SumOf(g, S \cup {r}) = SumOf(f, S) + g[r] - f[r]
<1>1. CASE r \in S
  <2>1. \A x \in S : f[x] \in Int /\ g[x] \in Int /\ (x # r => g[x] = f[x])
    OBVIOUS
  <2>2. SumOf(g, S) = SumOf(f, S) + g[r] - f[r]
    BY <1>1, <2>1, SumMoves
  <2>3. S \cup {r} = S
    BY <1>1
  <2>4. QED  BY <2>2, <2>3
<1>2. CASE r \notin S
  <2>1. \A x \in S : f[x] \in Int /\ g[x] = f[x]
    BY <1>2
  <2>2. SumOf(g, S \cup {r}) = SumOf(f, S) + g[r]
    BY ONLY IsFiniteSet(S), g[r] \in Int, <1>2, <2>1, SumJoins
  <2>3. SumOf(f, S) \in Int /\ f[r] = 0
    BY <1>2, SumTakesAny
  <2>4. QED  BY <2>2, <2>3
<1>3. QED  BY <1>1, <1>2

(* More amounts, none of them negative, are no less.                       *)
LEMMA SumOfMore ==
    ASSUME NEW S, IsFiniteSet(S), NEW R \in SUBSET S, NEW f, \A x \in S : f[x] \in Nat
    PROVE  SumOf(f, R) <= SumOf(f, S) /\ SumOf(f, S) \in Nat
<1> DEFINE P == {t \in SUBSET S : SumOf(f, t \cap R) <= SumOf(f, t) /\ SumOf(f, t) \in Nat}
<1>1. ASSUME NEW t \in SUBSET S, \A s \in SUBSET t : s # t => s \in P PROVE t \in P
  <2>1. IsFiniteSet(t) /\ IsFiniteSet(t \cap R)
    BY FS_Subset
  <2>2. CASE t = {}
    <3>1. t \cap R = {}
      BY <2>2
    <3>2. QED  BY <2>2, <3>1, SumOfNone
  <2>3. CASE t # {}
    <3>1. PICK x \in t : TRUE
      BY <2>3
    <3>2. t \ {x} \in P
      BY <1>1
    <3>3. SumOf(f, t) = f[x] + SumOf(f, t \ {x}) /\ f[x] \in Nat
      <4>1. \A y \in t : f[y] \in Int
        OBVIOUS
      <4>2. QED  BY <2>1, <4>1, SumTakesAny
    <3>4. SumOf(f, t \cap R) \in Int /\ SumOf(f, (t \ {x}) \cap R) \in Int
      <4>1. IsFiniteSet((t \ {x}) \cap R)
        BY FS_Subset
      <4>2. \A y \in t : f[y] \in Int
        OBVIOUS
      <4>3. QED  BY <2>1, <4>1, <4>2, SumTakesAny
    <3>5. CASE x \in R
      <4>1. (t \cap R) \ {x} = (t \ {x}) \cap R
        OBVIOUS
      <4>2. SumOf(f, t \cap R) = f[x] + SumOf(f, (t \cap R) \ {x})
        <5>1. \A y \in t \cap R : f[y] \in Int
          OBVIOUS
        <5>2. QED  BY <2>1, <3>5, <5>1, SumTakesAny
      <4>3. QED  BY <3>2, <3>3, <3>4, <4>1, <4>2
    <3>6. CASE x \notin R
      <4>1. t \cap R = (t \ {x}) \cap R
        BY <3>6
      <4>2. QED  BY <3>2, <3>3, <3>4, <4>1
    <3>7. QED  BY <3>5, <3>6
  <2>4. QED  BY <2>2, <2>3
<1> HIDE DEF P
<1>2. S \in P
  BY <1>1, SubsetInduction
<1>3. S \cap R = R
  OBVIOUS
<1>4. QED  BY <1>2, <1>3 DEF P

(* The sums of two amounts add up to the sum of both.                      *)
LEMMA SumsAdd ==
    ASSUME NEW S, IsFiniteSet(S), NEW f, NEW g, NEW h,
           \A x \in S : f[x] \in Int /\ g[x] \in Int /\ h[x] = f[x] + g[x]
    PROVE  SumOf(h, S) = SumOf(f, S) + SumOf(g, S)
<1> DEFINE P == {t \in SUBSET S : SumOf(h, t) = SumOf(f, t) + SumOf(g, t)}
<1>1. ASSUME NEW t \in SUBSET S, \A s \in SUBSET t : s # t => s \in P PROVE t \in P
  <2>1. IsFiniteSet(t)
    BY FS_Subset
  <2>2. CASE t = {}
    BY <2>2, SumOfNone
  <2>3. CASE t # {}
    <3>1. PICK x \in t : TRUE
      BY <2>3
    <3>2. IsFiniteSet(t \ {x}) /\ t \ {x} \in P
      BY <1>1, <2>1, FS_Subset
    <3>3. SumOf(f, t \ {x}) \in Int /\ SumOf(g, t \ {x}) \in Int
      BY <3>2, SumTakesAny
    <3>4. \A y \in t : f[y] \in Int /\ g[y] \in Int /\ h[y] \in Int
      OBVIOUS
    <3>5. /\ SumOf(f, t) = f[x] + SumOf(f, t \ {x})
          /\ SumOf(g, t) = g[x] + SumOf(g, t \ {x})
          /\ SumOf(h, t) = h[x] + SumOf(h, t \ {x})
      BY <2>1, <3>4, SumTakesAny
    <3>6. QED  BY <3>2, <3>3, <3>5
  <2>4. QED  BY <2>2, <2>3
<1> HIDE DEF P
<1>2. S \in P
  BY <1>1, SubsetInduction
<1>3. QED  BY <1>2 DEF P

(* Elements whose amount is zero may be left out.                          *)
LEMMA SumWithoutZeros ==
    ASSUME NEW S, IsFiniteSet(S), NEW R \in SUBSET S, NEW f,
           \A x \in S : f[x] \in Int, \A x \in S \ R : f[x] = 0
    PROVE  SumOf(f, R) = SumOf(f, S)
<1> DEFINE P == {t \in SUBSET S : SumOf(f, t \cap R) = SumOf(f, t)}
<1>1. ASSUME NEW t \in SUBSET S, \A s \in SUBSET t : s # t => s \in P PROVE t \in P
  <2>1. IsFiniteSet(t) /\ IsFiniteSet(t \cap R)
    BY FS_Subset
  <2>2. CASE t \subseteq R
    <3>1. t \cap R = t
      BY <2>2
    <3>2. QED  BY <3>1
  <2>3. CASE \E x \in t : x \notin R
    <3>1. PICK x \in t : x \notin R
      BY <2>3
    <3>2. IsFiniteSet(t \ {x}) /\ t \ {x} \in P
      BY <1>1, <2>1, FS_Subset
    <3>3. f[x] = 0 /\ \A y \in t : f[y] \in Int
      BY <3>1
    <3>4. SumOf(f, t \ {x}) \in Int /\ SumOf(f, t) = f[x] + SumOf(f, t \ {x})
      BY <2>1, <3>2, <3>3, SumTakesAny
    <3>5. t \cap R = (t \ {x}) \cap R
      BY <3>1
    <3>6. SumOf(f, t \cap R) = SumOf(f, t \ {x})
      BY <3>2, <3>5
    <3>7. QED  BY <3>3, <3>4, <3>6
  <2>4. QED  BY <2>2, <2>3
<1> HIDE DEF P
<1>2. S \in P
  BY <1>1, SubsetInduction
<1>3. S \cap R = R
  OBVIOUS
<1>4. QED  BY <1>2, <1>3 DEF P

(* A factor of every amount is a factor of the sum.                        *)
LEMMA SumScales ==
    ASSUME NEW S, IsFiniteSet(S), NEW k \in Int, NEW f, NEW g,
           \A x \in S : f[x] \in Int /\ g[x] = k * f[x]
    PROVE  SumOf(g, S) = k * SumOf(f, S)
<1> DEFINE P == {t \in SUBSET S : SumOf(g, t) = k * SumOf(f, t)}
<1>1. ASSUME NEW t \in SUBSET S, \A s \in SUBSET t : s # t => s \in P PROVE t \in P
  <2>1. IsFiniteSet(t)
    BY FS_Subset
  <2>2. CASE t = {}
    BY <2>2, SumOfNone
  <2>3. CASE t # {}
    <3>1. PICK x \in t : TRUE
      BY <2>3
    <3>2. IsFiniteSet(t \ {x}) /\ t \ {x} \in P
      BY <1>1, <2>1, FS_Subset
    <3>3. SumOf(f, t \ {x}) \in Int /\ f[x] \in Int
      BY <3>2, SumTakesAny
    <3>4. \A y \in t : f[y] \in Int /\ g[y] \in Int
      OBVIOUS
    <3>5. /\ SumOf(f, t) = f[x] + SumOf(f, t \ {x})
          /\ SumOf(g, t) = g[x] + SumOf(g, t \ {x})
      BY <2>1, <3>4, SumTakesAny
    <3>6. g[x] = k * f[x] /\ SumOf(g, t \ {x}) = k * SumOf(f, t \ {x})
      BY <3>2
    <3>7. QED  BY <3>3, <3>5, <3>6
  <2>4. QED  BY <2>2, <2>3
<1> HIDE DEF P
<1>2. S \in P
  BY <1>1, SubsetInduction
<1>3. QED  BY <1>2 DEF P
=============================================================================
