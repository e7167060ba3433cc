----------------------------- MODULE SumProofs -----------------------------
(***************************************************************************)
(* Sums over finite sets, as the models write them (MapThenSumSet of the   *)
(* community modules): what they are, by induction on the set.  Induction  *)
(* is put in terms of sets: the set of those for which a fact holds.  And  *)
(* the greatest and least members of finite sets, which the models choose. *)
(***************************************************************************)
EXTENDS Integers, FiniteSetsExt, FiniteSetTheorems, TLAPS

Chosen(s) == CHOOSE x \in s : TRUE

\* The recursion that MapThenSumSet stands for: g gives the sum over each subset of S.
Step(f, g, s) == IF s = {} THEN 0 ELSE f[Chosen(s)] + g[s \ {Chosen(s)}]
IsSum(f, S, g) == g = [s \in SUBSET S |-> Step(f, g, s)]

Adds(f, S, g) ==
    /\ g[{}] = 0
    /\ \A s \in SUBSET S : s # {} => g[s] = f[Chosen(s)] + g[s \ {Chosen(s)}]

SumMap(f, S) == CHOOSE g : IsSum(f, S, g)
SumOver(f, S) == SumMap(f, S)[S]
-----------------------------------------------------------------------------
LEMMA Least ==
    ASSUME NEW T \in SUBSET Nat, T # {}
    PROVE  \E x \in T : \A y \in T : x <= y
<1>1. PICK x \in T : \A y \in T : ~(<<y, x>> \in OpToRel(<, Nat))
  BY NatLessThanWellFounded, WFMin, Zenon
<1>2. \A y \in T : ~(y < x)
  BY <1>1 DEF OpToRel
<1> QED
  BY <1>2

\* A set of numbers that has 0, and with each number the next one, has all of them.
LEMMA NatInduct ==
    ASSUME NEW T, 0 \in T, \A n \in Nat : n \in T => n + 1 \in T
    PROVE  Nat \subseteq T
<1> DEFINE U == Nat \ T
<1> SUFFICES ASSUME U # {} PROVE FALSE
  OBVIOUS
<1>1. PICK x \in U : \A y \in U : x <= y
  BY Least
<1>2. x # 0 /\ x - 1 \in Nat /\ x - 1 \notin U
  BY <1>1
<1> QED
  BY <1>1, <1>2

LEMMA ChosenIn ==
    ASSUME NEW s, s # {}
    PROVE  Chosen(s) \in s
  BY DEF Chosen

\* The recursion has a solution: step by step, for the subsets of each size.
LEMMA SumExists ==
    ASSUME NEW S, IsFiniteSet(S), NEW f \in [S -> Nat]
    PROVE  IsSum(f, S, SumMap(f, S))
<1> DEFINE Upto(n, g) == \A s \in SUBSET S : Cardinality(s) <= n => g[s] = Step(f, g, s)
           T == {n \in Nat : \E g \in [SUBSET S -> Nat] : Upto(n, g)}
<1>0. /\ \A s \in SUBSET S : IsFiniteSet(s) /\ Cardinality(s) \in Nat
      /\ \A s \in SUBSET S : s # {} =>
            /\ Chosen(s) \in S /\ s \ {Chosen(s)} \in SUBSET S
            /\ Cardinality(s \ {Chosen(s)}) = Cardinality(s) - 1
      /\ \A s \in SUBSET S : s = {} <=> Cardinality(s) = 0
  <2>1. \A s \in SUBSET S : IsFiniteSet(s) /\ Cardinality(s) \in Nat
    BY FS_Subset, FS_CardinalityType
  <2>2. \A s \in SUBSET S : s # {} => Chosen(s) \in S /\ s \ {Chosen(s)} \in SUBSET S
    BY ChosenIn
  <2>3. \A s \in SUBSET S : s # {} => Cardinality(s \ {Chosen(s)}) = Cardinality(s) - 1
    BY <2>1, ChosenIn, FS_RemoveElement
  <2>4. \A s \in SUBSET S : s = {} <=> Cardinality(s) = 0
    BY <2>1, FS_EmptySet
  <2> QED
    BY <2>1, <2>2, <2>3, <2>4
<1>1. \A g \in [SUBSET S -> Nat] : \A s \in SUBSET S : Step(f, g, s) \in Nat
  BY <1>0 DEF Step
<1>2. 0 \in T
  <2> DEFINE g == [s \in SUBSET S |-> 0]
  <2>1. g \in [SUBSET S -> Nat]
    OBVIOUS
  <2>2. Upto(0, g)
    BY <1>0 DEF Step
  <2> QED
    BY <2>1, <2>2
<1>3. ASSUME NEW n \in Nat, n \in T PROVE n + 1 \in T
  <2>1. PICK g \in [SUBSET S -> Nat] : Upto(n, g)
    BY <1>3
  <2> DEFINE h == [s \in SUBSET S |-> IF Cardinality(s) <= n THEN g[s] ELSE Step(f, g, s)]
  <2>2. h \in [SUBSET S -> Nat]
    BY <1>1
  <2>3. ASSUME NEW s \in SUBSET S, Cardinality(s) <= n + 1 PROVE h[s] = Step(f, h, s)
    <3>1. h[s] = Step(f, g, s)
      BY <2>1
    <3>2. s # {} => h[s \ {Chosen(s)}] = g[s \ {Chosen(s)}]
      BY <1>0, <2>3
    <3> QED
      BY <3>1, <3>2 DEF Step
  <2> HIDE DEF h
  <2>4. Upto(n + 1, h)
    BY <2>3
  <2> QED
    BY <2>2, <2>4
<1>4. Nat \subseteq T
  <2> HIDE DEF T
  <2> QED
    BY <1>2, <1>3, NatInduct
<1>5. PICK g \in [SUBSET S -> Nat] : Upto(Cardinality(S), g)
  BY <1>0, <1>4
<1>6. \A s \in SUBSET S : g[s] = Step(f, g, s)
  <2>1. \A s \in SUBSET S : Cardinality(s) <= Cardinality(S)
    BY FS_Subset
  <2> QED
    BY <1>5, <2>1
<1>7. IsSum(f, S, g)
  BY <1>6 DEF IsSum
<1> QED
  BY <1>7, Zenon DEF SumMap

LEMMA SumAdds ==
    ASSUME NEW S, IsFiniteSet(S), NEW f \in [S -> Nat]
    PROVE  Adds(f, S, SumMap(f, S))
<1> DEFINE g == SumMap(f, S)
<1>1. g = [s \in SUBSET S |-> Step(f, g, s)]
  BY SumExists DEF IsSum
<1> HIDE DEF g
<1>2. \A s \in SUBSET S : g[s] = Step(f, g, s)
  BY <1>1
<1>3. /\ g[{}] = 0
      /\ \A s \in SUBSET S : s # {} => g[s] = f[Chosen(s)] + g[s \ {Chosen(s)}]
  BY <1>2 DEF Step
<1> QED
  BY <1>3 DEF Adds, g

\* Subsets without their chosen member are smaller by one.
LEMMA ChosenAway ==
    ASSUME NEW S, IsFiniteSet(S), NEW n \in Nat, NEW s \in SUBSET S, Cardinality(s) = n + 1
    PROVE  /\ s # {} /\ Chosen(s) \in s /\ Chosen(s) \in S
           /\ s \ {Chosen(s)} \in SUBSET S /\ Cardinality(s \ {Chosen(s)}) = n
<1>1. s # {} /\ IsFiniteSet(s)
  BY FS_EmptySet, FS_Subset
<1>2. Chosen(s) \in s
  BY <1>1, ChosenIn
<1>3. Cardinality(s \ {Chosen(s)}) = n
  BY <1>1, <1>2, FS_RemoveElement
<1> QED
  BY <1>1, <1>2, <1>3

LEMMA SubsetsFinite ==
    ASSUME NEW S, IsFiniteSet(S)
    PROVE  \A s \in SUBSET S : Cardinality(s) \in Nat /\ (Cardinality(s) = 0 => s = {})
  BY FS_Subset, FS_CardinalityType, FS_EmptySet

\* A sum of natural numbers is one.
LEMMA SumType ==
    ASSUME NEW S, IsFiniteSet(S), NEW f \in [S -> Nat]
    PROVE  /\ \A s \in SUBSET S : SumMap(f, S)[s] \in Nat
           /\ SumOver(f, S) \in Nat
<1> DEFINE g == SumMap(f, S)
           T == {n \in Nat : \A s \in SUBSET S : Cardinality(s) = n => g[s] \in Nat}
<1>0. Adds(f, S, g)
  BY SumAdds
<1> HIDE DEF g
<1>1. 0 \in T
  BY <1>0, SubsetsFinite DEF Adds
<1>2. ASSUME NEW n \in Nat, n \in T PROVE n + 1 \in T
  <2> SUFFICES ASSUME NEW s \in SUBSET S, Cardinality(s) = n + 1 PROVE g[s] \in Nat
    OBVIOUS
  <2>1. /\ s # {} /\ Chosen(s) \in S
        /\ s \ {Chosen(s)} \in SUBSET S /\ Cardinality(s \ {Chosen(s)}) = n
    BY ChosenAway
  <2>2. g[s] = f[Chosen(s)] + g[s \ {Chosen(s)}]
    BY <1>0, <2>1 DEF Adds
  <2>3. g[s \ {Chosen(s)}] \in Nat /\ f[Chosen(s)] \in Nat
    BY <1>2, <2>1
  <2> QED
    BY <2>2, <2>3
<1>3. Nat \subseteq T
  <2> HIDE DEF T
  <2> QED
    BY <1>1, <1>2, NatInduct
<1>4. \A s \in SUBSET S : g[s] \in Nat
  BY <1>3, SubsetsFinite
<1> QED
  BY <1>4 DEF SumOver, g

\* The sum of zeros is zero.
LEMMA SumZero ==
    ASSUME NEW S, IsFiniteSet(S)
    PROVE  SumOver([x \in S |-> 0], S) = 0
<1> DEFINE f == [x \in S |-> 0]
           g == SumMap(f, S)
           T == {n \in Nat : \A s \in SUBSET S : Cardinality(s) = n => g[s] = 0}
<1>a. f \in [S -> Nat] /\ \A x \in S : f[x] = 0
  OBVIOUS
<1> HIDE DEF f
<1>0. Adds(f, S, g)
  BY <1>a, SumAdds
<1> HIDE DEF g
<1>1. 0 \in T
  BY <1>0, SubsetsFinite DEF Adds
<1>2. ASSUME NEW n \in Nat, n \in T PROVE n + 1 \in T
  <2> SUFFICES ASSUME NEW s \in SUBSET S, Cardinality(s) = n + 1 PROVE g[s] = 0
    OBVIOUS
  <2>1. /\ s # {} /\ Chosen(s) \in S
        /\ s \ {Chosen(s)} \in SUBSET S /\ Cardinality(s \ {Chosen(s)}) = n
    BY ChosenAway
  <2>2. g[s] = f[Chosen(s)] + g[s \ {Chosen(s)}]
    BY <1>0, <2>1 DEF Adds
  <2>3. g[s \ {Chosen(s)}] = 0 /\ f[Chosen(s)] = 0
    BY <1>a, <1>2, <2>1
  <2> QED
    BY <2>2, <2>3
<1>3. Nat \subseteq T
  <2> HIDE DEF T
  <2> QED
    BY <1>1, <1>2, NatInduct
<1>4. g[S] = 0
  BY <1>3, SubsetsFinite
<1> QED
  BY <1>4 DEF SumOver, g, f

\* Adding d to one of the numbers adds d to the sum.
LEMMA SumAdd ==
    ASSUME NEW S, IsFiniteSet(S), NEW f \in [S -> Nat], NEW y \in S, NEW d \in Nat
    PROVE  SumOver([f EXCEPT ![y] = f[y] + d], S) = SumOver(f, S) + d
<1> DEFINE h == [f EXCEPT ![y] = f[y] + d]
           g == SumMap(f, S)
           k == SumMap(h, S)
           T == {n \in Nat : \A s \in SUBSET S : Cardinality(s) = n =>
                                k[s] = g[s] + (IF y \in s THEN d ELSE 0)}
<1>a. h \in [S -> Nat] /\ \A x \in S : h[x] = f[x] + (IF x = y THEN d ELSE 0)
  OBVIOUS
<1> HIDE DEF h
<1>b. \A s \in SUBSET S : g[s] \in Nat
  BY SumType
<1>c. Adds(f, S, g)
  BY SumAdds
<1>0. Adds(h, S, k)
  BY <1>a, SumAdds
<1> HIDE DEF g, k
<1>1. 0 \in T
  <2>1. k[{}] = 0 /\ g[{}] = 0
    BY <1>0, <1>c DEF Adds
  <2> QED
    BY <2>1, SubsetsFinite
<1>2. ASSUME NEW n \in Nat, n \in T PROVE n + 1 \in T
  <2> SUFFICES ASSUME NEW s \in SUBSET S, Cardinality(s) = n + 1
               PROVE  k[s] = g[s] + (IF y \in s THEN d ELSE 0)
    OBVIOUS
  <2> DEFINE c == Chosen(s)
             r == s \ {Chosen(s)}
  <2>1. s # {} /\ c \in s /\ c \in S /\ r \in SUBSET S /\ Cardinality(r) = n
    BY ChosenAway
  <2>2. g[s] = f[c] + g[r] /\ k[s] = h[c] + k[r]
    BY <1>0, <1>c, <2>1 DEF Adds
  <2>3. k[r] = g[r] + (IF y \in r THEN d ELSE 0)
    BY <1>2, <2>1
  <2>4. g[r] \in Nat /\ f[c] \in Nat /\ h[c] = f[c] + (IF y = c THEN d ELSE 0)
    BY <1>a, <1>b, <2>1
  <2>5. (y \in s <=> y = c \/ y \in r) /\ (y = c => y \notin r)
    BY <2>1
  <2> HIDE DEF c, r
  <2> QED
    BY <2>2, <2>3, <2>4, <2>5
<1>3. Nat \subseteq T
  <2> HIDE DEF T
  <2> QED
    BY <1>1, <1>2, NatInduct
<1>4. k[S] = g[S] + d
  BY <1>3, SubsetsFinite
<1> QED
  BY <1>4 DEF SumOver, g, h, k
\* None of the numbers is greater than the sum.
LEMMA SumMember ==
    ASSUME NEW S, IsFiniteSet(S), NEW f \in [S -> Nat], NEW y \in S
    PROVE  f[y] <= SumOver(f, S)
<1> DEFINE h == [f EXCEPT ![y] = 0]
<1>1. h \in [S -> Nat] /\ f[y] \in Nat /\ f = [h EXCEPT ![y] = h[y] + f[y]]
  <2>1. h \in [S -> Nat] /\ f[y] \in Nat /\ h[y] = 0 /\ \A x \in S \ {y} : h[x] = f[x]
    OBVIOUS
  <2> HIDE DEF h
  <2>2. \A x \in S : f[x] = [h EXCEPT ![y] = h[y] + f[y]][x]
    BY <2>1
  <2> QED
    BY <2>1, <2>2
<1> HIDE DEF h
<1>2. SumOver(f, S) = SumOver(h, S) + f[y]
  BY <1>1, SumAdd
<1>3. SumOver(h, S) \in Nat
  BY <1>1, SumType
<1> QED
  BY <1>1, <1>2, <1>3

\* A finite set of numbers has a greatest one, and Max is it.
LEMMA Greatest ==
    ASSUME NEW S \in SUBSET Nat, IsFiniteSet(S), S # {}
    PROVE  Max(S) \in S /\ \A y \in S : y <= Max(S)
<1> DEFINE Has(s) == \E x \in s : \A y \in s : y <= x
           T == {n \in Nat : \A s \in SUBSET S : Cardinality(s) = n => s = {} \/ Has(s)}
<1>1. 0 \in T
  BY SubsetsFinite
<1>2. ASSUME NEW n \in Nat, n \in T PROVE n + 1 \in T
  <2> SUFFICES ASSUME NEW s \in SUBSET S, Cardinality(s) = n + 1 PROVE Has(s)
    OBVIOUS
  <2> DEFINE c == Chosen(s)
             r == s \ {c}
  <2>1. c \in s /\ c \in Nat /\ r \in SUBSET S /\ Cardinality(r) = n
    BY ChosenAway
  <2>2. r = {} \/ Has(r)
    BY <1>2, <2>1
  <2>3. \A y \in s : y = c \/ y \in r
    OBVIOUS
  <2>4. r \subseteq s /\ s \subseteq Nat
    OBVIOUS
  <2> HIDE DEF c, r
  <2>5. CASE r = {}
    BY <2>1, <2>3, <2>4, <2>5
  <2>6. CASE Has(r)
    <3>1. PICK x \in r : \A y \in r : y <= x
      BY <2>6
    <3>2. x \in s /\ x \in Nat
      BY <2>4
    <3>3. CASE c <= x
      BY <2>3, <3>1, <3>2, <3>3
    <3>4. CASE x <= c
      BY <2>1, <2>3, <2>4, <3>1, <3>2, <3>4
    <3> QED
      BY <2>1, <3>2, <3>3, <3>4
  <2> QED
    BY <2>2, <2>5, <2>6
<1>3. Nat \subseteq T
  <2> HIDE DEF T
  <2> QED
    BY <1>1, <1>2, NatInduct
<1>4. Has(S)
  BY <1>3, SubsetsFinite
<1>5. PICK x \in S : \A y \in S : x >= y
  BY <1>4
<1>6. Max(S) \in S /\ \A y \in S : Max(S) >= y
  BY <1>5, Zenon DEF Max
<1> QED
  BY <1>6

\* The greater and the lesser of two numbers
LEMMA MaxPair ==
    ASSUME NEW a \in Int, NEW b \in Int
    PROVE  Max({a, b}) = IF a >= b THEN a ELSE b
<1> DEFINE m == IF a >= b THEN a ELSE b
<1>1. m \in {a, b} /\ \A y \in {a, b} : m >= y
  OBVIOUS
<1>2. /\ Max({a, b}) \in {a, b}
      /\ \A y \in {a, b} : Max({a, b}) >= y
  BY <1>1, Zenon DEF Max
<1> QED
  BY <1>1, <1>2

LEMMA MinPair ==
    ASSUME NEW a \in Int, NEW b \in Int
    PROVE  Min({a, b}) = IF a <= b THEN a ELSE b
<1> DEFINE m == IF a <= b THEN a ELSE b
<1>1. m \in {a, b} /\ \A y \in {a, b} : m <= y
  OBVIOUS
<1>2. /\ Min({a, b}) \in {a, b}
      /\ \A y \in {a, b} : Min({a, b}) <= y
  BY <1>1, Zenon DEF Min
<1> QED
  BY <1>1, <1>2
=============================================================================
