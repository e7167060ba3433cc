---------------------------- MODULE BenchLemmas ----------------------------
(***************************************************************************)
(* What the operators of the thread benchmarks compute, for every size.    *)
(*                                                                         *)
(* The rings of micbench-mem: linking each line to the next and the last   *)
(* to the first makes a ring, and the exchange of two lines in three       *)
(* stores turns a ring into a ring, in all its special cases.  A walk      *)
(* round a ring counts each of its lines.                                  *)
(*                                                                         *)
(* The masks that micbench-lock prints: the scan of a mask puts out its    *)
(* bits in runs that do not touch, by induction on the bits scanned.       *)
(***************************************************************************)
EXTENDS MemBench, LockBench, SumProofs

\* What OneRing says of the contents p of a region
Ring(p) ==
    /\ p \in [LineSet -> LineSet]
    /\ \A m \in LineSet : \E l \in LineSet : p[l] = m
    /\ \A S \in (SUBSET LineSet) \ {{}, LineSet} : \E l \in S : p[l] \notin S

\* A region p after the first, the second and the last store of the exchange of lines a and b
First(p, a, b) == [p EXCEPT ![a] = p[b]]

Second(p, a, b) ==
    [First(p, a, b) EXCEPT ![b] = IF p[a] = b THEN First(p, a, b)[p[b]] ELSE p[a]]

Third(p, a, b) ==
    LET q == Second(p, a, b)
    IN  IF p[a] = b THEN [q EXCEPT ![p[b]] = p[a]]
                    ELSE [q EXCEPT ![p[a]] = q[p[b]], ![p[b]] = q[p[a]]]

\* The exchange renames the two successors c and d in the ring.
Swap(c, d, x) == IF x = c THEN d ELSE IF x = d THEN c ELSE x
Renamed(p, c, d) == [x \in LineSet |-> Swap(c, d, p[Swap(c, d, x)])]
-----------------------------------------------------------------------------
LEMMA LineFacts ==
    /\ Lines \in Nat /\ Lines > 0 /\ LineSet \subseteq Nat
    /\ \A l : l \in LineSet <=> l \in Nat /\ l < Lines
    /\ IsFiniteSet(LineSet)
<1>1. Lines \in Nat /\ Lines > 0
  BY MemAssumption
<1>2. 0 \in Int /\ Lines - 1 \in Int
  BY <1>1
<1>3. IsFiniteSet(LineSet)
  BY <1>2, FS_Interval DEF LineSet
<1> QED
  BY <1>1, <1>3 DEF LineSet

LEMMA RingInjective ==
    ASSUME NEW p, Ring(p), NEW l \in LineSet, NEW m \in LineSet, p[l] = p[m]
    PROVE  l = m
<1>1. p \in Surjection(LineSet, LineSet)
  BY DEF Ring, Surjection
<1>2. p \in Injection(LineSet, LineSet)
  BY <1>1, LineFacts, FS_SurjSameCardinalityImpliesInj
<1> QED
  BY <1>2 DEF Injection, IsInjective

\* Only the one line of the smallest region points to itself.
LEMMA NoFixedLine ==
    ASSUME NEW p, Ring(p), NEW l \in LineSet, p[l] = l
    PROVE  LineSet = {l}
<1> SUFFICES ASSUME LineSet # {l} PROVE FALSE
  OBVIOUS
<1>1. {l} \in (SUBSET LineSet) \ {{}, LineSet}
  OBVIOUS
<1> QED
  BY <1>1 DEF Ring

LEMMA SwapFacts ==
    ASSUME NEW c \in LineSet, NEW d \in LineSet, NEW x \in LineSet
    PROVE  Swap(c, d, x) \in LineSet /\ Swap(c, d, Swap(c, d, x)) = x
  BY DEF Swap

\* A ring with two of its lines renamed is a ring.
LEMMA RingRenamed ==
    ASSUME NEW p, Ring(p), NEW c \in LineSet, NEW d \in LineSet
    PROVE  Ring(Renamed(p, c, d))
<1> DEFINE q == Renamed(p, c, d)
           s(x) == Swap(c, d, x)
<1>0. p \in [LineSet -> LineSet]
  BY DEF Ring
<1>1. /\ \A x \in LineSet : s(x) \in LineSet /\ s(s(x)) = x
  BY SwapFacts
<1>2. /\ q \in [LineSet -> LineSet] /\ \A x \in LineSet : q[x] = s(p[s(x)])
  BY <1>0, <1>1 DEF Renamed
<1> HIDE DEF q, s
<1>3. \A m \in LineSet : \E l \in LineSet : q[l] = m
  <2> SUFFICES ASSUME NEW m \in LineSet PROVE \E l \in LineSet : q[l] = m
    OBVIOUS
  <2>1. PICK l \in LineSet : p[l] = s(m)
    BY <1>1 DEF Ring
  <2>2. s(l) \in LineSet /\ q[s(l)] = m
    BY <1>1, <1>2, <2>1
  <2> QED
    BY <2>2
<1>4. ASSUME NEW S \in (SUBSET LineSet) \ {{}, LineSet}
      PROVE  \E l \in S : q[l] \notin S
  <2> DEFINE T == {s(x) : x \in S}
  <2>1. T \in SUBSET LineSet /\ T # {}
    BY <1>1
  <2>2. T # LineSet
    <3>1. PICK y \in LineSet : y \notin S
      OBVIOUS
    <3>2. s(y) \in LineSet /\ s(y) \notin T
      BY <1>1, <3>1
    <3> QED
      BY <3>2
  <2>3. PICK y \in T : p[y] \notin T
    BY <2>1, <2>2 DEF Ring
  <2>4. PICK x \in S : y = s(x)
    BY <2>3
  <2>5. q[x] \notin S
    <3>1. q[x] = s(p[y]) /\ p[y] \in LineSet
      BY <1>0, <1>2, <2>1, <2>3, <2>4
    <3>2. q[x] \in S => p[y] \in T
      BY <1>1, <3>1
    <3> QED
      BY <2>3, <3>2
  <2> QED
    BY <2>5
<1> QED
  BY <1>2, <1>3, <1>4 DEF Ring, q

\* The three stores rename the two successors.
LEMMA ExchangeRenames ==
    ASSUME NEW p, Ring(p), NEW a \in LineSet, NEW b \in LineSet
    PROVE  Third(p, a, b) = Renamed(p, p[a], p[b])
<1> DEFINE c == p[a]
           d == p[b]
           q == Second(p, a, b)
<1>0. /\ p \in [LineSet -> LineSet] /\ c \in LineSet /\ d \in LineSet
      /\ \A l, m \in LineSet : p[l] = p[m] => l = m
  BY RingInjective DEF Ring
<1>1. First(p, a, b) \in [LineSet -> LineSet] /\ q \in [LineSet -> LineSet]
  BY <1>0 DEF First, Second
<1>2. Third(p, a, b) \in [LineSet -> LineSet] /\ Renamed(p, c, d) \in [LineSet -> LineSet]
  BY <1>0, <1>1, SwapFacts DEF Third, Renamed
<1>3. CASE a = b
  BY <1>0, <1>3 DEF Third, Second, First, Renamed, Swap
<1>4. CASE a # b
  <2>1. \A l \in LineSet : p[l] # l
    BY <1>4, NoFixedLine
  <2>2. ASSUME NEW x \in LineSet PROVE Third(p, a, b)[x] = Renamed(p, c, d)[x]
    <3>1. CASE c = b
      BY <1>0, <1>1, <1>4, <2>1, <3>1 DEF Third, Second, First, Renamed, Swap
    <3>2. CASE c # b
      BY <1>0, <1>1, <1>4, <2>1, <3>2 DEF Third, Second, First, Renamed, Swap
    <3> QED
      BY <3>1, <3>2
  <2> QED
    BY <1>2, <2>2
<1> QED
  BY <1>3, <1>4

\* Exchanging two lines of a ring leaves a ring, whether they are neighbours or the same.
LEMMA RingExchanged ==
    ASSUME NEW p, Ring(p), NEW a \in LineSet, NEW b \in LineSet
    PROVE  Ring(Third(p, a, b))
<1>1. p[a] \in LineSet /\ p[b] \in LineSet
  BY DEF Ring
<1> QED
  BY <1>1, ExchangeRenames, RingRenamed

\* Each line pointing to the next one, and the last to the first, is a ring.
LEMMA RingLinked ==
    ASSUME NEW p \in [LineSet -> LineSet],
           \A l \in LineSet : p[l] = IF l = Lines - 1 THEN 0 ELSE l + 1
    PROVE  Ring(p)
<1>1. \A m \in LineSet : \E l \in LineSet : p[l] = m
  <2> SUFFICES ASSUME NEW m \in LineSet PROVE \E l \in LineSet : p[l] = m
    OBVIOUS
  <2>1. CASE m = 0
    BY <2>1, LineFacts
  <2>2. CASE m # 0
    <3>1. m - 1 \in LineSet /\ p[m - 1] = m
      BY <2>2, LineFacts
    <3> QED
      BY <3>1
  <2> QED
    BY <2>1, <2>2
<1>2. ASSUME NEW S \in (SUBSET LineSet) \ {{}, LineSet}, \A l \in S : p[l] \in S
      PROVE  FALSE
  <2>0. \A l \in S : l \in Nat /\ l < Lines
    BY LineFacts
  <2>1. PICK x \in S : TRUE
    BY <1>2
  \* from any line on, by the least line that is missing
  <2>2. ASSUME NEW y \in S PROVE \A l \in LineSet : y <= l => l \in S
    <3> DEFINE T == {l \in LineSet : y <= l /\ l \notin S}
    <3> SUFFICES ASSUME T # {} PROVE FALSE
      OBVIOUS
    <3>1. T \in SUBSET Nat
      BY LineFacts
    <3>2. PICK z \in T : \A l \in T : z <= l
      BY <3>1, Least
    <3>3. z # y /\ z - 1 \in LineSet /\ y <= z - 1 /\ z - 1 # Lines - 1
      BY <2>0, <2>2, <3>2, LineFacts
    <3>4. z - 1 \in S
      BY <3>2, <3>3, LineFacts
    <3>5. p[z - 1] = z
      BY <3>2, <3>3, LineFacts
    <3> QED
      BY <1>2, <3>2, <3>4, <3>5
  <2>3. Lines - 1 \in S
    BY <2>0, <2>1, <2>2, LineFacts
  <2>4. 0 \in S
    BY <1>2, <2>3
  <2>5. \A l \in LineSet : l \in S
    <3>1. \A l \in LineSet : 0 <= l
      BY LineFacts
    <3> QED
      BY <2>2, <2>4, <3>1
  <2> QED
    BY <1>2, <2>5
<1> QED
  BY <1>1, <1>2 DEF Ring
-----------------------------------------------------------------------------
\* A walk along the ring p that began behind line 0 is at line x and has been at the n lines V:
\* where it came from is in V, or is line 0, to which it has not come back before x.
Visited(p, V, x, n) ==
    /\ V \in SUBSET LineSet /\ x \in V
    /\ IsFiniteSet(V) /\ Cardinality(V) = n
    /\ \A v \in (V \ {x}) \cup {0} : p[v] \in V
    /\ \A w \in V : \E v \in (V \ {x}) \cup {0} : p[v] = w
    /\ 0 \in V => x = 0

LEMMA LineCount == Cardinality(LineSet) = Lines
<1>1. 0 \in Int /\ Lines - 1 \in Int /\ Lines \in Nat /\ Lines > 0
  BY LineFacts
<1>2. Cardinality(0 .. Lines - 1) = IF 0 > Lines - 1 THEN 0 ELSE (Lines - 1) - 0 + 1
  BY <1>1, FS_Interval
<1> QED
  BY <1>1, <1>2 DEF LineSet

LEMMA WalkStarts ==
    ASSUME NEW p, Ring(p)
    PROVE  Visited(p, {p[0]}, p[0], 1)
<1>1. 0 \in LineSet /\ p[0] \in LineSet
  BY LineFacts DEF Ring
<1>2. IsFiniteSet({p[0]}) /\ Cardinality({p[0]}) = 1
  BY FS_Singleton
<1> QED
  BY <1>1, <1>2 DEF Visited

\* The next line is a new one, so there is always one left to count.
LEMMA WalkGoesOn ==
    ASSUME NEW p, Ring(p), NEW V, NEW x, NEW n \in Nat, Visited(p, V, x, n), x # 0
    PROVE  Visited(p, V \cup {p[x]}, p[x], n + 1) /\ n + 1 <= Lines
<1>1. /\ V \in SUBSET LineSet /\ x \in V /\ 0 \notin V /\ 0 \in LineSet
      /\ p[x] \in LineSet
  BY LineFacts DEF Ring, Visited
<1>2. p[x] \notin V
  <2> SUFFICES ASSUME p[x] \in V PROVE FALSE
    OBVIOUS
  <2>1. PICK v \in (V \ {x}) \cup {0} : p[v] = p[x]
    BY DEF Visited
  <2>2. v \in LineSet /\ x \in LineSet
    BY <1>1
  <2>3. v = x
    BY <2>1, <2>2, RingInjective
  <2> QED
    BY <1>1, <2>1, <2>3
<1> DEFINE W == V \cup {p[x]}
<1>3. IsFiniteSet(W) /\ Cardinality(W) = n + 1
  BY <1>2, FS_AddElement DEF Visited
<1>4. W \in SUBSET LineSet /\ (W \ {p[x]}) \cup {0} = V \cup {0}
  BY <1>1, <1>2
<1>5. \A v \in V \cup {0} : p[v] \in W
  BY DEF Visited
<1>6. \A w \in W : \E v \in V \cup {0} : p[v] = w
  BY <1>1 DEF Visited
<1>7. Visited(p, W, p[x], n + 1)
  BY <1>1, <1>3, <1>4, <1>5, <1>6 DEF Visited
<1>8. n + 1 <= Lines
  <2>1. Cardinality(W) <= Cardinality(LineSet)
    BY <1>4, LineFacts, FS_Subset
  <2> QED
    BY <1>3, <2>1, LineCount
<1> QED
  BY <1>7, <1>8

\* Back at the first line the walk has counted all of them: what it has been at is closed.
LEMMA WalkEnds ==
    ASSUME NEW p, Ring(p), NEW V, NEW n, Visited(p, V, 0, n)
    PROVE  n = Lines
<1>1. V \in SUBSET LineSet /\ V # {} /\ \A v \in V : p[v] \in V
  BY DEF Visited
<1>2. V = LineSet
  BY <1>1 DEF Ring
<1> QED
  BY <1>2, LineCount DEF Visited
-----------------------------------------------------------------------------
\* The recursion of BitsToString: the state of the scan after each number of bits
Unscanned == [start |-> -1, out |-> <<>>]

Advance(mask, s, b) ==
    IF s.start < 0
    THEN [s EXCEPT !.start = IF b \in mask THEN b ELSE -1]
    ELSE IF b \in mask
         THEN s
         ELSE [start |-> -1, out |-> Append(s.out, <<s.start, b - 1>>)]

After(mask, g, n) == IF n = 0 THEN Unscanned ELSE Advance(mask, g[n - 1], n - 1)
IsScan(mask, nbits, g) == g = [n \in 0 .. nbits |-> After(mask, g, n)]
Scan(mask, nbits) == CHOOSE g : IsScan(mask, nbits, g)

LEMMA StringIsScan ==
    ASSUME NEW mask, NEW nbits
    PROVE  BitsToString(mask, nbits) = Scan(mask, nbits)[nbits].out
  BY Zenon DEF BitsToString, Scan, IsScan, After, Advance, Unscanned

\* What the scan has put out, and what it is in the middle of, after n bits
ScanInv(mask, n, s) ==
    /\ s.out \in Seq(Nat \X Nat)
    /\ \A k \in 1 .. Len(s.out) : s.out[k][1] <= s.out[k][2]
    /\ \A k \in 2 .. Len(s.out) : s.out[k - 1][2] + 1 < s.out[k][1]
    /\ \/ /\ s.start = -1
          /\ Denotes(s.out) = mask \cap 0 .. n - 1
          /\ \A k \in 1 .. Len(s.out) : s.out[k][2] + 1 < n
       \/ /\ s.start \in 0 .. n - 1
          /\ Denotes(s.out) = mask \cap 0 .. s.start - 1
          /\ s.start .. n - 1 \subseteq mask
          /\ \A k \in 1 .. Len(s.out) : s.out[k][2] + 1 < s.start

States == [start : Int, out : Seq(Nat \X Nat)]

LEMMA DenotesAppend ==
    ASSUME NEW rs \in Seq(Nat \X Nat), NEW a \in Nat, NEW b \in Nat
    PROVE  /\ Append(rs, <<a, b>>) \in Seq(Nat \X Nat)
           /\ Denotes(Append(rs, <<a, b>>)) = Denotes(rs) \cup a .. b
<1> DEFINE qs == Append(rs, <<a, b>>)
<1>1. <<a, b>> \in Nat \X Nat
  OBVIOUS
<1>2. /\ qs \in Seq(Nat \X Nat) /\ DOMAIN rs = 1 .. Len(rs) /\ DOMAIN qs = 1 .. Len(rs) + 1
      /\ \A k \in 1 .. Len(rs) : qs[k] = rs[k]
      /\ qs[Len(rs) + 1] = <<a, b>> /\ Len(rs) \in Nat
  BY <1>1
<1> HIDE DEF qs
<1>3. \A x : x \in Denotes(qs) <=> \E k \in DOMAIN qs : x \in qs[k][1] .. qs[k][2]
  BY Zenon DEF Denotes
<1>4. \A x : x \in Denotes(rs) <=> \E k \in DOMAIN rs : x \in rs[k][1] .. rs[k][2]
  BY Zenon DEF Denotes
<1>5. DOMAIN qs = DOMAIN rs \cup {Len(rs) + 1} /\ \A k \in DOMAIN rs : qs[k] = rs[k]
  <2>1. \A n \in Nat : 1 .. n + 1 = 1 .. n \cup {n + 1}
    OBVIOUS
  <2> QED
    BY <1>2, <2>1, Zenon
<1>6. qs[Len(rs) + 1][1] = a /\ qs[Len(rs) + 1][2] = b
  BY <1>2
<1>7. \A x : x \in Denotes(qs) <=> x \in Denotes(rs) \/ x \in a .. b
  BY <1>3, <1>4, <1>5, <1>6, Zenon
<1>8. Denotes(qs) = Denotes(rs) \cup a .. b
  BY <1>7
<1> QED
  BY <1>2, <1>8 DEF qs

LEMMA ScanStarts == ASSUME NEW mask PROVE ScanInv(mask, 0, Unscanned) /\ Unscanned \in States
<1>1. Denotes(<<>>) = {}
  BY DEF Denotes
<1> QED
  BY <1>1 DEF ScanInv, Unscanned, States

LEMMA ScanAdvances ==
    ASSUME NEW mask, NEW n \in Nat, NEW s \in States, ScanInv(mask, n, s)
    PROVE  ScanInv(mask, n + 1, Advance(mask, s, n)) /\ Advance(mask, s, n) \in States
<1> DEFINE r == Advance(mask, s, n)
<1>0. s.start \in Int /\ s.out \in Seq(Nat \X Nat) /\ s = [start |-> s.start, out |-> s.out]
  BY DEF States
<1>e. /\ \A k \in 1 .. Len(s.out) : s.out[k][1] \in Nat /\ s.out[k][2] \in Nat
      /\ Len(s.out) \in Nat
  BY <1>0
<1>1. CASE s.start = -1 /\ n \notin mask
  <2>1. r.start = -1 /\ r.out = s.out /\ r \in States
    BY <1>0, <1>1 DEF Advance, States
  <2>2. mask \cap 0 .. (n + 1) - 1 = mask \cap 0 .. n - 1
    BY <1>1
  <2> HIDE DEF r
  <2>3. ScanInv(mask, n + 1, r)
    <3>1. Denotes(s.out) = mask \cap 0 .. n - 1 /\ \A k \in 1 .. Len(s.out) : s.out[k][2] + 1 < n
      BY <1>1 DEF ScanInv
    <3>2. \A k \in 1 .. Len(s.out) : s.out[k][2] + 1 < n + 1
      BY <1>e, <3>1
    <3> QED
      BY <2>1, <2>2, <3>1, <3>2 DEF ScanInv
  <2> QED
    BY <2>1, <2>3 DEF r
<1>2. CASE s.start = -1 /\ n \in mask
  <2>1. r.start = n /\ r.out = s.out /\ r \in States
    BY <1>0, <1>2 DEF Advance, States
  <2>2. n .. (n + 1) - 1 \subseteq mask
    BY <1>2
  <2> HIDE DEF r
  <2>3. ScanInv(mask, n + 1, r)
    BY <1>2, <1>e, <2>1, <2>2 DEF ScanInv
  <2> QED
    BY <2>1, <2>3 DEF r
<1>3. CASE s.start # -1 /\ n \in mask
  <2>1. s.start \in 0 .. n - 1
    BY <1>3 DEF ScanInv
  <2>2. r = s
    BY <1>3, <2>1 DEF Advance
  <2>3. s.start .. (n + 1) - 1 \subseteq mask
    BY <1>3, <2>1 DEF ScanInv
  <2> HIDE DEF r
  <2>4. ScanInv(mask, n + 1, r)
    BY <1>3, <2>1, <2>2, <2>3 DEF ScanInv
  <2> QED
    BY <2>2, <2>4 DEF r
<1>4. CASE s.start # -1 /\ n \notin mask
  <2>1. /\ s.start \in 0 .. n - 1 /\ Denotes(s.out) = mask \cap 0 .. s.start - 1
        /\ s.start .. n - 1 \subseteq mask
        /\ \A k \in 1 .. Len(s.out) : s.out[k][2] + 1 < s.start
    BY <1>4 DEF ScanInv
  <2>2. s.start \in Nat /\ n - 1 \in Nat
    BY <2>1
  <2>3. r.start = -1 /\ r.out = Append(s.out, <<s.start, n - 1>>)
    BY <1>4, <2>1 DEF Advance
  <2>4. /\ r.out \in Seq(Nat \X Nat)
        /\ Denotes(r.out) = (mask \cap 0 .. s.start - 1) \cup s.start .. n - 1
    BY <1>0, <2>1, <2>2, <2>3, DenotesAppend
  <2>5. Denotes(r.out) = mask \cap 0 .. (n + 1) - 1
    <3> DEFINE d == Denotes(r.out)
    <3>1. d = (mask \cap 0 .. s.start - 1) \cup s.start .. n - 1
      BY <2>4
    <3> HIDE DEF d
    <3>2. d = mask \cap 0 .. (n + 1) - 1
      BY <1>4, <2>1, <3>1
    <3> QED
      BY <3>2 DEF d
  <2>6. /\ Len(r.out) = Len(s.out) + 1 /\ \A k \in 1 .. Len(s.out) : r.out[k] = s.out[k]
        /\ r.out[Len(s.out) + 1] = <<s.start, n - 1>>
    BY <1>0, <2>2, <2>3
  <2>7. r \in States
    BY <1>4, <2>1, <2>2, <2>4 DEF Advance, States
  <2> HIDE DEF r
  <2>8. \A k \in 1 .. Len(r.out) : r.out[k][1] <= r.out[k][2] /\ r.out[k][2] + 1 < n + 1
    <3> SUFFICES ASSUME NEW k \in 1 .. Len(r.out)
                 PROVE  r.out[k][1] <= r.out[k][2] /\ r.out[k][2] + 1 < n + 1
      OBVIOUS
    <3>1. CASE k = Len(s.out) + 1
      BY <2>1, <2>6, <3>1
    <3>2. CASE k \in 1 .. Len(s.out)
      <4>1. s.out[k][1] <= s.out[k][2] /\ s.out[k][2] + 1 < s.start /\ s.out[k][2] \in Nat
        BY <1>e, <2>1, <3>2 DEF ScanInv
      <4>2. r.out[k] = s.out[k]
        BY <2>6, <3>2
      <4> QED
        BY <2>1, <4>1, <4>2
    <3> QED
      BY <1>e, <2>6, <3>1, <3>2
  <2>9. \A k \in 2 .. Len(r.out) : r.out[k - 1][2] + 1 < r.out[k][1]
    <3> SUFFICES ASSUME NEW k \in 2 .. Len(r.out)
                 PROVE  r.out[k - 1][2] + 1 < r.out[k][1]
      OBVIOUS
    <3>1. CASE k = Len(s.out) + 1
      <4>1. k - 1 \in 1 .. Len(s.out)
        BY <1>e, <3>1
      <4>2. r.out[k - 1] = s.out[k - 1] /\ s.out[k - 1][2] + 1 < s.start
        BY <2>1, <2>6, <4>1
      <4>3. r.out[k][1] = s.start
        BY <2>6, <3>1
      <4> QED
        BY <4>2, <4>3
    <3>2. CASE k \in 2 .. Len(s.out)
      <4>1. k - 1 \in 1 .. Len(s.out) /\ k \in 1 .. Len(s.out)
        BY <1>e, <3>2
      <4> QED
        BY <2>6, <3>2, <4>1 DEF ScanInv
    <3> QED
      BY <1>e, <2>6, <3>1, <3>2
  <2>10. ScanInv(mask, n + 1, r)
    BY <2>3, <2>4, <2>5, <2>8, <2>9 DEF ScanInv
  <2> QED
    BY <2>7, <2>10 DEF r
<1> QED
  BY <1>1, <1>2, <1>3, <1>4

\* The recursion has a solution, bit by bit, and the scan is it.
LEMMA ScanExists ==
    ASSUME NEW mask, NEW nbits \in Nat
    PROVE  IsScan(mask, nbits, Scan(mask, nbits))
<1> DEFINE Upto(m, g) == \A n \in 0 .. nbits : n <= m => g[n] = After(mask, g, n)
           T == {m \in Nat : \E g : Upto(m, g)}
<1>1. 0 \in T
  <2> DEFINE g == [n \in 0 .. nbits |-> Unscanned]
  <2>1. Upto(0, g)
    BY DEF After
  <2> QED
    BY <2>1
<1>2. ASSUME NEW m \in Nat, m \in T PROVE m + 1 \in T
  <2>1. PICK g : Upto(m, g)
    BY <1>2
  <2> DEFINE h == [n \in 0 .. nbits |-> IF n <= m THEN g[n] ELSE After(mask, g, n)]
  <2>2. ASSUME NEW n \in 0 .. nbits, n <= m + 1 PROVE h[n] = After(mask, h, n)
    <3>1. h[n] = After(mask, g, n)
      BY <2>1
    <3>2. n # 0 => h[n - 1] = g[n - 1]
      BY <2>2
    <3> HIDE DEF h
    <3>3. After(mask, h, n) = After(mask, g, n)
      BY <3>2 DEF After
    <3> QED
      BY <3>1, <3>3
  <2> HIDE DEF h
  <2>3. Upto(m + 1, h)
    BY <2>2
  <2> QED
    BY <2>3
<1>3. Nat \subseteq T
  <2> HIDE DEF T
  <2> QED
    BY <1>1, <1>2, NatInduct
<1>4. PICK g : Upto(nbits, g)
  BY <1>3
<1> DEFINE f == [n \in 0 .. nbits |-> g[n]]
<1>5. ASSUME NEW n \in 0 .. nbits PROVE f[n] = After(mask, f, n)
  <2>1. f[n] = After(mask, g, n)
    BY <1>4
  <2>2. n # 0 => f[n - 1] = g[n - 1]
    OBVIOUS
  <2> HIDE DEF f
  <2>3. After(mask, f, n) = After(mask, g, n)
    BY <2>2 DEF After
  <2> QED
    BY <2>1, <2>3
<1>6. f = [n \in 0 .. nbits |-> f[n]]
  OBVIOUS
<1> HIDE DEF f
<1>7. IsScan(mask, nbits, f)
  BY <1>5, <1>6 DEF IsScan
<1> QED
  BY <1>7, Zenon DEF Scan

LEMMA ScanKeeps ==
    ASSUME NEW mask, NEW nbits \in Nat
    PROVE  ScanInv(mask, nbits, Scan(mask, nbits)[nbits])
<1> DEFINE g == Scan(mask, nbits)
           Good(n) == g[n] \in States /\ ScanInv(mask, n, g[n])
           T == {n \in Nat : n <= nbits => Good(n)}
<1>1. g = [n \in 0 .. nbits |-> After(mask, g, n)]
  BY ScanExists DEF IsScan
<1> HIDE DEF g
<1>2. \A n \in 0 .. nbits : g[n] = After(mask, g, n)
  BY <1>1
<1>3. 0 \in T
  <2>1. g[0] = Unscanned
    BY <1>2 DEF After
  <2> QED
    BY <2>1, ScanStarts
<1>4. ASSUME NEW n \in Nat, n \in T PROVE n + 1 \in T
  <2> SUFFICES ASSUME n + 1 <= nbits PROVE Good(n + 1)
    OBVIOUS
  <2>1. Good(n)
    BY <1>4
  <2>2. g[n + 1] = Advance(mask, g[n], n)
    <3>1. n + 1 \in 0 .. nbits /\ (n + 1) - 1 = n /\ n + 1 # 0
      OBVIOUS
    <3>2. g[n + 1] = After(mask, g, n + 1)
      BY <1>2, <3>1
    <3> QED
      BY <3>1, <3>2, Zenon DEF After
  <2> QED
    BY <2>1, <2>2, ScanAdvances
<1>5. Nat \subseteq T
  <2> HIDE DEF T
  <2> QED
    BY <1>3, <1>4, NatInduct
<1>6. Good(nbits)
  BY <1>5
<1> QED
  BY <1>6 DEF g

\* __mb_bits_to_string puts out exactly the bits of a mask that leaves the last bit alone, in
\* runs that do not touch.
LEMMA StringDenotes ==
    ASSUME NEW nbits \in Nat, NEW mask \in SUBSET Nat, \A b \in mask : b < nbits - 1
    PROVE  LET rs == BitsToString(mask, nbits)
           IN  Denotes(rs) = mask /\ \A k \in 2 .. Len(rs) : rs[k - 1][2] + 1 < rs[k][1]
<1> DEFINE s == Scan(mask, nbits)[nbits]
<1>1. ScanInv(mask, nbits, s) /\ BitsToString(mask, nbits) = s.out
  BY ScanKeeps, StringIsScan
<1> HIDE DEF s
<1>2. s.start = -1
  <2> SUFFICES ASSUME s.start \in 0 .. nbits - 1, s.start .. nbits - 1 \subseteq mask PROVE FALSE
    BY <1>1 DEF ScanInv
  <2>1. nbits - 1 \in s.start .. nbits - 1
    OBVIOUS
  <2>2. nbits - 1 \in mask
    BY <2>1
  <2> QED
    BY <2>2
<1>3. Denotes(s.out) = mask \cap 0 .. nbits - 1 /\ \A k \in 2 .. Len(s.out) : s.out[k - 1][2] + 1 < s.out[k][1]
  BY <1>1, <1>2 DEF ScanInv
<1>4. mask \cap 0 .. nbits - 1 = mask
  <2>1. \A b \in mask : b \in Nat /\ b < nbits - 1
    OBVIOUS
  <2>2. \A b \in mask : b \in 0 .. nbits - 1
    BY <2>1
  <2> QED
    BY <2>2
<1> QED
  BY <1>1, <1>3, <1>4

\* The affinities are printed as they were given.
LEMMA PrintsGiven ==
    ASSUME NEW arg, arg.cpu \in Seq({0, 1}), arg.mem \in Seq({0, 1}),
           Len(arg.cpu) < CpuSetSize, Len(arg.mem) < IntBits
    PROVE  LET p == AffinityToString(ParseAffinity(arg))
           IN  /\ p.tid = arg.tid
               /\ Denotes(p.cpus) = Ones(arg.cpu) /\ Denotes(p.nodes) = Ones(arg.mem)
               /\ \A k \in 2 .. Len(p.cpus) : p.cpus[k - 1][2] + 1 < p.cpus[k][1]
<1> DEFINE a == ParseAffinity(arg)
           p == AffinityToString(a)
<1>1. Len(arg.cpu) \in Nat /\ Len(arg.mem) \in Nat
  OBVIOUS
<1>2. /\ Ones(arg.cpu) \in SUBSET Nat /\ \A b \in Ones(arg.cpu) : b < CpuSetSize - 1
      /\ Ones(arg.mem) \in SUBSET Nat /\ \A b \in Ones(arg.mem) : b < IntBits - 1
  BY <1>1, AffinityAssumption DEF Ones
<1>3. a.tid = arg.tid /\ a.cpumask = Ones(arg.cpu)
  <2>1. Ones(arg.cpu) \cap 0 .. CpuSetSize - 1 = Ones(arg.cpu)
    BY <1>2, AffinityAssumption
  <2> QED
    BY <2>1 DEF ParseAffinity
<1>4. a.nodemask = Ones(arg.mem)
  <2>1. ASSUME NEW j \in Ones(arg.mem) PROVE NodeBits(j) = {j}
    <3>1. j \in Nat /\ j < IntBits - 1 /\ IntBits \in Nat \ {0}
      BY <1>2, AffinityAssumption
    <3>2. j % IntBits = j
      BY <3>1
    <3> QED
      BY <3>1, <3>2 DEF NodeBits
  <2>2. UNION {NodeBits(j) : j \in Ones(arg.mem)} = Ones(arg.mem)
    BY <2>1
  <2> QED
    BY <2>2 DEF ParseAffinity
<1> HIDE DEF a
<1>5. /\ p.tid = a.tid /\ p.cpus = BitsToString(a.cpumask, CpuSetSize)
      /\ p.nodes = IF a.nodemask = {} THEN <<>> ELSE BitsToString(a.nodemask, LongBits)
  BY DEF AffinityToString
<1> HIDE DEF p
<1>6. Denotes(p.cpus) = Ones(arg.cpu) /\ \A k \in 2 .. Len(p.cpus) : p.cpus[k - 1][2] + 1 < p.cpus[k][1]
  BY <1>2, <1>3, <1>5, StringDenotes, AffinityAssumption
<1>7. Denotes(p.nodes) = Ones(arg.mem)
  <2>1. CASE a.nodemask = {}
    <3>1. Denotes(<<>>) = {}
      BY DEF Denotes
    <3> QED
      BY <1>4, <1>5, <2>1, <3>1
  <2>2. CASE a.nodemask # {}
    <3>1. LongBits \in Nat /\ \A b \in Ones(arg.mem) : b < LongBits - 1
      BY <1>2, AffinityAssumption
    <3> QED
      BY <1>2, <1>4, <1>5, <2>2, <3>1, StringDenotes
  <2> QED
    BY <2>1, <2>2
<1>8. p.tid = arg.tid
  BY <1>3, <1>5
<1> QED
  BY <1>6, <1>7, <1>8 DEF p, a
=============================================================================
