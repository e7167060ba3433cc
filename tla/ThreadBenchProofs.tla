------------------------- MODULE ThreadBenchProofs -------------------------
(***************************************************************************)
(* micbench-mem, micbench-lock and micbench-proto, for every number of     *)
(* threads, every size of a region and all options: the rings of a thread  *)
(* that has its region to itself, and the result as the work of all        *)
(* threads.                                                                *)
(***************************************************************************)
EXTENDS ThreadBench, BenchLemmas

\* The places of main before its end, of a thread, and of the exchange of two lines

Running == {"parse", "create", "join"}
Places == {"none", "failed", "init", "shuffle", "load", "store1", "store2", "store3",
           "store4", "test", "check", "evict", "barrier", "job", "critical", "done", "gone"}
Exchange == {"load", "store1", "store2", "store3", "store4", "test"}

\* The shuffle stays inside the region.
Inside ==
    \A t \in Threads :
        /\ pc[t] \in Exchange \cup {"shuffle"} => idx[t] \in LineSet
        /\ pc[t] \in Exchange => ptr2[t] \in LineSet
        /\ pc[t] = "store3" /\ Adjacent(t) => succ2[t] \in LineSet
        /\ pc[t] = "store4" => succ2[t] \in LineSet

\* Main and its threads
Progress ==
    /\ main \in {"parse", "create"} => \A t \in Threads : t > i => pc[t] = "none"
    /\ main = "parse" => i = 0
    /\ main = "create" => \A t \in Threads : t <= i => pc[t] # "none"
    /\ main = "join" => \A t \in Threads : /\ pc[t] # "none"
                                           /\ t <= i => pc[t] \in {"done", "failed"}
    /\ main = "done" => \A t \in Threads : pc[t] \in {"done", "failed"}
    /\ main \in Ended \ {"done"} => \A t \in Threads : pc[t] = "gone"
    /\ main \in Running => \A t \in Threads : pc[t] # "gone"

\* Nobody is past the barrier before all are.
Together ==
    option.prog # "proto" =>
        \A t, u \in Threads : pc[t] \in {"job", "critical", "done"} =>
                                 pc[u] \in {"job", "critical", "done"}

NoLocks == option.prog = "mem" => \A t \in Threads : pc[t] # "critical"

\* The contents of a region between the two stores of swap_long
HalfSwapped(p, a, b) == [Second(p, a, b) EXCEPT ![p[a]] = Second(p, a, b)[p[b]]]

\* The region of a thread that has it to itself, at each step of its set-up
RingAt(t) ==
    /\ pc[t] = "none" => idx[t] = 0
    /\ pc[t] = "init" => \A l \in LineSet : l < idx[t] => region[t][l] = l + 1
    /\ pc[t] \in {"shuffle", "load", "store1", "test", "check", "evict"} => Ring(region[t])
    /\ pc[t] \in {"barrier", "job", "done"} /\ option.rand => Ring(region[t])
    /\ pc[t] \in {"load", "store1"} => succ1[t] = region[t][idx[t]]
    /\ pc[t] = "store1" => succ2[t] = region[t][ptr2[t]]
    /\ pc[t] \in {"store2", "store3"} =>
          \E p \in [LineSet -> LineSet] :
              /\ Ring(p)
              /\ succ1[t] = p[idx[t]] /\ succ2[t] = p[ptr2[t]]
              /\ region[t] = IF pc[t] = "store2" THEN First(p, idx[t], ptr2[t])
                                                 ELSE Second(p, idx[t], ptr2[t])
    /\ pc[t] = "store4" =>
          \E p \in [LineSet -> LineSet] :
              /\ Ring(p)
              /\ succ1[t] = p[idx[t]] /\ succ2[t] = p[ptr2[t]]
              /\ succ1[t] # succ2[t] /\ succ1[t] # ptr2[t]
              /\ tmp[t] = Second(p, idx[t], ptr2[t])[succ1[t]]
              /\ region[t] = HalfSwapped(p, idx[t], ptr2[t])

Rings == option.prog = "mem" /\ option.local => \A t \in Threads : RingAt(t)

\* The counter of a thread against the work it has done
Accounts ==
    \A t \in Threads :
        /\ option.prog = "mem" => ops[t] = work[t]
        /\ option.prog = "lock" => /\ pc[t] = "done" => ops[t] = work[t]
                                   /\ pc[t] \in {"none", "failed"} => ops[t] = 0 /\ work[t] = 0
        /\ option.prog = "proto" => ops[t] = 0
-----------------------------------------------------------------------------
LEMMA ThreadFacts ==
    /\ Multi \in Nat /\ Multi > 0
    /\ Threads \subseteq Nat /\ IsFiniteSet(Threads)
    /\ \A n \in 0 .. Multi : n < Multi => n + 1 \in Threads
<1>1. Multi \in Nat /\ Multi > 0
  BY BenchAssumption
<1>2. 1 \in Int /\ Multi \in Int
  BY <1>1
<1>3. IsFiniteSet(Threads)
  BY <1>2, FS_Interval DEF Threads
<1> QED
  BY <1>1, <1>3 DEF Threads

LEMMA PointerFacts ==
    /\ LineSet \subseteq Pointers /\ 0 \in LineSet /\ Lines - 1 \in LineSet
    /\ \A l \in LineSet : l + 1 \in Pointers
    /\ \A n \in 0 .. Lines : n < Lines => n \in LineSet /\ n + 1 \in 0 .. Lines
    /\ Null \in Pointers /\ 0 \in 0 .. Lines /\ {0, 1} \subseteq 0 .. Lines + 1
  BY LineFacts DEF LineSet, Pointers, PtrEnd

LEMMA OptionFacts ==
    ASSUME NEW o \in Options
    PROVE  /\ o.prog \in {"mem", "lock", "proto"}
           /\ o.prog = "mem" => o.rand \in BOOLEAN /\ o.local \in BOOLEAN /\ o.size \in Nat
           /\ o.prog # "mem" => o.count \in Nat
           /\ o.prog = "proto" => o.mode = "spinlock"
  BY BenchAssumption, MemAssumption, LockAssumption

LEMMA RegionFacts ==
    ASSUME NEW t \in Threads
    PROVE  RegionOf(t) \in Threads
  BY ThreadFacts DEF RegionOf, Threads

\* The sum that main puts out
LEMMA SumOfIs ==
    ASSUME NEW f
    PROVE  FJ!SumOf(f) = SumOver(f, DOMAIN f)
  BY Zenon DEF FJ!SumOf, FJ!MapThenSumSet, FJ!MapThenFoldSet, SumOver, SumMap, IsSum, Step,
              Chosen
-----------------------------------------------------------------------------
LEMMA InitTypes == Init => TypeOK /\ Inside
<1> SUFFICES ASSUME Init PROVE TypeOK /\ Inside
  OBVIOUS
<1>1. MemTypeOK
  BY PointerFacts DEF Init, MemInit, MemTypeOK
<1>2. TypeOK
  BY <1>1, ThreadFacts DEF Init, MainInit, LockInit, TypeOK
<1>3. Inside
  BY DEF Init, MainInit, Inside, Exchange
<1> QED
  BY <1>2, <1>3

LEMMA ExitTypes ==
    ASSUME TypeOK, NEW how \in Ended, ExitProcess(how), UNCHANGED <<memVars, holder>>
    PROVE  TypeOK' /\ Inside'
<1>1. MemTypeOK'
  BY DEF TypeOK, MemTypeOK, memVars, shuffleVars, walkVars
<1>2. TypeOK'
  BY <1>1 DEF TypeOK, ExitProcess, counters, Ended
<1> QED
  BY <1>2 DEF ExitProcess, Inside, Exchange

LEMMA MainTypes ==
    ASSUME TypeOK, Inside, Main \/ Barrier \/ Failure
    PROVE  TypeOK' /\ Inside'
<1>0. \A how \in {"exit", "crash"} : how \in Ended
  BY DEF Ended
<1> USE DEF mainVars, counters, memVars, shuffleVars, walkVars
<1>m. UNCHANGED <<memVars, holder>> /\ MemTypeOK'
  BY DEF Main, Barrier, Failure, TypeOK, MemTypeOK
<1>1. CASE ParseArgs
  BY <1>1, <1>m DEF TypeOK, Inside, Exchange, Adjacent, ParseArgs, Ended
<1>2. CASE ArgumentError \/ SetupFails \/ JoinCrashes
  BY <1>0, <1>2, <1>m, ExitTypes DEF ArgumentError, SetupFails, JoinCrashes
<1>3. CASE Create
  <2>1. FirstStep \in {"init", "barrier", "job"}
    BY DEF FirstStep
  <2>2. i + 1 \in Threads /\ i + 1 \in 0 .. Multi
    BY <1>3, ThreadFacts DEF Create, TypeOK
  <2> QED
    BY <1>3, <1>m, <2>1, <2>2 DEF TypeOK, Inside, Exchange, Adjacent, Create, Goto
<1>4. CASE CreateFails
  <2>2. i + 1 \in Threads /\ i + 1 \in 0 .. Multi
    BY <1>4, ThreadFacts DEF CreateFails, TypeOK
  <2> QED
    BY <1>4, <1>m, <2>2 DEF TypeOK, Inside, Exchange, Adjacent, CreateFails, Goto
<1>5. CASE AllCreated
  BY <1>5, <1>m, ThreadFacts DEF TypeOK, Inside, Exchange, Adjacent, AllCreated
<1>6. CASE Join
  <2>2. i + 1 \in 0 .. Multi
    BY <1>6, ThreadFacts DEF Join, TypeOK
  <2> QED
    BY <1>6, <1>m, <2>2 DEF TypeOK, Inside, Exchange, Adjacent, Join
<1>7. CASE Sum
  <2>1. FJ!SumOf(ops) \in Nat
    BY SumOfIs, SumType, ThreadFacts DEF TypeOK
  <2> QED
    BY <1>7, <1>m, <2>1 DEF TypeOK, Inside, Exchange, Adjacent, Sum, Ended
<1>8. CASE Release
  BY <1>8, <1>m DEF TypeOK, Inside, Exchange, Adjacent, Release
<1> QED
  BY <1>1, <1>2, <1>3, <1>4, <1>5, <1>6, <1>7, <1>8
     DEF Main, Barrier, Failure, MainStep, MainFails

\* What a thread says it has done is what it does: the row that the Makefile makes has the
\* 128 increments that thread_job_mfence counts.
LEMMA JobCounted ==
    ASSUME option \in Options, option.prog # "mem"
    PROVE  JobOps = Job
<1>1. option.count \in Nat
  BY OptionFacts
<1> QED
  BY <1>1 DEF Job, JobOps, GeneratedRow

LEMMA LockTypes ==
    ASSUME TypeOK, Inside, NEW t \in Threads, LockThread(t), UNCHANGED memVars
    PROVE  TypeOK' /\ Inside'
<1> USE DEF mainVars, counters, memVars, shuffleVars, walkVars, Goto
<1>m. MemTypeOK'
  BY DEF TypeOK, MemTypeOK
<1>1. CASE Lock(t)
  BY <1>1, <1>m DEF TypeOK, Inside, Exchange, Adjacent, Lock
<1>2. CASE Unlock(t)
  BY <1>2, <1>m DEF TypeOK, Inside, Exchange, Adjacent, Unlock
<1>3. CASE FenceRow(t)
  BY <1>3, <1>m DEF TypeOK, Inside, Exchange, Adjacent, FenceRow, GeneratedRow
<1>4. CASE EndJob(t)
  <2>1. work[t] = Job /\ JobOps = Job /\ Job \in Nat
    BY <1>4, JobCounted DEF EndJob, LockThread, TypeOK
  <2> QED
    BY <1>4, <1>m, <2>1 DEF TypeOK, Inside, Exchange, Adjacent, EndJob
<1> QED
  BY <1>1, <1>2, <1>3, <1>4 DEF LockThread

\* A store to a line of the region, and a line read from it
LEMMA StoreTypes ==
    ASSUME TypeOK, NEW t \in Threads, NEW l \in LineSet, NEW v \in Pointers
    PROVE  Store(t, l, v) => region' \in [Threads -> [LineSet -> Pointers]]
  BY RegionFacts DEF Store, TypeOK, MemTypeOK

LEMMA LineTypes ==
    ASSUME TypeOK, NEW t \in Threads, NEW l \in LineSet
    PROVE  Line(t, l) \in Pointers
  BY RegionFacts DEF Line, TypeOK, MemTypeOK

LEMMA ShuffleTypes ==
    ASSUME TypeOK, Inside, NEW t \in Threads, Shuffle(t), UNCHANGED holder
    PROVE  TypeOK' /\ Inside'
<1> USE DEF mainVars, counters, memVars, shuffleVars, walkVars, Goto
<1>d. ASSUME NEW how \in {"crash"}, Die(how) PROVE TypeOK' /\ Inside'
  BY <1>d, ExitTypes DEF Die, Ended
<1>1. CASE \E ofst \in 0 .. Lines - idx[t] - 1 : Draw(t, ofst)
  <2>1. PICK ofst \in 0 .. Lines - idx[t] - 1 : Draw(t, ofst)
    BY <1>1
  <2>2. idx[t] \in LineSet
    BY <2>1 DEF Draw, Inside
  <2>3. idx[t] + ofst \in LineSet /\ Line(t, idx[t]) \in Pointers
    BY <2>1, <2>2, LineFacts, LineTypes
  <2>4. MemTypeOK'
    BY <2>1, <2>3, PointerFacts DEF TypeOK, MemTypeOK, Draw
  <2> QED
    BY <2>1, <2>2, <2>3, <2>4 DEF Draw, TypeOK, Inside, Exchange, Adjacent, MemTypeOK
<1>2. CASE Load(t)
  <2>1. ptr2[t] \in LineSet /\ idx[t] \in LineSet
    BY <1>2 DEF Load, Inside, Exchange
  <2>2. Line(t, ptr2[t]) \in Pointers
    BY <2>1, LineTypes
  <2>3. MemTypeOK'
    BY <1>2, <2>2 DEF TypeOK, MemTypeOK, Load
  <2> QED
    BY <1>2, <2>1, <2>3 DEF Load, TypeOK, Inside, Exchange, Adjacent
<1>3. CASE StoreFirst(t)
  <2>1. ptr2[t] \in LineSet /\ idx[t] \in LineSet /\ succ2[t] \in Pointers
    BY <1>3 DEF StoreFirst, Inside, Exchange, TypeOK, MemTypeOK
  <2>2. region' \in [Threads -> [LineSet -> Pointers]]
    BY <1>3, <2>1, StoreTypes DEF StoreFirst
  <2>3. MemTypeOK'
    BY <1>3, <2>2 DEF TypeOK, MemTypeOK, StoreFirst
  <2> QED
    BY <1>3, <2>1, <2>3 DEF StoreFirst, TypeOK, Inside, Exchange, Adjacent
<1>4. CASE StoreSecond(t)
  <2>1. CASE Adjacent(t) /\ succ2[t] \notin LineSet
    BY <1>4, <1>d, <2>1 DEF StoreSecond
  <2>2. CASE ~(Adjacent(t) /\ succ2[t] \notin LineSet)
    <3> DEFINE v == IF Adjacent(t) THEN Line(t, succ2[t]) ELSE succ1[t]
    <3>1. ptr2[t] \in LineSet /\ idx[t] \in LineSet /\ succ1[t] \in Pointers
      BY <1>4 DEF StoreSecond, Inside, Exchange, TypeOK, MemTypeOK
    <3>2. v \in Pointers
      BY <2>2, <3>1, LineTypes
    <3>3. Store(t, ptr2[t], v)
      BY <1>4, <2>2 DEF StoreSecond
    <3>4. region' \in [Threads -> [LineSet -> Pointers]]
      BY <3>1, <3>2, <3>3, StoreTypes
    <3>5. MemTypeOK'
      BY <1>4, <2>2, <3>4 DEF TypeOK, MemTypeOK, StoreSecond
    <3> QED
      BY <1>4, <2>2, <3>1, <3>5 DEF StoreSecond, TypeOK, Inside, Exchange, Adjacent
  <2> QED
    BY <2>1, <2>2
<1>5. CASE StoreThird(t)
  <2>1. /\ ptr2[t] \in LineSet /\ idx[t] \in LineSet /\ succ2[t] \in LineSet
        /\ succ1[t] \in Pointers
    BY <1>5 DEF StoreThird, Inside, Exchange, TypeOK, MemTypeOK
  <2>2. region' \in [Threads -> [LineSet -> Pointers]]
    BY <1>5, <2>1, StoreTypes DEF StoreThird
  <2>3. MemTypeOK'
    BY <1>5, <2>2 DEF TypeOK, MemTypeOK, StoreThird
  <2> QED
    BY <1>5, <2>1, <2>3 DEF StoreThird, TypeOK, Inside, Exchange, Adjacent
<1>7. CASE SwapFirst(t)
  <2>1. CASE ~({succ1[t], succ2[t]} \subseteq LineSet)
    BY <1>7, <1>d, <2>1 DEF SwapFirst
  <2>2. CASE {succ1[t], succ2[t]} \subseteq LineSet
    <3>1. ptr2[t] \in LineSet /\ idx[t] \in LineSet
      BY <1>7 DEF SwapFirst, Inside, Exchange
    <3>2. succ1[t] \in LineSet /\ succ2[t] \in LineSet
      BY <2>2
    <3>3. Line(t, succ1[t]) \in Pointers /\ Line(t, succ2[t]) \in Pointers
      BY <3>2, LineTypes
    <3>4. /\ region' \in [Threads -> [LineSet -> Pointers]]
          /\ tmp' \in [Threads -> Pointers]
      <4>1. CASE succ1[t] = succ2[t]
        BY <1>7, <2>2, <4>1 DEF SwapFirst, TypeOK, MemTypeOK
      <4>2. CASE succ1[t] # succ2[t]
        BY <1>7, <2>2, <3>2, <3>3, <4>2, StoreTypes DEF SwapFirst, TypeOK, MemTypeOK
      <4> QED
        BY <4>1, <4>2
    <3>5. MemTypeOK'
      BY <1>7, <2>2, <3>4 DEF TypeOK, MemTypeOK, SwapFirst
    <3>6. PICK l \in {"test", "store4"} : pc' = [pc EXCEPT ![t] = l]
      BY <1>7, <2>2 DEF SwapFirst
    <3>7. UNCHANGED <<mainVars, counters, idx, succ1, ptr2, succ2>>
      BY <1>7, <2>2 DEF SwapFirst
    <3> QED
      BY <3>1, <3>2, <3>5, <3>6, <3>7 DEF TypeOK, Inside, Exchange, Adjacent
  <2> QED
    BY <2>1, <2>2
<1>8. CASE SwapSecond(t)
  <2>1. /\ ptr2[t] \in LineSet /\ idx[t] \in LineSet /\ succ2[t] \in LineSet
        /\ tmp[t] \in Pointers
    BY <1>8 DEF SwapSecond, Inside, Exchange, TypeOK, MemTypeOK
  <2>2. region' \in [Threads -> [LineSet -> Pointers]]
    BY <1>8, <2>1, StoreTypes DEF SwapSecond
  <2>3. MemTypeOK'
    BY <1>8, <2>2, PointerFacts DEF TypeOK, MemTypeOK, SwapSecond
  <2> QED
    BY <1>8, <2>1, <2>3 DEF SwapSecond, TypeOK, Inside, Exchange, Adjacent
<1>6. CASE Test(t)
  <2>1. PICK retry \in BOOLEAN : NextLine(t, retry)
    <3> DEFINE r == \/ Line(t, idx[t]) = idx[t] \/ Line(t, ptr2[t]) = ptr2[t]
                    \/ Line(t, succ2[t]) = succ2[t]
    <3>1. NextLine(t, r) /\ r \in BOOLEAN
      BY <1>6 DEF Test
    <3> HIDE DEF r
    <3> QED
      BY <3>1
  <2> DEFINE last == ~retry /\ idx[t] = Lines - 1
  <2>2. idx[t] \in LineSet
    BY <2>1 DEF NextLine, Inside, Exchange
  <2>3. idx' = [idx EXCEPT ![t] = IF last THEN 0 ELSE IF retry THEN @ ELSE @ + 1]
    BY <2>1 DEF NextLine
  <2>4. /\ idx' \in [Threads -> 0 .. Lines] /\ idx'[t] \in LineSet
        /\ \A u \in Threads : u # t => idx'[u] = idx[u]
    <3> DEFINE n == IF last THEN 0 ELSE IF retry THEN idx[t] ELSE idx[t] + 1
    <3>1. n \in LineSet /\ n \in 0 .. Lines
      BY <2>2, LineFacts
    <3>2. idx' = [idx EXCEPT ![t] = n]
      BY <2>3
    <3> HIDE DEF n
    <3> QED
      BY <3>1, <3>2 DEF TypeOK, MemTypeOK
  <2>5. Line(t, 0) \in Pointers
    BY PointerFacts, LineTypes
  <2>6. /\ succ1' \in [Threads -> Pointers] /\ ptr2' \in [Threads -> Pointers]
        /\ succ2' \in [Threads -> Pointers]
        /\ \A u \in Threads : u # t => /\ ptr2'[u] = ptr2[u] /\ succ1'[u] = succ1[u]
                                       /\ succ2'[u] = succ2[u]
    BY <2>1, PointerFacts DEF NextLine, EndOfBody, TypeOK, MemTypeOK
  <2>7. ptr' \in [Threads -> Pointers] /\ counter' \in [Threads -> 0 .. Lines + 1]
    BY <2>1, <2>5, PointerFacts DEF NextLine, TypeOK, MemTypeOK
  <2>8. MemTypeOK'
    BY <2>1, <2>4, <2>6, <2>7 DEF NextLine, TypeOK, MemTypeOK
  <2> QED
    BY <2>1, <2>4, <2>6, <2>8 DEF NextLine, TypeOK, Inside, Exchange, Adjacent
<1> QED
  BY <1>1, <1>2, <1>3, <1>4, <1>5, <1>6, <1>7, <1>8 DEF Shuffle

LEMMA MemTypes ==
    ASSUME TypeOK, Inside, NEW t \in Threads, UNCHANGED holder,
           MemThread(t) \/ (option.prog = "mem" /\ Expire(t))
    PROVE  TypeOK' /\ Inside'
<1> USE DEF mainVars, counters, memVars, shuffleVars, walkVars, Goto
<1>d. ASSUME NEW how \in {"crash", "initfailed"}, Die(how) PROVE TypeOK' /\ Inside'
  BY <1>d, ExitTypes DEF Die, Ended
<1>1. CASE InitLine(t)
  <2>1. idx[t] \in LineSet /\ idx[t] + 1 \in 0 .. Lines /\ idx[t] + 1 \in Pointers
    BY <1>1, PointerFacts DEF InitLine, TypeOK, MemTypeOK
  <2>2. region' \in [Threads -> [LineSet -> Pointers]]
    BY <1>1, <2>1, StoreTypes DEF InitLine
  <2>3. MemTypeOK'
    BY <1>1, <2>1, <2>2 DEF TypeOK, MemTypeOK, InitLine
  <2> QED
    BY <1>1, <2>3 DEF InitLine, TypeOK, MemTypeOK, Inside, Exchange, Adjacent
<1>2. CASE CloseRing(t)
  <2>1. PtrEnd - 1 \in LineSet /\ 0 \in Pointers /\ 0 \in LineSet
    BY PointerFacts DEF PtrEnd
  <2>2. region' \in [Threads -> [LineSet -> Pointers]]
    BY <1>2, <2>1, StoreTypes DEF CloseRing
  <2>3. MemTypeOK'
    BY <1>2, <2>2, PointerFacts DEF TypeOK, MemTypeOK, CloseRing
  <2> QED
    BY <1>2, <2>1, <2>3 DEF CloseRing, TypeOK, MemTypeOK, Inside, Exchange, Adjacent
<1>3. CASE Shuffle(t)
  BY <1>3, ShuffleTypes
<1>4. CASE Check(t)
  <2>1. CASE ~(ptr[t] \in LineSet /\ (ptr[t] = 0 => counter[t] = Lines))
    BY <1>4, <1>d, <2>1 DEF Check
  <2>2. CASE ptr[t] \in LineSet /\ (ptr[t] = 0 => counter[t] = Lines)
    <3>1. Line(t, ptr[t]) \in Pointers
      BY <2>2, LineTypes
    <3>2. Min({counter[t] + 1, Lines + 1}) \in 0 .. Lines + 1
      <4>1. counter[t] \in Nat /\ Lines \in Nat
        BY LineFacts DEF TypeOK, MemTypeOK
      <4> QED
        BY <4>1, MinPair
    <3>a. ptr' \in [Threads -> Pointers]
      BY <1>4, <2>2, <3>1 DEF TypeOK, MemTypeOK, Check
    <3>b. counter' \in [Threads -> 0 .. Lines + 1]
      <4> DEFINE n == Min({counter[t] + 1, Lines + 1})
      <4>1. counter' = counter \/ counter' = [counter EXCEPT ![t] = n]
        BY <1>4, <2>2 DEF Check
      <4> HIDE DEF n
      <4> QED
        BY <3>2, <4>1 DEF TypeOK, MemTypeOK, n
    <3>c. pc' = pc \/ pc' = [pc EXCEPT ![t] = "evict"]
      BY <1>4, <2>2 DEF Check
    <3>3. MemTypeOK' /\ pc' \in [Threads -> Places]
          /\ \A u \in Threads : pc'[u] = pc[u] \/ pc'[u] = "evict"
      BY <1>4, <2>2, <3>a, <3>b, <3>c DEF TypeOK, MemTypeOK, Check, Places
    <3> QED
      BY <1>4, <2>2, <3>3 DEF Check, TypeOK, MemTypeOK, Inside, Exchange, Adjacent, Places
  <2> QED
    BY <2>1, <2>2
<1>5. CASE Evict(t)
  <2>1. CASE ptr[t] \notin LineSet
    BY <1>5, <1>d, <2>1 DEF Evict
  <2>2. CASE ptr[t] \in LineSet
    <3>1. Line(t, ptr[t]) \in Pointers
      BY <2>2, LineTypes
    <3>3. MemTypeOK' /\ pc' \in [Threads -> Places]
          /\ \A u \in Threads : pc'[u] = pc[u] \/ pc'[u] = "barrier"
      <4>0. ptr' \in [Threads -> Pointers]
        BY <1>5, <2>2, <3>1 DEF TypeOK, MemTypeOK, Evict
      <4>1. /\ pc' \in [Threads -> Places]
            /\ \A u \in Threads : pc'[u] = pc[u] \/ pc'[u] = "barrier"
        BY <1>5, <2>2 DEF TypeOK, Evict, Places
      <4>2. UNCHANGED <<region, idx, shuffleVars, counter, expired>>
        BY <1>5, <2>2 DEF Evict
      <4> QED
        BY <4>0, <4>1, <4>2 DEF TypeOK, MemTypeOK
    <3> QED
      BY <1>5, <2>2, <3>3 DEF Evict, TypeOK, MemTypeOK, Inside, Exchange, Adjacent, Places
  <2> QED
    BY <2>1, <2>2
<1>6. CASE option.prog = "mem" /\ Round(t)
  <2>1. Done \in Nat /\ Counted \in Nat
    BY <1>6, OptionFacts DEF TypeOK, Done, Counted, Segment
  <2>2. work' \in [Threads -> Nat] /\ ops' \in [Threads -> Nat]
    BY <1>6, <2>1 DEF Round, TypeOK
  <2>3. MemTypeOK'
    BY <1>6 DEF TypeOK, MemTypeOK, Round
  <2> QED
    BY <1>6, <2>2, <2>3 DEF Round, TypeOK, Inside, Adjacent
<1>7. CASE Leave(t)
  <2>3. MemTypeOK'
    BY <1>7 DEF TypeOK, MemTypeOK, Leave
  <2> QED
    BY <1>7, <2>3 DEF Leave, TypeOK, Inside, Exchange, Adjacent
<1>8. CASE Expire(t)
  <2>3. MemTypeOK'
    BY <1>8 DEF TypeOK, MemTypeOK, Expire
  <2> QED
    BY <1>8, <2>3 DEF Expire, TypeOK, Inside, Exchange, Adjacent
<1> QED
  BY <1>1, <1>2, <1>3, <1>4, <1>5, <1>6, <1>7, <1>8 DEF MemThread

LEMMA StepTypes == TypeOK /\ Inside /\ [Next]_vars => TypeOK' /\ Inside'
<1> SUFFICES ASSUME TypeOK, Inside, [Next]_vars PROVE TypeOK' /\ Inside'
  OBVIOUS
<1>1. CASE Main \/ Barrier \/ Failure
  BY <1>1, MainTypes
<1>2. ASSUME NEW t \in Threads, Thread(t) \/ Clock(t) PROVE TypeOK' /\ Inside'
  BY <1>2, MemTypes, LockTypes DEF Thread, Clock
<1>3. CASE UNCHANGED vars
  <2>1. MemTypeOK'
    BY <1>3 DEF TypeOK, MemTypeOK, vars, memVars, shuffleVars, walkVars
  <2> QED
    BY <1>3, <2>1 DEF TypeOK, Inside, Adjacent, vars, mainVars, counters, memVars, shuffleVars
<1> QED
  BY <1>1, <1>2, <1>3 DEF Next

\* Type correctness of the three benchmarks for every number of threads and lines; in
\* particular every pointer in a region is to one of its lines: TypeOK.
THEOREM ThreadTypes == Spec => []TypeOK
  BY InitTypes, StepTypes, PTL DEF Spec
-----------------------------------------------------------------------------
\* Where a thread does not go on by itself, where its own steps may take it, and what is
\* past the barrier
Settled == {"none", "failed", "barrier", "done", "gone"}
Onward == Places \ {"none", "failed", "gone"}
Past == {"job", "critical", "done"}

Moves(t) ==
    /\ UNCHANGED mainVars /\ pc[t] \notin Settled
    /\ \E l \in Onward :
          /\ pc' = [pc EXCEPT ![t] = l]
          /\ l \in Past <=> pc[t] \in Past
          /\ option.prog = "mem" /\ l = "critical" => pc[t] = "critical"

Dies == \E how \in {"crash", "initfailed"} : ExitProcess(how)

LEMMA ThreadMoves ==
    ASSUME TypeOK, NEW t \in Threads, Thread(t) \/ Clock(t)
    PROVE  Moves(t) \/ Dies
<1> USE DEF mainVars, counters, Goto
<1>0. pc \in [Threads -> Places]
  BY DEF TypeOK, Places
<1>d. ASSUME NEW how \in {"crash", "initfailed"}, Die(how) PROVE Moves(t) \/ Dies
  BY <1>d DEF Die, Dies
<1>a. ASSUME UNCHANGED mainVars, NEW l \in Onward, pc' = [pc EXCEPT ![t] = l],
             pc[t] \notin Settled, l \in Past <=> pc[t] \in Past,
             option.prog = "mem" /\ l = "critical" => pc[t] = "critical"
      PROVE  Moves(t) \/ Dies
  BY <1>a DEF Moves
<1>b. ASSUME UNCHANGED mainVars, UNCHANGED pc, pc[t] \notin Settled
      PROVE  Moves(t) \/ Dies
  <2>1. pc[t] \in Onward /\ pc' = [pc EXCEPT ![t] = pc[t]]
    BY <1>0, <1>b DEF Onward, Settled
  <2> QED
    BY <1>b, <2>1 DEF Moves
<1> USE DEF Settled, Onward, Past, Places
<1>1. CASE MemThread(t)
  <2>1. CASE InitLine(t)
    BY <1>b, <2>1 DEF InitLine
  <2>2. CASE CloseRing(t)
    BY <1>a, <2>2 DEF CloseRing
  <2>3. CASE \E ofst \in 0 .. Lines - idx[t] - 1 : Draw(t, ofst)
    BY <1>a, <2>3 DEF Draw
  <2>4. CASE Load(t)
    BY <1>a, <2>4 DEF Load
  <2>5. CASE StoreFirst(t)
    BY <1>a, <2>5 DEF StoreFirst
  <2>6. CASE StoreSecond(t)
    BY <1>a, <1>d, <2>6 DEF StoreSecond
  <2>7. CASE StoreThird(t)
    BY <1>a, <2>7 DEF StoreThird
  <2>13. CASE SwapFirst(t)
    <3>1. \/ Die("crash")
          \/ /\ UNCHANGED mainVars /\ pc[t] = "store3"
             /\ \E l \in {"test", "store4"} : pc' = [pc EXCEPT ![t] = l]
      BY <2>13 DEF SwapFirst
    <3> QED
      BY <1>a, <1>d, <3>1
  <2>14. CASE SwapSecond(t)
    BY <1>a, <2>14 DEF SwapSecond
  <2>8. CASE Test(t)
    <3>1. UNCHANGED mainVars /\ pc[t] = "test"
          /\ \E l \in {"check", "shuffle"} : pc' = [pc EXCEPT ![t] = l]
      BY <2>8 DEF Test, NextLine
    <3> QED
      BY <1>a, <3>1
  <2>9. CASE Check(t)
    <3>1. \/ \E how \in {"crash", "initfailed"} : Die(how)
          \/ /\ UNCHANGED mainVars /\ pc[t] = "check"
             /\ pc' = [pc EXCEPT ![t] = "evict"] \/ UNCHANGED pc
      BY <2>9 DEF Check
    <3> QED
      BY <1>a, <1>b, <1>d, <3>1
  <2>10. CASE Evict(t)
    <3>1. \/ Die("crash")
          \/ /\ UNCHANGED mainVars /\ pc[t] = "evict"
             /\ pc' = [pc EXCEPT ![t] = "barrier"] \/ UNCHANGED pc
      BY <2>10 DEF Evict
    <3> QED
      BY <1>a, <1>b, <1>d, <3>1
  <2>11. CASE Round(t)
    BY <1>b, <2>11 DEF Round
  <2>12. CASE Leave(t)
    BY <1>a, <2>12 DEF Leave
  <2> QED
    BY <1>1, <2>1, <2>2, <2>3, <2>4, <2>5, <2>6, <2>7, <2>8, <2>9, <2>10, <2>11, <2>12,
       <2>13, <2>14 DEF MemThread, Shuffle
<1>2. CASE LockThread(t)
  <2>1. CASE Lock(t) /\ option.prog # "mem"
    BY <1>a, <2>1 DEF Lock
  <2>2. CASE Unlock(t)
    BY <1>a, <2>2 DEF Unlock
  <2>3. CASE FenceRow(t)
    BY <1>b, <2>3 DEF FenceRow
  <2>4. CASE EndJob(t)
    BY <1>a, <2>4 DEF EndJob
  <2> QED
    BY <1>2, <2>1, <2>2, <2>3, <2>4 DEF LockThread
<1>3. CASE Expire(t)
  BY <1>b, <1>3 DEF Expire
<1> QED
  BY <1>1, <1>2, <1>3 DEF Thread, Clock

Control == Progress /\ Together /\ NoLocks

LEMMA InitControl == Init => Control
  BY ThreadFacts DEF Init, MainInit, Control, Progress, Together, NoLocks, Running, Ended, Threads

LEMMA ExitControl ==
    ASSUME TypeOK, Control, NEW how \in Ended \ {"done"}, ExitProcess(how)
    PROVE  Control'
  BY DEF Control, Progress, Together, NoLocks, Running, Ended, ExitProcess

LEMMA MainControl ==
    ASSUME TypeOK, Control, Main \/ Barrier \/ Failure
    PROVE  Control'
<1> USE DEF mainVars, counters, Goto, Running, Ended
<1>0. /\ pc \in [Threads -> Places] /\ i \in 0 .. Multi /\ Multi \in Nat
      /\ \A t \in Threads : t \in Nat /\ t <= Multi /\ 0 < t
      /\ i < Multi => i + 1 \in Threads
  BY ThreadFacts DEF TypeOK, Places, Threads
<1>1. CASE ParseArgs
  BY <1>0, <1>1 DEF Control, Progress, Together, NoLocks, ParseArgs
<1>2. CASE ArgumentError \/ SetupFails \/ JoinCrashes
  BY <1>2, ExitControl DEF ArgumentError, SetupFails, JoinCrashes
<1>3. ASSUME NEW l \in {"init", "barrier", "job", "failed"}, main = "create", i < Multi,
             pc' = [pc EXCEPT ![i + 1] = l], i' = i + 1, UNCHANGED <<main, option>>,
             l = "job" => option.prog = "proto"
      PROVE  Control'
  <2>0. /\ \A t \in Threads : t <= i + 1 <=> t <= i \/ t = i + 1
        /\ \A t \in Threads : t > i + 1 => t > i /\ t # i + 1
        /\ pc[i + 1] = "none" /\ i + 1 \in Threads
    BY <1>0, <1>3 DEF Control, Progress
  <2>1. Progress'
    BY <1>0, <1>3, <2>0 DEF Control, Progress
  <2>2. Together' /\ NoLocks'
    BY <1>0, <1>3, <2>0 DEF Control, Together, NoLocks
  <2> QED
    BY <2>1, <2>2 DEF Control
<1>4. CASE Create
  <2>1. FirstStep \in {"init", "barrier", "job"} /\ (FirstStep = "job" => option.prog = "proto")
    BY DEF FirstStep
  <2> QED
    BY <1>3, <1>4, <2>1 DEF Create
<1>5. CASE CreateFails
  BY <1>3, <1>5 DEF CreateFails
<1>6. CASE AllCreated
  BY <1>0, <1>6 DEF Control, Progress, Together, NoLocks, AllCreated
<1>7. CASE Join
  <2>1. \A t \in Threads : t <= i + 1 <=> t <= i \/ t = i + 1
    BY <1>0
  <2> QED
    BY <1>0, <1>7, <2>1 DEF Control, Progress, Together, NoLocks, Join
<1>8. CASE Sum
  <2>1. Progress'
    BY <1>0, <1>8 DEF Control, Progress, Sum
  <2> QED
    BY <1>0, <1>8, <2>1 DEF Control, Together, NoLocks, Sum
<1>9. CASE Release
  <2>1. \A t \in Threads : pc[t] = "barrier" /\ pc'[t] = "job"
    BY <1>9 DEF Release
  <2>2. main \notin Ended /\ UNCHANGED <<main, i, option>>
    BY <1>0, <1>9, <2>1, ThreadFacts DEF Control, Progress, Release, Threads
  <2>3. Progress'
    BY <1>0, <2>1, <2>2 DEF Control, Progress
  <2> QED
    BY <2>1, <2>2, <2>3 DEF Control, Together, NoLocks
<1> QED
  BY <1>1, <1>2, <1>4, <1>5, <1>6, <1>7, <1>8, <1>9
     DEF Main, Barrier, Failure, MainStep, MainFails

LEMMA MoveControl ==
    ASSUME TypeOK, Control, NEW t \in Threads, Moves(t)
    PROVE  Control'
<1>1. PICK l \in Onward : /\ pc' = [pc EXCEPT ![t] = l] /\ (l \in Past <=> pc[t] \in Past)
                          /\ option.prog = "mem" /\ l = "critical" => pc[t] = "critical"
  BY DEF Moves
<1>2. UNCHANGED <<main, i, option>> /\ pc[t] \notin Settled
  BY DEF Moves, mainVars
<1>3. pc \in [Threads -> Places]
  BY DEF TypeOK, Places
<1>4. Progress'
  BY <1>1, <1>2, <1>3 DEF Control, Progress, Settled, Onward, Running
<1>5. Together'
  BY <1>1, <1>2, <1>3 DEF Control, Together, Past
<1>6. NoLocks'
  BY <1>1, <1>2, <1>3 DEF Control, NoLocks
<1> QED
  BY <1>4, <1>5, <1>6 DEF Control

LEMMA StepControl == TypeOK /\ Control /\ [Next]_vars => Control'
<1> SUFFICES ASSUME TypeOK, Control, [Next]_vars PROVE Control'
  OBVIOUS
<1>1. CASE Main \/ Barrier \/ Failure
  BY <1>1, MainControl
<1>2. ASSUME NEW t \in Threads, Thread(t) \/ Clock(t) PROVE Control'
  BY <1>2, ThreadMoves, MoveControl, ExitControl DEF Dies, Ended
<1>3. CASE UNCHANGED vars
  BY <1>3 DEF vars, mainVars, Control, Progress, Together, NoLocks
<1> QED
  BY <1>1, <1>2, <1>3 DEF Next
-----------------------------------------------------------------------------
\* A step leaves the set-up of thread u alone.
Alone(u) ==
    /\ pc'[u] = pc[u] /\ region'[u] = region[u] /\ idx'[u] = idx[u]
    /\ succ1'[u] = succ1[u] /\ ptr2'[u] = ptr2[u] /\ succ2'[u] = succ2[u] /\ tmp'[u] = tmp[u]

LEMMA AloneRing ==
    ASSUME NEW u \in Threads, RingAt(u), Alone(u), UNCHANGED option
    PROVE  RingAt(u)'
  BY DEF RingAt, Alone

LEMMA InitRings == Init => Rings
  BY DEF Init, MainInit, MemInit, Rings, RingAt

LEMMA ExitRings ==
    ASSUME NEW how, ExitProcess(how)
    PROVE  Rings'
<1>1. \A t \in Threads : pc'[t] = "gone"
  BY DEF ExitProcess
<1> QED
  BY <1>1 DEF Rings, RingAt

LEMMA MainRings ==
    ASSUME TypeOK, Control, Rings, Main \/ Barrier \/ Failure
    PROVE  Rings'
<1> USE DEF mainVars, memVars, shuffleVars, walkVars, Goto
<1>0. UNCHANGED <<region, idx, succ1, ptr2, succ2, tmp>> /\ pc \in [Threads -> Places]
  BY DEF Main, Barrier, Failure, TypeOK, Places
<1>1. CASE ParseArgs \/ AllCreated \/ Join \/ Sum
  <2>1. UNCHANGED <<pc, option>>
    BY <1>1 DEF ParseArgs, AllCreated, Join, Sum
  <2> QED
    BY <1>0, <2>1, AloneRing DEF Rings, Alone
<1>2. CASE ArgumentError \/ SetupFails \/ JoinCrashes
  BY <1>2, ExitRings DEF ArgumentError, SetupFails, JoinCrashes
<1>3. CASE Create \/ CreateFails
  <2>1. i + 1 \in Threads /\ UNCHANGED option /\ pc[i + 1] = "none"
    BY <1>3, ThreadFacts DEF Create, CreateFails, TypeOK, Control, Progress
  <2>2. PICK l : /\ pc' = [pc EXCEPT ![i + 1] = l]
                 /\ \/ l \in {"init", "failed"}
                    \/ l \in {"barrier", "job"} /\ (option.prog = "mem" => ~option.rand)
    BY <1>3 DEF Create, CreateFails, FirstStep
  <2> SUFFICES ASSUME option.prog = "mem", option.local, NEW t \in Threads
               PROVE  RingAt(t)'
    BY <2>1 DEF Rings
  <2>3. RingAt(t)
    BY DEF Rings
  <2>4. CASE t # i + 1
    BY <1>0, <2>1, <2>2, <2>3, <2>4, AloneRing DEF Alone
  <2>5. CASE t = i + 1
    <3>1. idx[t] = 0 /\ \A m \in LineSet : ~(m < 0)
      BY <2>1, <2>3, <2>5, LineFacts DEF RingAt
    <3>2. /\ pc'[t] \in {"init", "failed", "barrier", "job"}
          /\ pc'[t] \in {"barrier", "job"} => ~option.rand
      BY <1>0, <2>1, <2>2, <2>5
    <3> QED
      BY <1>0, <2>1, <3>1, <3>2 DEF RingAt
  <2> QED
    BY <2>4, <2>5
<1>4. CASE Release
  <2> SUFFICES ASSUME option.prog = "mem", option.local, NEW t \in Threads
               PROVE  RingAt(t)'
    BY <1>4 DEF Rings, Release
  <2>1. RingAt(t) /\ pc[t] = "barrier" /\ pc'[t] = "job" /\ UNCHANGED option
    BY <1>4 DEF Rings, Release
  <2> QED
    BY <1>0, <2>1 DEF RingAt
<1> QED
  BY <1>1, <1>2, <1>3, <1>4 DEF Main, Barrier, Failure, MainStep, MainFails

\* A thread with a region of its own stores nothing to another one.
LEMMA OthersAlone ==
    ASSUME TypeOK, option.local, NEW t \in Threads, MemThread(t) \/ Expire(t), ~Dies
    PROVE  \A u \in Threads : u # t => Alone(u)
<1> USE DEF mainVars, shuffleVars, memVars, Goto
<1>0. ~Die("crash") /\ ~Die("initfailed") /\ RegionOf(t) = t
  BY DEF Die, Dies, RegionOf
<1>1. CASE InitLine(t) \/ CloseRing(t)
  BY <1>0, <1>1 DEF TypeOK, MemTypeOK, InitLine, CloseRing, Store, Alone
<1>2. CASE \E ofst \in 0 .. Lines - idx[t] - 1 : Draw(t, ofst)
  BY <1>2 DEF TypeOK, MemTypeOK, Draw, Alone
<1>3. CASE Load(t)
  BY <1>3 DEF TypeOK, MemTypeOK, Load, Alone
<1>4. CASE StoreFirst(t)
  BY <1>0, <1>4 DEF TypeOK, MemTypeOK, StoreFirst, Store, Alone
<1>5. CASE StoreSecond(t)
  BY <1>0, <1>5 DEF TypeOK, MemTypeOK, StoreSecond, Store, Alone
<1>6. CASE StoreThird(t)
  BY <1>0, <1>6 DEF TypeOK, MemTypeOK, StoreThird, Store, Alone
<1>11. CASE SwapFirst(t)
  BY <1>0, <1>11 DEF TypeOK, MemTypeOK, SwapFirst, Store, Alone
<1>12. CASE SwapSecond(t)
  BY <1>0, <1>12 DEF TypeOK, MemTypeOK, SwapSecond, Store, Alone
<1>7. CASE Test(t)
  BY <1>7 DEF TypeOK, MemTypeOK, Test, NextLine, EndOfBody, Alone
<1>8. CASE Check(t)
  BY <1>0, <1>8 DEF TypeOK, MemTypeOK, Check, Alone
<1>9. CASE Evict(t)
  BY <1>0, <1>9 DEF TypeOK, MemTypeOK, Evict, Alone
<1>10. CASE Round(t) \/ Leave(t) \/ Expire(t)
  BY <1>10 DEF TypeOK, MemTypeOK, Round, Leave, Expire, Alone
<1> QED
  BY <1>1, <1>2, <1>3, <1>4, <1>5, <1>6, <1>7, <1>8, <1>9, <1>10, <1>11, <1>12
     DEF MemThread, Shuffle

\* The thread's own steps: linking, the exchange store by store, and the walks
LEMMA OwnRing ==
    ASSUME TypeOK, Inside, NoLocks, option.prog = "mem", option.local, NEW t \in Threads, RingAt(t),
           MemThread(t) \/ Expire(t), ~Dies
    PROVE  RingAt(t)'
<1> USE DEF mainVars, shuffleVars, memVars, Goto
<1>0. /\ ~Die("crash") /\ ~Die("initfailed") /\ RegionOf(t) = t
      /\ \A l : Line(t, l) = region[t][l]
      /\ region[t] \in [LineSet -> Pointers] /\ region \in [Threads -> [LineSet -> Pointers]]
      /\ pc \in [Threads -> Places]
  BY DEF Die, Dies, RegionOf, Line, TypeOK, MemTypeOK, Places
<1>1. CASE InitLine(t)
  <2>1. /\ pc[t] = "init" /\ pc'[t] = "init" /\ idx[t] \in LineSet /\ idx'[t] = idx[t] + 1
        /\ region' = [region EXCEPT ![t][idx[t]] = idx[t] + 1]
    BY <1>0, <1>1, PointerFacts DEF InitLine, TypeOK, MemTypeOK, Store
  <2>2. ASSUME NEW l \in LineSet, l < idx[t] + 1 PROVE region'[t][l] = l + 1
    <3>1. l = idx[t] \/ l < idx[t]
      BY <2>1, <2>2, LineFacts
    <3> QED
      BY <1>0, <2>1, <3>1 DEF RingAt
  <2> QED
    BY <2>1, <2>2 DEF RingAt
<1>2. CASE CloseRing(t)
  <2>1. /\ pc[t] = "init" /\ pc'[t] = "shuffle" /\ idx[t] = Lines /\ Lines - 1 \in LineSet
        /\ region' = [region EXCEPT ![t][Lines - 1] = 0]
    BY <1>0, <1>2, PointerFacts DEF CloseRing, Store, PtrEnd
  <2>2. \A l \in LineSet : region[t][l] = l + 1
    BY <2>1, LineFacts DEF RingAt
  <2>3. region'[t] = [region[t] EXCEPT ![Lines - 1] = 0]
    BY <1>0, <2>1
  <2>4. \A l \in LineSet : region'[t][l] = IF l = Lines - 1 THEN 0 ELSE l + 1
    BY <1>0, <2>1, <2>2, <2>3
  <2>5. region'[t] \in [LineSet -> LineSet]
    <3>1. \A l \in LineSet : l # Lines - 1 => l + 1 \in LineSet
      BY LineFacts
    <3>2. region'[t] \in [LineSet -> Pointers]
      BY <1>0, <2>1, <2>3, PointerFacts
    <3> QED
      BY <2>4, <3>1, <3>2, PointerFacts
  <2>6. Ring(region'[t])
    BY <2>4, <2>5, RingLinked
  <2> QED
    BY <2>1, <2>6 DEF RingAt
<1>3. CASE \E ofst \in 0 .. Lines - idx[t] - 1 : Draw(t, ofst)
  <2>1. /\ pc[t] = "shuffle" /\ pc'[t] = "load" /\ UNCHANGED <<region, idx>>
        /\ succ1'[t] = region[t][idx[t]]
    BY <1>0, <1>3 DEF Draw, TypeOK, MemTypeOK
  <2> QED
    BY <2>1 DEF RingAt
<1>4. CASE Load(t)
  <2>1. /\ pc[t] = "load" /\ pc'[t] = "store1" /\ UNCHANGED <<region, idx, succ1, ptr2>>
        /\ succ2'[t] = region[t][ptr2[t]]
    BY <1>0, <1>4 DEF Load, TypeOK, MemTypeOK
  <2> QED
    BY <2>1 DEF RingAt
<1>5. CASE StoreFirst(t)
  <2>1. /\ pc[t] = "store1" /\ pc'[t] = "store2" /\ UNCHANGED <<idx, succ1, ptr2, succ2>>
        /\ region' = [region EXCEPT ![t][idx[t]] = succ2[t]]
    BY <1>0, <1>5 DEF StoreFirst, Store
  <2>2. /\ Ring(region[t]) /\ region[t] \in [LineSet -> LineSet]
        /\ succ1[t] = region[t][idx[t]] /\ succ2[t] = region[t][ptr2[t]]
    BY <2>1 DEF RingAt, Ring
  <2>3. region'[t] = First(region[t], idx[t], ptr2[t])
    BY <1>0, <2>1, <2>2 DEF First
  <2> QED
    BY <2>1, <2>2, <2>3 DEF RingAt
<1>6. CASE StoreSecond(t)
  <2>1. /\ pc[t] = "store2" /\ pc'[t] = "store3" /\ UNCHANGED <<idx, succ1, ptr2, succ2>>
        /\ region' = [region EXCEPT ![t][ptr2[t]] =
                         IF succ1[t] = ptr2[t] THEN region[t][succ2[t]] ELSE succ1[t]]
    BY <1>0, <1>6 DEF StoreSecond, Store, Adjacent
  <2>2. PICK p \in [LineSet -> LineSet] :
               /\ Ring(p) /\ succ1[t] = p[idx[t]] /\ succ2[t] = p[ptr2[t]]
               /\ region[t] = First(p, idx[t], ptr2[t])
    BY <2>1 DEF RingAt
  <2>3. region'[t] = Second(p, idx[t], ptr2[t])
    BY <1>0, <2>1, <2>2 DEF Second
  <2> QED
    BY <2>1, <2>2, <2>3 DEF RingAt
<1>7. CASE StoreThird(t)
  <2>1. /\ pc[t] = "store3" /\ pc'[t] = "test" /\ succ1[t] = ptr2[t]
        /\ region' = [region EXCEPT ![t][succ2[t]] = succ1[t]]
    BY <1>0, <1>7 DEF StoreThird, Store, Adjacent
  <2>2. PICK p \in [LineSet -> LineSet] :
               /\ Ring(p) /\ succ1[t] = p[idx[t]] /\ succ2[t] = p[ptr2[t]]
               /\ region[t] = Second(p, idx[t], ptr2[t])
    BY <2>1 DEF RingAt
  <2>3. region'[t] = Third(p, idx[t], ptr2[t])
    BY <1>0, <2>1, <2>2 DEF Third
  <2>4. Ring(region'[t])
    BY <2>1, <2>2, <2>3, RingExchanged DEF Inside, Exchange
  <2> QED
    BY <2>1, <2>4 DEF RingAt
<1>11. CASE SwapFirst(t)
  <2>1. /\ pc[t] = "store3" /\ succ1[t] # ptr2[t] /\ UNCHANGED <<idx, succ1, ptr2, succ2>>
        /\ succ1[t] \in LineSet /\ succ2[t] \in LineSet
    BY <1>0, <1>11 DEF SwapFirst, Adjacent
  <2>2. PICK p \in [LineSet -> LineSet] :
               /\ Ring(p) /\ succ1[t] = p[idx[t]] /\ succ2[t] = p[ptr2[t]]
               /\ region[t] = Second(p, idx[t], ptr2[t])
    BY <2>1 DEF RingAt
  <2>3. CASE succ1[t] = succ2[t]
    <3>1. pc'[t] = "test" /\ UNCHANGED region
      BY <1>0, <1>11, <2>1, <2>3 DEF SwapFirst, Adjacent
    <3>2. region[t] = Third(p, idx[t], ptr2[t])
      BY <1>0, <2>1, <2>2, <2>3 DEF Third
    <3>3. Ring(region'[t])
      BY <2>1, <2>2, <3>1, <3>2, RingExchanged DEF Inside, Exchange
    <3> QED
      BY <3>1, <3>3 DEF RingAt
  <2>4. CASE succ1[t] # succ2[t]
    <3>1. /\ pc'[t] = "store4" /\ tmp'[t] = region[t][succ1[t]]
          /\ region' = [region EXCEPT ![t][succ1[t]] = region[t][succ2[t]]]
      BY <1>0, <1>11, <2>1, <2>4 DEF SwapFirst, Store, Adjacent, TypeOK, MemTypeOK
    <3>2. region'[t] = [region[t] EXCEPT ![succ1[t]] = region[t][succ2[t]]]
      BY <1>0, <3>1
    <3>3. /\ pc'[t] = "store4" /\ UNCHANGED <<idx, succ1, ptr2, succ2>>
          /\ tmp'[t] = Second(p, idx[t], ptr2[t])[succ1[t]]
          /\ region'[t] = HalfSwapped(p, idx[t], ptr2[t])
      BY <2>1, <2>2, <3>1, <3>2 DEF HalfSwapped
    <3> QED
      BY <2>1, <2>2, <2>4, <3>3 DEF RingAt
  <2> QED
    BY <2>3, <2>4
<1>12. CASE SwapSecond(t)
  <2>1. /\ pc[t] = "store4" /\ pc'[t] = "test"
        /\ region' = [region EXCEPT ![t][succ2[t]] = tmp[t]]
    BY <1>0, <1>12 DEF SwapSecond, Store
  <2>2. PICK p \in [LineSet -> LineSet] :
               /\ Ring(p) /\ succ1[t] = p[idx[t]] /\ succ2[t] = p[ptr2[t]]
               /\ succ1[t] # succ2[t] /\ succ1[t] # ptr2[t]
               /\ tmp[t] = Second(p, idx[t], ptr2[t])[succ1[t]]
               /\ region[t] = HalfSwapped(p, idx[t], ptr2[t])
    BY <2>1 DEF RingAt
  <2>3. region'[t] = [region[t] EXCEPT ![succ2[t]] = tmp[t]]
    BY <1>0, <2>1
  <2>4. region'[t] = Third(p, idx[t], ptr2[t])
    BY <2>2, <2>3 DEF Third, HalfSwapped
  <2>5. Ring(region'[t])
    BY <2>1, <2>2, <2>4, RingExchanged DEF Inside, Exchange
  <2> QED
    BY <2>1, <2>5 DEF RingAt
<1>8. CASE Test(t)
  <2>1. pc[t] = "test" /\ pc'[t] \in {"check", "shuffle"} /\ UNCHANGED region
    BY <1>0, <1>8 DEF Test, NextLine
  <2> QED
    BY <2>1 DEF RingAt
<1>9. CASE Check(t) \/ Evict(t)
  <2>1. /\ pc[t] \in {"check", "evict"} /\ pc'[t] \in {"check", "evict", "barrier"}
        /\ UNCHANGED region
    BY <1>0, <1>9 DEF Check, Evict
  <2> QED
    BY <2>1 DEF RingAt
<1>10. CASE Round(t) \/ Leave(t) \/ Expire(t)
  <2>1. pc[t] = "job" /\ pc'[t] \in {"job", "done"} /\ UNCHANGED <<region, option>>
    BY <1>0, <1>10 DEF Round, Leave, Expire
  <2> QED
    BY <2>1 DEF RingAt
<1> QED
  BY <1>1, <1>2, <1>3, <1>4, <1>5, <1>6, <1>7, <1>8, <1>9, <1>10, <1>11, <1>12
     DEF MemThread, Shuffle

LEMMA StepRings == TypeOK /\ Inside /\ Control /\ Rings /\ [Next]_vars => Rings'
<1> SUFFICES ASSUME TypeOK, Inside, Control, Rings, [Next]_vars PROVE Rings'
  OBVIOUS
<1>1. CASE Main \/ Barrier \/ Failure
  BY <1>1, MainRings
<1>2. ASSUME NEW t \in Threads, Thread(t) \/ Clock(t) PROVE Rings'
  <2>1. CASE Dies
    BY <2>1, ExitRings DEF Dies
  <2>2. CASE ~Dies
    <3>1. UNCHANGED option
      BY <1>2, <2>2, ThreadMoves DEF Moves, mainVars
    <3> SUFFICES ASSUME option.prog = "mem", option.local, NEW u \in Threads
                 PROVE  RingAt(u)'
      BY <3>1 DEF Rings
    <3>2. MemThread(t) \/ Expire(t)
      BY <1>2 DEF Thread, Clock, LockThread
    <3>3. RingAt(u) /\ RingAt(t)
      BY DEF Rings
    <3>4. CASE u = t
      BY <2>2, <3>2, <3>3, <3>4, OwnRing DEF Control
    <3>5. CASE u # t
      BY <2>2, <3>1, <3>2, <3>3, <3>5, OthersAlone, AloneRing
    <3> QED
      BY <3>4, <3>5
  <2> QED
    BY <2>1, <2>2
<1>3. CASE UNCHANGED vars
  BY <1>3, AloneRing DEF vars, mainVars, memVars, shuffleVars, Rings, Alone
<1> QED
  BY <1>1, <1>2, <1>3 DEF Next

\* The ring of the contents of a region is what OneRing says of it.
LEMMA RingIsOne ==
    ASSUME option.local, NEW t \in Threads, Ring(region[t])
    PROVE  OneRing(t)
<1>1. \A l : Line(t, l) = region[t][l]
  BY DEF Line, RegionOf
<1> QED
  BY <1>1 DEF OneRing, Ring

BenchInv == TypeOK /\ Inside /\ Control /\ Rings

LEMMA BenchInvHolds == Spec => []BenchInv
<1>1. Init => BenchInv
  BY InitTypes, InitControl, InitRings DEF BenchInv
<1>2. BenchInv /\ [Next]_vars => BenchInv'
  BY StepTypes, StepControl, StepRings DEF BenchInv
<1> QED
  BY <1>1, <1>2, PTL DEF Spec

\* The shuffle of a region that a thread has to itself leaves one ring of all its lines after
\* every exchange, for every number of lines and whichever are drawn: RingKept.
THEOREM RingsKept == Spec => []RingKept
<1>1. BenchInv => RingKept
  BY RingIsOne DEF BenchInv, Rings, RingAt, RingKept
<1> QED
  BY <1>1, BenchInvHolds, PTL

\* When a thread measures, every thread has its ring whole and is past the barrier:
\* MeasuresWholeRings.
THEOREM WholeRings == Spec => []MeasuresWholeRings
<1>1. BenchInv => MeasuresWholeRings
  <2> SUFFICES ASSUME BenchInv, option.prog = "mem", option.rand, option.local,
                      NEW t \in Threads, pc[t] \in {"job", "done"}, NEW u \in Threads
               PROVE  OneRing(u) /\ pc[u] \in {"job", "done"}
    BY DEF MeasuresWholeRings
  <2>1. pc[u] \in {"job", "done"}
    BY DEF BenchInv, Control, Together, NoLocks
  <2> QED
    BY <2>1, RingIsOne DEF BenchInv, Rings, RingAt
<1> QED
  BY <1>1, BenchInvHolds, PTL
-----------------------------------------------------------------------------
\* Random runs are those of threads with a region of their own.
OwnRegions == \A o \in Options : o.prog = "mem" /\ o.rand => o.local

\* What a thread does before a random run
SetUp == {"init", "shuffle", "check", "evict"} \cup Exchange

\* The check is on its way round the ring.
WalkAt(t) == pc[t] = "check" => \E V : Visited(region[t], V, ptr[t], counter[t])

Walks ==
    /\ main # "initfailed"
    /\ option.prog = "mem" /\ ~option.rand => \A t \in Threads : pc[t] \notin SetUp
    /\ option.prog = "mem" /\ option.local => \A t \in Threads : WalkAt(t)

LEMMA InitWalks == Init => Walks
  BY DEF Init, MainInit, Walks, WalkAt, SetUp, Exchange

LEMMA ExitWalks ==
    ASSUME NEW how, how # "initfailed", ExitProcess(how)
    PROVE  Walks'
<1>1. main' # "initfailed" /\ \A t \in Threads : pc'[t] = "gone"
  BY DEF ExitProcess
<1> QED
  BY <1>1 DEF Walks, WalkAt, SetUp, Exchange

LEMMA MainWalks ==
    ASSUME TypeOK, Walks, Main \/ Barrier \/ Failure
    PROVE  Walks'
<1> USE DEF mainVars, memVars, walkVars, Goto
<1>0. UNCHANGED <<region, ptr, counter>> /\ pc \in [Threads -> Places]
  BY DEF Main, Barrier, Failure, TypeOK, Places
<1>1. CASE ArgumentError \/ SetupFails \/ JoinCrashes
  BY <1>1, ExitWalks DEF ArgumentError, SetupFails, JoinCrashes
<1>2. CASE ~(ArgumentError \/ SetupFails \/ JoinCrashes)
  <2>1. UNCHANGED option /\ main' # "initfailed"
    BY <1>2 DEF Main, Barrier, Failure, MainStep, MainFails, ParseArgs, Create, CreateFails,
                AllCreated, Join, Sum, Release, Walks
  <2>2. \A t \in Threads : \/ pc'[t] = pc[t]
                           \/ pc'[t] \in {"failed", "barrier", "job"}
                           \/ pc'[t] = "init" /\ (option.prog = "mem" => option.rand)
    <3>1. CASE Create
      BY <1>0, <3>1 DEF Create, FirstStep
    <3>2. CASE CreateFails
      BY <1>0, <3>2 DEF CreateFails
    <3>3. CASE Release
      BY <3>3 DEF Release
    <3>4. CASE ParseArgs \/ AllCreated \/ Join \/ Sum
      BY <3>4 DEF ParseArgs, AllCreated, Join, Sum
    <3> QED
      BY <1>2, <3>1, <3>2, <3>3, <3>4 DEF Main, Barrier, Failure, MainStep, MainFails
  <2> QED
    BY <1>0, <2>1, <2>2 DEF Walks, WalkAt, SetUp, Exchange
<1> QED
  BY <1>1, <1>2

\* The check does not fail, and does not leave the region.
LEMMA CheckPasses ==
    ASSUME TypeOK, NEW t \in Threads, Ring(region[t]), WalkAt(t), pc[t] = "check"
    PROVE  /\ ptr[t] \in LineSet /\ (ptr[t] = 0 => counter[t] = Lines)
<1>1. PICK V : Visited(region[t], V, ptr[t], counter[t])
  BY DEF WalkAt
<1> QED
  BY <1>1, WalkEnds DEF Visited

LEMMA NeverFails ==
    ASSUME OwnRegions, TypeOK, Rings, Walks, NEW t \in Threads, Thread(t) \/ Clock(t)
    PROVE  main' # "initfailed"
<1> USE DEF mainVars, memVars, Goto
<1>1. CASE Check(t) /\ option.prog = "mem"
  <2>1. option \in Options /\ pc[t] = "check"
    BY <1>1 DEF TypeOK, Check
  <2>2. option.rand /\ option.local
    BY <1>1, <2>1 DEF OwnRegions, Walks, SetUp
  <2>3. Ring(region[t]) /\ WalkAt(t)
    BY <1>1, <2>1, <2>2 DEF Rings, RingAt, Walks
  <2>4. UNCHANGED mainVars
    BY <1>1, <2>1, <2>3, CheckPasses DEF Check
  <2> QED
    BY <2>4 DEF Walks
<1>2. ASSUME Die("crash") PROVE main' # "initfailed"
  BY <1>2 DEF Die, ExitProcess
<1>3. CASE StoreSecond(t)
  BY <1>2, <1>3 DEF StoreSecond, Walks
<1>4. CASE StoreThird(t)
  BY <1>4 DEF StoreThird, Walks
<1>9. CASE SwapFirst(t) \/ SwapSecond(t)
  BY <1>2, <1>9 DEF SwapFirst, SwapSecond, Walks
<1>5. CASE Evict(t)
  BY <1>2, <1>5 DEF Evict, Walks
<1>6. CASE InitLine(t) \/ CloseRing(t) \/ Load(t) \/ StoreFirst(t) \/ Test(t)
           \/ \E ofst \in 0 .. Lines - idx[t] - 1 : Draw(t, ofst)
  BY <1>6 DEF InitLine, CloseRing, Load, StoreFirst, Test, NextLine, Draw, Walks
<1>7. CASE Round(t) \/ Leave(t) \/ Expire(t)
  BY <1>7 DEF Round, Leave, Expire, Walks
<1>8. CASE LockThread(t)
  BY <1>8 DEF LockThread, Lock, Unlock, FenceRow, EndJob, Walks
<1> QED
  BY <1>1, <1>3, <1>4, <1>5, <1>6, <1>7, <1>8, <1>9 DEF Thread, Clock, MemThread, Shuffle

\* Nobody else takes part in the walk of a thread.
LEMMA OthersWalk ==
    ASSUME TypeOK, NEW t \in Threads, MemThread(t) \/ Expire(t), ~Dies,
           NEW u \in Threads, u # t
    PROVE  ptr'[u] = ptr[u] /\ counter'[u] = counter[u]
<1> USE DEF walkVars, memVars
<1>0. ~Die("crash") /\ ~Die("initfailed")
  BY DEF Die, Dies
<1>1. CASE Test(t)
  BY <1>1 DEF TypeOK, MemTypeOK, Test, NextLine
<1>2. CASE Check(t)
  BY <1>0, <1>2 DEF TypeOK, MemTypeOK, Check
<1>3. CASE Evict(t)
  BY <1>0, <1>3 DEF TypeOK, MemTypeOK, Evict
<1>4. CASE StoreSecond(t)
  BY <1>0, <1>4 DEF StoreSecond
<1>5. CASE StoreThird(t)
  BY <1>5 DEF StoreThird
<1>8. CASE SwapFirst(t) \/ SwapSecond(t)
  BY <1>0, <1>8 DEF SwapFirst, SwapSecond
<1>6. CASE InitLine(t) \/ CloseRing(t) \/ Load(t) \/ StoreFirst(t)
           \/ \E ofst \in 0 .. Lines - idx[t] - 1 : Draw(t, ofst)
  BY <1>6 DEF InitLine, CloseRing, Load, StoreFirst, Draw
<1>7. CASE Round(t) \/ Leave(t) \/ Expire(t)
  BY <1>7 DEF Round, Leave, Expire
<1> QED
  BY <1>1, <1>2, <1>3, <1>4, <1>5, <1>6, <1>7, <1>8 DEF MemThread, Shuffle

\* The walk itself: it starts after the last exchange, and counts each line.
LEMMA OwnWalk ==
    ASSUME TypeOK, option.prog = "mem", option.local, NEW t \in Threads, RingAt(t), WalkAt(t),
           MemThread(t) \/ Expire(t), ~Dies
    PROVE  WalkAt(t)'
<1> USE DEF mainVars, memVars, Goto
<1>0. /\ ~Die("crash") /\ ~Die("initfailed")
      /\ \A l : Line(t, l) = region[t][l]
      /\ pc \in [Threads -> Places] /\ ptr \in [Threads -> Pointers]
      /\ counter \in [Threads -> 0 .. Lines + 1]
  BY DEF Die, Dies, RegionOf, Line, TypeOK, MemTypeOK, Places
<1>1. CASE Test(t)
  <2>1. CASE pc'[t] = "check"
    <3>1. pc[t] = "test" /\ UNCHANGED region /\ ptr'[t] = region[t][0] /\ counter'[t] = 1
      BY <1>0, <1>1, <2>1 DEF Test, NextLine
    <3>2. Visited(region[t], {region[t][0]}, region[t][0], 1)
      BY <3>1, WalkStarts DEF RingAt
    <3> QED
      BY <3>1, <3>2 DEF WalkAt
  <2> QED
    BY <2>1 DEF WalkAt
<1>2. CASE Check(t)
  <2>1. Ring(region[t]) /\ pc[t] = "check" /\ ptr[t] \in LineSet /\ UNCHANGED region
    BY <1>0, <1>2 DEF Check, RingAt
  <2>2. CASE ptr[t] = 0
    BY <1>0, <1>2, <2>2 DEF Check, WalkAt
  <2>3. CASE ptr[t] # 0
    <3>1. PICK V : Visited(region[t], V, ptr[t], counter[t])
      BY <2>1 DEF WalkAt
    <3>2. counter[t] \in Nat /\ Lines \in Nat
      BY <1>0, LineFacts
    <3>3. /\ Visited(region[t], V \cup {region[t][ptr[t]]}, region[t][ptr[t]], counter[t] + 1)
          /\ counter[t] + 1 <= Lines
      BY <2>1, <2>3, <3>1, <3>2, WalkGoesOn
    <3>4. Min({counter[t] + 1, Lines + 1}) = counter[t] + 1
      <4> DEFINE a == counter[t] + 1
                 b == Lines + 1
      <4>1. a \in Int /\ b \in Int /\ a <= b
        BY <3>2, <3>3
      <4> HIDE DEF a, b
      <4>2. Min({a, b}) = a
        BY <4>1, MinPair
      <4> QED
        BY <4>2 DEF a, b
    <3>5. ptr'[t] = region[t][ptr[t]] /\ counter'[t] = counter[t] + 1
      BY <1>0, <1>2, <2>3, <3>4 DEF Check
    <3> QED
      BY <2>1, <3>3, <3>5 DEF WalkAt
  <2> QED
    BY <2>2, <2>3
<1>3. CASE ~Test(t) /\ ~Check(t)
  <2>1. pc'[t] # "check"
    BY <1>0, <1>3 DEF MemThread, Shuffle, InitLine, CloseRing, Draw, Load, StoreFirst,
       StoreSecond, StoreThird, SwapFirst, SwapSecond, Evict, Round, Leave, Expire
  <2> QED
    BY <2>1 DEF WalkAt
<1> QED
  BY <1>1, <1>2, <1>3

LEMMA StepWalks ==
    ASSUME OwnRegions, TypeOK, Control, Rings, Walks, [Next]_vars
    PROVE  Walks'
<1>1. CASE Main \/ Barrier \/ Failure
  BY <1>1, MainWalks
<1>2. ASSUME NEW t \in Threads, Thread(t) \/ Clock(t) PROVE Walks'
  <2>1. main' # "initfailed"
    BY <1>2, NeverFails
  <2>2. CASE Dies
    BY <2>1, <2>2, ExitWalks DEF Dies, ExitProcess
  <2>3. CASE ~Dies
    <3>1. Moves(t) /\ UNCHANGED option
      BY <1>2, <2>3, ThreadMoves DEF Moves, mainVars
    <3>2. option.prog = "mem" => MemThread(t) \/ Expire(t)
      BY <1>2 DEF Thread, Clock, LockThread
    <3>3. ASSUME option.prog = "mem", ~option.rand, NEW u \in Threads PROVE pc'[u] \notin SetUp
      <4>1. pc \in [Threads -> Places] /\ pc[t] \notin SetUp /\ pc[u] \notin SetUp
        BY <3>3 DEF TypeOK, Places, Walks
      <4>2. pc[t] \in Past
        BY <3>1, <3>3, <4>1 DEF Moves, Settled, Past, Places, SetUp, Exchange
      <4>3. PICK l \in Past : pc' = [pc EXCEPT ![t] = l]
        BY <3>1, <4>2 DEF Moves
      <4> QED
        BY <4>1, <4>3 DEF Past, SetUp, Exchange
    <3>4. ASSUME option.prog = "mem", option.local, NEW u \in Threads PROVE WalkAt(u)'
      <4>1. RingAt(t) /\ WalkAt(t) /\ WalkAt(u)
        BY <3>4 DEF Rings, Walks
      <4>2. CASE u = t
        BY <2>3, <3>2, <3>4, <4>1, <4>2, OwnWalk
      <4>3. CASE u # t
        BY <2>3, <3>2, <3>4, <4>1, <4>3, OthersAlone, OthersWalk DEF Alone, WalkAt
      <4> QED
        BY <4>2, <4>3
    <3> QED
      BY <2>1, <3>1, <3>3, <3>4 DEF Walks
  <2> QED
    BY <2>2, <2>3
<1>3. CASE UNCHANGED vars
  BY <1>3 DEF vars, mainVars, memVars, walkVars, Walks, WalkAt
<1> QED
  BY <1>1, <1>2, <1>3 DEF Next

\* The check at the end of the set-up, `initialization failed', finds every ring whole if the
\* threads of a random run have regions of their own (-L), for every number of threads and
\* lines: RingCheckHolds, which does not hold of threads that share one.
THEOREM CheckHolds == ASSUME OwnRegions PROVE Spec => []RingCheckHolds
<1>1. BenchInv /\ Walks /\ [Next]_vars => Walks'
  BY StepWalks DEF BenchInv
<1>2. Walks => RingCheckHolds
  BY DEF Walks, RingCheckHolds
<1> QED
  BY <1>1, <1>2, InitWalks, BenchInvHolds, PTL DEF Spec
-----------------------------------------------------------------------------
\* Every size of a sequential run of micbench-mem is a number of whole segments.
WholeSizes ==
    \A o \in Options : o.prog = "mem" /\ ~o.rand =>
        o.size % (IF o.size < 1024 THEN 64 ELSE 1024) = 0

LEMMA DoneCounted ==
    ASSUME WholeSizes, option \in Options, option.prog = "mem"
    PROVE  Done = Counted /\ Done \in Nat
<1>1. option.size \in Nat
  BY OptionFacts
<1>2. ASSUME NEW n \in Nat, n % 64 = 0 PROVE (n + 64 - 1) \div 64 = n \div 64
  BY <1>2
<1>3. ASSUME NEW n \in Nat, n % 1024 = 0 PROVE (n + 1024 - 1) \div 1024 = n \div 1024
  BY <1>3
<1> QED
  BY <1>1, <1>2, <1>3 DEF WholeSizes, Done, Counted, Segment

\* What a step of thread t does to the counters
LEMMA CountsMove ==
    ASSUME WholeSizes, TypeOK, Accounts, NEW t \in Threads, Thread(t) \/ Clock(t), Moves(t)
    PROVE  /\ Accounts'
           /\ \A u \in Threads : u # t => work'[u] = work[u]
           /\ work'[t] >= work[t]
           /\ pc'[t] = "done" => work' = work
<1> USE DEF mainVars, counters, Goto, memVars
<1>0. /\ ops \in [Threads -> Nat] /\ work \in [Threads -> Nat] /\ option \in Options
      /\ UNCHANGED option /\ pc[t] \notin Settled /\ pc \in [Threads -> Places]
      /\ option.prog \in {"mem", "lock", "proto"}
  BY OptionFacts DEF TypeOK, Moves, Places
<1>1. PICK l \in Onward : pc' = [pc EXCEPT ![t] = l]
  BY DEF Moves
<1>2. CASE UNCHANGED <<ops, work>> /\ (option.prog = "mem" \/ pc'[t] # "done")
  BY <1>0, <1>1, <1>2 DEF Accounts, Settled, Onward
<1>3. CASE option.prog = "mem" /\ Round(t)
  <2>1. Done \in Nat /\ Done = Counted
    BY <1>0, <1>3, DoneCounted
  <2> QED
    BY <1>0, <1>3, <2>1 DEF Round, Accounts
<1>4. CASE option.prog # "mem" /\ (Unlock(t) \/ FenceRow(t))
  <2>1. /\ \E n \in Nat : work' = [work EXCEPT ![t] = @ + n]
        /\ ops' = ops /\ pc'[t] = "job" /\ pc[t] # "done"
        /\ \A u \in Threads : u # t => pc'[u] = pc[u]
    BY <1>0, <1>4 DEF Unlock, FenceRow, GeneratedRow
  <2> QED
    BY <1>0, <1>4, <2>1 DEF Accounts
<1>5. CASE option.prog # "mem" /\ EndJob(t)
  <2>1. /\ work' = work /\ work[t] = Job /\ pc'[t] = "done"
        /\ ops' = IF option.prog = "proto" THEN ops ELSE [ops EXCEPT ![t] = Job]
        /\ \A u \in Threads : u # t => pc'[u] = pc[u]
    BY <1>0, <1>5, JobCounted DEF EndJob
  <2> QED
    BY <1>0, <1>5, <2>1 DEF Accounts
<1>6. CASE option.prog # "mem" /\ Lock(t)
  <2>1. pc'[t] = "critical" /\ UNCHANGED <<ops, work>>
    BY <1>0, <1>6 DEF Lock
  <2> QED
    BY <1>2, <2>1
<1>7. CASE option.prog = "mem" /\ Clock(t)
  BY <1>2, <1>7 DEF Clock, Expire
<1>8. CASE option.prog = "mem" /\ MemThread(t) /\ ~Round(t)
  <2>1. UNCHANGED <<ops, work>>
    <3>0. \A how : Die(how) => UNCHANGED <<ops, work>>
      BY DEF Die, ExitProcess
    <3>1. InitLine(t) \/ CloseRing(t) \/ Load(t) \/ StoreFirst(t) => UNCHANGED <<ops, work>>
      BY DEF InitLine, CloseRing, Load, StoreFirst
    <3>2. StoreSecond(t) \/ StoreThird(t) \/ SwapFirst(t) \/ SwapSecond(t) => UNCHANGED <<ops, work>>
      BY <3>0 DEF StoreSecond, StoreThird, SwapFirst, SwapSecond
    <3>3. Check(t) \/ Evict(t) \/ Leave(t) => UNCHANGED <<ops, work>>
      BY <3>0 DEF Check, Evict, Leave
    <3>4. Test(t) => UNCHANGED <<ops, work>>
      BY DEF Test, NextLine
    <3>5. \A ofst : Draw(t, ofst) => UNCHANGED <<ops, work>>
      BY DEF Draw
    <3> QED
      BY <1>8, <3>1, <3>2, <3>3, <3>4, <3>5 DEF MemThread, Shuffle
  <2> QED
    BY <1>2, <1>8, <2>1
<1> QED
  BY <1>3, <1>4, <1>5, <1>6, <1>7, <1>8 DEF Thread, Clock, MemThread, LockThread

LEMMA InitAccounts == Init => Accounts
  BY DEF Init, MainInit, Accounts

LEMMA MainAccounts ==
    ASSUME TypeOK, Control, Accounts, Main \/ Barrier \/ Failure
    PROVE  Accounts'
<1> USE DEF mainVars, counters, Goto
<1>0. UNCHANGED <<ops, work, option>> /\ pc \in [Threads -> Places]
  BY DEF Main, Barrier, Failure, MainStep, MainFails, ParseArgs, ArgumentError, Create,
         AllCreated, Join, Sum, SetupFails, CreateFails, JoinCrashes, Release, ExitProcess,
         TypeOK, Places
<1>1. \A t \in Threads : /\ pc'[t] = "done" => pc[t] = "done"
                         /\ pc'[t] = "none" => pc[t] = "none"
                         /\ pc'[t] = "failed" => pc[t] \in {"none", "failed"}
  <2>1. CASE Create \/ CreateFails
    <3>1. i + 1 \in Threads /\ pc[i + 1] = "none"
      BY <2>1, ThreadFacts DEF Create, CreateFails, TypeOK, Control, Progress
    <3>2. PICK l \in {"init", "barrier", "job", "failed"} : pc' = [pc EXCEPT ![i + 1] = l]
      BY <2>1 DEF Create, CreateFails, FirstStep
    <3> QED
      BY <1>0, <3>1, <3>2
  <2>2. CASE ParseArgs \/ AllCreated \/ Join \/ Sum
    BY <2>2 DEF ParseArgs, AllCreated, Join, Sum
  <2>3. CASE ArgumentError \/ SetupFails \/ JoinCrashes \/ Release
    BY <2>3 DEF ArgumentError, SetupFails, JoinCrashes, Release, ExitProcess
  <2> QED
    BY <2>1, <2>2, <2>3 DEF Main, Barrier, Failure, MainStep, MainFails
<1> QED
  BY <1>0, <1>1 DEF Accounts

LEMMA StepAccounts ==
    ASSUME WholeSizes, TypeOK, Control, Accounts, [Next]_vars
    PROVE  Accounts'
<1>1. CASE Main \/ Barrier \/ Failure
  BY <1>1, MainAccounts
<1>2. ASSUME NEW t \in Threads, Thread(t) \/ Clock(t) PROVE Accounts'
  <2>1. CASE Moves(t)
    BY <1>2, <2>1, CountsMove
  <2>2. CASE Dies
    BY <2>2 DEF Dies, ExitProcess, counters, Accounts
  <2> QED
    BY <1>2, <2>1, <2>2, ThreadMoves
<1>3. CASE UNCHANGED vars
  BY <1>3 DEF vars, mainVars, counters, Accounts
<1> QED
  BY <1>1, <1>2, <1>3 DEF Next
-----------------------------------------------------------------------------
\* The refinement mapping, for the steps below
Phase == IF main \in {"parse", "create", "join"} THEN "run"
         ELSE IF main = "done" THEN "reported" ELSE "aborted"
Live == {t \in Threads : pc[t] \notin {"done", "failed", "gone"}}
Worked == [t \in Threads |-> IF option.prog = "proto" THEN 0 ELSE work[t]]

LEMMA InitForks == Init => FJ!Init
<1> SUFFICES ASSUME Init PROVE FJ!Init
  OBVIOUS
<1>1. Phase = "run" /\ Live = Threads /\ total = 0
  BY DEF Init, MainInit, Phase, Live
<1>2. Worked = [t \in Threads |-> 0] /\ DOMAIN Worked = Threads
  BY DEF Init, MainInit, Worked
<1> QED
  BY <1>1, <1>2 DEF FJ!Init, Phase, Live, Worked

\* However the process is left before it has a result, the benchmark is broken off.
LEMMA ExitAborts ==
    ASSUME NEW how \in Ended \ {"done"}, ExitProcess(how), main \in Running
    PROVE  FJ!Abort
<1>1. Live' = {}
  BY DEF ExitProcess, Live
<1>2. Phase = "run" /\ Phase' = "aborted"
  BY DEF ExitProcess, Phase, Running, Ended
<1>3. Worked' = Worked /\ total' = total
  BY DEF ExitProcess, Worked, counters
<1> QED
  BY <1>1, <1>2, <1>3 DEF FJ!Abort, Phase, Live, Worked

\* A step of main that ends no thread
LEMMA Stutters ==
    ASSUME UNCHANGED <<option, work, total>>, Phase' = Phase, Live' = Live
    PROVE  UNCHANGED FJ!vars
<1>1. Worked' = Worked
  BY DEF Worked
<1> QED
  BY <1>1 DEF FJ!vars, Phase, Live, Worked

LEMMA NotOverRuns ==
    ASSUME TypeOK, Control, NEW t \in Threads, pc[t] \notin {"done", "failed", "gone"}
    PROVE  main \in Running
  BY DEF TypeOK, Control, Progress, Running, Ended

\* A step of a thread that goes on is its work; the others end it.
LEMMA MoveWorks ==
    ASSUME WholeSizes, TypeOK, Control, Accounts, NEW t \in Threads, Thread(t) \/ Clock(t),
           Moves(t)
    PROVE  FJ!Next
<1>0. /\ pc \in [Threads -> Places] /\ work \in [Threads -> Nat]
      /\ pc[t] \notin Settled /\ UNCHANGED <<main, option, total>>
  BY DEF TypeOK, Places, Moves, mainVars
<1>1. PICK l \in Onward : pc' = [pc EXCEPT ![t] = l]
  BY DEF Moves
<1>2. Phase = "run" /\ Phase' = "run" /\ t \in Live
  BY <1>0, NotOverRuns DEF Phase, Settled, Running, Live
<1>3. /\ \A u \in Threads : u # t => work'[u] = work[u]
      /\ work'[t] >= work[t]
      /\ pc'[t] = "done" => work' = work
  BY CountsMove
<1>4. CASE l = "done"
  <2>1. Live' = Live \ {t}
    BY <1>0, <1>1, <1>4 DEF Live
  <2>2. Worked' = Worked
    BY <1>0, <1>1, <1>3, <1>4 DEF Worked
  <2>3. FJ!Finish(t)
    BY <1>0, <1>2, <2>1, <2>2 DEF FJ!Finish, Phase, Live, Worked
  <2> QED
    BY <1>2, <2>3 DEF FJ!Next, Live
<1>5. CASE l # "done"
  <2>1. Live' = Live
    BY <1>0, <1>1, <1>5 DEF Live, Settled, Onward
  <2>2. Worked'[t] >= Worked[t]
    BY <1>0, <1>3 DEF Worked
  <2>3. Worked' = [Worked EXCEPT ![t] = Worked'[t]]
    BY <1>0, <1>3 DEF Worked
  <2>4. FJ!Work(t)
    BY <1>0, <1>2, <2>1, <2>2, <2>3 DEF FJ!Work, Phase, Live, Worked
  <2> QED
    BY <1>2, <2>4 DEF FJ!Next, Live
<1> QED
  BY <1>4, <1>5

\* When all threads are joined none of them works, and their counters are their work.
LEMMA SumReports ==
    ASSUME TypeOK, Control, Accounts, Sum
    PROVE  FJ!Next
<1>1. \A t \in Threads : pc[t] \in {"done", "failed"}
  BY ThreadFacts DEF Control, Progress, Sum, Threads
<1>2. Live = {} /\ Live' = {}
  BY <1>1 DEF Live, Sum
<1>3. ops = Worked
  <2>1. \A t \in Threads : ops[t] = Worked[t]
    BY <1>1, OptionFacts DEF Accounts, Worked, TypeOK
  <2> QED
    BY <2>1 DEF TypeOK, Worked
<1>4. Phase = "run" /\ Phase' = "reported"
  BY DEF Sum, Phase
<1>5. total' = FJ!SumOf(Worked) /\ Worked' = Worked
  BY <1>3 DEF Sum, counters, Worked
<1> QED
  BY <1>2, <1>4, <1>5 DEF FJ!Next, FJ!Report, Phase, Live, Worked

LEMMA StepForks ==
    ASSUME WholeSizes, TypeOK, Control, Accounts, [Next]_vars
    PROVE  FJ!Next \/ UNCHANGED FJ!vars
<1> USE DEF mainVars, counters
<1>0. pc \in [Threads -> Places]
  BY DEF TypeOK, Places
<1>1. CASE ParseArgs \/ AllCreated \/ Join
  <2>1. UNCHANGED <<option, work, total, pc>> /\ Phase' = Phase
    BY <1>1 DEF ParseArgs, AllCreated, Join, Phase
  <2> QED
    BY <2>1, Stutters DEF Live
<1>2. CASE ArgumentError \/ SetupFails \/ JoinCrashes
  <2>1. PICK how \in Ended \ {"done"} : ExitProcess(how) /\ main \in Running
    BY <1>2 DEF ArgumentError, SetupFails, JoinCrashes, Ended, Running
  <2> QED
    BY <2>1, ExitAborts DEF FJ!Next
<1>3. CASE Create \/ CreateFails
  <2>1. i + 1 \in Threads /\ pc[i + 1] = "none"
    BY <1>3, ThreadFacts DEF Create, CreateFails, TypeOK, Control, Progress
  <2>2. UNCHANGED <<option, work, total, main>> /\ Phase = "run" /\ Phase' = "run" /\ Worked' = Worked
    BY <1>3 DEF Create, CreateFails, Phase, Worked
  <2>3. CASE Create
    <3>1. Live' = Live
      BY <1>0, <2>1, <2>3 DEF Create, Goto, FirstStep, Live
    <3> QED
      BY <2>2, <3>1, Stutters
  <2>4. CASE CreateFails
    <3>1. PICK t \in Live : Live' = Live \ {t}
      BY <1>0, <2>1, <2>4 DEF CreateFails, Goto, Live
    <3>2. FJ!Finish(t)
      BY <2>2, <3>1 DEF FJ!Finish, Phase, Live, Worked
    <3> QED
      BY <3>1, <3>2 DEF FJ!Next, Live
  <2> QED
    BY <1>3, <2>3, <2>4
<1>4. CASE Sum
  BY <1>4, SumReports
<1>5. CASE Release
  <2>1. Live' = Live
    BY <1>5 DEF Release, Live
  <2> QED
    BY <1>5, <2>1, Stutters DEF Release, Phase
<1>6. ASSUME NEW t \in Threads, Thread(t) \/ Clock(t) PROVE FJ!Next
  <2>1. CASE Moves(t)
    BY <1>6, <2>1, MoveWorks
  <2>2. CASE Dies
    <3>1. pc[t] \notin {"done", "failed", "gone"}
      BY <1>6 DEF Thread, Clock, MemThread, LockThread, Shuffle, InitLine, CloseRing, Draw, Load,
                  StoreFirst, StoreSecond, StoreThird, SwapFirst, SwapSecond, Test, NextLine,
                  Check, Evict, Round, Leave, Expire, Lock, Unlock, FenceRow, EndJob
    <3>2. main \in Running
      BY <3>1, NotOverRuns
    <3> QED
      BY <2>2, <3>2, ExitAborts DEF Dies, FJ!Next, Ended
  <2> QED
    BY <1>6, <2>1, <2>2, ThreadMoves
<1>7. CASE UNCHANGED vars
  BY <1>7, Stutters DEF vars, Phase, Live
<1> QED
  BY <1>1, <1>2, <1>3, <1>4, <1>5, <1>6, <1>7
     DEF Next, Main, Barrier, Failure, MainStep, MainFails

\* The three benchmarks implement the specification of a fork and join: what they print is
\* the work of all threads.  For micbench-mem this takes sequential sizes that are whole
\* segments: the code counts a part of a segment as none.
THEOREM ThreadsForkJoin ==
    ASSUME WholeSizes
    PROVE  Spec => ImplementsForkJoin
<1>1. Init => Accounts
  BY InitAccounts
<1>2. BenchInv /\ Accounts /\ [Next]_vars => Accounts'
  BY StepAccounts DEF BenchInv
<1>3. BenchInv /\ Accounts /\ [Next]_vars => [FJ!Next]_(FJ!vars)
  BY StepForks DEF BenchInv
<1> QED
  BY <1>1, <1>2, <1>3, InitForks, BenchInvHolds, PTL DEF Spec, ImplementsForkJoin, FJ!Spec
-----------------------------------------------------------------------------
\* micbench-lock prints the affinities that it was given, bit by bit, whatever the widths of
\* the masks and of an int, as long as they leave the last bit alone: AffinityPrinted.
THEOREM AffinitiesPrinted == Spec => []AffinityPrinted
<1>1. TypeOK => AffinityPrinted
  <2> SUFFICES ASSUME TypeOK, option.prog = "lock", NEW arg \in option.affinity,
                      Len(arg.cpu) < CpuSetSize, Len(arg.mem) < IntBits
               PROVE  \E p \in Printed :
                  /\ p.tid = arg.tid
                  /\ Denotes(p.cpus) = Ones(arg.cpu) /\ Denotes(p.nodes) = Ones(arg.mem)
                  /\ \A k \in 2 .. Len(p.cpus) : p.cpus[k - 1][2] + 1 < p.cpus[k][1]
    BY DEF AffinityPrinted, Ones
  <2>1. arg.cpu \in Seq({0, 1}) /\ arg.mem \in Seq({0, 1})
    BY LockAssumption DEF TypeOK
  <2>2. AffinityToString(ParseAffinity(arg)) \in Printed
    BY DEF Printed
  <2> QED
    BY <2>1, <2>2, PrintsGiven
<1> QED
  BY <1>1, ThreadTypes, PTL
=============================================================================
