------------------------------ MODULE MemBench ------------------------------
(***************************************************************************)
(* The threads of micbench-mem, each on a region of its own (-L) or all on *)
(* one: they meet at the barrier and access memory until the time is over. *)
(* Before a random run (-R) a thread links the cache lines of its region   *)
(* into a ring, shuffles the ring in place, and walks it once to check it. *)
(*                                                                         *)
(* A region is a number of 64-byte lines, each holding one pointer.        *)
(* Threads that share a region interleave between any two stores of the    *)
(* source: that is a part of what a data race may do.                      *)
(*                                                                         *)
(* External: the clock.                                                    *)
(***************************************************************************)
EXTENDS BenchMain

CONSTANTS
    Lines,      \* num_cacheline = option.size / 64, of a random run
    MaxWork     \* bound: no thread begins another round with so much work done

ASSUME MemAssumption ==
    /\ Lines \in Nat \ {0}
    /\ MaxWork \in Nat
    /\ \A o \in Options : o.prog = "mem" =>
           o.rand \in BOOLEAN /\ o.local \in BOOLEAN /\ o.size \in Nat

\* Lines by number; ptr_end is one past the last.
LineSet == 0 .. Lines - 1
PtrEnd == Lines
Null == -1

VARIABLES
    region,     \* the memory: a pointer per line
    idx,        \* each thread's line counter i
    succ1,      \* ptr1_succ
    ptr2,       \* ptr2
    succ2,      \* ptr2_succ
    tmp,        \* tmp, of swap_long
    ptr,        \* ptr, in the walks
    counter,    \* counter, of the check loop
    expired     \* has the time of the thread passed?

shuffleVars == <<succ1, ptr2, succ2, tmp>>
walkVars == <<ptr, counter>>
memVars == <<region, idx, shuffleVars, walkVars, expired>>

\* working_area
RegionOf(t) == IF option.local THEN t ELSE 1
Line(t, l) == region[RegionOf(t)][l]

\* *l = v
Store(t, l, v) == region' = [region EXCEPT ![RegionOf(t)][l] = v]

MemInit ==
    /\ region = [t \in Threads |-> [l \in LineSet |-> Null]]
    /\ idx = [t \in Threads |-> 0]
    /\ succ1 = [t \in Threads |-> Null]
    /\ ptr2 = [t \in Threads |-> Null]
    /\ succ2 = [t \in Threads |-> Null] /\ tmp = [t \in Threads |-> Null]
    /\ ptr = [t \in Threads |-> Null] /\ counter = [t \in Threads |-> 0]
    /\ expired = [t \in Threads |-> FALSE]

\* The process ends in a thread.
Die(how) == ExitProcess(how) /\ UNCHANGED memVars
-----------------------------------------------------------------------------
\* Mutant of InitLine: one line too many.
InitLineBeyond(t) ==
    /\ pc[t] = "init" /\ idx[t] <= Lines
    /\ Store(t, idx[t], idx[t] + 1)
    /\ idx' = [idx EXCEPT ![t] = @ + 1]
    /\ UNCHANGED <<mainVars, pc, shuffleVars, walkVars, counters, expired>>

\* Each line points to the next one,
InitLine(t) ==
    /\ pc[t] = "init" /\ idx[t] < Lines
    /\ Store(t, idx[t], idx[t] + 1)
    /\ idx' = [idx EXCEPT ![t] = @ + 1]
    /\ UNCHANGED <<mainVars, pc, shuffleVars, walkVars, counters, expired>>

\* and the last to the first.
CloseRing(t) ==
    /\ pc[t] = "init" /\ idx[t] = Lines
    /\ Store(t, PtrEnd - 1, 0)
    /\ idx' = [idx EXCEPT ![t] = 0]
    /\ Goto(t, "shuffle")
    /\ UNCHANGED <<mainVars, shuffleVars, walkVars, counters, expired>>

\* retry: draw the second line, load the first pointer,
Draw(t, ofst) ==
    /\ pc[t] = "shuffle" /\ ofst \in 0 .. Lines - idx[t] - 1
    /\ ptr2' = [ptr2 EXCEPT ![t] = idx[t] + ofst]
    /\ succ1' = [succ1 EXCEPT ![t] = Line(t, idx[t])]
    /\ Goto(t, "load")
    /\ UNCHANGED <<mainVars, region, idx, succ2, tmp, walkVars, counters, expired>>

\* load the second,
Load(t) ==
    /\ pc[t] = "load"
    /\ succ2' = [succ2 EXCEPT ![t] = Line(t, ptr2[t])]
    /\ Goto(t, "store1")
    /\ UNCHANGED <<mainVars, region, idx, succ1, ptr2, tmp, walkVars, counters, expired>>

\* store *ptr1 = ptr2_succ,
StoreFirst(t) ==
    /\ pc[t] = "store1"
    /\ Store(t, idx[t], succ2[t])
    /\ Goto(t, "store2")
    /\ UNCHANGED <<mainVars, idx, shuffleVars, walkVars, counters, expired>>

\* Is the second line the successor of the first?
Adjacent(t) == succ1[t] = ptr2[t]

\* Mutant of StoreSecond: adjacent lines are no special case.
StoreSecondPlain(t) ==
    /\ pc[t] = "store2"
    /\ Store(t, ptr2[t], succ1[t])
    /\ Goto(t, "store3")
    /\ UNCHANGED <<mainVars, idx, shuffleVars, walkVars, counters, expired>>

\* *ptr1_succ = *ptr2_succ when they are adjacent, or *ptr2 = ptr1_succ,
StoreSecond(t) ==
    /\ pc[t] = "store2"
    /\ IF Adjacent(t) /\ succ2[t] \notin LineSet
       THEN Die("crash")
       ELSE /\ Store(t, ptr2[t], IF Adjacent(t) THEN Line(t, succ2[t]) ELSE succ1[t])
            /\ Goto(t, "store3")
            /\ UNCHANGED <<mainVars, idx, shuffleVars, walkVars, counters, expired>>

\* *ptr2_succ = ptr1_succ when they are adjacent,
StoreThird(t) ==
    /\ pc[t] = "store3" /\ Adjacent(t)
    /\ Store(t, succ2[t], succ1[t])
    /\ Goto(t, "test")
    /\ UNCHANGED <<mainVars, idx, shuffleVars, walkVars, counters, expired>>

\* or swap_long of what the two successors hold, if they are two: the load of tmp and
\* the store to the first,
SwapFirst(t) ==
    /\ pc[t] = "store3" /\ ~Adjacent(t)
    /\ IF {succ1[t], succ2[t]} \subseteq LineSet
       THEN /\ IF succ1[t] = succ2[t]
               THEN Goto(t, "test") /\ UNCHANGED <<region, tmp>>
               ELSE /\ tmp' = [tmp EXCEPT ![t] = Line(t, succ1[t])]
                    /\ Store(t, succ1[t], Line(t, succ2[t]))
                    /\ Goto(t, "store4")
            /\ UNCHANGED <<mainVars, idx, succ1, ptr2, succ2, walkVars, counters, expired>>
       ELSE Die("crash")

\* and the store of tmp to the second.
SwapSecond(t) ==
    /\ pc[t] = "store4"
    /\ Store(t, succ2[t], tmp[t])
    /\ tmp' = [tmp EXCEPT ![t] = Null]
    /\ Goto(t, "test")
    /\ UNCHANGED <<mainVars, idx, succ1, ptr2, succ2, walkVars, counters, expired>>

\* The locals of the loop body are gone at its end.
EndOfBody(t) ==
    /\ succ1' = [succ1 EXCEPT ![t] = Null]
    /\ ptr2' = [ptr2 EXCEPT ![t] = Null]
    /\ succ2' = [succ2 EXCEPT ![t] = Null]

\* Then goto retry if a line has come to point to itself, else the next line;
\* after the last one the check begins at the successor of the first line.
NextLine(t, retry) ==
    /\ pc[t] = "test"
    /\ EndOfBody(t)
    /\ LET last == ~retry /\ idx[t] = Lines - 1
       IN  /\ Goto(t, IF last THEN "check" ELSE "shuffle")
           /\ idx' = [idx EXCEPT ![t] = IF last THEN 0 ELSE IF retry THEN @ ELSE @ + 1]
           /\ ptr' = [ptr EXCEPT ![t] = IF last THEN Line(t, 0) ELSE @]
           /\ counter' = [counter EXCEPT ![t] = IF last THEN 1 ELSE @]
    /\ UNCHANGED <<mainVars, region, tmp, counters, expired>>

\* Mutant of Test: retry when the exchange has changed nothing.
TestUnchanged(t) == NextLine(t, Line(t, idx[t]) = succ1[t])

Test(t) == NextLine(t, \/ Line(t, idx[t]) = idx[t]
                       \/ Line(t, ptr2[t]) = ptr2[t]
                       \/ Line(t, succ2[t]) = succ2[t])

\* The check loop counts the lines of the ring, up to one more than there are.
\* A count that is not num_cacheline ends the process.
Check(t) ==
    /\ pc[t] = "check"
    /\ IF ptr[t] \in LineSet /\ (ptr[t] = 0 => counter[t] = Lines)
       THEN /\ ptr' = [ptr EXCEPT ![t] = Line(t, @)]
            /\ IF ptr[t] = 0
               THEN Goto(t, "evict") /\ UNCHANGED counter
               ELSE /\ counter' = [counter EXCEPT ![t] = Min({@ + 1, Lines + 1})]
                    /\ UNCHANGED pc
            /\ UNCHANGED <<mainVars, region, idx, shuffleVars, counters, expired>>
       ELSE Die(IF ptr[t] = 0 THEN "initfailed" ELSE "crash")

\* Another walk, to evict cache lines
Evict(t) ==
    /\ pc[t] = "evict"
    /\ IF ptr[t] \in LineSet
       THEN /\ IF ptr[t] = 0
               THEN Goto(t, "barrier") /\ UNCHANGED ptr
               ELSE ptr' = [ptr EXCEPT ![t] = Line(t, @)] /\ UNCHANGED pc
            /\ UNCHANGED <<mainVars, region, idx, shuffleVars, counter, counters, expired>>
       ELSE Die("crash")
-----------------------------------------------------------------------------
\* A sequential round reads the region in segments of this size, as long as there
\* is something left, and counts the segments that fit into it.  (The factors
\* that both have in common are left out.)  A random round follows the ring for a
\* fixed number of accesses.
Segment == IF option.size < 1024 THEN 64 ELSE 1024
Done == IF option.rand THEN 1 ELSE (option.size + Segment - 1) \div Segment
Counted == IF option.rand THEN 1 ELSE option.size \div Segment

\* A round of the timed loop only reads the region.
Round(t) ==
    /\ pc[t] = "job" /\ ~expired[t] /\ work[t] < MaxWork
    /\ work' = [work EXCEPT ![t] = @ + Done]
    /\ ops' = [ops EXCEPT ![t] = @ + Counted]
    /\ UNCHANGED <<mainVars, pc, memVars>>

Leave(t) ==
    /\ pc[t] = "job" /\ expired[t]
    /\ Goto(t, "done")
    /\ UNCHANGED <<mainVars, counters, memVars>>

\* External: the clock, which a thread starts when it leaves the barrier
Expire(t) ==
    /\ pc[t] = "job" /\ ~expired[t]
    /\ expired' = [expired EXCEPT ![t] = TRUE]
    /\ UNCHANGED <<mainVars, pc, counters, region, idx, shuffleVars, walkVars>>

Shuffle(t) ==
    \/ \E ofst \in 0 .. Lines - idx[t] - 1 : Draw(t, ofst)
    \/ Load(t) \/ StoreFirst(t) \/ StoreSecond(t) \/ StoreThird(t)
    \/ SwapFirst(t) \/ SwapSecond(t) \/ Test(t)

MemThread(t) ==
    /\ option.prog = "mem"
    /\ \/ InitLine(t) \/ CloseRing(t) \/ Shuffle(t) \/ Check(t) \/ Evict(t)
       \/ Round(t) \/ Leave(t)
-----------------------------------------------------------------------------
Pointers == LineSet \cup {PtrEnd, Null}

MemTypeOK ==
    /\ region \in [Threads -> [LineSet -> Pointers]]
    /\ idx \in [Threads -> 0 .. Lines]
    /\ succ1 \in [Threads -> Pointers]
    /\ ptr2 \in [Threads -> Pointers]
    /\ succ2 \in [Threads -> Pointers]
    /\ tmp \in [Threads -> Pointers]
    /\ ptr \in [Threads -> Pointers]
    /\ counter \in [Threads -> 0 .. Lines + 1]
    /\ expired \in [Threads -> BOOLEAN]

\* The lines of thread t form one ring: a map of the lines to themselves that
\* leaves no part of them.
OneRing(t) ==
    /\ {Line(t, l) : l \in LineSet} = LineSet
    /\ \A S \in (SUBSET LineSet) \ {{}, LineSet} : \E l \in S : Line(t, l) \notin S

\* Shuffling a region of one's own keeps all its lines on one ring after each
\* exchange: adjacent lines, lines drawn against themselves, and the two lines
\* whose successors meet.
RingKept ==
    option.prog = "mem" /\ option.local =>
        \A t \in Threads : pc[t] \in {"shuffle", "check", "evict"} => OneRing(t)

\* A thread that measures random access goes round all the lines of its region,
\* and so does every other: none is still linking, shuffling or checking.
MeasuresWholeRings ==
    option.prog = "mem" /\ option.rand /\ option.local =>
        \A t \in Threads : pc[t] \in {"job", "done"} =>
            \A u \in Threads : OneRing(u) /\ pc[u] \in {"job", "done"}

\* The check at the end of the set-up, `initialization failed', never finds the
\* ring of a thread broken.
RingCheckHolds == main # "initfailed"
=============================================================================
