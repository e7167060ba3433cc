--------------------------- MODULE ResPoolProofs ---------------------------
(***************************************************************************)
(* The resource pool, for every number of cells and every set of elements: *)
(* its type, the agreement of head, tail and nr_avail, the freeing of each *)
(* cell exactly once, and the refinement of BoundedFifo.                   *)
(***************************************************************************)
EXTENDS ResPool, SequenceTheorems, TLAPS

\* Where mb_res_pool_destroy is: the cells before the cursor are freed once,
\* the others not yet.
FreeInv ==
    /\ phase \in {"none", "live"} => \A c \in Cells : freed[c] = 0
    /\ phase = "freeing" => \A c \in Cells : freed[c] = IF c < cell THEN 1 ELSE 0
    /\ phase = "gone" => \A c \in Cells : freed[c] = 1

-----------------------------------------------------------------------------
\* The pool's fields always have their types: in particular 0 <= nr_avail <=
\* nr_elems, although push and pop each only test one of the two ends.
THEOREM TypeCorrect == Spec => []TypeOK
<1> USE PoolAssumption DEF Cells, Ring, Link, Phases, Success, Failure
<1>1. Init => TypeOK
  BY DEF Init, TypeOK
<1>2. TypeOK /\ [Next]_vars => TypeOK'
  <2> SUFFICES ASSUME TypeOK, [Next]_vars PROVE TypeOK'
    OBVIOUS
  <2> USE DEF TypeOK
  <2>1. CASE Make
    BY <2>1 DEF Make
  <2>2. ASSUME NEW e \in Elems, Push(e) PROVE TypeOK'
    <3>1. CASE nr_avail = NrElems
      BY <2>2, <3>1 DEF Push, ring
    <3>2. CASE nr_avail # NrElems
      <4>1. Link(tail) \in Cells /\ nr_avail + 1 \in 0 .. NrElems
        BY <3>2
      <4>2. data' \in [Cells -> Elems \cup {NULL}]
        BY <2>2, <3>2, <4>1 DEF Push
      <4> QED
        BY <2>2, <3>2, <4>1, <4>2 DEF Push
    <3> QED
      BY <3>1, <3>2
  <2>3. CASE Pop
    BY <2>3 DEF Pop, ring
  <2>4. CASE DestroyBegin
    BY <2>4 DEF DestroyBegin
  <2>5. CASE DestroyCell
    BY <2>5 DEF DestroyCell
  <2>6. CASE UNCHANGED vars
    BY <2>6 DEF vars
  <2> QED
    BY <2>1, <2>2, <2>3, <2>4, <2>5, <2>6 DEF Next
<1> QED
  BY <1>1, <1>2, PTL DEF Spec

-----------------------------------------------------------------------------
\* Moving head one link on shifts every position by one.
LEMMA AtShift ==
    ASSUME TypeOK, head' = Link(head), NEW k \in 0 .. NrElems - 1
    PROVE  At(k)' = IF k = NrElems - 1 THEN At(0) ELSE At(k + 1)
  BY PoolAssumption DEF TypeOK, At, Link, Cells, Ring

\* Positions less than nr_elems apart name different cells of the ring.
LEMMA AtInjective ==
    ASSUME TypeOK, NEW j \in 0 .. NrElems - 1, NEW k \in 0 .. NrElems - 1,
           At(j) = At(k)
    PROVE  j = k
  BY PoolAssumption DEF TypeOK, At, Cells

LEMMA AtCell ==
    ASSUME TypeOK, NEW k \in 0 .. NrElems - 1
    PROVE  At(k) \in Cells
  BY PoolAssumption DEF TypeOK, At, Cells

\* The cell a push fills is the one nr_avail links after head.
LEMMA PushCell ==
    ASSUME TypeOK, RingInv, nr_avail # NrElems
    PROVE  Link(tail) = At(nr_avail)
  BY DEF RingInv

LEMMA RingInvStep == TypeOK /\ TypeOK' /\ RingInv /\ [Next]_vars => RingInv'
<1> SUFFICES ASSUME TypeOK, TypeOK', RingInv, [Next]_vars PROVE RingInv'
  OBVIOUS
<1> USE PoolAssumption
<1>1. CASE Make
  BY <1>1 DEF Make, RingInv, At, Link, Cells, Ring
<1>2. ASSUME NEW e \in Elems, Push(e) PROVE RingInv'
  <2>1. CASE nr_avail = NrElems
    BY <1>2, <2>1 DEF Push, ring, RingInv, At, Link, Ring
  <2>2. CASE nr_avail # NrElems
    <3>0. /\ head' = head /\ nr_avail' = nr_avail + 1
          /\ tail' = At(nr_avail)
          /\ data' = [data EXCEPT ![At(nr_avail)] = e]
      BY <1>2, <2>2, PushCell DEF Push
    <3>a. nr_avail \in 0 .. NrElems - 1
      BY <2>2 DEF TypeOK
    <3>1. Link(tail)' = IF nr_avail' = NrElems THEN head' ELSE At(nr_avail)'
      BY <3>0, <3>a DEF At, Link, Ring, TypeOK, Cells
    <3>2. ASSUME NEW k \in 0 .. nr_avail' - 1 PROVE data'[At(k)'] \in Elems
      <4>0. k \in 0 .. NrElems - 1 /\ At(k)' = At(k)
        BY <3>0, <3>a DEF At
      <4>1. CASE k = nr_avail
        BY <4>0, <4>1, <3>0, AtCell DEF TypeOK
      <4>2. CASE k # nr_avail
        <5>1. At(k) # At(nr_avail)
          BY <4>0, <4>2, <3>a, AtInjective
        <5>2. k \in 0 .. nr_avail - 1
          BY <4>2, <3>0, <3>a
        <5>3. data[At(k)] \in Elems /\ At(k) \in Cells
          BY <5>2, <4>0, AtCell DEF RingInv
        <5> QED
          BY <5>1, <5>3, <3>0, <4>0 DEF TypeOK
      <4> QED
        BY <4>1, <4>2
    <3> QED
      BY <3>1, <3>2 DEF RingInv
  <2> QED
    BY <2>1, <2>2
<1>3. CASE Pop
  <2>1. CASE nr_avail = 0
    BY <1>3, <2>1 DEF Pop, ring, RingInv, At, Link, Ring
  <2>2. CASE nr_avail # 0
    <3>0. /\ head' = Link(head) /\ nr_avail' = nr_avail - 1
          /\ tail' = tail /\ data' = data
      BY <1>3, <2>2 DEF Pop
    <3>1. Link(tail)' = IF nr_avail' = NrElems THEN head' ELSE At(nr_avail)'
      BY <3>0, <2>2 DEF RingInv, At, Link, Ring, TypeOK, Cells
    <3>2. ASSUME NEW k \in 0 .. nr_avail' - 1 PROVE data'[At(k)'] \in Elems
      <4>1. k \in 0 .. NrElems - 1 /\ k + 1 \in 0 .. nr_avail - 1 /\ k # NrElems - 1
        BY <3>0, <2>2 DEF TypeOK
      <4>2. At(k)' = At(k + 1)
        BY <4>1, <3>0, AtShift
      <4> QED
        BY <4>1, <4>2, <3>0 DEF RingInv
    <3> QED
      BY <3>1, <3>2 DEF RingInv
  <2> QED
    BY <2>1, <2>2
<1>4. CASE DestroyBegin
  BY <1>4 DEF DestroyBegin, RingInv, At, Link, Ring
<1>5. CASE DestroyCell
  BY <1>5 DEF DestroyCell, RingInv, At, Link, Ring
<1>6. CASE UNCHANGED vars
  BY <1>6 DEF vars, RingInv, At, Link, Ring
<1> QED
  BY <1>1, <1>2, <1>3, <1>4, <1>5, <1>6 DEF Next

\* After any sequence of pushes and pops, tail is the last of the nr_avail
\* cells from head and those cells hold pushed elements.
THEOREM RingCorrect == Spec => []RingInv
<1>1. Init => RingInv
  BY PoolAssumption DEF Init, RingInv, At, Link, Ring
<1> QED
  BY <1>1, TypeCorrect, RingInvStep, PTL DEF Spec
-----------------------------------------------------------------------------
LEMMA FreeInvStep == TypeOK /\ FreeInv /\ [Next]_vars => FreeInv'
<1> SUFFICES ASSUME TypeOK, FreeInv, [Next]_vars PROVE FreeInv'
  OBVIOUS
<1> USE PoolAssumption DEF FreeInv, TypeOK, Cells, Phases
<1>1. CASE Make
  BY <1>1 DEF Make
<1>2. ASSUME NEW e \in Elems, Push(e) PROVE FreeInv'
  BY <1>2 DEF Push
<1>3. CASE Pop
  BY <1>3 DEF Pop
<1>4. CASE DestroyBegin
  BY <1>4 DEF DestroyBegin, Ring
<1>5. CASE DestroyCell
  <2>0. /\ freed' = [freed EXCEPT ![cell] = freed[cell] + 1]
        /\ freed[cell] = 0
        /\ cell' = Link(cell)
        /\ \A c \in Cells : freed[c] = IF c < cell THEN 1 ELSE 0
    BY <1>5 DEF DestroyCell
  <2>1. \A c \in Cells : freed'[c] = IF c <= cell THEN 1 ELSE 0
    BY <2>0
  <2>2. CASE cell = NrElems - 1
    <3>1. phase' = "gone"
      BY <1>5, <2>2 DEF DestroyCell, Link
    <3> QED
      BY <2>1, <2>2, <3>1
  <2>3. CASE cell # NrElems - 1
    <3>1. phase' = "freeing" /\ cell' = cell + 1
      BY <1>5, <2>3 DEF DestroyCell, Link, Ring
    <3> QED
      BY <2>1, <3>1
  <2> QED
    BY <2>2, <2>3
<1>6. CASE UNCHANGED vars
  BY <1>6 DEF vars
<1> QED
  BY <1>1, <1>2, <1>3, <1>4, <1>5, <1>6 DEF Next

\* mb_res_pool_destroy frees every cell once and only once.
THEOREM DestroyCorrect == Spec => []CellsFreedOnce
<1>1. Init => FreeInv
  BY DEF Init, FreeInv
<1>2. TypeOK /\ FreeInv => CellsFreedOnce
  BY DEF TypeOK, FreeInv, CellsFreedOnce, Phases
<1> QED
  BY <1>1, <1>2, TypeCorrect, FreeInvStep, PTL DEF Spec
-----------------------------------------------------------------------------
\* The contents of the ring as a sequence of pushed elements.
LEMMA ContentsSeq ==
    ASSUME TypeOK, RingInv
    PROVE  /\ Contents \in Seq(Elems)
           /\ Len(Contents) = nr_avail
           /\ DOMAIN Contents = 1 .. nr_avail
           /\ \A i \in 1 .. nr_avail : Contents[i] = data[At(i - 1)]
<1>1. nr_avail \in Nat
  BY PoolAssumption DEF TypeOK
<1>2. \A i \in 1 .. nr_avail : data[At(i - 1)] \in Elems
  BY <1>1 DEF RingInv
<1>3. Contents \in [1 .. nr_avail -> Elems]
  BY <1>2 DEF Contents
<1> QED
  BY <1>1, <1>3 DEF Contents

\* A push that is not refused appends the element to the contents.
LEMMA PushAppends ==
    ASSUME TypeOK, TypeOK', RingInv, RingInv', nr_avail # NrElems,
           NEW e \in Elems, Push(e)
    PROVE  Contents' = Append(Contents, e)
<1>0. /\ nr_avail \in 0 .. NrElems - 1
      /\ head' = head /\ nr_avail' = nr_avail + 1
      /\ data' = [data EXCEPT ![At(nr_avail)] = e]
      /\ At(nr_avail) \in Cells
  <2>1. nr_avail \in 0 .. NrElems - 1
    BY PoolAssumption DEF TypeOK
  <2> QED
    BY <2>1, PushCell, AtCell DEF Push
<1>1. Contents' = [i \in 1 .. nr_avail + 1 |-> data'[At(i - 1)]]
  BY <1>0 DEF Contents, At
<1>2. ASSUME NEW i \in 1 .. nr_avail
      PROVE  data'[At(i - 1)] = Contents[i]
  <2>1. i - 1 \in 0 .. NrElems - 1 /\ i - 1 # nr_avail
    BY <1>0, PoolAssumption
  <2>2. At(i - 1) \in Cells /\ At(i - 1) # At(nr_avail)
    BY <2>1, <1>0, AtCell, AtInjective
  <2> QED
    BY <2>2, <1>0 DEF TypeOK, Contents
<1>3. data'[At(nr_avail)] = e
  BY <1>0 DEF TypeOK
<1> DEFINE t == Append(Contents, e)
<1>4. /\ t \in Seq(Elems) /\ Len(t) = nr_avail + 1
      /\ \A i \in 1 .. nr_avail : t[i] = Contents[i]
      /\ t[nr_avail + 1] = e
  BY ContentsSeq, AppendProperties
<1>5. \A i \in 1 .. nr_avail + 1 : Contents'[i] = t[i]
  <2> SUFFICES ASSUME NEW i \in 1 .. nr_avail + 1 PROVE Contents'[i] = t[i]
    OBVIOUS
  <2>1. CASE i = nr_avail + 1
    <3>1. Contents'[i] = data'[At(i - 1)]
      BY <1>1
    <3>2. i - 1 = nr_avail
      BY <2>1, <1>0
    <3> QED
      BY <2>1, <3>1, <3>2, <1>3, <1>4, Zenon
  <2>2. CASE i # nr_avail + 1
    <3>1. i \in 1 .. nr_avail
      BY <2>2, <1>0
    <3> QED
      BY <3>1, <1>1, <1>2, <1>4
  <2> QED
    BY <2>1, <2>2
<1>6. Contents' \in Seq(Elems) /\ Len(Contents') = nr_avail + 1
  <2>1. \A i \in 1 .. nr_avail + 1 : t[i] \in Elems
    BY <1>4, <1>0, LenProperties
  <2>2. Contents' \in [1 .. nr_avail + 1 -> Elems]
    BY <2>1, <1>1, <1>5
  <2> QED
    BY <2>2, <1>0
<1> QED
  BY <1>4, <1>5, <1>6, SeqEqual

\* A pop from a pool that is not empty answers the head of the contents and
\* leaves their tail.
LEMMA PopTakesHead ==
    ASSUME TypeOK, TypeOK', RingInv, RingInv', nr_avail # 0, Pop
    PROVE  ret' = Head(Contents) /\ Contents' = Tail(Contents)
<1>0. /\ nr_avail \in 1 .. NrElems
      /\ head' = Link(head) /\ nr_avail' = nr_avail - 1
      /\ data' = data /\ ret' = data[head]
  BY PoolAssumption DEF TypeOK, Pop
<1>1. Head(Contents) = data[At(0)]
  BY <1>0, ContentsSeq
<1>2. At(0) = head
  BY PoolAssumption DEF At, TypeOK, Cells
<1> DEFINE t == Tail(Contents)
<1>3. /\ t \in Seq(Elems) /\ Len(t) = nr_avail - 1
      /\ \A i \in 1 .. nr_avail - 1 : t[i] = Contents[i + 1]
  <2>1. Contents # <<>>
    BY <1>0, ContentsSeq
  <2> QED
    BY <2>1, ContentsSeq, HeadTailProperties
<1>4. ASSUME NEW i \in 1 .. nr_avail - 1
      PROVE  data'[At(i - 1)'] = Contents[i + 1]
  <2>1. i - 1 \in 0 .. NrElems - 1 /\ i - 1 # NrElems - 1 /\ i + 1 \in 1 .. nr_avail
        /\ i - 1 + 1 = i + 1 - 1
    BY <1>0, PoolAssumption
  <2>2. At(i - 1)' = At(i + 1 - 1)
    BY <2>1, <1>0, AtShift
  <2> QED
    BY <2>1, <2>2, <1>0, ContentsSeq
<1>5. Contents' = [i \in 1 .. nr_avail - 1 |-> data'[At(i - 1)']]
  BY <1>0 DEF Contents
<1>6. \A i \in 1 .. nr_avail - 1 : Contents'[i] = t[i]
  BY <1>3, <1>4, <1>5
<1>7. Contents' \in Seq(Elems) /\ Len(Contents') = nr_avail - 1
  <2>1. \A i \in 1 .. nr_avail - 1 : t[i] \in Elems
    BY <1>3, <1>0, LenProperties
  <2>2. Contents' \in [1 .. nr_avail - 1 -> Elems]
    BY <2>1, <1>5, <1>6
  <2> QED
    BY <2>2, <1>0
<1>8. Contents' = t
  BY <1>3, <1>6, <1>7, SeqEqual
<1> QED
  BY <1>0, <1>1, <1>2, <1>8

\* A pool that is not made yet is empty.
FreshInv == phase = "none" => nr_avail = 0

LEMMA FreshInvStep == FreshInv /\ [Next]_vars => FreshInv'
  BY DEF FreshInv, Next, vars, Make, Push, Pop, DestroyBegin, DestroyCell

\* Every step of the pool is a step of the bounded FIFO or leaves it alone.
LEMMA StepRefines ==
    TypeOK /\ TypeOK' /\ RingInv /\ RingInv' /\ FreshInv /\ [Next]_vars
        => [Fifo!FifoNext]_(Fifo!fifoVars)
<1> SUFFICES ASSUME TypeOK, TypeOK', RingInv, RingInv', FreshInv, [Next]_vars
             PROVE  [Fifo!FifoNext]_(Fifo!fifoVars)
  OBVIOUS
<1>u. ASSUME UNCHANGED <<head, nr_avail, data>> PROVE Contents' = Contents
  BY <1>u DEF Contents, At
<1>1. CASE Make
  <2>1. nr_avail = 0 /\ nr_avail' = 0 /\ ret' = ret
    BY <1>1 DEF Make, FreshInv
  <2>2. Contents' = Contents
    BY <2>1 DEF Contents
  <2> QED
    BY <2>1, <2>2 DEF Fifo!fifoVars
<1>2. ASSUME NEW e \in Elems, Push(e) PROVE Fifo!FifoNext
  <2>1. CASE nr_avail = NrElems
    <3>1. ret' = -1 /\ Contents' = Contents
      BY <1>2, <2>1, <1>u DEF Push, ring, Failure
    <3> QED
      BY <2>1, <3>1, ContentsSeq DEF Fifo!FifoNext, Fifo!Push, Fifo!Failure
  <2>2. CASE nr_avail # NrElems
    <3>1. ret' = 0 /\ Contents' = Append(Contents, e)
      BY <1>2, <2>2, PushAppends DEF Push, Success
    <3> QED
      BY <2>2, <3>1, ContentsSeq DEF Fifo!FifoNext, Fifo!Push, Fifo!Success
  <2> QED
    BY <2>1, <2>2
<1>3. CASE Pop
  <2>1. CASE nr_avail = 0
    <3>1. ret' = NULL /\ Contents' = Contents
      BY <1>3, <2>1, <1>u DEF Pop, ring
    <3>2. Contents = <<>>
      BY <2>1, ContentsSeq
    <3> QED
      BY <3>1, <3>2 DEF Fifo!FifoNext, Fifo!Pop
  <2>2. CASE nr_avail # 0
    <3>1. ret' = Head(Contents) /\ Contents' = Tail(Contents)
      BY <1>3, <2>2, PopTakesHead
    <3>2. Contents # <<>>
      BY <2>2, ContentsSeq
    <3> QED
      BY <3>1, <3>2 DEF Fifo!FifoNext, Fifo!Pop
  <2> QED
    BY <2>1, <2>2
<1>4. CASE DestroyBegin
  BY <1>4, <1>u DEF DestroyBegin, Fifo!fifoVars
<1>5. CASE DestroyCell
  BY <1>5, <1>u DEF DestroyCell, Fifo!fifoVars
<1>6. CASE UNCHANGED vars
  BY <1>6, <1>u DEF vars, Fifo!fifoVars
<1> QED
  BY <1>1, <1>2, <1>3, <1>4, <1>5, <1>6 DEF Next

\* The ring implements the bounded FIFO queue, for every ring size and every
\* set of elements.
THEOREM PoolIsFifo == Spec => ImplementsFifo
<1>1. Init => Fifo!FifoInit
  BY DEF Init, Fifo!FifoInit, Contents, Success, Fifo!Success
<1>2. Init => FreshInv
  BY DEF Init, FreshInv
<1> QED
  BY <1>1, <1>2, TypeCorrect, RingCorrect, FreshInvStep, StepRefines, PTL
     DEF Spec, ImplementsFifo, Fifo!FifoSpec
=============================================================================
