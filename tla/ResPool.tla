------------------------------ MODULE ResPool ------------------------------
(***************************************************************************)
(* The resource pool of micbench-io.c (mb_res_pool_make, _push, _pop and   *)
(* _destroy): a ring of NrElems linked cells, `head' at the oldest element *)
(* and `tail' at the newest, used by the AIO manager to keep its control   *)
(* blocks.  It is shown to implement BoundedFifo.                          *)
(*                                                                         *)
(* Cells are named by their distance, along `next', from the cell that     *)
(* mb_res_pool_make leaves in pool->ring.                                  *)
(***************************************************************************)
EXTENDS Integers, Sequences

CONSTANTS Elems, NULL, NrElems

\* mb_res_pool_make(0) dereferences a null tail (micbench-io.c:432): the
\* pool exists for a positive number of cells only.
ASSUME PoolAssumption ==
    /\ NrElems \in Nat \ {0}
    /\ NULL \notin Elems

VARIABLES
    phase,      \* where the pool is in its life
    head,       \* pool->head
    tail,       \* pool->tail
    nr_avail,   \* pool->nr_avail
    data,       \* cell->data, for each cell
    ret,        \* what the last push or pop returned
    cell,       \* the loop variable of mb_res_pool_destroy
    freed       \* how many times each cell has been given to free(3)

ring == <<head, tail, nr_avail, data>>
vars == <<phase, head, tail, nr_avail, data, ret, cell, freed>>

Cells == 0 .. NrElems - 1

\* pool->ring, which no operation moves after mb_res_pool_make
Ring == 0

\* cell->next.  The cells are chained as they are allocated and the last of
\* the chain, pool->tail, is then closed on pool->head.
Link(c) == IF c = NrElems - 1 THEN Ring ELSE c + 1

Phases == {"none", "live", "freeing", "gone"}

Success == 0
Failure == -1
-----------------------------------------------------------------------------
\* No pool yet: the fields hold what mb_res_pool_make is about to store.
Init ==
    /\ phase = "none"
    /\ head = Ring /\ tail = NrElems - 1 /\ nr_avail = 0
    /\ data = [c \in Cells |-> NULL]
    /\ ret = Success
    /\ cell = Ring
    /\ freed = [c \in Cells |-> 0]

\* mb_res_pool_make: an empty ring, head on the first cell of the chain and
\* tail on the last, so that the first push lands on head.
Make ==
    /\ phase = "none"
    /\ phase' = "live"
    /\ head' = Ring /\ tail' = NrElems - 1 /\ nr_avail' = 0
    /\ data' = [c \in Cells |-> NULL]
    /\ UNCHANGED <<ret, cell, freed>>

\* Mutant of Push: the full pool is not refused.
PushUnchecked(e) ==
    /\ phase = "live"
    /\ tail' = Link(tail)
    /\ data' = [data EXCEPT ![Link(tail)] = e]
    /\ nr_avail' = nr_avail + 1
    /\ ret' = Success
    /\ UNCHANGED <<phase, head, cell, freed>>

\* Mutant of Push: the element is stored before the tail moves on.
PushBeforeAdvance(e) ==
    /\ phase = "live"
    /\ nr_avail < NrElems
    /\ data' = [data EXCEPT ![tail] = e]
    /\ tail' = Link(tail)
    /\ nr_avail' = nr_avail + 1
    /\ ret' = Success
    /\ UNCHANGED <<phase, head, cell, freed>>

\* mb_res_pool_push: refused when every cell is taken; otherwise the tail
\* moves on before the element is stored.
Push(e) ==
    /\ phase = "live"
    /\ IF nr_avail = NrElems
       THEN /\ ret' = Failure
            /\ UNCHANGED ring
       ELSE /\ tail' = Link(tail)
            /\ data' = [data EXCEPT ![Link(tail)] = e]
            /\ nr_avail' = nr_avail + 1
            /\ ret' = Success
            /\ UNCHANGED head
    /\ UNCHANGED <<phase, cell, freed>>

\* Mutant of Pop: the newest element is answered instead of the oldest.
PopNewest ==
    /\ phase = "live"
    /\ nr_avail > 0
    /\ ret' = data[tail]
    /\ head' = Link(head)
    /\ nr_avail' = nr_avail - 1
    /\ UNCHANGED <<phase, tail, data, cell, freed>>

\* mb_res_pool_pop: the cell keeps its stale data pointer.
Pop ==
    /\ phase = "live"
    /\ IF nr_avail = 0
       THEN /\ ret' = NULL
            /\ UNCHANGED ring
       ELSE /\ ret' = data[head]
            /\ head' = Link(head)
            /\ nr_avail' = nr_avail - 1
            /\ UNCHANGED <<tail, data>>
    /\ UNCHANGED <<phase, cell, freed>>

\* Mutant of DestroyBegin: the walk starts at pool->head.
DestroyFromHead ==
    /\ phase = "live"
    /\ phase' = "freeing"
    /\ cell' = head
    /\ UNCHANGED <<head, tail, nr_avail, data, ret, freed>>

\* mb_res_pool_destroy starts its walk at pool->ring, wherever head is.
DestroyBegin ==
    /\ phase = "live"
    /\ phase' = "freeing"
    /\ cell' = Ring
    /\ UNCHANGED <<head, tail, nr_avail, data, ret, freed>>

\* One turn of the loop: read next, free the cell, and leave the loop (and
\* free the pool) when next is where the walk began.
DestroyCell ==
    /\ phase = "freeing"
    /\ freed' = [freed EXCEPT ![cell] = @ + 1]
    /\ cell' = Link(cell)
    /\ phase' = IF Link(cell) = Ring THEN "gone" ELSE "freeing"
    /\ UNCHANGED <<head, tail, nr_avail, data, ret>>

Next ==
    \/ Make
    \/ \E e \in Elems : Push(e)
    \/ Pop
    \/ DestroyBegin
    \/ DestroyCell

Spec == Init /\ [][Next]_vars
-----------------------------------------------------------------------------
\* The cell k links after head.
At(k) == IF head + k < NrElems THEN head + k ELSE head + k - NrElems

\* The refinement mapping: the nr_avail cells from head, in link order.
Contents == [i \in 1 .. nr_avail |-> data[At(i - 1)]]

Fifo == INSTANCE BoundedFifo WITH Capacity <- NrElems, queue <- Contents

TypeOK ==
    /\ phase \in Phases
    /\ head \in Cells
    /\ tail \in Cells
    /\ nr_avail \in 0 .. NrElems
    /\ data \in [Cells -> Elems \cup {NULL}]
    /\ ret \in Elems \cup {NULL, Success, Failure}
    /\ cell \in Cells
    /\ freed \in [Cells -> Nat]

\* The two pointers and the counter, which push and pop update separately,
\* agree: tail is the last of the nr_avail cells from head (the cell behind
\* head when there is none), and each of those cells holds an element that a
\* client pushed, never the NULL that pop uses to say the pool is empty.
RingInv ==
    /\ Link(tail) = IF nr_avail = NrElems THEN head ELSE At(nr_avail)
    /\ \A k \in 0 .. nr_avail - 1 : data[At(k)] \in Elems

\* mb_res_pool_destroy gives each cell to free(3) exactly once, however far
\* pushes and pops have rotated head and tail: never a second time, and none
\* is left when it returns.
CellsFreedOnce ==
    /\ \A c \in Cells : freed[c] <= 1
    /\ phase = "gone" => \A c \in Cells : freed[c] = 1

\* The ring of cells is a bounded FIFO queue: every push, pop, refusal and
\* return value of the code is one that BoundedFifo allows.
ImplementsFifo == Fifo!FifoSpec
=============================================================================
