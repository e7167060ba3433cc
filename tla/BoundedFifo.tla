---------------------------- MODULE BoundedFifo ----------------------------
(***************************************************************************)
(* What a resource pool (mb_res_pool_t) promises its clients: a first-in   *)
(* first-out queue of at most Capacity elements.  A push on a full pool    *)
(* answers -1, a pop on an empty one answers NULL, and neither changes the *)
(* contents.                                                               *)
(***************************************************************************)
EXTENDS Integers, Sequences

CONSTANTS
    Elems,      \* what the clients put in the pool (void * in the code)
    NULL,       \* the null pointer
    Capacity    \* nr_elems

VARIABLES
    queue,      \* the elements in the pool, the oldest first
    ret         \* what the last call returned

fifoVars == <<queue, ret>>

Success == 0    \* mb_res_pool_push on success
Failure == -1   \* mb_res_pool_push on a full pool

FifoInit == queue = <<>> /\ ret = Success

Push(e) ==
    IF Len(queue) = Capacity
    THEN ret' = Failure /\ UNCHANGED queue
    ELSE ret' = Success /\ queue' = Append(queue, e)

Pop ==
    IF queue = <<>>
    THEN ret' = NULL /\ UNCHANGED queue
    ELSE ret' = Head(queue) /\ queue' = Tail(queue)

FifoNext == Pop \/ \E e \in Elems : Push(e)

FifoSpec == FifoInit /\ [][FifoNext]_fifoVars

FifoTypeOK ==
    /\ queue \in Seq(Elems)
    /\ Len(queue) <= Capacity
    /\ ret \in Elems \cup {NULL, Success, Failure}
=============================================================================
