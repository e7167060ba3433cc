-------------------------------- MODULE Aiom --------------------------------
(***************************************************************************)
(* One asynchronous I/O thread of micbench-io: do_async_io, the AIO        *)
(* manager it drives (mb_aiom_t) and the kernel side of the two engines,   *)
(* libaio and io_uring.                                                    *)
(*                                                                         *)
(* A control block (aiom_cb_t) travels  cbpool -> pending -> kernel ->     *)
(* completion queue -> cbpool.  The pool is the bounded FIFO that ResPool  *)
(* implements.  The kernel and the device are external: they complete the  *)
(* accepted requests in any order, at any time.                            *)
(***************************************************************************)
EXTENDS Integers, Sequences, FiniteSets, Functions, IoOffsets

CONSTANTS
    Options,    \* the option records to start from
    NrEvents,   \* option.aio_nr_events
    Garbage,    \* what malloc(3) may leave in aiom->iowait
    NULL,       \* the null pointer
    ThreadId,   \* th_arg->id
    MaxIO       \* bound: no new round once this many I/Os are submitted

ASSUME AiomAssumption ==
    /\ NrEvents \in Nat \ {0}
    /\ MaxIO \in Nat
    /\ Garbage \subseteq Nat
    /\ NULL \notin 1 .. NrEvents /\ NULL # -1
    /\ ThreadId \in Nat
    /\ \A o \in Options : OptionOK(o)

VARIABLES
    option,         \* the global option record, read-only after parse_args
    pc,             \* where do_async_io is
    expired,        \* option.timeout seconds have passed since start_tv
    file_idx,       \* do_async_io's file_idx
    ofst,           \* ofst_list
    cbpool,         \* aiom->cbpool, the oldest control block first
    ret,            \* what the last pool operation returned
    cbs,            \* what each control block says of its request
    pending,        \* aiom->pending[0 .. nr_pending - 1]
    kernel,         \* requests the kernel has accepted and not completed
    cq,             \* completed requests that the thread has not fetched
    events,         \* fetched completions that the loop has still to handle
    left,           \* completions __mb_aiom_wait has still to wait for (io_uring)
    nr_inflight,    \* aiom->nr_inflight
    iocount,        \* aiom->iocount
    iowait,         \* aiom->iowait, each I/O counting for one unit of time
    meter,          \* the thread's meter_t
    submitted       \* history: requests accepted by the kernel so far

walk  == <<file_idx, ofst>>
pool  == <<cbpool, ret>>
queue == <<kernel, cq>>
count == <<nr_inflight, iocount, iowait>>
vars  == <<option, pc, expired, walk, pool, cbs, pending, queue, events, left,
           count, meter, submitted>>

Pool == INSTANCE BoundedFifo
            WITH Elems <- 1 .. NrEvents, Capacity <- NrEvents, queue <- cbpool

\* Control blocks, named by the order in which mb_aiom_make allocates them
Cbs == 1 .. NrEvents

\* A request as the kernel sees it, with the control block it comes back with
Request(cb, f, a) == [cb |-> cb, file |-> f, addr |-> a]

Libaio == option.aio_engine = "libaio"
IoUring == option.aio_engine = "io_uring"
-----------------------------------------------------------------------------
Init ==
    /\ option \in {o \in Options : OffsetsAccepted(o)}
    /\ pc = "setup" /\ expired = FALSE
    /\ file_idx = 0 /\ ofst = [f \in FilesOf(option) |-> 0]
    /\ cbpool = <<>> /\ ret = Pool!Success
    /\ cbs = [cb \in Cbs |-> [file |-> 0, addr |-> 0]]
    /\ pending = <<>> /\ kernel = {} /\ cq = <<>> /\ events = <<>> /\ left = 0
    /\ nr_inflight = 0 /\ iocount = 0 /\ iowait = 0
    /\ meter = [count |-> 0, iowait_time |-> 0]
    /\ submitted = 0

\* exit(EXIT_FAILURE), from any thread and any depth, ends the process.
Exit ==
    /\ pc' = "exit"
    /\ UNCHANGED <<option, expired, walk, pool, cbs, pending, queue, events, left,
                   count, meter, submitted>>

\* mb_aiom_make: every control block in the pool, counters at zero, iowait
\* as malloc left it; then the offset lists.
Setup ==
    /\ pc = "setup"
    /\ option.read \/ option.write
    /\ cbpool' = [i \in 1 .. NrEvents |-> i]
    /\ ret' = Pool!Success
    /\ iowait' \in Garbage
    /\ nr_inflight' = 0 /\ iocount' = 0 /\ pending' = <<>>
    /\ file_idx' = 0
    /\ ofst' = [f \in FilesOf(option) |->
                   IF option.pattern = "SEQ" THEN SeqStart(option, f, ThreadId)
                                             ELSE OfstMin(option)]
    /\ pc' = "loop"
    /\ UNCHANGED <<option, expired, cbs, queue, events, left, meter, submitted>>

\* do_async_io refuses a mixed read/write run
MixRefused == pc = "setup" /\ ~(option.read \/ option.write) /\ Exit

\* io_setup, io_uring_queue_init or a registration of io_uring fails
SetupFails == pc = "setup" /\ Exit

\* while (mb_elapsed_time_from(&start_tv) < option.timeout)
CheckTimeout ==
    /\ pc = "loop"
    /\ expired \/ submitted < MaxIO
    /\ pc' = IF expired THEN "waitall" ELSE "fill"
    /\ UNCHANGED <<option, expired, walk, pool, cbs, pending, queue, events, left,
                   count, meter, submitted>>

\* Mutant of Prep: mb_aiom_nr_submittable is not asked first.
PrepUnchecked(f, b) ==
    /\ pc = "fill"
    /\ f = NextFile(option, file_idx) /\ b = SeqStep(option, f, ofst[f])
    /\ file_idx' = f
    /\ ofst' = [ofst EXCEPT ![f] = b]
    /\ Pool!Pop
    /\ cbs' = [cbs EXCEPT ![ret'] = [file |-> f, addr |-> Addr(option, b)]]
    /\ pending' = Append(pending, Request(ret', f, Addr(option, b)))
    /\ UNCHANGED <<option, pc, expired, queue, events, left, count, meter, submitted>>

\* Mutant of Prep: the control block is used but stays in the pool.
PrepPeek(f, b) ==
    /\ pc = "fill" /\ Len(cbpool) > 0
    /\ f = NextFile(option, file_idx) /\ b = SeqStep(option, f, ofst[f])
    /\ file_idx' = f
    /\ ofst' = [ofst EXCEPT ![f] = b]
    /\ ret' = Head(cbpool) /\ UNCHANGED cbpool
    /\ cbs' = [cbs EXCEPT ![ret'] = [file |-> f, addr |-> Addr(option, b)]]
    /\ pending' = Append(pending, Request(ret', f, Addr(option, b)))
    /\ UNCHANGED <<option, pc, expired, queue, events, left, count, meter, submitted>>

\* One turn of the inner loop: choose a file and a block, take a control
\* block, prepare the request (mb_aiom_prep_pread or _pwrite) and queue it.
\* With io_uring the request goes to an SQE and the iocb is not filled in.
Prep(f, b) ==
    /\ pc = "fill" /\ Len(cbpool) > 0
    /\ IF option.pattern = "RAND"
       THEN b \in RandRange(OfstMin(option), OfstMax(option, f))
       ELSE f = NextFile(option, file_idx) /\ b = SeqStep(option, f, ofst[f])
    /\ file_idx' = f
    /\ ofst' = [ofst EXCEPT ![f] = b]
    /\ Pool!Pop
    /\ cbs' = [cbs EXCEPT ![ret'] =
                  [file |-> f, addr |-> IF Libaio THEN Addr(option, b) ELSE 0]]
    /\ pending' = Append(pending, Request(ret', f, Addr(option, b)))
    /\ UNCHANGED <<option, pc, expired, queue, events, left, count, meter, submitted>>

Blocks == UNION {RandRange(OfstMin(option), OfstMax(option, f))
                    \cup {SeqStep(option, f, ofst[f])} : f \in FilesOf(option)}

\* Mutant of Submit: nr_pending is not reset.
SubmitKeepsPending ==
    /\ pc = "fill" /\ Len(cbpool) = 0
    /\ kernel' = kernel \cup Range(pending)
    /\ nr_inflight' = nr_inflight + Len(pending)
    /\ submitted' = submitted + Len(pending)
    /\ pc' = "wait"
    /\ UNCHANGED <<option, expired, walk, pool, cbs, pending, cq, events, left,
                   iocount, iowait, meter>>

\* mb_aiom_submit, called when no control block is left in the pool
Submit ==
    /\ pc = "fill" /\ Len(cbpool) = 0
    /\ kernel' = kernel \cup Range(pending)
    /\ nr_inflight' = nr_inflight + Len(pending)
    /\ submitted' = submitted + Len(pending)
    /\ pending' = <<>>
    /\ pc' = "wait"
    /\ UNCHANGED <<option, expired, walk, pool, cbs, cq, events, left, iocount,
                   iowait, meter>>

\* The kernel took fewer requests than it was handed, or none.
SubmitFails == pc = "fill" /\ Len(cbpool) = 0 /\ pending # <<>> /\ Exit

\* Mutant of Wait: libaio completions are not taken off nr_inflight.
WaitKeepsInFlight(min_nr, next) ==
    /\ Libaio
    /\ \E n \in min_nr .. nr_inflight :
          /\ n <= Len(cq)
          /\ events' = SubSeq(cq, 1, n)
          /\ cq' = SubSeq(cq, n + 1, Len(cq))
          /\ iocount' = iocount + n
    /\ pc' = next
    /\ UNCHANGED <<option, expired, walk, pool, cbs, pending, kernel, left,
                   nr_inflight, iowait, meter, submitted>>

\* Mutant of Wait: one I/O is counted per call, however many were fetched.
WaitCountsCalls(min_nr, next) ==
    /\ Libaio
    /\ \E n \in min_nr .. nr_inflight :
          /\ n <= Len(cq)
          /\ events' = SubSeq(cq, 1, n)
          /\ cq' = SubSeq(cq, n + 1, Len(cq))
          /\ nr_inflight' = nr_inflight - n
    /\ iocount' = iocount + 1
    /\ pc' = next
    /\ UNCHANGED <<option, expired, walk, pool, cbs, pending, kernel, left, iowait,
                   meter, submitted>>

\* __mb_aiom_wait up to its loop.  libaio: io_getevents blocks for min_nr
\* completions and fetches up to nr_inflight of them, which are counted at
\* once.  io_uring: the loop will wait for min_nr completions, one by one;
\* neither nr_inflight nor iocount is touched.
Wait(min_nr, next) ==
    /\ \/ /\ Libaio
          /\ \E n \in min_nr .. nr_inflight :
                /\ n <= Len(cq)
                /\ events' = SubSeq(cq, 1, n)
                /\ cq' = SubSeq(cq, n + 1, Len(cq))
                /\ nr_inflight' = nr_inflight - n
                /\ iocount' = iocount + n
          /\ UNCHANGED left
       \/ /\ IoUring
          /\ left' = min_nr
          /\ UNCHANGED <<events, cq, nr_inflight, iocount>>
    /\ pc' = next
    /\ UNCHANGED <<option, expired, walk, pool, cbs, pending, kernel, iowait, meter,
                   submitted>>

\* mb_aiom_wait
WaitOne == pc = "wait" /\ Wait(1, "reap")

\* Mutant of WaitAll: what is there is fetched, without waiting.
WaitAllPolls == pc = "waitall" /\ Wait(0, "reapall")

\* mb_aiom_waitall
WaitAll == pc = "waitall" /\ Wait(nr_inflight, "reapall")

\* io_getevents fails (a signal arrives while it waits, for one)
WaitFails == pc \in {"wait", "waitall"} /\ Libaio /\ Exit

\* Mutant of Reap: the loop does not move on to the next event.
ReapSameEvent ==
    /\ pc \in {"reap", "reapall"}
    /\ Libaio /\ events # <<>>
    /\ Pool!Push(Head(events).cb)
    /\ iowait' = iowait + 1
    /\ UNCHANGED <<option, pc, expired, walk, cbs, pending, queue, events, left,
                   nr_inflight, iocount, meter, submitted>>

\* One turn of the loop of __mb_aiom_wait: take a completion, add its
\* latency, give the control block back to the pool.  The answer of
\* mb_res_pool_push is not looked at, nor is the result of the I/O beyond a
\* message.
Reap ==
    /\ pc \in {"reap", "reapall"}
    /\ \/ /\ Libaio /\ events # <<>>
          /\ Pool!Push(Head(events).cb)
          /\ events' = Tail(events)
          /\ UNCHANGED <<cq, left>>
       \/ /\ IoUring /\ left > 0 /\ cq # <<>>
          /\ Pool!Push(Head(cq).cb)
          /\ cq' = Tail(cq)
          /\ left' = left - 1
          /\ UNCHANGED events
    /\ iowait' = iowait + 1
    /\ UNCHANGED <<option, pc, expired, walk, cbs, pending, kernel, nr_inflight,
                   iocount, meter, submitted>>

\* io_uring_wait_cqe fails
ReapFails == pc \in {"reap", "reapall"} /\ IoUring /\ left > 0 /\ Exit

\* __mb_aiom_wait returns, to the main loop or to the end of do_async_io
ReapDone ==
    /\ pc \in {"reap", "reapall"}
    /\ events = <<>> /\ left = 0
    /\ pc' = IF pc = "reap" THEN "loop" ELSE "meter"
    /\ UNCHANGED <<option, expired, walk, pool, cbs, pending, queue, events, left,
                   count, meter, submitted>>

\* The thread reports its counters.
Report ==
    /\ pc = "meter"
    /\ meter' = [count |-> iocount, iowait_time |-> iowait]
    /\ pc' = "destroy"
    /\ UNCHANGED <<option, expired, walk, pool, cbs, pending, queue, events, left,
                   count, submitted>>

\* mb_aiom_destroy: the kernel context goes, then every control block found
\* in the pool is freed.
Destroy ==
    /\ pc = "destroy"
    /\ cbpool' = <<>> /\ ret' = NULL
    /\ pc' = "done"
    /\ UNCHANGED <<option, expired, walk, cbs, pending, queue, events, left, count,
                   meter, submitted>>

\* External: the device completes a request.
Complete(r) ==
    /\ r \in kernel
    /\ kernel' = kernel \ {r}
    /\ cq' = Append(cq, r)
    /\ UNCHANGED <<option, pc, expired, walk, pool, cbs, pending, events, left, count,
                   meter, submitted>>

\* External: the clock passes option.timeout.
Expire ==
    /\ ~expired
    /\ expired' = TRUE
    /\ UNCHANGED <<option, pc, walk, pool, cbs, pending, queue, events, left, count,
                   meter, submitted>>

Thread ==
    \/ Setup
    \/ MixRefused
    \/ CheckTimeout
    \/ \E f \in FilesOf(option), b \in Blocks : Prep(f, b)
    \/ Submit
    \/ WaitOne
    \/ WaitAll
    \/ Reap
    \/ ReapDone
    \/ Report
    \/ Destroy

Fail == SetupFails \/ SubmitFails \/ WaitFails \/ ReapFails

Next == Thread \/ Fail \/ (\E r \in kernel : Complete(r)) \/ Expire

\* The thread runs while it can, the clock does not stop, and the device
\* completes every request it has accepted.
Fairness ==
    /\ WF_vars(Thread)
    /\ WF_vars(Expire)
    /\ \A c \in Cbs : WF_vars(\E r \in kernel : r.cb = c /\ Complete(r))

Spec == Init /\ [][Next]_vars /\ Fairness
-----------------------------------------------------------------------------
Requests == [cb : Cbs, file : Nat, addr : Int]

TypeOK ==
    /\ option \in Options
    /\ pc \in {"setup", "loop", "fill", "wait", "reap", "waitall", "reapall",
              "meter", "destroy", "done", "exit"}
    /\ expired \in BOOLEAN
    /\ file_idx \in FilesOf(option)
    /\ ofst \in [FilesOf(option) -> Int]
    /\ cbpool \in Seq(Cbs)
    /\ ret \in Cbs \cup {NULL, Pool!Success, Pool!Failure}
    /\ cbs \in [Cbs -> [file : Nat, addr : Int]]
    /\ pending \in Seq(Requests)
    /\ kernel \in SUBSET Requests
    /\ cq \in Seq(Requests)
    /\ events \in Seq(Requests)
    /\ left \in Nat
    /\ nr_inflight \in Nat /\ iocount \in Nat /\ iowait \in Nat
    /\ meter \in [count : Nat, iowait_time : Nat]
    /\ submitted \in Nat

CbsOf(requests) == {r.cb : r \in requests}

\* The places where a control block can be while the manager exists
InPool == Range(cbpool)
Queued == CbsOf(Range(pending))
InKernel == CbsOf(kernel)
Completed == CbsOf(Range(cq))
Fetched == CbsOf(Range(events))

\* A control block is in exactly one place: it is never prepared for a new
\* request (which would overwrite the buffer and the iocb the kernel works
\* on) while an earlier one is queued, in flight or being handled, never put
\* twice in the pool, and never lost.
CbOwnership ==
    pc \notin {"setup", "done", "exit"} =>
        /\ Cbs = InPool \cup Queued \cup InKernel \cup Completed \cup Fetched
        /\ Len(cbpool) + Len(pending) + Cardinality(kernel) + Len(cq) + Len(events)
              = NrEvents

\* What the log line of an I/O is made from, the control block, still says
\* what the kernel was asked to do, until the completion is handled.  With
\* io_uring only the file is kept in the control block.
InFlightIntact ==
    \A r \in Range(pending) \cup kernel \cup Range(cq) \cup Range(events) :
        /\ cbs[r.cb].file = r.file
        /\ Libaio => cbs[r.cb].addr = r.addr

\* mb_res_pool_push cannot fail in __mb_aiom_wait, which ignores its answer:
\* a refused control block would be lost.
PushNeverRefused == ret # Pool!Failure

\* nr_inflight, from which mb_aiom_wait and mb_aiom_waitall take how many
\* completions to ask for, is what the kernel still owes (libaio).
InFlightCount ==
    Libaio /\ pc # "exit" => nr_inflight = Cardinality(kernel) + Len(cq)

\* When the AIO manager is destroyed the kernel is working on none of its
\* buffers and the pool holds every control block, so that all are freed.
QuietAtDestroy ==
    pc = "destroy" => kernel = {} /\ cq = <<>> /\ Len(cbpool) = NrEvents

\* A thread that ends reports exactly the I/Os that it issued (libaio).
AllCounted == Libaio /\ pc = "done" => meter.count = submitted

\* The reported I/O time is the sum of the latencies of those I/Os.
IowaitAccounted == pc = "done" => meter.iowait_time = submitted

\* The measurement ends: once the time is over every thread drains its I/O
\* and returns (or the process exits with an error).
Terminates == <>(pc \in {"done", "exit"})

\* The same of the libaio engine: mb_aiom_waitall asks for as many completions
\* as are owed, so io_getevents returns.
LibaioTerminates == Libaio ~> (pc \in {"done", "exit"})
=============================================================================
