# A verification project for micbench

micbench is a set of benchmark programs behind a Ruby front end. What it prints
is only worth something if the measured loops do what they say: issue every I/O
where the options put it, count it once, stop in time, and add up the counts of
all threads. The TLA+ modules here model the programs from the command line to
the result, TLC checks them on small instances, and TLAPS proves the results
that matter most for every size.

## The system

| component | state | operations | interacts with |
|---|---|---|---|
| resource pool (`mb_res_pool_*`, micbench-io.c) | a ring of cells, `head`, `tail`, `nr_avail` | make, push, pop, destroy | the AIO manager keeps its control blocks in it |
| AIO manager (`mb_aiom_*`) | pool, `pending`, `nr_pending`, `nr_inflight`, `iocount`, `iowait` | make, prep, submit, wait, waitall, destroy | driven by `do_async_io`; hands requests to the kernel (libaio or io_uring) |
| `do_async_io` | file index, offset list, meter | fill, submit, wait, drain, report | the AIO manager, offset handling |
| `do_sync_io` with `mb_readall` and its kin | file index, offset list, side list, `io_count` | a batch of 100 I/Os between two looks at the clock | read/write/pread/pwrite, offset handling |
| offset handling (in both loops and `parse_args`) | none (pure) | window, first block, next block, random block, address | |
| micbench-io main and output | threads, meters, the list of files of the JSON output | parse, create, join, sum, print | the front end before it, all threads |
| activity log (`mb_log_io_activity`) | a static buffer, `logcount`, `log_start_usec` | test, set, format, put, count | every thread that has done an I/O |
| micbench-btreplay | an asynchronous queue, a stop flag, one file offset and `endpos` per worker | push records, push stops, pop, seek, read/write, join | main, workers and monitor share the queue and the flag |
| micbench-mem | memory regions, a barrier, a counter per thread | link, shuffle, check, measure, sum | threads meet at the barrier and, without `-L`, share the region |
| micbench-lock, micbench-proto | a barrier (lock only), a lock, a counter per thread | lock, unlock, fence, join, print | threads share the lock |
| affinity (`mb_parse_affinity`, `mb_affinity_to_string`) | a CPU mask and a node mask | bitmap to mask, mask to ranges | written by the front end, read by every program |
| front end (Ruby) | options | affinity descriptions, checks, the command line | starts the programs |
| blktrace header | | a record layout | |

What is hard here: completions that arrive in any order and amount while the
same control blocks are recycled; counters kept beside what the kernel holds;
short transfers, end of file and errors inside retry loops that the timeout
cannot interrupt; requests and stop messages on one queue with many consumers;
a cached file offset; an in-place shuffle of a ring of pointers, concurrently
if the region is shared; a barrier that waits for threads, and joins of threads,
whose creation nobody checks; a log buffer that all threads share without a
lock; counters written by formulas of their own and ordered only by the joins;
bounds that one program keeps for another. `PROJECT.json` lists each hazard at
its line.

## Modules

Abstract specifications:

**`BoundedFifo`** is what a pool promises: push on a full pool answers -1, pop on
an empty one NULL, otherwise first in, first out.

**`ForkJoin`** is what a multi-threaded benchmark promises: workers work and
finish; a result is the work of all of them, taken when none is left; a benchmark
that is broken off has no result. `IoMain` and `ThreadBench` are both shown to
implement it.

Detailed ones:

**`ResPool`** is the pool as written. Cells are numbered along `next` from
`pool->ring`, so `Link` is the `next` field; `Make`, `Push`, `Pop` are the
functions, and `DestroyBegin`/`DestroyCell` are the loop of
`mb_res_pool_destroy`, with `freed` counting calls of `free`. The refinement
mapping `Contents` reads `nr_avail` cells from `head`.

**`IoOffsets`** holds the offset computations as operators on the option record.
`RandRange` is what `mb_rand_range_long` can return, including the truncation
towards zero of a negative sum and the rounding of doubles: `drand48` comes within
2^-48 of 1, a double has 53 bits, and so the sum is rounded up to the upper bound
when the range is narrow against it (`Narrow`; `32 .. 33` is the least example).

**`Aiom`** is one `do_async_io` thread with its AIO manager and the kernel. A
control block moves from `cbpool` to `pending` (`Prep`), to `kernel`
(`Submit`), to `cq` (`Complete`, the device) and back (`Wait`, `Reap`). The pool
is an instance of `BoundedFifo`, which `ResPool` implements. `pc` follows the
function: `setup`, `loop` (the clock is read), `fill`, `wait`, `reap`, and after
the timeout `waitall`, `reapall`, `meter`, `destroy`. Both engines are in it: the
io_uring branch of `__mb_aiom_wait` fetches completions one by one and updates no
counter, as in the source. Each error path of the code is an action that ends the
process.

**`SyncIo`** is one `do_sync_io` thread. `ChooseRand`, `ChooseSeq` and
`ChooseSeekdist` are the three loops (there is none for SEEKINCR, and such a
thread reports at once); `SequentialIO` is one turn of `mb_readall` or
`mb_writeall`, `PositionedIO` the single call of the positioned ones. A read at
the end of the file makes no progress, which the model shows as no step.
`last`, `seen`, `whole` and `accesses` are history.

**`FrontEnd`** is the `io` command of the Ruby front end: affinity descriptions
(after the regular expressions) to bitmaps, offsets in bytes to blocks, the
checks, and the command line of micbench-io.

**`Affinity`** takes the bitmaps to masks and the masks to printed ranges. The
widths of `cpu_set_t`, `int` and `long` are constants, because a node mask is
built by shifting an `int`.

**`IoMain`** composes `FrontEnd`, `Affinity` and the offset checks of `IoOffsets`
with the main thread of micbench-io, its threads and the log. A thread here does
one I/O after the other (`SyncIo` and `Aiom` say what that is), each followed by
the accesses of `mb_log_io_activity` to its static variables, one step each.
`sprintf` stores a line character by character up to its NUL (`LogWrite`), lines differ
in length, and `fputs` takes whatever stands before the first NUL of the buffer
(`BufText`): with several threads that may be parts of several lines, with one line
end, two or none. A character is known by the line it belongs to and its place there.
`AddFile` is one turn of the loop that
builds the list of files of the JSON output in a buffer that it doubles.

**`BenchMain`** is the main thread that micbench-mem, micbench-lock and
micbench-proto have in common, by copy; an affinity that `mb_parse_affinity` answers
with NULL is one of the refused arguments. **`MemBench`** has the threads of
micbench-mem: a region is an array of cache lines holding line numbers, and each
store of the shuffle is a step, the two of `swap_long` included, so that threads
sharing a region interleave between them. That is a part of what the data race of the shared case may do, and
enough for what is said of that case. **`LockBench`** has the threads of the other
two. The row of increments and fences that the Makefile generates (`GeneratedRow`) and
the 128 that the thread counts for it (`JobOps`) are apart in it, as they are in the
source. **`ThreadBench`** puts the three together: a behaviour is a run of one of the
programs, as its option record says.

**`Btreplay`** has the main thread, `Multi` workers and the monitor of
micbench-btreplay. Records are numbered by their place in the dump; `pos` is the
real file offset of a worker, `endpos` the one it believes in. The creation of the
monitor is not checked: if it fails, main joins what it finds in its variable, and the
join returns an error or crashes.

The `MC*` modules only give values to constants. The theorems are in `ResPoolProofs`,
`AiomProofs`, `BtreplayProofs`, `SyncIoProofs`, `IoMainProofs` and `ThreadBenchProofs`,
the lemmas that several of them need in `SumProofs` and `BenchLemmas`.

Left out throughout: memory exhaustion, the text of messages, time stamps (the
clock is a flag that turns true once, or a bound on the I/Os in `IoMain`), buffer
contents, and ratios of what was counted to the time. Of the I/O latencies only
the sum is kept, one unit per I/O.

## Runs

| run | instance | what it shows |
|---|---|---|
| `respool` | 3 cells, 3 elements | pointers and counter agree (`RingInv`), destruction frees each cell once (`CellsFreedOnce`), the ring is a bounded FIFO (`ImplementsFifo`) |
| `aiom` | 3 control blocks, 7 I/Os or a few more, both engines, sequential and random | a control block is in one place (`CbOwnership`) and describes its request until handled (`InFlightIntact`); no push is refused; `nr_inflight` is what the kernel owes (libaio); nothing is in flight at destruction; all I/Os are counted and the thread ends (libaio) |
| `aiom_uring` | io_uring only | violated: `Terminates` |
| `aiom_iowait` | libaio, fresh memory zero or not | violated: `IowaitAccounted` |
| `btreplay` | 2 workers, dumps of up to 5 records | each I/O replayed once, stops last, right offsets while no call fails, termination |
| `btreplay_errors` | 1 worker, 2 adjacent reads | violated: `RightPlace` |
| `syncio` | 12 option records, files of 2 to 5 blocks of 2 bytes (33 for the narrow window), batches of 2 | accesses in the window, whole scans, long seeks, files in turn, exact counts, termination; also for windows without a block, or turned round, nothing beyond the end of a file (`NeverBeyondEnd`) |
| `syncio_eof` | misaligned sequential read | violated: `Terminates` |
| `threads` | 2 threads, 4 lines each or whole segments, 2 rounds through a lock, bitmaps of up to 6 CPUs and 2 nodes | the shuffle keeps one ring, nobody measures early, what is put out is what was done (`ImplementsForkJoin`), affinities are printed as given, termination |
| `mem_shared` | 2 threads on 3 lines | violated: `RingCheckHolds` |
| `iomain` | 1 or 2 threads with up to 2 I/Os, with and without log, affinity and failures; refused command lines; dry runs over 576 descriptions of up to 3 threads and 399 lists of up to 3 files | threads run on the CPUs that the description lists (`BoundAsDescribed`), no affinity outside its array, the file list is whole, the log of a single thread is the lines of its I/Os (`LoneLogWhole`), `ImplementsForkJoin`, termination |
| `iomain_log` | 2 threads, 2 I/Os, one log | violated: `EachActivityRecorded` |

Bounds. Three cells are the least at which head, tail and a cell between them
differ; three control blocks let one be in flight, one completed and one free at
once, and seven I/Os make at least three rounds (`MaxIO` stops new rounds, never
a drain). Blocks of two bytes are the least that can be transferred in part;
nine I/Os go round two files more than once. Two workers are enough for one to
be slow while the other takes everything. Four lines are the least at which two
lines and their successors are all different; with fewer only the special cases
of the shuffle occur. `MaxWork` of 1 lets a thread of micbench-mem measure or not
before its time is over.
In `IoMain`, `MaxIO` bounds the I/Os of all threads together: two let a thread log
twice, or two threads once each. Lines of one or two characters before the line end,
in a buffer of 4, leave remains of a longer line behind a shorter one, and the other
way round. The window of blocks 32 up to 33 is the least one in which a random number is
rounded up to its end. Masks are a few bits wide, wider than the machine of
the instance, so that ids within, at and beyond each width occur. The file list
starts with a buffer of 4 as in the source, and names of up to 7 characters make
it grow by none, one or several doublings, and fit by one character or miss by one.

Several properties are stated for what the code gives a meaning to: `Sane` in
`SyncIo` asks for a window that is not empty, aligned blocks, a stride that
fits it and, for the random patterns, ranges that are not narrow against their place; the dumps of `btreplay` read within the target; `Terminates` in
`ThreadBench` is for threads that were created and, in random mode, own their
region; `BoundAsDescribed` is for descriptions that name CPUs, in ranges whose ends are in
order (of nodes it says nothing: the front end takes each for one CPU, see below);
`AffinityPrinted` leaves out the last bit of a mask. The runs that are expected to
fail, and the list below them, tell what happens beyond.

### What the failing runs found

1. io_uring: `__mb_aiom_wait` never reduces `nr_inflight` nor counts I/Os, so
   `mb_aiom_waitall` blocks for ever after the timeout.
2. `aiom->iowait` is never initialised, and is reported.
3. btreplay: after a failed I/O the worker believes the offset has moved, skips
   the next seek and does an adjacent request in the wrong place.
4. `mb_readall` spins at the end of a file; a misaligned sequential read reaches
   it with its last block, and the timeout is never looked at again.
5. `micbench mem -R` without `-L`: the threads link and shuffle the one region
   at the same time, and its check fails (or a thread follows a stray pointer).
6. The log of several threads: lines are formatted in one static buffer, so that
   a line may be lost, or put out twice, or be made of pieces of two, and the text put
   out may hold one line end, two or none: not even the number of lines is right.

### Seen while reading

Not stated as properties, but of use to whoever changes the code:

- the front end's `parse_ids` means to put a reversed range in order, and keeps
  only its second end; `$logicores_per_proc` is always 1, so that `nX` means
  CPU X and not the CPUs of node X, as the grammar in its comment says; `-j` is always passed; the `lock` command raises NotImplementedError
  because its class has no `reset_option`;
- `mb_rand_range_long` may answer its upper bound, one block beyond the window of the
  options, when the window is narrow against its offset;
- `__mb_bits_to_string` never prints a run of ones that reaches the last bit;
- micbench-lock and micbench-proto close `args[i].fd`, which they never set;
  micbench-lock prints the mode `unknown` for mfence and checks no negative count;
- `option.size` of micbench-mem is "guaranteed to be multiple of 1024"
  (micbench-mem.c:19) by nothing: for other sizes a sequential round counts fewer
  segments than it reads, and a ring is left open;
- `-t` and `-r` of btreplay are checked and never used.

## Fairness

Each thread is given weak fairness on its steps: the operating system schedules
runnable threads, and every action that is not waiting for another thread or
the kernel is enabled until taken. The clock is weakly fair because time passes;
in `IoMain` the bound on the I/Os stands for it. The barrier opens once everybody
is there. The kernel is weakly fair per control block: a device completes each
accepted request. Locks are not assumed to be fair: a thread may lose every race
for one, until the others have done their part. Nothing is assumed of failures,
which may or may not occur, nor of a `read` at the end of a file, which the code
retries without progress. The deadlock check is off because these programs end
(or, in `ThreadBench`, wait at a barrier for a thread that was never created); the
termination properties say when they must.

## Proofs

Every invariant that a passing run checks, the two action properties of `SyncIo` and
the three refinements are theorems, for every value of the constants. Each proof
module extends the module it is about; where an invariant is not inductive the
proof module defines the one that is, and its conjuncts were checked by TLC on the
instances above before they were proved.

**`ResPoolProofs`**, for every number of cells and every set of elements, from
`PoolAssumption` (at least one cell; NULL is no element):

- `TypeCorrect`: `TypeOK` is inductive.
- `RingCorrect`: `RingInv` is inductive with `TypeOK`. The cells are named by
  the distance `At(k)` from `head`; the lemmas `AtShift`, `AtInjective` and
  `PushCell` say what moving `head` does to the names, that two names are two
  cells, and where a push lands.
- `DestroyCorrect`: `CellsFreedOnce` is not inductive; `FreeInv` adds that while
  the pool is being destroyed exactly the cells before `cell` have been freed.
- `PoolIsFifo`: `ResPool` implements `BoundedFifo`: push appends to `Contents`
  (`PushAppends`), pop takes its head (`PopTakesHead`), everything else leaves
  it alone.

**`AiomProofs`**, for every queue depth, option record, engine and bound, from
`AiomAssumption` (at least one event; NULL is neither a control block nor -1, so
that an empty pool and a refused push can be told from each other):

- `TypeCorrect`: `TypeOK` is inductive, given lemmas on the types of the offset
  operators. It contains that a prepared request always has a control block.
- `CountCorrect`: `AllCounted`, through `CountInv`: with libaio what is counted
  and what is in flight is what was submitted, the drain asks for all that is in
  flight, and the meter is what was counted.
- `ControlBlocksOwned`, `RequestsIntact`, `PushAccepted`, `InFlightCounted` and
  `DestroyedQuiet` come from one inductive invariant, `OwnInv`. `CbOwnership`
  alone is not inductive: that the places cover the control blocks and that their
  lengths add up has to be strengthened to no control block being in two places
  (`Apart`) or twice in one (`Once`). `Phases` says which places are in use in which
  phase, and that `nr_inflight` is what the kernel owes (libaio) or at least that
  (io_uring); from it follows that a drain drains. A push is accepted because a
  control block that is being handled leaves room in the pool (`RoomInPool`).

**`BtreplayProofs`**, for every number of workers, dump and target:

- `ReplayTypes`, `StopsLast`, `Replayed` rest on `ReplayInv`: there is a `k` such that
  the first `k` messages of the queue are the last `k` records fetched, in order, and
  the others are stops (`Backlog`); every record before them is replayed once or in
  the hands of exactly one worker (`Taken`); and main joins in order (`Progress`).
  A worker that is gone makes `k` zero, which is `StopsComeLast`; when all are gone
  nothing is in anybody's hands, which is `ReplayedOnce`.
- `RightPlaced`: `InPlace` says that between two I/Os a worker without an error knows
  its offset (`endpos` is -1 or `pos`), and that an I/O under way is on its way to
  its end.

**`SyncIoProofs`**, for every option record that `parse_args` accepts, and any number
of files, threads and blocks:

- `SyncTypes`; `BlocksInWindow` (for options that are `Sane`: where random numbers are drawn,
  from ranges that are not narrow) and `AccessesInFile` (for all): each of the three ways to choose
  a block gives a `Good` one; the sequential one needs that a scan never is below
  its window (`ScanAbove`), and the rest is arithmetic of `div` and products.
- `ScansWhole` (`ScanSeen`: a scan that has been at the first block has seen all up to
  the last one accessed) and `SeeksLong` (`Sides`: the next side is the other one).
  Both are action properties.
- `FilesTakeTurns` (`Turns`: each file has had `k` accesses, or `k + 1` up to the
  current one), `CountsExact` (`Balance`: the sum over the files is `io_count`, or
  one more while an I/O is under way).

**`IoMainProofs`**, for every set of command lines and every number of threads, from
`IoMainAssumption` (numbers of threads and lengths of names are natural numbers;
affinity descriptions are what the front end's regular expressions let through,
`Descriptions`). The basis is one inductive invariant, `CoreInv`: `Progress` (threads are
created and joined in order: those at or after `i` do not exist yet, those before
it have ended; when there is a result all have, and when the process was left
none is there), `Meters` (a thread that has not begun has counted nothing; one
that has reported says what it has counted), and `NoStrayStore`.

- `IoTypes`, with `Typed`: an I/O that is being logged has been counted.
- `NoStray`: `NoStrayStore`. `parse_args` has no check of its own;
  `FilteredInBounds` shows that every id that the front end passes on is that of a
  thread.
- `ResultIsWork`: `ImplementsForkJoin`. An I/O is `Work`, the end of a thread and
  a failed creation are `Finish`, the sum is `Report` (all threads are joined, and
  the meters are the counts), every way of leaving the process is `Abort`, and
  everything else, the log included, changes nothing that matters to the result.
- `JsonComplete`: `JsonWhole`, from `Listed`: a name is kept only when `snprintf` had
  room for it, and the doubled buffer always has room for bracket and NUL.
- `LoneLogRight`: `LoneLogWhole`. However the threads race, the last cell of the buffer
  is never anything but a NUL (`LogTypes`, with `NextChar`), so that `fputs` always finds a
  text (`TextFound`). For a single thread, `Alone` follows the counter, the line that is
  being made (`Draft`) and the text put out (`Lined`): a line that is complete in the
  buffer is what `fputs` finds there, whatever is behind its NUL (`LinePut`).
- `BoundRight`: `BoundAsDescribed`, which is about descriptions that name CPUs, with the
  ends of their ranges in order, on a machine whose CPUs are all online
  (`AllOnline`: the front end counts the CPUs and numbers them from 0, so that with
  a CPU offline ids beyond the count are dropped). `LastEntry` shows that the mask
  that is stored for a thread comes from the last entry that names it, `BitmapOnes`
  that no bit is lost on the way, and `Bound` that the thread is bound to it.

**`ThreadBenchProofs`**, for every number of threads, lines and all options:

- `ThreadTypes`, with `Inside`: the shuffle stays inside the region.
- `RingsKept`: `RingAt` follows a region store by store. In the middle of an exchange
  it is no ring, but what the stores so far have made of one; in the middle of
  `swap_long` one value is in `tmp` only (`HalfSwapped`).
  `ExchangeRenames` shows that all the stores together rename two lines of a ring, in every
  special case, and `RingRenamed` that this leaves a ring.
- `WholeRings`: with `Together`, nobody is past the barrier before all are.
- `CheckHolds`: `RingCheckHolds`, the property that the run `mem_shared` sees fail, holds
  if every random run has regions of its own (`OwnRegions`, -L). `Walks` says
  which lines the check has been at: each step adds one (`WalkGoesOn`, as a ring is
  injective), and back at the first line it has been at all (`WalkEnds`, as a ring has
  no closed part).
- `ThreadsForkJoin`: `ImplementsForkJoin`, if the sizes of sequential runs are whole
  segments (`WholeSizes`). Without that the counter is not the work, see below. For the
  fences, `JobCounted` says that what is counted is what the generated rows do.
- `AffinitiesPrinted`: `AffinityPrinted`, for every bitmap and width, from
  `LockAssumption` (an argument is a string of zeros and ones, one for each thread, whose
  number is that of a thread: micbench-lock does not check it).

**`SumProofs`** and **`BenchLemmas`** hold what the proofs above need of recursive
definitions: sums over finite sets, greatest and least members, the scan of
`__mb_bits_to_string`, rings and walks. Induction is put in terms of sets, because the
provers cannot instantiate an operator: the set of numbers for which a fact does not
hold has a least member (`Least`), and a recursive function is shown to exist by
gluing together the ones that are defined up to a number (`SumExists`, `ScanExists`).

Only model-checked: the termination of the programs (fairness and ENABLED are beyond
the prover), and the properties that the failing runs refute.

## Not modelled

- blktrace_api.h: constants and a record layout from the kernel.
- The parsers of the front end's `mem` and `lock` commands, which pass values on.
- NUMA binding, huge pages, and the binding of the threads of micbench-mem and
  micbench-lock to CPUs (the same call as in `IoMain`).
- The generated inner loops of micbench-mem: they only read memory.
- The io_uring counters inside `IoMain`: its threads count as they do with libaio
  or synchronous I/O; what io_uring does to the counts is in `Aiom`.
- Sizes of micbench-mem that are not whole lines or segments.
- The CPUs of a NUMA node. The front end does not know them either; an affinity
  description that names nodes is modelled as the front end treats it, and no property
  says what it should mean.
- A thread id of `-a` that is beyond the number of threads, in micbench-mem and
  micbench-lock: it is a store outside of the array, from which nothing follows. In
  `IoMain`, where the front end keeps such ids away, the store is modelled (`NoStrayStore`).
- Log lines longer than the buffer of 1024 characters (`BufSize` has room for every line),
  and a store by another thread in the middle of `fputs`, which is one step.
- In the I/O loops, the -1 of `mb_getsize` for a file whose size it cannot tell: divided
  by the block size it is 0 blocks, as for a file of size 0. (`IoMain` has it where
  `parse_args` checks the offsets.)
- A join of a thread that was never created may return an error or crash; that it may
  also wait for some other thread is left out.
- Text output, wording of the JSON output, times and ratios.

## Plan

1. `ResPool`, `Aiom`, `IoOffsets`, `SyncIo`, `Btreplay`, `MemBench`: done.
2. `IoMain` with the front end, affinities, the log and the JSON output;
   `BenchMain`, `LockBench`, `ThreadBench`; the abstract `ForkJoin`: done.
3. Proofs of every invariant, action property and refinement of the passing runs, and
   of the ring check for threads with regions of their own: done.
4. That no thread of micbench-mem follows a stray pointer if it has its region to
   itself (`main` is not "crash" unless a thread could not be created).
5. A run for sizes of micbench-mem that are not whole segments.
