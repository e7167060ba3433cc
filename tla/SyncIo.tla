------------------------------- MODULE SyncIo -------------------------------
(***************************************************************************)
(* One synchronous I/O thread of micbench-io: do_sync_io with its access   *)
(* patterns, on top of mb_readall, mb_writeall, mb_preadall and            *)
(* mb_pwriteall.                                                           *)
(*                                                                         *)
(* External: the files, whose sizes reads cannot pass and writes may       *)
(* extend; system calls that transfer less than asked, or fail; the clock. *)
(***************************************************************************)
EXTENDS Integers, FiniteSets, FiniteSetsExt, IoOffsets

CONSTANTS
    Options,    \* the option records to start from
    ThreadId,   \* th_arg->id
    Batch,      \* I/Os between two looks at the clock (100 in the code)
    MaxIO       \* bound: no new batch once this many I/Os are done

ASSUME SyncIoAssumption ==
    /\ Batch \in Nat \ {0}
    /\ MaxIO \in Nat
    /\ ThreadId \in Nat
    /\ \A o \in Options : OptionOK(o) /\ o.seekdist_stride \in Nat

VARIABLES
    option,     \* the global option record, read-only after parse_args
    pc,         \* where do_sync_io is
    expired,    \* option.timeout seconds have passed since start_tv
    i,          \* I/Os done in the current batch
    file_idx,   \* file_idx
    ofst,       \* ofst_list
    side,       \* seekdist_side_list: 0 upper side next, 1 lower side next
    addr,       \* the address of the I/O under way
    write,      \* is it a write?
    rem,        \* bytes left in mb_readall or mb_writeall
    pos,        \* the file offset of each descriptor of the thread
    size,       \* the size of each file
    io_count,   \* io_count
    meter,      \* meter->count
    last,       \* history: the block each file was last accessed at, or -1
    seen,       \* history: the blocks of the current scan of each file
    whole,      \* history: has the current scan of each file begun at its start?
    accesses    \* history: I/Os started on each file

walk    == <<file_idx, ofst, side>>
request == <<addr, write, rem, pos, size>>
history == <<last, seen, whole, accesses>>
vars == <<option, pc, expired, i, walk, request, io_count, meter, history>>

Files == FilesOf(option)
Bottom == OfstMin(option)
Top(f) == OfstMax(option, f)

\* The blocks that -s and -e (or the size of the file) delimit
Window(f) == Bottom .. Top(f) - 1
-----------------------------------------------------------------------------
Init ==
    /\ option \in {o \in Options : OffsetsAccepted(o)}
    /\ pc = "setup" /\ expired = FALSE
    /\ i = 0 /\ file_idx = 0
    /\ ofst = [f \in Files |-> 0] /\ side = [f \in Files |-> 0]
    /\ addr = 0 /\ write = FALSE /\ rem = 0 /\ pos = [f \in Files |-> 0]
    /\ size = option.file_size
    /\ io_count = 0 /\ meter = 0
    /\ last = [f \in Files |-> -1] /\ seen = [f \in Files |-> {}]
    /\ whole = [f \in Files |-> FALSE]
    /\ accesses = [f \in Files |-> 0]

\* The offset lists
Setup ==
    /\ pc = "setup"
    /\ ofst' = [f \in Files |->
                   CASE option.pattern = "SEQ" -> SeqStart(option, f, ThreadId)
                     [] option.pattern = "SEEKDIST" -> Top(f) - option.seekdist_stride
                     [] OTHER -> Bottom]
    /\ side' = [f \in Files |-> 0]
    /\ pc' = "loop"
    /\ UNCHANGED <<option, expired, i, file_idx, request, io_count, meter, history>>

\* while (mb_elapsed_time_from(&start_tv) < option.timeout): a batch, or the
\* end.  There is no loop for PATTERN_SEEKINCR.
CheckTimeout ==
    /\ pc = "loop"
    /\ expired \/ io_count < MaxIO
    /\ pc' = IF expired \/ option.pattern = "SEEKINCR" THEN "report" ELSE "choose"
    /\ i' = 0
    /\ UNCHANGED <<option, expired, walk, request, io_count, meter, history>>

\* The I/O on block b of file f is settled: its address, and the history.
Access(f, b) ==
    /\ file_idx' = f
    /\ addr' = Addr(option, b)
    /\ rem' = option.blk_sz
    /\ pc' = "io"
    /\ last' = [last EXCEPT ![f] = b]
    /\ seen' = [seen EXCEPT ![f] = IF b = Bottom THEN {b} ELSE @ \cup {b}]
    /\ whole' = [whole EXCEPT ![f] = @ \/ b = Bottom]
    /\ accesses' = [accesses EXCEPT ![f] = @ + 1]

\* Random: any file, any block; a mixed run draws the direction as well.
ChooseRand(f, b) ==
    /\ pc = "choose" /\ option.pattern = "RAND"
    /\ b \in RandRange(Bottom, Top(f))
    /\ ofst' = [ofst EXCEPT ![f] = b]
    /\ write' \in IF option.read THEN {FALSE} ELSE IF option.write THEN {TRUE} ELSE BOOLEAN
    /\ Access(f, b)
    /\ UNCHANGED <<option, expired, i, side, pos, size, io_count, meter>>

\* lseek64 to the address of block b of file f, which must not be negative;
\* then read or write, but not a mixture.
SeekAndAccess(f, b) ==
    IF Addr(option, b) >= 0 /\ (option.read \/ option.write)
    THEN /\ Access(f, b)
         /\ pos' = [pos EXCEPT ![f] = Addr(option, b)]
         /\ write' = ~option.read
         /\ UNCHANGED <<option, expired, i, size, io_count, meter>>
    ELSE /\ pc' = "exit"
         /\ UNCHANGED <<option, expired, i, file_idx, request, io_count, meter, history>>

\* Sequential: the files in turn, the next block of each.
ChooseSeq ==
    /\ pc = "choose" /\ option.pattern = "SEQ"
    /\ LET f == NextFile(option, file_idx)
           b == SeqStep(option, f, ofst[f])
       IN  /\ ofst' = [ofst EXCEPT ![f] = b]
           /\ SeekAndAccess(f, b)
    /\ UNCHANGED side

\* The window of the side that a seek goes to
SideRange(f) ==
    IF side[f] = 0
    THEN RandRange(Top(f) - option.seekdist_stride, Top(f))
    ELSE RandRange(Bottom, Bottom + option.seekdist_stride)

\* Mutant of ChooseSeekdist: the side is not changed.
ChooseSameSide(b) ==
    /\ pc = "choose" /\ option.pattern = "SEEKDIST"
    /\ LET f == NextFile(option, file_idx)
       IN  b \in SideRange(f) /\ SeekAndAccess(f, b)
    /\ UNCHANGED <<ofst, side>>

\* Constant seek distance: the files in turn, the two sides of each in turn.
ChooseSeekdist(b) ==
    /\ pc = "choose" /\ option.pattern = "SEEKDIST"
    /\ LET f == NextFile(option, file_idx)
       IN  /\ b \in SideRange(f)
           /\ side' = [side EXCEPT ![f] = 1 - @]
           /\ SeekAndAccess(f, b)
    /\ UNCHANGED ofst
-----------------------------------------------------------------------------
IOEnds == pc' = "count" /\ UNCHANGED <<option, expired, i, walk, addr, write, io_count,
                                       meter, history>>

\* One pread64 or pwrite64: a short transfer is only reported.
PositionedIO ==
    /\ pc = "io" /\ option.pattern = "RAND"
    /\ \E k \in 0 .. rem : rem' = rem - k
    /\ size' = IF write THEN [size EXCEPT ![file_idx] = Max({@, addr + rem - rem'})] ELSE size
    /\ IOEnds
    /\ UNCHANGED pos

\* Mutant of SequentialIO: a short transfer moves on by what was asked.
SequentialIOSkips(k) ==
    /\ pc = "io" /\ option.pattern # "RAND"
    /\ k \in 1 .. rem
    /\ write \/ pos[file_idx] + k <= size[file_idx]
    /\ pos' = [pos EXCEPT ![file_idx] = @ + rem]
    /\ rem' = rem - k
    /\ UNCHANGED size
    /\ IF k = rem
       THEN IOEnds
       ELSE UNCHANGED <<option, pc, expired, i, walk, addr, write, io_count, meter, history>>

\* One turn of mb_readall or mb_writeall; the last one ends the I/O.  At the
\* end of the file read(2) answers 0 and the loop goes round: no progress.
SequentialIO(k) ==
    /\ pc = "io" /\ option.pattern # "RAND"
    /\ k \in 1 .. rem
    /\ write \/ pos[file_idx] + k <= size[file_idx]
    /\ pos' = [pos EXCEPT ![file_idx] = @ + k]
    /\ size' = [size EXCEPT ![file_idx] = Max({@, pos[file_idx] + k})]
    /\ rem' = rem - k
    /\ IF k = rem
       THEN IOEnds
       ELSE UNCHANGED <<option, pc, expired, i, walk, addr, write, io_count, meter, history>>

\* Mutant of IOFails: an I/O that failed is not counted.
IOFailsUncounted ==
    /\ pc = "io" /\ option.continue_on_error
    /\ pc' = "choose"
    /\ UNCHANGED <<option, expired, i, walk, request, io_count, meter, history>>

\* The system call fails: with --continue-on-error the I/O counts as done.
IOFails ==
    /\ pc = "io"
    /\ IF option.continue_on_error
       THEN IOEnds /\ UNCHANGED <<rem, pos, size>>
       ELSE /\ pc' = "exit"
            /\ UNCHANGED <<option, expired, i, walk, request, io_count, meter, history>>

\* Mutant of Count: the batch is one I/O too long.
CountLate ==
    /\ pc = "count"
    /\ io_count' = io_count + 1
    /\ i' = i + 1
    /\ pc' = IF i + 1 > Batch THEN "loop" ELSE "choose"
    /\ UNCHANGED <<option, expired, walk, request, meter, history>>

\* io_count++, and the end of the batch
Count ==
    /\ pc = "count"
    /\ io_count' = io_count + 1
    /\ i' = i + 1
    /\ pc' = IF i + 1 = Batch THEN "loop" ELSE "choose"
    /\ UNCHANGED <<option, expired, walk, request, meter, history>>

Report ==
    /\ pc = "report"
    /\ meter' = io_count
    /\ pc' = "done"
    /\ UNCHANGED <<option, expired, i, walk, request, io_count, history>>

\* External: the clock passes option.timeout.
Expire ==
    /\ ~expired
    /\ expired' = TRUE
    /\ UNCHANGED <<option, pc, i, walk, request, io_count, meter, history>>

Thread ==
    \/ Setup
    \/ CheckTimeout
    \/ \E f \in Files : \E b \in RandRange(Bottom, Top(f)) : ChooseRand(f, b)
    \/ ChooseSeq
    \/ \E b \in SideRange(NextFile(option, file_idx)) : ChooseSeekdist(b)
    \/ PositionedIO
    \/ \E k \in 1 .. rem : SequentialIO(k)
    \/ Count
    \/ Report

Next == Thread \/ IOFails \/ Expire

\* The thread runs, the clock advances, and a system call that can transfer
\* something returns.
Fairness == WF_vars(Thread) /\ WF_vars(Expire)

Spec == Init /\ [][Next]_vars /\ Fairness
-----------------------------------------------------------------------------
TypeOK ==
    /\ option \in Options
    /\ pc \in {"setup", "loop", "choose", "io", "count", "report", "done", "exit"}
    /\ expired \in BOOLEAN
    /\ i \in 0 .. Batch
    /\ file_idx \in Files
    /\ ofst \in [Files -> Int]
    /\ side \in [Files -> {0, 1}]
    /\ addr \in Int /\ write \in BOOLEAN
    /\ rem \in 0 .. option.blk_sz
    /\ pos \in [Files -> Nat] /\ size \in [Files -> Nat]
    /\ io_count \in Nat /\ meter \in Nat
    /\ last \in [Files -> Int]
    /\ seen \in [Files -> SUBSET Int]
    /\ whole \in [Files -> BOOLEAN]
    /\ accesses \in [Files -> Nat]

\* Options that describe a window of blocks inside every file, with room for
\* the stride, and wide enough for random numbers at its place
Sane ==
    /\ option.misalign = 0
    /\ \A f \in Files :
          /\ Bottom < Top(f)
          /\ option.pattern = "RAND" => ~Narrow(Bottom, Top(f))
          /\ option.pattern = "SEEKDIST" =>
                /\ option.seekdist_stride \in 1 .. Top(f) - Bottom
                /\ ~Narrow(Top(f) - option.seekdist_stride, Top(f))
                /\ ~Narrow(Bottom, Bottom + option.seekdist_stride)

\* Every access is to a block of the window that the options delimit, for
\* each pattern, although the sequential scan advances before it tests and
\* the random ones round a floating-point number: unless the window is narrow
\* against its offset, where that number may be rounded up to the window's end.
InWindow ==
    Sane => \A f \in Files : last[f] # -1 => last[f] \in Window(f)

\* No access begins beyond the end of its file, also when the offsets accepted leave no
\* block between them (both at the end, or the first after the second), for which the
\* code has no case; and one in a window that has blocks also ends within the file.
NeverBeyondEnd ==
    /\ option.misalign = 0
    /\ option.pattern = "SEEKDIST" => Sane
    => \A f \in Files : last[f] # -1 =>
          Addr(option, last[f]) + (IF Sane THEN option.blk_sz ELSE 0) <= option.file_size[f]

Accessed(f) == accesses'[f] # accesses[f]

\* A sequential scan that comes back to the first block of a file has read
\* every block of the window since it was last there.
ScanIsWhole ==
    [][\A f \in Files :
          option.pattern = "SEQ" /\ Sane /\ Accessed(f) /\ whole[f] /\ last'[f] = Bottom
            => seen[f] = Window(f)]_vars

\* The files take turns: no file gets two accesses more than another, unless
\* the order is random.
FilesInTurn ==
    option.pattern # "RAND" =>
        \A f, g \in Files : accesses[f] <= accesses[g] + 1

\* The seeks of the constant-distance pattern are long ones: two successive
\* accesses to a file are on different sides of it.
SeekIsLong ==
    [][\A f \in Files :
          option.pattern = "SEEKDIST" /\ Sane /\ Accessed(f) /\ last[f] # -1 =>
            LET d == last'[f] - last[f]
                least == Top(f) - Bottom - 2 * option.seekdist_stride + 1
            IN  d >= least \/ -d >= least]_vars

\* A thread that ends reports every I/O it started, once, including those
\* that failed and were to be ignored.
CountExact ==
    pc = "done" => meter = MapThenSumSet(LAMBDA f : accesses[f], Files)

\* The measurement ends when the time is over, whichever calls fall short or
\* fail in the meantime.
SaneTerminates == Sane ~> (pc \in {"done", "exit"})

\* The same of every option record that parse_args accepts
Terminates == <>(pc \in {"done", "exit"})
=============================================================================
