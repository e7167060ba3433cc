------------------------------- MODULE IoMain -------------------------------
(***************************************************************************)
(* micbench-io as a whole: parse_args on the command line of the front     *)
(* end, the threads that main creates and joins, their meters and what     *)
(* main makes of them, the activity log that they share, and the JSON      *)
(* output.  What a thread does between two I/Os is in SyncIo and Aiom;     *)
(* here a thread does one I/O after another until its time is over.        *)
(*                                                                         *)
(* mb_log_io_activity works on a static buffer and two static counters     *)
(* without a lock.  Its memory accesses are steps of their own: sprintf    *)
(* stores one character after the other, so that texts of different        *)
(* lengths overlap in the buffer with their newlines and NULs, and fputs   *)
(* puts out what it finds up to the first NUL.  It does so in one step,    *)
(* which leaves out a store in the middle of it.                           *)
(*                                                                         *)
(* External: files, the clock, stdio, whether a thread can be created.     *)
(***************************************************************************)
EXTENDS IoOffsets, Affinity, FrontEnd

CONSTANTS
    Commands,   \* what users ask of `micbench io'
    Root,       \* getuid() == 0
    HaveUring,  \* built with HAVE_IO_URING
    SizeMax,    \* size_t counts modulo this
    BufSize,    \* characters of the buffer of the log (1024)
    LineLengths,\* how long a line of the log may be, without its newline
    MaxIO       \* bound: I/Os of all threads before their time is over

ASSUME IoMainAssumption ==
    /\ Root \in BOOLEAN /\ HaveUring \in BOOLEAN
    /\ SizeMax \in Nat \ {0} /\ MaxIO \in Nat
    /\ BufSize \in Nat /\ BufSize >= 2 /\ LineLengths \subseteq Nat
    /\ \A n \in LineLengths : n + 2 <= BufSize
    /\ \A u \in Commands :
          /\ u.multi \in Nat /\ u.affinity \in Descriptions
          /\ \A f \in 1 .. Len(u.files) : u.files[f].length \in Nat

VARIABLES
    user,       \* the command that the front end was given; constant
    option,     \* the command line, and then the options of micbench-io
    main,       \* where main is
    i,          \* its loop variable: threads created, or joined
    affinities, \* option.affinities: a mask per thread, or NoAffinity
    result,     \* result.io_count
    pc,         \* where each thread is
    cpus,       \* the CPUs that each thread may run on
    io_count,   \* io_count, or aiom->iocount
    meter,      \* meter->count
    str,        \* files_str: its length, the write position and the pieces in it
    buf,        \* the static buffer of the log: a character in each cell
    logcount,   \* logcount
    log_start,  \* log_start_usec, as the I/O that it is the issue time of
    tmp,        \* what each thread has loaded of logcount
    line,       \* the line that each thread's sprintf makes
    chars,      \* the characters of it that are in the buffer already
    log,        \* the characters of the log file
    lost        \* texts that fputs could not write

mainVars   == <<user, option, main, i, affinities, result>>
threadVars == <<pc, cpus, io_count, meter>>
logVars    == <<buf, logcount, log_start, tmp, line, chars, log, lost>>
vars == <<mainVars, threadVars, str, logVars>>

Threads == 0 .. option.multi - 1

NoAffinity == [tid |-> -1, cpumask |-> {}, nodemask |-> {}]
NoIO       == <<-1, 0>>
NoLine     == [io |-> NoIO, start |-> NoIO, length |-> 0]

\* A character: the k-th of a line.  After the text come the newline and the NUL.
Char(l, k) == [line |-> l, at |-> k]
IsNul(c)   == c.at = c.line.length + 2

\* The last I/O of a thread: its number is the thread's count.
LastIO(t) == <<t, io_count[t]>>

Ended == {"done", "quit", "exit", "crash"}

Goto(t, l) == pc' = [pc EXCEPT ![t] = l]
-----------------------------------------------------------------------------
Init ==
    /\ user \in {u \in Commands : Accepts(u)}
    /\ option = IoArgs(user)
    /\ main = "parse" /\ i = 0 /\ result = 0
    /\ affinities = [t \in Threads |-> NoAffinity]
    /\ pc = [t \in Threads |-> "none"]
    /\ cpus = [t \in Threads |-> Online]
    /\ io_count = [t \in Threads |-> 0] /\ meter = [t \in Threads |-> 0]
    /\ str = [len |-> 4, pos |-> 1, pieces |-> <<>>]
    /\ buf = [k \in 1 .. BufSize |-> Char(NoLine, 2)]
    /\ logcount = 0 /\ log_start = NoIO
    /\ tmp = [t \in Threads |-> 0] /\ line = [t \in Threads |-> NoLine]
    /\ chars = [t \in Threads |-> 0]
    /\ log = <<>> /\ lost = 0

\* exit(3) in some thread, or a signal: every thread is gone.
ExitProcess(how) ==
    /\ main' = how
    /\ pc' = [t \in Threads |-> "gone"]
    /\ UNCHANGED <<user, option, i, affinities, result, cpus, io_count, meter, str, logVars>>

FileIndices == 1 .. Len(option.files)
Mode == IF option.read THEN "read" ELSE IF option.write THEN "write" ELSE "mix"

\* What the offset checks look at: mb_getsize answers -1 when it cannot open the
\* file for reading, and for anything but a regular file or a block device.
Sized ==
    [nr_files |-> Len(option.files), blk_sz |-> option.blk_sz,
     ofst_start |-> option.ofst_start, ofst_end |-> option.ofst_end,
     file_size |-> [f \in 0 .. Len(option.files) - 1 |->
                       IF "read" \in option.files[f + 1].opens
                       THEN option.files[f + 1].size ELSE -1]]

\* What parse_args checks before it opens the log file
ArgsAccepted ==
    /\ option.aio_engine = "libaio" \/ (option.aio_engine = "io_uring" /\ HaveUring)
    /\ \A f \in FileIndices : option.noop \/ Mode \in option.files[f].opens
    /\ OffsetsAccepted(Sized)
    /\ option.direct => option.blk_sz % 512 = 0 /\ Root
    /\ option.aio_tracefile => option.aio

\* The masks of -a, each at the index of its thread id.  Nothing keeps the id
\* inside the array but the front end.
AffinitiesInBounds == \A arg \in option.affinity : arg.tid \in Threads

Affinities ==
    [t \in Threads |->
        IF \E arg \in option.affinity : arg.tid = t
        THEN ParseAffinity(CHOOSE arg \in option.affinity : arg.tid = t)
        ELSE NoAffinity]

ParseArgs ==
    /\ main = "parse" /\ ArgsAccepted /\ option.log # "unwritable"
    /\ affinities' = Affinities
    /\ main' = IF ~AffinitiesInBounds THEN "corrupt"
               ELSE IF option.noop THEN "params" ELSE "create"
    /\ UNCHANGED <<user, option, i, result, threadVars, str, logVars>>

ArgumentError ==
    /\ main = "parse" /\ (~ArgsAccepted \/ option.log = "unwritable")
    /\ ExitProcess("exit")

\* /dev/urandom cannot be opened or read.
SeedFails == main = "create" /\ i = 0 /\ ExitProcess("exit")

\* Mutant of Create: one thread too many.
CreateOneMore ==
    /\ main = "create" /\ i <= option.multi
    /\ Goto(i, "start")
    /\ i' = i + 1
    /\ UNCHANGED <<user, option, main, affinities, result, cpus, io_count, meter, str, logVars>>

Create ==
    /\ main = "create" /\ i < option.multi
    /\ Goto(i, "start")
    /\ i' = i + 1
    /\ UNCHANGED <<user, option, main, affinities, result, cpus, io_count, meter, str, logVars>>

\* pthread_create fails, and nobody looks.
CreateFails ==
    /\ main = "create" /\ i < option.multi
    /\ Goto(i, "failed")
    /\ i' = i + 1
    /\ UNCHANGED <<user, option, main, affinities, result, cpus, io_count, meter, str, logVars>>

AllCreated ==
    /\ main = "create" /\ i = option.multi
    /\ main' = "join" /\ i' = 0
    /\ UNCHANGED <<user, option, affinities, result, threadVars, str, logVars>>

\* Mutant of Join: main does not wait.
JoinAtOnce ==
    /\ main = "join" /\ i < option.multi
    /\ i' = i + 1
    /\ UNCHANGED <<user, option, main, affinities, result, threadVars, str, logVars>>

\* Mutant of Join: main waits for every thread, created or not.
JoinCreated ==
    /\ main = "join" /\ i < option.multi /\ pc[i] = "done"
    /\ i' = i + 1
    /\ UNCHANGED <<user, option, main, affinities, result, threadVars, str, logVars>>

\* pthread_join, in the order of creation; of a thread that was never created
\* it is given what malloc left there, and may return
Join ==
    /\ main = "join" /\ i < option.multi /\ pc[i] \in {"done", "failed"}
    /\ i' = i + 1
    /\ UNCHANGED <<user, option, main, affinities, result, threadVars, str, logVars>>

\* The other thing that pthread_join may do with garbage
JoinCrashes ==
    main = "join" /\ i < option.multi /\ pc[i] = "failed" /\ ExitProcess("crash")

\* The specification of the whole, with the I/Os as the work
FJ == INSTANCE ForkJoin WITH
    phase  <- IF main \in {"parse", "params", "create", "join"} THEN "run"
              ELSE IF main \in {"json", "done"} THEN "reported" ELSE "aborted",
    live   <- {t \in Threads : pc[t] \notin {"done", "failed", "gone"}},
    work   <- io_count

\* The meters are added up; the ratios to io_count and to the time are left out.
Sum ==
    /\ main = "join" /\ i = option.multi
    /\ result' = FJ!SumOf(meter)
    /\ main' = IF option.json THEN "json" ELSE "done"
    /\ UNCHANGED <<user, option, i, affinities, threadVars, str, logVars>>
-----------------------------------------------------------------------------
\* print_result_json builds the list of files in a buffer that it doubles until
\* the next name fits.  `room' is what is left of it, a size_t.
Room == (str.len - 2 - str.pos) % SizeMax
NextPiece == Len(str.pieces) + 1

\* The name in quotes, after the first one with a comma before it
PieceLength(f) == option.files[f].length + (IF f = 1 THEN 2 ELSE 4)

\* Mutant of Snprintf: a name that leaves no place for the NUL is taken to fit.
SnprintfTight(n) ==
    IF n > Room
    THEN [str EXCEPT !.len = 2 * @]
    ELSE [str EXCEPT !.pos = @ + n,
                     !.pieces = Append(@, [file |-> NextPiece, cut |-> n > Room - 1])]

\* snprintf wants n characters and writes as many as fit with the final NUL.
Snprintf(n) ==
    IF n >= Room
    THEN [str EXCEPT !.len = 2 * @]
    ELSE [str EXCEPT !.pos = @ + n,
                     !.pieces = Append(@, [file |-> NextPiece, cut |-> n > Room - 1])]

AddFile ==
    /\ main \in {"params", "json"} /\ NextPiece \in FileIndices
    /\ str' = Snprintf(PieceLength(NextPiece))
    /\ UNCHANGED <<mainVars, threadVars, logVars>>

\* With --noop this is all; else everything is freed.
PrintJson ==
    /\ main = "json" /\ NextPiece \notin FileIndices
    /\ main' = "done"
    /\ UNCHANGED <<user, option, i, affinities, result, threadVars, str, logVars>>

PrintParams == main = "params" /\ NextPiece \notin FileIndices /\ ExitProcess("quit")
-----------------------------------------------------------------------------
\* A thread binds itself to its CPUs,
Bind(t) ==
    /\ pc[t] = "start"
    /\ cpus' = [cpus EXCEPT ![t] =
                  IF affinities[t] # NoAffinity THEN SetAffinity(affinities[t].cpumask) ELSE @]
    /\ Goto(t, "open")
    /\ UNCHANGED <<mainVars, io_count, meter, str, logVars>>

\* opens the files for itself,
Open(t) ==
    /\ pc[t] = "open"
    /\ Goto(t, "loop")
    /\ UNCHANGED <<mainVars, cpus, io_count, meter, str, logVars>>

OpenFails(t) == pc[t] = "open" /\ ExitProcess("exit")

\* does one I/O after the other, each of them logged,
DoIO(t) ==
    /\ pc[t] = "loop" /\ FJ!SumOf(io_count) < MaxIO
    /\ io_count' = [io_count EXCEPT ![t] = @ + 1]
    /\ Goto(t, IF option.log = "none" THEN "loop" ELSE "test")
    /\ UNCHANGED <<mainVars, cpus, meter, str, logVars>>

IOFails(t) == pc[t] = "loop" /\ ExitProcess("exit")

\* stores its count when its time is over,
Report(t) ==
    /\ pc[t] = "loop"
    /\ meter' = [meter EXCEPT ![t] = io_count[t]]
    /\ Goto(t, "close")
    /\ UNCHANGED <<mainVars, cpus, io_count, str, logVars>>

\* and closes the files.
Close(t) ==
    /\ pc[t] = "close"
    /\ Goto(t, "done")
    /\ UNCHANGED <<mainVars, cpus, io_count, meter, str, logVars>>

CloseFails(t) == pc[t] = "close" /\ ExitProcess("exit")
-----------------------------------------------------------------------------
\* mb_log_io_activity: if (logcount == 0)
LogTest(t) ==
    /\ pc[t] = "test"
    /\ Goto(t, IF logcount = 0 THEN "set" ELSE "format")
    /\ UNCHANGED <<mainVars, cpus, io_count, meter, str, logVars>>

\* log_start_usec = issue_usec
LogSet(t) ==
    /\ pc[t] = "set"
    /\ log_start' = LastIO(t)
    /\ Goto(t, "format")
    /\ UNCHANGED <<mainVars, cpus, io_count, meter, str, buf, logcount, tmp, line, chars, log, lost>>

\* sprintf: its arguments, which make a line of some length,
LogFormat(t) ==
    /\ pc[t] = "format"
    /\ \E n \in LineLengths :
          line' = [line EXCEPT ![t] = [io |-> LastIO(t), start |-> log_start, length |-> n]]
    /\ chars' = [chars EXCEPT ![t] = 0]
    /\ Goto(t, "write")
    /\ UNCHANGED <<mainVars, cpus, io_count, meter, str, buf, logcount, log_start, tmp, log, lost>>

\* and its characters one after the other, up to the NUL
LogWrite(t) ==
    LET c == Char(line[t], chars[t] + 1)
    IN  /\ pc[t] = "write"
        /\ buf' = [buf EXCEPT ![c.at] = c]
        /\ chars' = [chars EXCEPT ![t] = IF IsNul(c) THEN 0 ELSE c.at]
        /\ Goto(t, IF IsNul(c) THEN "put" ELSE "write")
        /\ UNCHANGED <<mainVars, cpus, io_count, meter, str, logcount, log_start, tmp, line, log, lost>>

\* The string in the buffer, whoever wrote the parts of it
FirstNul == CHOOSE k \in 1 .. BufSize : IsNul(buf[k]) /\ \A j \in 1 .. k - 1 : ~IsNul(buf[j])
BufText  == SubSeq(buf, 1, FirstNul - 1)

\* fputs: the string that the buffer holds by now
LogPut(t) ==
    /\ pc[t] = "put"
    /\ log' = log \o BufText
    /\ line' = [line EXCEPT ![t] = NoLine]
    /\ Goto(t, "load")
    /\ UNCHANGED <<mainVars, cpus, io_count, meter, str, buf, logcount, log_start, tmp, chars, lost>>

\* fputs answers EOF: a message, and on
LogPutFails(t) ==
    /\ pc[t] = "put"
    /\ lost' = lost + 1
    /\ line' = [line EXCEPT ![t] = NoLine]
    /\ Goto(t, "load")
    /\ UNCHANGED <<mainVars, cpus, io_count, meter, str, buf, logcount, log_start, tmp, chars, log>>

\* logcount++: a load and a store
LogLoad(t) ==
    /\ pc[t] = "load"
    /\ tmp' = [tmp EXCEPT ![t] = logcount]
    /\ Goto(t, "bump")
    /\ UNCHANGED <<mainVars, cpus, io_count, meter, str, buf, logcount, log_start, line, chars, log, lost>>

\* Mutant of LogBump: the counter stays at zero.
LogBumpNot(t) ==
    /\ pc[t] = "bump"
    /\ Goto(t, "loop")
    /\ UNCHANGED <<mainVars, cpus, io_count, meter, str, logVars>>

LogBump(t) ==
    /\ pc[t] = "bump"
    /\ logcount' = tmp[t] + 1
    /\ tmp' = [tmp EXCEPT ![t] = 0]
    /\ Goto(t, "loop")
    /\ UNCHANGED <<mainVars, cpus, io_count, meter, str, buf, log_start, line, chars, log, lost>>
-----------------------------------------------------------------------------
MainStep == \/ ParseArgs \/ ArgumentError \/ Create \/ AllCreated \/ Join \/ Sum
            \/ AddFile \/ PrintJson \/ PrintParams

LogStep(t) == \/ LogTest(t) \/ LogSet(t) \/ LogFormat(t) \/ LogWrite(t) \/ LogPut(t)
              \/ LogLoad(t) \/ LogBump(t)

ThreadStep(t) ==
    t \in Threads /\ (Bind(t) \/ Open(t) \/ DoIO(t) \/ Report(t) \/ Close(t) \/ LogStep(t))

MainFails == SeedFails \/ CreateFails \/ JoinCrashes

ThreadFails(t) == OpenFails(t) \/ IOFails(t) \/ CloseFails(t) \/ LogPutFails(t)

Next == \/ MainStep \/ MainFails
        \/ \E t \in Threads : ThreadStep(t) \/ ThreadFails(t)

\* Every thread is scheduled.  That its time is over at some point is MaxIO.
Fairness ==
    /\ WF_vars(MainStep)
    /\ \A t \in UNION {0 .. u.multi - 1 : u \in Commands} : WF_vars(ThreadStep(t))

Spec == Init /\ [][Next]_vars /\ Fairness
-----------------------------------------------------------------------------
IOs == {NoIO} \cup (Threads \X (1 .. MaxIO))
LineType == [io : IOs, start : IOs, length : {0} \cup LineLengths]
CharType == [line : LineType, at : 1 .. BufSize]

\* The type invariant; fputs finds the end of a string inside the buffer.
TypeOK ==
    /\ user \in Commands /\ option = IoArgs(user)
    /\ main \in {"parse", "params", "create", "join", "json", "corrupt"} \cup Ended
    /\ i \in 0 .. option.multi /\ result \in Nat
    /\ affinities \in [Threads -> [tid : Int, cpumask : SUBSET Nat, nodemask : SUBSET Nat]]
    /\ pc \in [Threads -> {"none", "failed", "start", "open", "loop", "test", "set", "format",
                           "write", "put", "load", "bump", "close", "done", "gone"}]
    /\ cpus \in [Threads -> SUBSET Online]
    /\ io_count \in [Threads -> 0 .. MaxIO] /\ meter \in [Threads -> 0 .. MaxIO]
    /\ str.len \in Nat /\ str.pos \in Nat
    /\ str.pieces \in Seq([file : FileIndices, cut : BOOLEAN])
    /\ buf \in [1 .. BufSize -> CharType] /\ \E k \in 1 .. BufSize : IsNul(buf[k])
    /\ logcount \in Nat /\ log_start \in IOs
    /\ tmp \in [Threads -> Nat] /\ line \in [Threads -> LineType]
    /\ chars \in [Threads -> 0 .. BufSize - 1] /\ log \in Seq(CharType) /\ lost \in Nat

\* The io_count that main prints is the number of I/Os that all the threads have
\* done, summed up when none of them runs any more, in whatever order they end,
\* and also if some of them could not be created; if the process ends in any
\* other way there is no result.
ImplementsForkJoin == FJ!Spec

\* The process ends, whatever fails: main waits for no thread that does not exist,
\* and the list of files is complete at some point.
Terminates == <>(main \in Ended)

\* Does an entry of the description name thread t, or CPU c?
Names(entry, t) == \E r \in entry.threads : r[1] <= t /\ t <= r[2]
Covers(entry, c) == \E r \in entry.cpus : r[1] <= c /\ c <= r[2]

\* The description names CPUs, not nodes, and the ends of all ranges are in order.
Plain ==
    \A k \in DOMAIN user.affinity :
        /\ \A r \in user.affinity[k].cpus : r[3] = "c"
        /\ \A r \in user.affinity[k].threads \cup user.affinity[k].cpus : r[1] <= r[2]

\* A thread is bound to the CPUs of the machine that the last entry of the affinity
\* description that names it lists: through ranges, bitmaps and masks, each with bounds
\* of its own.  It says nothing of nodes: the front end takes each of them for one CPU,
\* whatever CPUs it has, since $logicores_per_proc is nproc divided by nproc.
BoundAsDescribed ==
    Plain /\ main \in {"params", "create", "join", "json", "done"} =>
        \A t \in Threads, k \in DOMAIN user.affinity :
            LET asked == {c \in Online : Covers(user.affinity[k], c)}
            IN  /\ Names(user.affinity[k], t)
                /\ \A l \in k + 1 .. Len(user.affinity) : ~Names(user.affinity[l], t)
                => /\ affinities[t].cpumask = asked
                   /\ pc[t] \notin {"none", "failed", "start"} /\ asked # {} => cpus[t] = asked

\* parse_args stores no affinity outside of the array, which it does not check: the
\* front end leaves out the threads that there will not be.
NoStrayStore == main # "corrupt"

\* The list of files in the JSON output never outgrows its buffer, including the
\* bracket and the NUL that are stored at its end without a test, and no name in it is
\* cut off, although each of them is printed in part until the buffer is large enough.
JsonWhole ==
    main \in {"params", "json", "quit", "done"} =>
        /\ str.pos + 2 <= str.len
        /\ \A k \in DOMAIN str.pieces : str.pieces[k] = [file |-> k, cut |-> FALSE]

\* What comes after a character in a log of one thread: the next one of its line, or after
\* the newline the first one of the next I/O
Follows(c, d) ==
    IF c.at <= c.line.length
    THEN d = Char(c.line, c.at + 1)
    ELSE d.at = 1 /\ d.line.io = <<0, c.line.io[2] + 1>>

\* The log is the lines of the first n I/Os, each of them whole, in their order, with times
\* relative to the first one.
LinesOf(n) ==
    /\ n = 0 <=> log = <<>>
    /\ \A k \in DOMAIN log :
          /\ k = 1 => log[k].at = 1 /\ log[k].line.io = <<0, 1>>
          /\ k > 1 => Follows(log[k - 1], log[k])
          /\ k = Len(log) => log[k].at = log[k].line.length + 1 /\ log[k].line.io = <<0, n>>
          /\ log[k].line.start = <<0, 1>>

\* If there is one thread only, the log is the lines of the I/Os that main reports, although
\* each of them is made in a buffer that still holds a line of another length.
LoneLogWhole ==
    main \in {"json", "done"} /\ option.log # "none" /\ option.multi = 1 /\ lost = 0 =>
        LinesOf(result)

\* The whole line of an I/O is somewhere in the log.
Recorded(io) ==
    \E k \in DOMAIN log :
        LET l == log[k].line
        IN  l.io = io /\ \A j \in 0 .. l.length : k + j \in DOMAIN log /\ log[k + j] = Char(l, j + 1)

\* Each I/O activity is recorded in the log file, as the help text of --logfile says,
\* also when there are several threads.
EachActivityRecorded ==
    main = "done" /\ option.log # "none" /\ lost = 0 =>
        \A t \in Threads : \A n \in 1 .. io_count[t] : Recorded(<<t, n>>)
=============================================================================
