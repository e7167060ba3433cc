----------------------------- MODULE BenchMain -----------------------------
(***************************************************************************)
(* The main thread that micbench-mem, micbench-lock and micbench-proto     *)
(* share by copy: parse the options, create `multi' threads, which wait at *)
(* a barrier for each other if the program has one, join them, and put out *)
(* their counters.                                                         *)
(*                                                                         *)
(* External: the barrier, and whether a thread can be created.             *)
(***************************************************************************)
EXTENDS Integers, FiniteSets, FiniteSetsExt

CONSTANTS
    Multi,      \* option.multi
    Options     \* the option records to start from

ASSUME BenchAssumption ==
    /\ Multi \in Nat \ {0}
    /\ \A o \in Options : /\ o.prog \in {"mem", "lock", "proto"}
                         /\ o.late_multi \in BOOLEAN /\ o.bad_affinity \in BOOLEAN

VARIABLES
    option,     \* the program, and its options
    main,       \* where main is
    i,          \* its loop variable: threads created, or joined
    total,      \* the counters that main puts out, added up
    pc,         \* where each thread is
    ops,        \* the counter of each thread, args[i].pc.ops
    work        \* history: operations that each thread has done

mainVars == <<option, main, i, total>>
counters == <<ops, work>>

Threads == 1 .. Multi

\* How the process may end
Ended == {"done", "exit", "crash", "initfailed"}

Goto(t, l) == pc' = [pc EXCEPT ![t] = l]

MainInit ==
    /\ option \in Options
    /\ main = "parse" /\ i = 0 /\ total = 0
    /\ pc = [t \in Threads |-> "none"]
    /\ ops = [t \in Threads |-> 0] /\ work = [t \in Threads |-> 0]

\* exit(EXIT_FAILURE), or a signal: every thread is gone.
ExitProcess(how) ==
    /\ main' = how
    /\ pc' = [t \in Threads |-> "gone"]
    /\ UNCHANGED <<option, i, total, counters>>

\* What parse_args takes: of micbench-lock, a known mode and jobs of some length; of
\* all three, no -m after a -a, which has made room for `multi' affinities, and no -a of
\* which mb_parse_affinity makes nothing.
ArgsAccepted ==
    /\ ~option.late_multi /\ ~option.bad_affinity
    /\ option.prog = "lock" =>
          /\ option.mode \in {"spinlock", "mutex", "mfence"}
          /\ option.critical_job_size > 0 /\ option.noncritical_job_size > 0

ParseArgs ==
    /\ main = "parse" /\ ArgsAccepted
    /\ main' = "create"
    /\ UNCHANGED <<option, i, total, pc, counters>>

ArgumentError == main = "parse" /\ ~ArgsAccepted /\ ExitProcess("exit")

\* micbench-mem: open, mmap or mbind fails.
SetupFails == main = "create" /\ option.prog = "mem" /\ i = 0 /\ ExitProcess("exit")

\* Where a thread begins: random access sets up its region first; the threads of
\* micbench-proto do not wait for each other.
FirstStep ==
    IF option.prog = "proto" THEN "job"
    ELSE IF option.prog = "mem" /\ option.rand THEN "init" ELSE "barrier"

Create ==
    /\ main = "create" /\ i < Multi
    /\ Goto(i + 1, FirstStep)
    /\ i' = i + 1
    /\ UNCHANGED <<option, main, total, counters>>

\* pthread_create fails, and nobody looks.
CreateFails ==
    /\ main = "create" /\ i < Multi
    /\ Goto(i + 1, "failed")
    /\ i' = i + 1
    /\ UNCHANGED <<option, main, total, counters>>

AllCreated ==
    /\ main = "create" /\ i = Multi
    /\ main' = "join" /\ i' = 0
    /\ UNCHANGED <<option, total, pc, counters>>

\* Mutant of Release: the barrier is made for one thread less.
ReleaseEarly ==
    /\ \E t \in Threads : pc[t] = "barrier"
    /\ Cardinality({t \in Threads : pc[t] # "barrier"}) <= 1
    /\ pc' = [t \in Threads |-> IF pc[t] = "barrier" THEN "job" ELSE pc[t]]
    /\ UNCHANGED <<mainVars, counters>>

\* pthread_barrier_wait returns once `multi' threads are there.
Release ==
    /\ \A t \in Threads : pc[t] = "barrier"
    /\ pc' = [t \in Threads |-> "job"]
    /\ UNCHANGED <<mainVars, counters>>

\* pthread_join, in the order of creation; of a thread that was never created
\* it is given garbage, and may return
Join ==
    /\ main = "join" /\ i < Multi /\ pc[i + 1] \in {"done", "failed"}
    /\ i' = i + 1
    /\ UNCHANGED <<option, main, total, pc, counters>>

\* The other thing that pthread_join may do with garbage
JoinCrashes == main = "join" /\ i < Multi /\ pc[i + 1] = "failed" /\ ExitProcess("crash")

\* What the programs promise.  micbench-proto counts nothing.
FJ == INSTANCE ForkJoin WITH
    phase  <- IF main \in {"parse", "create", "join"} THEN "run"
              ELSE IF main = "done" THEN "reported" ELSE "aborted",
    live   <- {t \in Threads : pc[t] \notin {"done", "failed", "gone"}},
    work   <- [t \in Threads |-> IF option.prog = "proto" THEN 0 ELSE work[t]],
    result <- total

\* The counters of the threads are added up; micbench-lock puts out each of them.
Sum ==
    /\ main = "join" /\ i = Multi
    /\ total' = FJ!SumOf(ops)
    /\ main' = "done"
    /\ UNCHANGED <<option, i, pc, counters>>

MainStep == ParseArgs \/ ArgumentError \/ Create \/ AllCreated \/ Join \/ Sum
MainFails == SetupFails \/ CreateFails \/ JoinCrashes
=============================================================================
