------------------------------ MODULE Btreplay ------------------------------
(***************************************************************************)
(* micbench-btreplay: the main thread reads a blktrace dump and pushes one *)
(* request per record on an asynchronous queue (GAsyncQueue), from which   *)
(* `multi' worker threads replay the issued I/Os on the target; a stop     *)
(* message per worker ends them, and a flag ends the monitor thread.       *)
(*                                                                         *)
(* External: the queue of GLib (first in, first out, any number of         *)
(* poppers), the file offset of each worker's descriptor, and the size of  *)
(* the target, which writes may extend.                                    *)
(***************************************************************************)
EXTENDS Integers, Sequences, FiniteSets

CONSTANTS
    Multi,      \* option.multi
    Verbose,    \* option.verbose: is there a monitor thread?
    Dumps,      \* the dumps to replay: sequences of records
    TargetSize  \* bytes in the target at the start

\* A record of a dump, as mb_fetch_blk_io_trace reads it
Records == [magic_ok : BOOLEAN, issue : BOOLEAN, write : BOOLEAN,
            sector : Nat, bytes : Nat]

ASSUME BtreplayAssumption ==
    /\ Multi \in Nat
    /\ Verbose \in BOOLEAN
    /\ TargetSize \in Nat
    /\ Dumps \subseteq Seq(Records)

Workers == 1 .. Multi

SectorSize == 512

VARIABLES
    dump,       \* the file at option.btdump_path
    main,       \* where mb_btreplay_main is
    i,          \* its loop variable: threads made, messages pushed, joined
    fetched,    \* records of the dump read so far
    queue,      \* ioreq_queue: record numbers, or Stop
    control,    \* control.stop
    monitor,    \* where the monitor thread is
    worker,     \* where each worker is
    cur,        \* the record each worker is replaying
    pos,        \* the file offset of each worker's descriptor
    endpos,     \* each worker's endpos
    rem,        \* bytes left in the mb_readall or mb_writeall under way
    size,       \* the size of the target
    replayed,   \* history: how many times each record's I/O was done
    misplaced,  \* history: workers that did an I/O elsewhere than asked
    erred       \* history: workers one of whose system calls has failed

mainVars == <<main, i, fetched>>
workVars == <<worker, cur, pos, endpos, rem>>
history  == <<replayed, misplaced, erred>>
vars == <<dump, mainVars, queue, control, monitor, workVars, size, history>>

Stop == 0

Rec(n) == dump[n]
Ofst(n) == Rec(n).sector * SectorSize
-----------------------------------------------------------------------------
Init ==
    /\ dump \in Dumps
    /\ main = "parse" /\ i = 0 /\ fetched = 0
    /\ queue = <<>> /\ control = FALSE /\ monitor = "none"
    /\ worker = [w \in Workers |-> "none"]
    /\ cur = [w \in Workers |-> Stop]
    /\ pos = [w \in Workers |-> 0]
    /\ endpos = [w \in Workers |-> -1]
    /\ rem = [w \in Workers |-> 0]
    /\ size = TargetSize
    /\ replayed = [n \in DOMAIN dump |-> 0]
    /\ misplaced = {} /\ erred = {}

\* exit(EXIT_FAILURE) or a crash: every thread is gone.
ExitProcess ==
    /\ main' = "exit"
    /\ worker' = [w \in Workers |-> "gone"]
    /\ monitor' = "gone"
    /\ UNCHANGED <<dump, i, fetched, queue, control, cur, pos, endpos, rem, size,
                   history>>

\* A command line: the options that mb_btreplay_parse_args looks at once and that
\* nothing else depends on.  (-t and -r have no effect after that.)
CommandLines == [unknown_option : BOOLEAN, files : 0 .. 2, repeat : BOOLEAN, timeout : 0 .. 1]

Accepted(a) ==
    /\ ~a.unknown_option
    /\ a.files = 2
    /\ a.repeat => a.timeout # 0

ParseArgs ==
    /\ main = "parse"
    /\ \E a \in CommandLines : Accepted(a)
    /\ main' = "create"
    /\ UNCHANGED <<dump, i, fetched, queue, control, monitor, workVars, size, history>>

ArgumentError == main = "parse" /\ (\E a \in CommandLines : ~Accepted(a)) /\ ExitProcess

CreateWorker ==
    /\ main = "create" /\ i < Multi
    /\ worker' = [worker EXCEPT ![i + 1] = "open"]
    /\ i' = i + 1
    /\ UNCHANGED <<dump, main, fetched, queue, control, monitor, cur, pos, endpos,
                   rem, size, history>>

CreateFails == main = "create" /\ i < Multi /\ ExitProcess

\* All workers are made: the monitor, when asked for, and fopen
CreateMonitor ==
    /\ main = "create" /\ i = Multi
    /\ monitor' = IF Verbose THEN "watch" ELSE "none"
    /\ main' = "fetch"
    /\ UNCHANGED <<dump, i, fetched, queue, control, workVars, size, history>>

\* pthread_create of the monitor fails, and nobody looks.
MonitorFails ==
    /\ main = "create" /\ i = Multi /\ Verbose
    /\ monitor' = "failed"
    /\ main' = "fetch"
    /\ UNCHANGED <<dump, i, fetched, queue, control, workVars, size, history>>

\* fopen answers NULL, which nobody tests: fread crashes.
NoDump == main = "fetch" /\ fetched = 0 /\ ExitProcess

\* mb_fetch_blk_io_trace answers a record, pushed whatever its action is
PushRecord ==
    /\ main = "fetch"
    /\ fetched < Len(dump) /\ Rec(fetched + 1).magic_ok
    /\ fetched' = fetched + 1
    /\ queue' = Append(queue, fetched + 1)
    /\ UNCHANGED <<dump, main, i, control, monitor, workVars, size, history>>

\* The end of the dump, or a record with a bad magic number
FetchEnds ==
    /\ main = "fetch"
    /\ fetched < Len(dump) => ~Rec(fetched + 1).magic_ok
    /\ main' = "stop" /\ i' = 0
    /\ UNCHANGED <<dump, fetched, queue, control, monitor, workVars, size, history>>

\* Mutant of PushStop: one stop message for all workers.
PushStopOnce ==
    /\ main = "stop" /\ i < Multi
    /\ queue' = Append(queue, Stop)
    /\ i' = Multi
    /\ UNCHANGED <<dump, main, fetched, control, monitor, workVars, size, history>>

\* Mutant of PushStop: stop messages jump the queue.
PushStopFirst ==
    /\ main = "stop" /\ i < Multi
    /\ queue' = <<Stop>> \o queue
    /\ i' = i + 1
    /\ UNCHANGED <<dump, main, fetched, control, monitor, workVars, size, history>>

\* Mutant of PushStop: one message too many.
PushStopExtra ==
    /\ main = "stop" /\ i <= Multi
    /\ queue' = Append(queue, Stop)
    /\ i' = i + 1
    /\ UNCHANGED <<dump, main, fetched, control, monitor, workVars, size, history>>

\* One message per worker to tell it to stop
PushStop ==
    /\ main = "stop" /\ i < Multi
    /\ queue' = Append(queue, Stop)
    /\ i' = i + 1
    /\ UNCHANGED <<dump, main, fetched, control, monitor, workVars, size, history>>

StopsPushed ==
    /\ main = "stop" /\ i = Multi
    /\ main' = "join" /\ i' = 0
    /\ UNCHANGED <<dump, fetched, queue, control, monitor, workVars, size, history>>

\* pthread_join of the workers, in order
Join ==
    /\ main = "join" /\ i < Multi /\ worker[i + 1] = "gone"
    /\ i' = i + 1
    /\ UNCHANGED <<dump, main, fetched, queue, control, monitor, workVars, size,
                   history>>

\* control.stop = true
StopMonitor ==
    /\ main = "join" /\ i = Multi
    /\ control' = TRUE
    /\ main' = "joinmonitor"
    /\ UNCHANGED <<dump, i, fetched, queue, monitor, workVars, size, history>>

\* pthread_join of the monitor, if there should be one; of one that was never made it is
\* given garbage, and may return
JoinMonitor ==
    /\ main = "joinmonitor" /\ monitor \in {"none", "failed", "gone"}
    /\ main' = "done"
    /\ UNCHANGED <<dump, i, fetched, queue, control, monitor, workVars, size, history>>

\* The other thing that pthread_join may do with garbage
JoinMonitorCrashes == main = "joinmonitor" /\ monitor = "failed" /\ ExitProcess

\* monitor_thread_handler: look at the flag, once a second
MonitorEnds ==
    /\ monitor = "watch" /\ control
    /\ monitor' = "gone"
    /\ UNCHANGED <<dump, mainVars, queue, control, workVars, size, history>>
-----------------------------------------------------------------------------
\* The worker opens the target.
Open(w) ==
    /\ worker[w] = "open"
    /\ worker' = [worker EXCEPT ![w] = "pop"]
    /\ UNCHANGED <<dump, mainVars, queue, control, monitor, cur, pos, endpos, rem,
                   size, history>>

OpenFails(w) == worker[w] = "open" /\ ExitProcess

\* Mutant of Pop: the request stays on the queue for the others.
PopKeeps(w) ==
    /\ worker[w] = "pop" /\ queue # <<>>
    /\ cur' = [cur EXCEPT ![w] = Head(queue)]
    /\ worker' = [worker EXCEPT ![w] =
                     IF Head(queue) = Stop THEN "gone"
                     ELSE IF Rec(Head(queue)).issue THEN "seek" ELSE "pop"]
    /\ UNCHANGED <<dump, mainVars, queue, control, monitor, pos, endpos, rem, size,
                   history>>

\* g_async_queue_pop: a stop message, a record that is no issue (dropped), or
\* an I/O to do
Pop(w) ==
    /\ worker[w] = "pop" /\ queue # <<>>
    /\ queue' = Tail(queue)
    /\ cur' = [cur EXCEPT ![w] = Head(queue)]
    /\ worker' = [worker EXCEPT ![w] =
                     IF Head(queue) = Stop THEN "gone"
                     ELSE IF Rec(Head(queue)).issue THEN "seek" ELSE "pop"]
    /\ UNCHANGED <<dump, mainVars, control, monitor, pos, endpos, rem, size, history>>

\* The I/O of record n is about to start from offset p.
BeginIO(w, n, p) ==
    /\ pos' = [pos EXCEPT ![w] = p]
    /\ rem' = [rem EXCEPT ![w] = Rec(n).bytes]
    /\ worker' = [worker EXCEPT ![w] = "io"]
    /\ misplaced' = misplaced \cup (IF p = Ofst(n) THEN {} ELSE {w})
    /\ UNCHANGED <<dump, mainVars, queue, control, monitor, cur, endpos, size, replayed>>

\* lseek64, unless the last I/O should have left the offset there
Seek(w) ==
    /\ worker[w] = "seek"
    /\ BeginIO(w, cur[w], IF Ofst(cur[w]) # endpos[w] THEN Ofst(cur[w]) ELSE pos[w])
    /\ UNCHANGED erred

\* lseek64 refuses an offset beyond the end of a device: a message, and the
\* I/O goes ahead
SeekFails(w) ==
    /\ worker[w] = "seek" /\ Ofst(cur[w]) # endpos[w] /\ Ofst(cur[w]) > size
    /\ BeginIO(w, cur[w], pos[w])
    /\ erred' = erred \cup {w}

\* What a read or write of rem bytes at pos may transfer, in sectors: a read
\* stops at the end of the target
Transfers(w) ==
    {k \in {SectorSize * m : m \in 1 .. rem[w] \div SectorSize} :
        Rec(cur[w]).write \/ pos[w] + k <= size}

\* One turn of mb_readall or mb_writeall.  At the end of the target read(2)
\* answers 0 and the loop goes round without progress: no step.
Transfer(w, k) ==
    /\ worker[w] = "io" /\ rem[w] > 0 /\ k \in Transfers(w)
    /\ pos' = [pos EXCEPT ![w] = @ + k]
    /\ rem' = [rem EXCEPT ![w] = @ - k]
    /\ size' = IF pos[w] + k > size THEN pos[w] + k ELSE size
    /\ UNCHANGED <<dump, mainVars, queue, control, monitor, worker, cur, endpos, history>>

\* The I/O is over: endpos is where it should have ended.
EndIO(w) ==
    /\ endpos' = [endpos EXCEPT ![w] = Ofst(cur[w]) + Rec(cur[w]).bytes]
    /\ replayed' = [replayed EXCEPT ![cur[w]] = @ + 1]
    /\ worker' = [worker EXCEPT ![w] = "pop"]
    /\ rem' = [rem EXCEPT ![w] = 0]
    /\ UNCHANGED <<dump, mainVars, queue, control, monitor, cur, pos, size, misplaced>>

\* Mutant of IODone: endpos is taken for the size of the last I/O.
IODoneAtOffset(w) ==
    /\ worker[w] = "io" /\ rem[w] = 0
    /\ endpos' = [endpos EXCEPT ![w] = Ofst(cur[w])]
    /\ replayed' = [replayed EXCEPT ![cur[w]] = @ + 1]
    /\ worker' = [worker EXCEPT ![w] = "pop"]
    /\ UNCHANGED <<dump, mainVars, queue, control, monitor, cur, pos, rem, size,
                   misplaced, erred>>

IODone(w) == worker[w] = "io" /\ rem[w] = 0 /\ EndIO(w) /\ UNCHANGED erred

\* read or write answers -1, which as a size_t is no less than what was
\* asked: with continue_on_error the loop ends as if all were done.
IOFails(w) ==
    /\ worker[w] = "io" /\ rem[w] > 0
    /\ EndIO(w)
    /\ erred' = erred \cup {w}

MainStep ==
    \/ ParseArgs \/ CreateWorker \/ CreateMonitor \/ PushRecord \/ FetchEnds \/ PushStop
    \/ StopsPushed \/ Join \/ StopMonitor \/ JoinMonitor

WorkerStep(w) ==
    \/ Open(w) \/ Pop(w) \/ Seek(w) \/ IODone(w)
    \/ \E k \in Transfers(w) : Transfer(w, k)

Failures ==
    \/ ArgumentError \/ CreateFails \/ MonitorFails \/ NoDump \/ JoinMonitorCrashes
    \/ \E w \in Workers : OpenFails(w) \/ SeekFails(w) \/ IOFails(w)

Next == MainStep \/ MonitorEnds \/ (\E w \in Workers : WorkerStep(w)) \/ Failures

\* Every thread is scheduled, and read, write and open return.
Fairness ==
    /\ WF_vars(MainStep)
    /\ WF_vars(MonitorEnds)
    /\ \A w \in Workers : WF_vars(WorkerStep(w))

Spec == Init /\ [][Next]_vars /\ Fairness
-----------------------------------------------------------------------------
TypeOK ==
    /\ dump \in Dumps
    /\ main \in {"parse", "create", "fetch", "stop", "join", "joinmonitor", "done", "exit"}
    /\ i \in 0 .. Multi
    /\ fetched \in 0 .. Len(dump)
    /\ queue \in Seq(0 .. Len(dump))
    /\ control \in BOOLEAN
    /\ monitor \in {"none", "watch", "failed", "gone"}
    /\ worker \in [Workers -> {"none", "open", "pop", "seek", "io", "gone"}]
    /\ cur \in [Workers -> 0 .. Len(dump)]
    /\ pos \in [Workers -> Nat]
    /\ endpos \in [Workers -> Int]
    /\ rem \in [Workers -> Nat]
    /\ size \in Nat
    /\ replayed \in [DOMAIN dump -> Nat]
    /\ misplaced \in SUBSET Workers
    /\ erred \in SUBSET Workers

\* The records that a replay has to perform: the issues before the first
\* record that cannot be read.
Wanted == {n \in DOMAIN dump : Rec(n).issue /\ \A m \in 1 .. n : Rec(m).magic_ok}

\* No I/O of the trace is replayed twice or invented, and when the program
\* ends normally every one has been replayed, whichever worker took it and
\* however stop messages and records were interleaved.  (-m 0 is accepted, and
\* replays nothing.)
ReplayedOnce ==
    /\ \A n \in DOMAIN dump : replayed[n] <= (IF n \in Wanted THEN 1 ELSE 0)
    /\ main = "done" /\ Multi > 0 => \A n \in Wanted : replayed[n] = 1

\* Once a worker has stopped, only stop messages are left for the others: a
\* stop message never overtakes a request.
StopsComeLast ==
    main # "exit" =>
        \A w \in Workers : worker[w] = "gone" =>
            \A m \in DOMAIN queue : queue[m] = Stop

\* A worker that has seen no error starts each I/O where the trace says,
\* although it seeks only when it believes the offset is elsewhere.
RightPlaceWithoutError == misplaced \subseteq erred

\* Each I/O is done at the offset it is announced at.
RightPlace == misplaced = {}

\* The replay ends and the monitor with it, for dumps whose reads lie within the
\* target: a read beyond its end is retried for ever.
Terminates == <>(main \in {"done", "exit"})
=============================================================================
