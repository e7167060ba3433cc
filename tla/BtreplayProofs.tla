--------------------------- MODULE BtreplayProofs ---------------------------
(***************************************************************************)
(* micbench-btreplay for every number of workers, every dump and every     *)
(* target: types, each I/O is replayed once, stop messages come last, and  *)
(* a worker without an error never does an I/O in the wrong place.         *)
(***************************************************************************)
EXTENDS Btreplay, SequenceTheorems, TLAPS

\* The places of main before it has pushed the last record
Feeding == {"parse", "create", "fetch"}

\* Has worker w taken a record that it has still to replay?
Busy(w) == worker[w] \in {"seek", "io"}

\* The first k messages on the queue are the last k records fetched, in order, and the
\* others are stop messages; what came before is replayed or in the hands of a worker.
Backlog(k) ==
    /\ k \in 0 .. Len(queue) /\ k <= fetched
    /\ \A m \in 1 .. Len(queue) : queue[m] = IF m <= k THEN fetched - k + m ELSE Stop
    /\ main \in Feeding => k = Len(queue)
    /\ main # "exit" /\ (\E w \in Workers : worker[w] = "gone") => k = 0

Taken(k) ==
    /\ \A w \in Workers : Busy(w) => /\ cur[w] \in 1 .. fetched - k
                                     /\ Rec(cur[w]).issue /\ replayed[cur[w]] = 0
    /\ \A v, w \in Workers : Busy(v) /\ Busy(w) /\ cur[v] = cur[w] => v = w
    /\ \A n \in DOMAIN dump :
          /\ replayed[n] # 0 => replayed[n] = 1 /\ n <= fetched - k /\ Rec(n).issue
          /\ n <= fetched - k /\ Rec(n).issue /\ main # "exit" =>
                replayed[n] = 1 \/ \E w \in Workers : Busy(w) /\ cur[w] = n

\* Main stops at the first record that it cannot read, and joins the workers in order.
Progress ==
    /\ \A n \in 1 .. fetched : Rec(n).magic_ok
    /\ main \in Feeding => \A w \in Workers : worker[w] # "gone"
    /\ main \notin Feeding \cup {"exit"} /\ fetched < Len(dump) => ~Rec(fetched + 1).magic_ok
    /\ main = "join" => \A w \in Workers : w <= i => worker[w] = "gone"
    /\ main \in {"joinmonitor", "done", "exit"} => \A w \in Workers : worker[w] = "gone"
    /\ main = "exit" => monitor = "gone"
    /\ main \in {"parse", "create"} => \A w \in Workers : w > i => worker[w] = "none"

\* Worker w has done no I/O elsewhere than asked; between two I/Os it knows where its file
\* offset is, and an I/O under way is on its way to where it should end.
Placed(w) ==
    /\ w \notin misplaced
    /\ worker[w] \in {"none", "open", "pop", "seek"} => endpos[w] \in {-1, pos[w]}
    /\ worker[w] = "io" => pos[w] + rem[w] = Ofst(cur[w]) + Rec(cur[w]).bytes

InPlace == \A w \in Workers \ erred : Placed(w)

ReplayInv == TypeOK /\ Progress /\ \E k \in 0 .. Len(queue) : Backlog(k) /\ Taken(k)
-----------------------------------------------------------------------------
LEMMA RecordType ==
    ASSUME TypeOK, NEW n \in 1 .. Len(dump)
    PROVE  Rec(n) \in Records /\ Ofst(n) \in Nat /\ n \in DOMAIN dump
<1>1. dump \in Seq(Records)
  BY BtreplayAssumption DEF TypeOK
<1>2. Rec(n) \in Records /\ DOMAIN dump = 1 .. Len(dump)
  BY <1>1, LenProperties, ElementOfSeq DEF Rec
<1> QED
  BY <1>2 DEF Ofst, Records, SectorSize

LEMMA LengthType ==
    ASSUME TypeOK
    PROVE  /\ Len(dump) \in Nat /\ DOMAIN dump = 1 .. Len(dump)
           /\ Len(queue) \in Nat /\ DOMAIN queue = 1 .. Len(queue)
  BY LenProperties, BtreplayAssumption DEF TypeOK

\* A worker with a record to replay has one that exists.
LEMMA BusyRecord ==
    ASSUME ReplayInv, NEW w \in Workers, Busy(w)
    PROVE  cur[w] \in 1 .. Len(dump) /\ cur[w] \in DOMAIN dump
  BY LengthType DEF ReplayInv, Taken, TypeOK

LEMMA InitReplay == Init => ReplayInv
<1> SUFFICES ASSUME Init PROVE ReplayInv
  OBVIOUS
<1>1. dump \in Seq(Records) /\ Len(dump) \in Nat /\ DOMAIN dump = 1 .. Len(dump)
  BY BtreplayAssumption, LenProperties DEF Init
<1>2. TypeOK
  <2>1. dump \in Dumps /\ fetched \in 0 .. Len(dump) /\ i \in 0 .. Multi /\ size \in Nat
    BY <1>1, BtreplayAssumption DEF Init
  <2>2. queue \in Seq(0 .. Len(dump))
    BY EmptySeq DEF Init
  <2>3. /\ cur \in [Workers -> 0 .. Len(dump)] /\ replayed \in [DOMAIN dump -> Nat]
        /\ worker \in [Workers -> {"none", "open", "pop", "seek", "io", "gone"}]
    BY <1>1 DEF Init, Stop
  <2>4. pos \in [Workers -> Nat] /\ endpos \in [Workers -> Int] /\ rem \in [Workers -> Nat]
    BY DEF Init
  <2> QED
    BY <2>1, <2>2, <2>3, <2>4 DEF Init, TypeOK
<1>3. Progress
  BY <1>1 DEF Init, Progress, Feeding
<1>4. Backlog(0) /\ Taken(0) /\ 0 \in 0 .. Len(queue)
  BY <1>1, EmptySeq DEF Init, Backlog, Taken, Busy, Feeding
<1> QED
  BY <1>2, <1>3, <1>4 DEF ReplayInv

LEMMA ExitType == TypeOK /\ ExitProcess => TypeOK'
  BY DEF ExitProcess, TypeOK, history

LEMMA MainType == TypeOK /\ (MainStep \/ MonitorFails \/ MonitorEnds) => TypeOK'
<1> SUFFICES ASSUME TypeOK, MainStep \/ MonitorFails \/ MonitorEnds PROVE TypeOK'
  OBVIOUS
<1>1. Multi \in Nat /\ Verbose \in BOOLEAN /\ Len(dump) \in Nat
  BY BtreplayAssumption, LengthType
<1> USE <1>1 DEF TypeOK, mainVars, workVars, history
<1>2. CASE ParseArgs \/ CreateMonitor \/ MonitorFails \/ MonitorEnds
  BY <1>2 DEF ParseArgs, CreateMonitor, MonitorFails, MonitorEnds
<1>3. CASE CreateWorker
  <2>1. i' \in 0 .. Multi
    BY <1>3 DEF CreateWorker
  <2>2. worker' \in [Workers -> {"none", "open", "pop", "seek", "io", "gone"}]
    BY <1>3 DEF CreateWorker
  <2> QED
    BY <1>3, <2>1, <2>2 DEF CreateWorker
<1>4. CASE PushRecord
  <2>1. fetched + 1 \in 0 .. Len(dump)
    BY <1>4 DEF PushRecord
  <2>2. queue' \in Seq(0 .. Len(dump))
    BY <1>4, <2>1, AppendProperties DEF PushRecord
  <2> QED
    BY <1>4, <2>1, <2>2 DEF PushRecord
<1>5. CASE PushStop
  <2>1. queue' \in Seq(0 .. Len(dump))
    BY <1>5, AppendProperties DEF PushStop, Stop
  <2> QED
    BY <1>5, <2>1 DEF PushStop
<1>6. CASE FetchEnds \/ StopsPushed \/ Join
  <2>1. i' \in 0 .. Multi
    BY <1>6 DEF FetchEnds, StopsPushed, Join
  <2> QED
    BY <1>6, <2>1 DEF FetchEnds, StopsPushed, Join
<1>7. CASE StopMonitor \/ JoinMonitor
  BY <1>7 DEF StopMonitor, JoinMonitor
<1> QED
  BY <1>2, <1>3, <1>4, <1>5, <1>6, <1>7 DEF MainStep

LEMMA BeginType ==
    ASSUME ReplayInv, NEW w \in Workers, Busy(w), NEW p \in Nat, BeginIO(w, cur[w], p),
           erred' \in SUBSET Workers
    PROVE  TypeOK'
<1>1. TypeOK /\ Rec(cur[w]).bytes \in Nat
  BY BusyRecord, RecordType DEF ReplayInv, Records
<1>2. misplaced' \in SUBSET Workers
  BY <1>1 DEF BeginIO, TypeOK
<1> QED
  BY <1>1, <1>2 DEF BeginIO, TypeOK, mainVars

LEMMA EndType ==
    ASSUME ReplayInv, NEW w \in Workers, Busy(w), EndIO(w), erred' \in SUBSET Workers
    PROVE  TypeOK'
<1>1. TypeOK /\ Rec(cur[w]).bytes \in Nat /\ Ofst(cur[w]) \in Nat /\ cur[w] \in DOMAIN dump
  BY BusyRecord, RecordType DEF ReplayInv, Records
<1>2. endpos' \in [Workers -> Int] /\ rem' \in [Workers -> Nat]
  BY <1>1 DEF EndIO, TypeOK
<1>3. replayed' \in [DOMAIN dump -> Nat]
  BY <1>1 DEF EndIO, TypeOK
<1>4. worker' \in [Workers -> {"none", "open", "pop", "seek", "io", "gone"}]
  BY <1>1 DEF EndIO, TypeOK
<1> QED
  BY <1>1, <1>2, <1>3, <1>4 DEF EndIO, TypeOK, mainVars

LEMMA WorkerType ==
    ASSUME ReplayInv, NEW w \in Workers, WorkerStep(w) \/ SeekFails(w) \/ IOFails(w)
    PROVE  TypeOK'
<1>0. TypeOK
  BY DEF ReplayInv
<1>1. CASE Open(w)
  BY <1>0, <1>1 DEF Open, TypeOK, mainVars, history
<1>2. CASE Pop(w)
  <2>1. Head(queue) \in 0 .. Len(dump) /\ Tail(queue) \in Seq(0 .. Len(dump))
    BY <1>0, <1>2, HeadTailProperties DEF Pop, TypeOK
  <2> QED
    BY <1>0, <1>2, <2>1 DEF Pop, TypeOK, mainVars, history
<1>3. CASE Seek(w) \/ SeekFails(w)
  <2>1. Busy(w)
    BY <1>3 DEF Seek, SeekFails, Busy
  <2>2. Ofst(cur[w]) \in Nat /\ pos[w] \in Nat /\ erred' \in SUBSET Workers
    BY <1>0, <1>3, <2>1, BusyRecord, RecordType DEF TypeOK, Seek, SeekFails
  <2> QED
    BY <1>3, <2>1, <2>2, BeginType DEF Seek, SeekFails
<1>4. CASE IODone(w) \/ IOFails(w)
  BY <1>0, <1>4, EndType DEF IODone, IOFails, Busy, TypeOK
<1>5. ASSUME NEW k \in Transfers(w), Transfer(w, k) PROVE TypeOK'
  <2>1. rem[w] \in Nat /\ pos[w] \in Nat /\ size \in Nat
    BY <1>0 DEF TypeOK
  <2>2. k \in Nat /\ k <= rem[w]
    BY <1>5, <2>1 DEF Transfers, SectorSize
  <2>3. /\ pos' \in [Workers -> Nat] /\ rem' \in [Workers -> Nat] /\ size' \in Nat
    BY <1>0, <1>5, <2>1, <2>2 DEF Transfer, TypeOK
  <2> QED
    BY <1>0, <1>5, <2>3 DEF Transfer, TypeOK, mainVars, history
<1> QED
  BY <1>1, <1>2, <1>3, <1>4, <1>5 DEF WorkerStep

LEMMA TypeStep == ReplayInv /\ [Next]_vars => TypeOK'
<1> SUFFICES ASSUME ReplayInv, [Next]_vars PROVE TypeOK'
  OBVIOUS
<1>0. TypeOK
  BY DEF ReplayInv
<1>1. CASE MainStep \/ MonitorFails \/ MonitorEnds
  BY <1>0, <1>1, MainType
<1>2. CASE ArgumentError \/ CreateFails \/ NoDump \/ JoinMonitorCrashes
          \/ \E w \in Workers : OpenFails(w)
  BY <1>0, <1>2, ExitType DEF ArgumentError, CreateFails, NoDump, JoinMonitorCrashes, OpenFails
<1>3. CASE \E w \in Workers : WorkerStep(w) \/ SeekFails(w) \/ IOFails(w)
  BY <1>3, WorkerType
<1>4. CASE UNCHANGED vars
  BY <1>0, <1>4 DEF vars, TypeOK, mainVars, workVars, history
<1> QED
  BY <1>1, <1>2, <1>3, <1>4 DEF Next, Failures
-----------------------------------------------------------------------------
\* What stays the same while no message is pushed or popped and no record is taken on,
\* finished or given up
SameWork ==
    /\ UNCHANGED <<dump, fetched, queue, cur, replayed>>
    /\ \A w \in Workers : Busy(w)' <=> Busy(w)
    /\ \A w \in Workers : worker'[w] = "gone" <=> worker[w] = "gone"

LEMMA SameBacklog ==
    ASSUME ReplayInv, SameWork, main' \notin {"exit"}, main # "exit",
           main' \in Feeding => main \in Feeding
    PROVE  \E k \in 0 .. Len(queue') : Backlog(k)' /\ Taken(k)'
<1>1. PICK k \in 0 .. Len(queue) : Backlog(k) /\ Taken(k)
  BY DEF ReplayInv
<1>2. Backlog(k)'
  BY <1>1 DEF Backlog, SameWork
<1>3. Taken(k)'
  BY <1>1 DEF Taken, SameWork, Rec
<1> QED
  BY <1>2, <1>3 DEF SameWork

LEMMA ExitReplay == ReplayInv /\ ExitProcess => ReplayInv'
<1> SUFFICES ASSUME ReplayInv, ExitProcess PROVE ReplayInv'
  OBVIOUS
<1>1. PICK k \in 0 .. Len(queue) : Backlog(k) /\ Taken(k)
  BY DEF ReplayInv
<1>2. \A w \in Workers : worker'[w] = "gone"
  BY DEF ExitProcess
<1>3. Backlog(k)'
  BY <1>1 DEF Backlog, ExitProcess, Feeding
<1>4. Taken(k)'
  BY <1>1, <1>2 DEF Taken, ExitProcess, Busy, Rec, history
<1>5. Progress'
  BY <1>2 DEF ReplayInv, Progress, ExitProcess, Feeding, Rec
<1>6. TypeOK'
  BY ExitType DEF ReplayInv
<1> QED
  BY <1>3, <1>4, <1>5, <1>6 DEF ReplayInv, ExitProcess

\* Main or the monitor goes on, but pushes nothing.
LEMMA QuietReplay ==
    ASSUME ReplayInv,
           \/ ParseArgs \/ CreateWorker \/ CreateMonitor \/ MonitorFails \/ FetchEnds
           \/ StopsPushed \/ Join \/ StopMonitor \/ JoinMonitor \/ MonitorEnds
    PROVE  ReplayInv'
<1>0. /\ TypeOK /\ TypeOK' /\ Progress /\ Multi \in Nat
      /\ i \in 0 .. Multi /\ worker \in [Workers -> {"none", "open", "pop", "seek", "io", "gone"}]
  BY MainType, BtreplayAssumption DEF ReplayInv, MainStep, TypeOK
<1>1. CASE CreateWorker
  <2>1. worker[i + 1] = "none" /\ i + 1 \in Workers /\ i \in Nat
    BY <1>0, <1>1 DEF CreateWorker, Progress, TypeOK, Workers
  <2>2. SameWork
    BY <1>0, <1>1, <2>1 DEF CreateWorker, SameWork, Busy, history, TypeOK
  <2>3. main # "exit" /\ main' = main
    BY <1>1 DEF CreateWorker
  <2>4. Progress'
    BY <1>0, <1>1, <2>1 DEF CreateWorker, Progress, Feeding, Rec, Workers
  <2> QED
    BY <1>0, <2>2, <2>3, <2>4, SameBacklog DEF ReplayInv
<1>2. CASE \/ ParseArgs \/ CreateMonitor \/ MonitorFails \/ FetchEnds \/ StopsPushed \/ Join
          \/ StopMonitor \/ JoinMonitor
  <2>1. SameWork /\ worker' = worker
    BY <1>2 DEF SameWork, Busy, workVars, history,
                ParseArgs, CreateMonitor, MonitorFails, FetchEnds, StopsPushed, Join,
                StopMonitor, JoinMonitor
  <2>2. main # "exit" /\ main' # "exit" /\ (main' \in Feeding => main \in Feeding)
    BY <1>2 DEF Feeding,
                ParseArgs, CreateMonitor, MonitorFails, FetchEnds, StopsPushed, Join,
                StopMonitor, JoinMonitor
  <2>3. Progress'
    <3> USE <1>0 DEF Progress, Feeding, Rec, Workers
    <3>1. CASE ParseArgs \/ CreateMonitor \/ MonitorFails
      BY <2>1, <3>1 DEF ParseArgs, CreateMonitor, MonitorFails
    <3>2. CASE FetchEnds
      BY <2>1, <3>2 DEF FetchEnds
    <3>3. CASE StopsPushed \/ Join
      BY <2>1, <3>3 DEF StopsPushed, Join
    <3>4. CASE StopMonitor
      BY <2>1, <3>4 DEF StopMonitor
    <3>5. CASE JoinMonitor
      BY <2>1, <3>5 DEF JoinMonitor
    <3> QED
      BY <1>2, <3>1, <3>2, <3>3, <3>4, <3>5
  <2> QED
    BY <1>0, <2>1, <2>2, <2>3, SameBacklog DEF ReplayInv
<1>3. CASE MonitorEnds
  <2>1. SameWork /\ main # "exit" /\ main' = main /\ Progress'
    BY <1>0, <1>3 DEF MonitorEnds, SameWork, Busy, workVars, history, mainVars, Progress, Rec
  <2> QED
    BY <1>0, <2>1, SameBacklog DEF ReplayInv
<1> QED
  BY <1>1, <1>2, <1>3

LEMMA PushRecordReplay == ReplayInv /\ PushRecord => ReplayInv'
<1> SUFFICES ASSUME ReplayInv, PushRecord PROVE ReplayInv'
  OBVIOUS
<1>0. /\ TypeOK /\ TypeOK' /\ Progress /\ Len(dump) \in Nat /\ Len(queue) \in Nat
      /\ fetched \in 0 .. Len(dump) /\ queue \in Seq(0 .. Len(dump))
  BY MainType, LengthType DEF ReplayInv, MainStep, TypeOK
<1>1. PICK k \in 0 .. Len(queue) : Backlog(k) /\ Taken(k)
  BY DEF ReplayInv
<1>2. k = Len(queue)
  BY <1>1 DEF PushRecord, Backlog, Feeding
<1>3. /\ Len(queue') = Len(queue) + 1 /\ queue'[Len(queue) + 1] = fetched + 1
      /\ \A m \in 1 .. Len(queue) : queue'[m] = queue[m]
  <2>1. fetched + 1 \in 0 .. Len(dump)
    BY <1>0 DEF PushRecord
  <2> QED
    BY <1>0, <2>1, AppendProperties DEF PushRecord
<1>4. Backlog(k + 1)'
  <2>1. k + 1 \in 0 .. Len(queue') /\ k + 1 <= fetched' /\ k + 1 = Len(queue')
    BY <1>0, <1>1, <1>2, <1>3 DEF Backlog, PushRecord
  <2>2. \A m \in 1 .. Len(queue') : queue'[m] = IF m <= k + 1 THEN fetched' - (k + 1) + m ELSE Stop
    BY <1>0, <1>1, <1>2, <1>3 DEF Backlog, PushRecord
  <2>3. \A w \in Workers : worker'[w] # "gone"
    BY <1>0 DEF Progress, PushRecord, Feeding, workVars
  <2> QED
    BY <2>1, <2>2, <2>3 DEF Backlog
<1>5. Taken(k + 1)'
  <2>1. fetched' - (k + 1) = fetched - k
    BY <1>0 DEF PushRecord
  <2>2. UNCHANGED <<dump, main, worker, cur, replayed>>
    BY DEF PushRecord, workVars, history
  <2> QED
    BY <1>1, <2>1, <2>2 DEF Taken, Busy, Rec
<1>6. Progress'
  <2>1. \A n \in 1 .. fetched + 1 : Rec(n).magic_ok
    BY <1>0 DEF Progress, PushRecord
  <2> QED
    BY <1>0, <2>1 DEF PushRecord, Progress, Feeding, Rec, workVars
<1> QED
  BY <1>0, <1>2, <1>3, <1>4, <1>5, <1>6 DEF ReplayInv

LEMMA PushStopReplay == ReplayInv /\ PushStop => ReplayInv'
<1> SUFFICES ASSUME ReplayInv, PushStop PROVE ReplayInv'
  OBVIOUS
<1>0. /\ TypeOK /\ TypeOK' /\ Progress /\ Len(dump) \in Nat /\ Len(queue) \in Nat
      /\ queue \in Seq(0 .. Len(dump)) /\ Stop \in 0 .. Len(dump)
  <2>1. TypeOK /\ TypeOK' /\ Progress
    BY MainType DEF ReplayInv, MainStep
  <2>2. Len(dump) \in Nat /\ Len(queue) \in Nat
    BY <2>1, LengthType
  <2>3. queue \in Seq(0 .. Len(dump))
    BY <2>1 DEF TypeOK
  <2> QED
    BY <2>1, <2>2, <2>3 DEF Stop
<1>1. PICK k \in 0 .. Len(queue) : Backlog(k) /\ Taken(k)
  BY DEF ReplayInv
<1>2. /\ Len(queue') = Len(queue) + 1 /\ queue'[Len(queue) + 1] = Stop
      /\ \A m \in 1 .. Len(queue) : queue'[m] = queue[m]
  BY <1>0, AppendProperties DEF PushStop
<1>3. /\ UNCHANGED <<dump, main, fetched, worker, cur, replayed>> /\ main = "stop"
  BY DEF PushStop, workVars, history
<1>4. Backlog(k)'
  <2>1. \A m \in 1 .. Len(queue') : queue'[m] = IF m <= k THEN fetched' - k + m ELSE Stop
    BY <1>0, <1>1, <1>2, <1>3 DEF Backlog
  <2> QED
    BY <1>0, <1>1, <1>2, <1>3, <2>1 DEF Backlog, Feeding
<1>5. Taken(k)'
  BY <1>1, <1>3 DEF Taken, Busy, Rec
<1>6. Progress'
  BY <1>0, <1>3 DEF Progress, Feeding, Rec
<1> QED
  BY <1>0, <1>2, <1>4, <1>5, <1>6 DEF ReplayInv

\* A record or a stop message leaves the queue.
LEMMA PopReplay ==
    ASSUME ReplayInv, NEW w \in Workers, Pop(w)
    PROVE  ReplayInv'
<1>0. /\ TypeOK /\ TypeOK' /\ Progress /\ Len(dump) \in Nat /\ Len(queue) \in Nat
      /\ DOMAIN dump = 1 .. Len(dump)
      /\ queue \in Seq(0 .. Len(dump)) /\ queue # <<>> /\ fetched \in 0 .. Len(dump)
      /\ worker \in [Workers -> {"none", "open", "pop", "seek", "io", "gone"}]
      /\ cur \in [Workers -> 0 .. Len(dump)]
  BY WorkerType, LengthType DEF ReplayInv, WorkerStep, TypeOK, Pop
<1>1. PICK k \in 0 .. Len(queue) : Backlog(k) /\ Taken(k)
  BY DEF ReplayInv
<1>2. /\ Len(queue) > 0 /\ Len(queue') = Len(queue) - 1 /\ Head(queue) = queue[1]
      /\ \A m \in 1 .. Len(queue') : queue'[m] = queue[m + 1]
  BY <1>0, HeadTailProperties, EmptySeq DEF Pop
<1>3. /\ UNCHANGED <<dump, main, fetched, replayed, monitor, i>> /\ main # "exit" /\ worker[w] = "pop"
  BY <1>0 DEF Pop, mainVars, history, Progress
<1>4. /\ \A v \in Workers \ {w} : worker'[v] = worker[v] /\ cur'[v] = cur[v]
      /\ cur'[w] = queue[1]
      /\ worker'[w] = IF queue[1] = Stop THEN "gone"
                      ELSE IF Rec(queue[1]).issue THEN "seek" ELSE "pop"
  BY <1>0, <1>2 DEF Pop
<1>5. CASE k = 0
  <2>1. queue[1] = Stop /\ main \notin Feeding
    BY <1>0, <1>1, <1>2, <1>5 DEF Backlog
  <2>2. worker'[w] = "gone"
    BY <1>4, <2>1
  <2>3. Backlog(0)'
    BY <1>0, <1>1, <1>2, <1>3, <1>5, <2>1 DEF Backlog
  <2>4. \A v \in Workers : /\ Busy(v)' <=> Busy(v)
                           /\ Busy(v) => cur'[v] = cur[v]
    BY <1>3, <1>4, <2>2 DEF Busy
  <2>5. Taken(0)'
    BY <1>1, <1>3, <1>5, <2>4 DEF Taken, Rec
  <2>6. Progress'
    BY <1>0, <1>3, <1>4, <2>1, <2>2 DEF Progress, Feeding, Rec
  <2> QED
    BY <1>0, <1>2, <2>3, <2>5, <2>6 DEF ReplayInv
<1>6. CASE k > 0
  <2> DEFINE n == fetched - k + 1
  <2>1. queue[1] = n /\ n \in 1 .. fetched /\ n # Stop /\ n \in DOMAIN dump
    BY <1>0, <1>1, <1>2, <1>6 DEF Backlog, Stop
  <2>2. \A v \in Workers : worker[v] # "gone" /\ worker'[v] # "gone"
    BY <1>1, <1>3, <1>4, <1>6, <2>1 DEF Backlog
  <2>3. Backlog(k - 1)'
    <3>1. \A m \in 1 .. Len(queue') :
             queue'[m] = IF m <= k - 1 THEN fetched' - (k - 1) + m ELSE Stop
      BY <1>0, <1>1, <1>2, <1>3, <1>6 DEF Backlog
    <3> QED
      BY <1>0, <1>1, <1>2, <1>3, <1>6, <2>2, <3>1 DEF Backlog
  <2>4. Taken(k - 1)'
    <3>0. /\ fetched' - (k - 1) = n /\ fetched - k = n - 1 /\ n \in Nat
          /\ replayed[n] = 0
      BY <1>0, <1>1, <1>3, <1>6, <2>1 DEF Taken
    <3>1. Busy(w)' <=> Rec(n).issue
      BY <1>4, <2>1 DEF Busy
    <3>2. cur'[w] = n /\ ~Busy(w)
      BY <1>3, <1>4, <2>1 DEF Busy
    <3>3. \A v \in Workers \ {w} : (Busy(v)' <=> Busy(v)) /\ cur'[v] = cur[v]
      BY <1>4 DEF Busy
    <3>4. \A v \in Workers : Busy(v) => cur[v] \in 1 .. n - 1
      BY <1>1, <3>0 DEF Taken
    <3>5. \A v \in Workers : Busy(v)' => /\ cur'[v] \in 1 .. n
                                         /\ Rec(cur'[v]).issue /\ replayed[cur'[v]] = 0
      BY <1>1, <2>1, <3>0, <3>1, <3>2, <3>3, <3>4 DEF Taken
    <3>6. \A u, v \in Workers : Busy(u)' /\ Busy(v)' /\ cur'[u] = cur'[v] => u = v
      BY <1>1, <3>0, <3>2, <3>3, <3>4 DEF Taken
    <3>7. ASSUME NEW j \in DOMAIN dump, j <= n, Rec(j).issue
          PROVE  replayed[j] = 1 \/ \E v \in Workers : Busy(v)' /\ cur'[v] = j
      <4>1. CASE j = n
        BY <3>1, <3>2, <3>7, <4>1
      <4>2. CASE j # n
        <5>1. j <= fetched - k
          BY <1>0, <3>0, <3>7, <4>2
        <5>2. replayed[j] = 1 \/ \E v \in Workers : Busy(v) /\ cur[v] = j
          BY <1>1, <1>3, <3>7, <5>1 DEF Taken
        <5> QED
          BY <3>2, <3>3, <5>2
      <4> QED
        BY <4>1, <4>2
    <3>8. \A j \in DOMAIN dump : replayed[j] # 0 => replayed[j] = 1 /\ j <= n /\ Rec(j).issue
      BY <1>0, <1>1, <3>0 DEF Taken
    <3> QED
      BY <1>3, <3>0, <3>5, <3>6, <3>7, <3>8 DEF Taken, Rec
  <2>5. Progress'
    BY <1>0, <1>3, <1>4, <2>1, <2>2 DEF Progress, Feeding, Rec
  <2> QED
    BY <1>0, <1>2, <1>6, <2>3, <2>4, <2>5 DEF ReplayInv
<1> QED
  BY <1>1, <1>5, <1>6

\* A worker goes on with the record that it has.
LEMMA BusyReplay ==
    ASSUME ReplayInv, NEW w \in Workers,
           \/ Open(w) \/ Seek(w) \/ SeekFails(w) \/ \E k \in Transfers(w) : Transfer(w, k)
    PROVE  ReplayInv'
<1>0. /\ TypeOK /\ TypeOK' /\ Progress
      /\ worker \in [Workers -> {"none", "open", "pop", "seek", "io", "gone"}]
  BY WorkerType DEF ReplayInv, WorkerStep, TypeOK
<1>1. /\ UNCHANGED <<dump, mainVars, queue, monitor, cur, replayed>>
      /\ worker[w] \in {"open", "seek", "io"}
      /\ \/ worker' = [worker EXCEPT ![w] = IF worker[w] = "open" THEN "pop" ELSE "io"]
         \/ worker' = worker
      /\ Busy(w)' <=> Busy(w)
  BY <1>0 DEF Open, Seek, SeekFails, Transfer, BeginIO, history, Busy
<1>2. /\ \A v \in Workers \ {w} : worker'[v] = worker[v]
      /\ worker'[w] \notin {"gone", "none"} /\ worker[w] \notin {"gone", "none"}
  BY <1>0, <1>1
<1>3. SameWork
  BY <1>1, <1>2 DEF SameWork, Busy, mainVars
<1>4. main # "exit" /\ main' = main
  BY <1>0, <1>1, <1>2 DEF Progress, mainVars
<1>5. Progress'
  BY <1>0, <1>1, <1>2 DEF Progress, Rec, mainVars
<1> QED
  BY <1>0, <1>3, <1>4, <1>5, SameBacklog DEF ReplayInv

\* A worker is done with its record, which is replayed for the first time.
LEMMA EndReplay ==
    ASSUME ReplayInv, NEW w \in Workers, IODone(w) \/ IOFails(w)
    PROVE  ReplayInv'
<1>0. /\ TypeOK /\ TypeOK' /\ Progress
      /\ worker \in [Workers -> {"none", "open", "pop", "seek", "io", "gone"}]
      /\ replayed \in [DOMAIN dump -> Nat]
  BY WorkerType DEF ReplayInv, WorkerStep, TypeOK
<1>1. PICK k \in 0 .. Len(queue) : Backlog(k) /\ Taken(k)
  BY DEF ReplayInv
<1>2. /\ UNCHANGED <<dump, mainVars, queue, monitor, cur>> /\ Busy(w) /\ worker[w] = "io"
      /\ replayed' = [replayed EXCEPT ![cur[w]] = @ + 1]
      /\ worker' = [worker EXCEPT ![w] = "pop"]
  BY DEF IODone, IOFails, EndIO, Busy
<1>3. cur[w] \in DOMAIN dump /\ main # "exit" /\ cur[w] \in 1 .. fetched - k
  BY <1>0, <1>1, <1>2, BusyRecord DEF Progress, Taken
<1>4. /\ replayed[cur[w]] = 0 /\ replayed'[cur[w]] = 1 /\ Rec(cur[w]).issue
      /\ \A n \in DOMAIN dump : n # cur[w] => replayed'[n] = replayed[n]
  BY <1>0, <1>1, <1>2, <1>3 DEF Taken
<1>5. /\ worker'[w] = "pop" /\ ~Busy(w)'
      /\ \A v \in Workers : v # w => worker'[v] = worker[v] /\ (Busy(v)' <=> Busy(v))
  BY <1>0, <1>2 DEF Busy
<1>6. Backlog(k)'
  <2>1. (\E v \in Workers : worker'[v] = "gone") => \E v \in Workers : worker[v] = "gone"
    BY <1>5
  <2> QED
    BY <1>1, <1>2, <2>1 DEF Backlog, mainVars
<1>7. Taken(k)'
  <2>1. \A v \in Workers : Busy(v)' => v # w /\ Busy(v) /\ cur[v] # cur[w]
    BY <1>1, <1>2, <1>5 DEF Taken
  <2>2. \A v \in Workers : Busy(v)' => /\ cur[v] \in 1 .. fetched - k
                                       /\ Rec(cur[v]).issue /\ replayed'[cur[v]] = 0
    BY <1>1, <1>4, <2>1, BusyRecord DEF Taken
  <2>3. \A n \in DOMAIN dump :
           /\ replayed'[n] # 0 => replayed'[n] = 1 /\ n <= fetched - k /\ Rec(n).issue
           /\ n <= fetched - k /\ Rec(n).issue =>
                 replayed'[n] = 1 \/ \E v \in Workers : Busy(v)' /\ cur[v] = n
    BY <1>1, <1>3, <1>4, <1>5 DEF Taken
  <2> QED
    BY <1>1, <1>2, <2>1, <2>2, <2>3 DEF Taken, Rec, mainVars
<1>8. Progress'
  BY <1>0, <1>2, <1>5 DEF Progress, Rec, mainVars
<1> QED
  BY <1>0, <1>1, <1>2, <1>6, <1>7, <1>8 DEF ReplayInv

LEMMA ReplayStep == ReplayInv /\ [Next]_vars => ReplayInv'
<1> SUFFICES ASSUME ReplayInv, [Next]_vars PROVE ReplayInv'
  OBVIOUS
<1>1. CASE MainStep \/ MonitorFails \/ MonitorEnds
  BY <1>1, QuietReplay, PushRecordReplay, PushStopReplay DEF MainStep
<1>2. CASE ArgumentError \/ CreateFails \/ NoDump \/ JoinMonitorCrashes
          \/ \E w \in Workers : OpenFails(w)
  BY <1>2, ExitReplay DEF ArgumentError, CreateFails, NoDump, JoinMonitorCrashes, OpenFails
<1>3. CASE \E w \in Workers : WorkerStep(w) \/ SeekFails(w) \/ IOFails(w)
  BY <1>3, BusyReplay, PopReplay, EndReplay DEF WorkerStep
<1>4. CASE UNCHANGED vars
  <2>1. UNCHANGED <<dump, main, i, fetched, queue, monitor, worker, cur, replayed>>
    BY <1>4 DEF vars, mainVars, workVars, history
  <2>2. PICK k \in 0 .. Len(queue) : Backlog(k) /\ Taken(k)
    BY DEF ReplayInv
  <2>3. Backlog(k)' /\ Taken(k)'
    BY <2>1, <2>2 DEF Backlog, Taken, Busy, Rec
  <2>4. Progress'
    BY <2>1 DEF ReplayInv, Progress, Rec
  <2> QED
    BY <2>1, <2>3, <2>4, TypeStep DEF ReplayInv
<1> QED
  BY <1>1, <1>2, <1>3, <1>4 DEF Next, Failures
-----------------------------------------------------------------------------
LEMMA InitInPlace == Init => InPlace
  BY DEF Init, InPlace, Placed

\* A worker is where it was unless it moves itself.
LEMMA SamePlace ==
    ASSUME NEW v \in Workers, Placed(v), dump' = dump, v \in misplaced' => v \in misplaced,
           pos'[v] = pos[v], endpos'[v] = endpos[v], rem'[v] = rem[v],
           worker'[v] = "io" => worker[v] = "io" /\ cur'[v] = cur[v],
           worker'[v] \in {"none", "open", "pop", "seek"} =>
               worker[v] \in {"none", "open", "pop", "seek"}
    PROVE  Placed(v)'
  BY DEF Placed, Ofst, Rec

LEMMA MainInPlace ==
    ASSUME ReplayInv, NEW v \in Workers, Placed(v),
           MainStep \/ MonitorFails \/ MonitorEnds \/ ExitProcess \/ UNCHANGED vars
    PROVE  Placed(v)'
<1>1. UNCHANGED <<dump, cur, pos, endpos, rem, misplaced>>
  BY DEF vars, mainVars, workVars, history, MainStep, MonitorEnds, ExitProcess, ParseArgs,
         CreateWorker, CreateMonitor, MonitorFails, PushRecord, FetchEnds, PushStop,
         StopsPushed, Join, StopMonitor, JoinMonitor
<1>2. \/ worker'[v] = worker[v]
      \/ worker'[v] = "gone"
      \/ worker[v] = "none" /\ worker'[v] = "open"
  <2>1. CASE CreateWorker
    <3>1. worker \in [Workers -> {"none", "open", "pop", "seek", "io", "gone"}] /\ i \in Nat
      BY BtreplayAssumption DEF ReplayInv, TypeOK
    <3>2. v = i + 1 => worker[v] = "none"
      <4>1. Progress /\ main = "create" /\ v > i => worker[v] = "none"
        BY DEF Progress
      <4> QED
        BY <2>1, <3>1, <4>1 DEF CreateWorker, ReplayInv
    <3> QED
      BY <2>1, <3>1, <3>2 DEF CreateWorker
  <2>2. CASE ExitProcess
    BY <2>2 DEF ExitProcess
  <2> QED
    BY <2>1, <2>2 DEF vars, workVars, MainStep, MonitorEnds, ParseArgs, CreateMonitor, MonitorFails,
         PushRecord, FetchEnds, PushStop, StopsPushed, Join, StopMonitor, JoinMonitor
<1> QED
  BY <1>1, <1>2, SamePlace

\* Worker w begins an I/O: where it should, unless it has met an error.
LEMMA SeekInPlace ==
    ASSUME ReplayInv, NEW w \in Workers, Placed(w), Seek(w)
    PROVE  Placed(w)'
<1>0. Busy(w)
  BY DEF Seek, Busy
<1>1. /\ Ofst(cur[w]) \in Nat /\ Rec(cur[w]).bytes \in Nat
      /\ pos \in [Workers -> Nat] /\ rem \in [Workers -> Nat]
      /\ worker \in [Workers -> {"none", "open", "pop", "seek", "io", "gone"}]
  BY <1>0, BusyRecord, RecordType DEF ReplayInv, TypeOK, Records
<1>2. endpos[w] \in {-1, pos[w]}
  BY DEF Placed, Seek
<1>3. /\ BeginIO(w, cur[w], Ofst(cur[w]))
  BY <1>1, <1>2 DEF Seek
<1>4. /\ pos'[w] = Ofst(cur[w]) /\ rem'[w] = Rec(cur[w]).bytes /\ worker'[w] = "io"
      /\ misplaced' = misplaced /\ UNCHANGED <<dump, cur>>
  BY <1>1, <1>3 DEF BeginIO
<1> QED
  BY <1>1, <1>4 DEF Placed, Ofst, Rec

LEMMA MoveInPlace ==
    ASSUME ReplayInv, NEW w \in Workers, Placed(w),
           IODone(w) \/ \E k \in Transfers(w) : Transfer(w, k)
    PROVE  Placed(w)'
<1>1. /\ pos \in [Workers -> Nat] /\ rem \in [Workers -> Nat] /\ endpos \in [Workers -> Int]
      /\ worker \in [Workers -> {"none", "open", "pop", "seek", "io", "gone"}]
  BY DEF ReplayInv, TypeOK
<1>2. pos[w] + rem[w] = Ofst(cur[w]) + Rec(cur[w]).bytes /\ worker[w] = "io"
  BY DEF Placed, IODone, Transfer
<1>3. CASE IODone(w)
  BY <1>1, <1>2, <1>3 DEF IODone, EndIO, Placed
<1>4. ASSUME NEW k \in Transfers(w), Transfer(w, k) PROVE Placed(w)'
  <2>1. k \in Nat /\ k <= rem[w]
    BY <1>1, <1>4 DEF Transfers, SectorSize
  <2>2. /\ pos'[w] + rem'[w] = pos[w] + rem[w] /\ worker'[w] = "io"
        /\ UNCHANGED <<dump, cur, misplaced>>
    BY <1>1, <1>2, <1>4, <2>1 DEF Transfer, history
  <2> QED
    BY <1>2, <2>2 DEF Placed, Ofst, Rec
<1> QED
  BY <1>3, <1>4

\* What the other workers do leaves v alone.
LEMMA OtherInPlace ==
    ASSUME ReplayInv, NEW v \in Workers, Placed(v), NEW w \in Workers, v # w,
           WorkerStep(w) \/ SeekFails(w) \/ IOFails(w)
    PROVE  Placed(v)'
<1>1. /\ worker \in [Workers -> {"none", "open", "pop", "seek", "io", "gone"}]
      /\ cur \in [Workers -> 0 .. Len(dump)] /\ pos \in [Workers -> Nat]
      /\ rem \in [Workers -> Nat] /\ endpos \in [Workers -> Int]
  BY DEF ReplayInv, TypeOK
<1>2. /\ worker'[v] = worker[v] /\ cur'[v] = cur[v] /\ pos'[v] = pos[v]
      /\ rem'[v] = rem[v] /\ endpos'[v] = endpos[v]
      /\ dump' = dump /\ (v \in misplaced' => v \in misplaced)
  <2>1. CASE Open(w) \/ Pop(w)
    BY <1>1, <2>1 DEF Open, Pop, history
  <2>2. CASE Seek(w) \/ SeekFails(w)
    BY <1>1, <2>2 DEF Seek, SeekFails, BeginIO
  <2>3. CASE IODone(w) \/ IOFails(w)
    BY <1>1, <2>3 DEF IODone, IOFails, EndIO
  <2>4. CASE \E k \in Transfers(w) : Transfer(w, k)
    BY <1>1, <2>4 DEF Transfer, history
  <2> QED
    BY <2>1, <2>2, <2>3, <2>4 DEF WorkerStep
<1> QED
  BY <1>2, SamePlace

LEMMA InPlaceStep == ReplayInv /\ InPlace /\ [Next]_vars => InPlace'
<1> SUFFICES ASSUME ReplayInv, InPlace, [Next]_vars, NEW v \in Workers, v \notin erred'
             PROVE  Placed(v)'
  BY DEF InPlace
<1>1. v \notin erred
  <2>1. erred \subseteq erred'
    BY DEF Next, vars, mainVars, history, MainStep, MonitorEnds, Failures, ArgumentError,
           CreateFails, NoDump, JoinMonitorCrashes, OpenFails, ExitProcess, ParseArgs, CreateWorker,
           CreateMonitor, MonitorFails, PushRecord, FetchEnds, PushStop, StopsPushed, Join,
           StopMonitor, JoinMonitor,
           WorkerStep, Open, Pop, Seek, SeekFails, IODone, IOFails, Transfer
  <2> QED
    BY <2>1
<1>2. Placed(v)
  BY <1>1 DEF InPlace
<1>3. CASE MainStep \/ MonitorFails \/ MonitorEnds \/ UNCHANGED vars
  BY <1>2, <1>3, MainInPlace
<1>4. CASE ArgumentError \/ CreateFails \/ NoDump \/ JoinMonitorCrashes
          \/ \E w \in Workers : OpenFails(w)
  BY <1>2, <1>4, MainInPlace DEF ArgumentError, CreateFails, NoDump, JoinMonitorCrashes, OpenFails
<1>5. ASSUME NEW w \in Workers, WorkerStep(w) \/ SeekFails(w) \/ IOFails(w)
      PROVE  Placed(v)'
  <2>1. CASE v # w
    BY <1>2, <1>5, <2>1, OtherInPlace
  <2>2. CASE v = w
    <3>1. CASE Open(w) \/ Pop(w)
      <4>1. worker \in [Workers -> {"none", "open", "pop", "seek", "io", "gone"}]
        BY DEF ReplayInv, TypeOK
      <4> QED
        BY <1>2, <2>2, <3>1, <4>1, SamePlace DEF Open, Pop, history
    <3>2. CASE SeekFails(w) \/ IOFails(w)
      BY <2>2, <3>2 DEF SeekFails, IOFails
    <3> QED
      BY <1>2, <1>5, <2>2, <3>1, <3>2, SeekInPlace, MoveInPlace DEF WorkerStep
  <2> QED
    BY <2>1, <2>2
<1> QED
  BY <1>3, <1>4, <1>5 DEF Next, Failures
-----------------------------------------------------------------------------
\* Every state of the replay is one of main, the queue and the workers as their types say.
THEOREM ReplayTypes == Spec => []TypeOK
<1>1. ReplayInv => TypeOK
  BY DEF ReplayInv
<1> QED
  BY <1>1, InitReplay, ReplayStep, PTL DEF Spec

\* No stop message overtakes a record, for any number of workers: the queue is the records
\* not yet taken, in order, followed by stop messages, and the first worker to stop has
\* found it without records.
THEOREM StopsLast == Spec => []StopsComeLast
<1>1. ASSUME ReplayInv PROVE StopsComeLast
  <2>1. PICK k \in 0 .. Len(queue) : Backlog(k)
    BY <1>1 DEF ReplayInv
  <2>2. DOMAIN queue = 1 .. Len(queue)
    BY <1>1, LengthType DEF ReplayInv
  <2>3. ASSUME main # "exit", NEW w \in Workers, worker[w] = "gone", NEW m \in 1 .. Len(queue)
        PROVE  queue[m] = Stop
    <3>1. k = 0 /\ ~(m <= 0)
      BY <2>1, <2>3 DEF Backlog
    <3> QED
      BY <2>1, <3>1 DEF Backlog
  <2> QED
    BY <2>2, <2>3 DEF StopsComeLast
<1> QED
  BY <1>1, InitReplay, ReplayStep, PTL DEF Spec

\* Each issued I/O of the trace is replayed at most once, no other is, and all of them
\* have been when main is done: a record is on the queue, with one worker, or replayed.
THEOREM Replayed == Spec => []ReplayedOnce
<1>1. ASSUME ReplayInv PROVE ReplayedOnce
  <2>0. TypeOK /\ Progress /\ Multi \in Nat /\ Len(dump) \in Nat /\ DOMAIN dump = 1 .. Len(dump)
        /\ fetched \in 0 .. Len(dump) /\ replayed \in [DOMAIN dump -> Nat]
    BY <1>1, LengthType, BtreplayAssumption DEF ReplayInv, TypeOK
  <2>1. PICK k \in 0 .. Len(queue) : Backlog(k) /\ Taken(k)
    BY <1>1 DEF ReplayInv
  <2>2. k \in Nat
    BY <1>1, <2>1, LengthType DEF ReplayInv
  <2>3. ASSUME NEW n \in DOMAIN dump PROVE replayed[n] <= (IF n \in Wanted THEN 1 ELSE 0)
    <3>1. CASE replayed[n] = 0
      BY <3>1
    <3>2. CASE replayed[n] # 0
      <4>1. replayed[n] = 1 /\ n <= fetched /\ Rec(n).issue
        BY <2>0, <2>1, <2>2, <3>2 DEF Taken
      <4>2. n \in Wanted
        BY <2>0, <4>1 DEF Wanted, Progress
      <4> QED
        BY <4>1, <4>2
    <3> QED
      BY <3>1, <3>2
  <2>4. ASSUME main = "done", Multi > 0, NEW n \in Wanted PROVE replayed[n] = 1
    <3>1. \A w \in Workers : worker[w] = "gone" /\ ~Busy(w)
      BY <2>0, <2>4 DEF Progress, Busy
    <3>2. k = 0
      BY <2>0, <2>1, <2>4, <3>1 DEF Backlog, Workers
    <3>3. n <= fetched
      BY <2>0, <2>4 DEF Wanted, Progress, Feeding
    <3> QED
      BY <2>0, <2>1, <2>4, <3>1, <3>2, <3>3 DEF Taken, Wanted
  <2> QED
    BY <2>3, <2>4 DEF ReplayedOnce
<1> QED
  BY <1>1, InitReplay, ReplayStep, PTL DEF Spec

\* A worker none of whose system calls failed starts each I/O at the offset of the trace,
\* though it skips lseek64 whenever endpos says so.
THEOREM RightPlaced == Spec => []RightPlaceWithoutError
<1>1. ReplayInv /\ InPlace => RightPlaceWithoutError
  BY DEF ReplayInv, TypeOK, InPlace, Placed, RightPlaceWithoutError
<1>2. Init => ReplayInv /\ InPlace
  BY InitReplay, InitInPlace
<1>3. ReplayInv /\ InPlace /\ [Next]_vars => (ReplayInv /\ InPlace)'
  BY ReplayStep, InPlaceStep
<1> QED
  BY <1>1, <1>2, <1>3, PTL DEF Spec
=============================================================================
