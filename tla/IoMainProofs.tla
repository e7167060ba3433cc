---------------------------- MODULE IoMainProofs ----------------------------
(***************************************************************************)
(* micbench-io for every number of threads and every command line: the     *)
(* result is the work of all threads, the log of a thread that is alone    *)
(* has the line of each I/O of it, the list of files is whole, no affinity *)
(* is stored outside of its array, and each thread is bound to the CPUs    *)
(* that were asked for.                                                    *)
(***************************************************************************)
EXTENDS IoMain, SumProofs

\* The places of main before it has a result
Running == {"parse", "params", "create", "join"}
Places == Running \cup {"json", "corrupt"} \cup Ended

\* The places of a thread that is no more, or has never been
Over == {"done", "failed", "gone"}
Active == {"none", "start", "open", "loop", "test", "set", "format", "write", "put", "load",
           "bump", "close"}

\* The part of the state that the result depends on
CoreType ==
    /\ user \in Commands /\ option = IoArgs(user)
    /\ main \in Places
    /\ i \in 0 .. option.multi
    /\ pc \in [Threads -> Active \cup Over]
    /\ io_count \in [Threads -> Nat] /\ meter \in [Threads -> Nat]

\* Main creates the threads in order, and joins them in order.
Progress ==
    /\ main \in {"parse", "create"} => \A t \in Threads : t >= i => pc[t] = "none"
    /\ main = "parse" => i = 0
    /\ main = "join" => \A t \in Threads : t < i => pc[t] \in {"done", "failed"}
    /\ main \in {"json", "done"} => \A t \in Threads : pc[t] \in {"done", "failed"}
    /\ main \in {"quit", "exit", "crash"} => \A t \in Threads : pc[t] = "gone"

\* What a meter says, before and after its thread has reported
Meters ==
    /\ \A t \in Threads : pc[t] \in {"none", "failed", "start", "open"} =>
                             io_count[t] = 0 /\ meter[t] = 0
    /\ \A t \in Threads : pc[t] \in {"close", "done"} => meter[t] = io_count[t]

CoreInv == CoreType /\ NoStrayStore /\ Progress /\ Meters
-----------------------------------------------------------------------------
LEMMA ArgsOfCommand ==
    ASSUME NEW u
    PROVE  /\ IoArgs(u).multi = u.multi
           /\ IoArgs(u).affinity = AffinityArgs(u.affinity, u.multi)
  BY DEF IoArgs

\* The ids of a range are natural if its ends are, in whatever order they come.
LEMMA IdsNatural ==
    ASSUME NEW r \in Nat \X Nat
    PROVE  ParseIds(r) \subseteq Nat
  BY DEF ParseIds

LEMMA MultiNatural == ASSUME CoreType PROVE option.multi \in Nat
  BY ArgsOfCommand, IoMainAssumption DEF CoreType

\* The front end only passes on ids of threads that there will be.
LEMMA FilteredInBounds ==
    ASSUME NEW u \in Commands, option = IoArgs(u)
    PROVE  AffinitiesInBounds
<1> SUFFICES ASSUME NEW arg \in option.affinity PROVE arg.tid \in Threads
  BY DEF AffinitiesInBounds
<1> DEFINE ids == UNION {ParseThreads(u.affinity[k]) : k \in DOMAIN u.affinity}
<1>1. DOMAIN ThreadMasks(u.affinity) = ids
  BY DEF ThreadMasks
<1>2. arg.tid \in ids /\ arg.tid < u.multi
  <2>1. arg \in AffinityArgs(u.affinity, u.multi)
    BY ArgsOfCommand
  <2>2. PICK t \in DOMAIN ThreadMasks(u.affinity) :
           t < u.multi /\ arg = [tid |-> t,
                                 cpu |-> Bitmap(ThreadMasks(u.affinity)[t][1], Logicores),
                                 mem |-> Bitmap(ThreadMasks(u.affinity)[t][2], Nodes)]
    BY <2>1 DEF AffinityArgs
  <2>3. arg.tid = t
    BY <2>2
  <2> QED
    BY <1>1, <2>2, <2>3
<1>3. ids \subseteq Nat
  <2>1. ASSUME NEW k \in DOMAIN u.affinity PROVE ParseThreads(u.affinity[k]) \subseteq Nat
    <3>1. u.affinity[k].threads \subseteq Nat \X Nat
      <4>1. u.affinity \in Seq(Entries)
        BY IoMainAssumption DEF Descriptions
      <4>2. u.affinity[k] \in Entries
        BY <4>1
      <4> QED
        BY <4>2 DEF Entries
    <3> QED
      BY <3>1, IdsNatural DEF ParseThreads
  <2>2. ASSUME NEW x \in ids PROVE x \in Nat
    <3>1. PICK k \in DOMAIN u.affinity : x \in ParseThreads(u.affinity[k])
      OBVIOUS
    <3> QED
      BY <2>1, <3>1
  <2> QED
    BY <2>2
<1>4. option.multi = u.multi /\ u.multi \in Nat
  BY ArgsOfCommand, IoMainAssumption
<1>5. arg.tid \in Nat /\ arg.tid < u.multi
  BY <1>2, <1>3
<1> QED
  BY <1>4, <1>5 DEF Threads
-----------------------------------------------------------------------------
\* What every step leaves alone
LEMMA SameOptions ==
    ASSUME [Next]_vars
    PROVE  UNCHANGED <<user, option>> /\ Threads' = Threads
<1>1. UNCHANGED <<user, option>>
  BY DEF Next, MainStep, MainFails, ThreadStep, ThreadFails, LogStep, ParseArgs, ArgumentError,
         ExitProcess, Create, AllCreated, Join, Sum, AddFile, PrintJson, PrintParams, SeedFails,
         CreateFails, JoinCrashes, Bind, Open, OpenFails, DoIO, IOFails, Report, Close, CloseFails,
         LogTest, LogSet, LogFormat, LogWrite, LogPut, LogPutFails, LogLoad, LogBump,
         vars, mainVars
<1> QED
  BY <1>1 DEF Threads

LEMMA InitCore == Init => CoreInv
<1> SUFFICES ASSUME Init PROVE CoreInv
  OBVIOUS
<1>1. user \in Commands /\ option = IoArgs(user) /\ option.multi \in Nat
  BY ArgsOfCommand, IoMainAssumption DEF Init
<1> QED
  BY <1>1 DEF Init, CoreInv, CoreType, NoStrayStore, Progress, Meters, Places, Running, Active,
              Over, Threads

\* A thread that is somewhere in its code runs in a process that has not ended.
LEMMA ActiveInRun ==
    ASSUME CoreInv, NEW t \in Threads, pc[t] \in Active
    PROVE  main \in Running
  BY DEF CoreInv, CoreType, NoStrayStore, Progress, Places, Running, Active, Ended

LEMMA ExitCore ==
    ASSUME CoreInv, NEW how \in {"exit", "quit", "crash"}, ExitProcess(how)
    PROVE  CoreInv'
<1>1. Threads' = Threads
  BY DEF ExitProcess, Threads
<1> QED
  BY <1>1 DEF ExitProcess, CoreInv, CoreType, NoStrayStore, Progress, Meters, Places, Running,
              Active, Over, Ended

\* A step inside a thread's code: one of the three counts may change.
LEMMA ThreadCore ==
    ASSUME CoreInv, NEW t \in Threads, pc[t] \in Active \ {"none"},
           NEW l \in {"open", "loop", "test", "set", "format", "write", "put", "load", "bump",
                      "close", "done"},
           Goto(t, l), UNCHANGED <<user, option, main, i>>,
           \/ /\ l = "open" /\ pc[t] = "start" /\ UNCHANGED <<io_count, meter>>
           \/ /\ l \notin {"open", "close", "done"} /\ meter' = meter
              /\ io_count' \in [Threads -> Nat]
              /\ \A s \in Threads \ {t} : io_count'[s] = io_count[s]
           \/ /\ l = "close" /\ io_count' = io_count
              /\ meter' = [meter EXCEPT ![t] = io_count[t]]
           \/ /\ l = "done" /\ pc[t] = "close" /\ UNCHANGED <<io_count, meter>>
    PROVE  CoreInv'
<1>1. Threads' = Threads
  BY DEF Threads
<1>2. CoreType'
  BY <1>1 DEF CoreInv, CoreType, Goto, Active, Over
<1>3. NoStrayStore'
  BY DEF CoreInv, NoStrayStore
<1>4. Progress'
  BY <1>1 DEF CoreInv, CoreType, Progress, Goto, Active, Over
<1>5. Meters'
  BY <1>1 DEF CoreInv, CoreType, Meters, Goto, Active, Over
<1> QED
  BY <1>2, <1>3, <1>4, <1>5 DEF CoreInv

LEMMA CoreStep == CoreInv /\ [Next]_vars => CoreInv'
<1> SUFFICES ASSUME CoreInv, [Next]_vars PROVE CoreInv'
  OBVIOUS
<1>0. /\ Threads' = Threads /\ option.multi \in Nat
      /\ pc \in [Threads -> Active \cup Over] /\ io_count \in [Threads -> Nat]
  BY SameOptions, MultiNatural DEF CoreInv, CoreType
<1> USE <1>0
<1>1. CASE ParseArgs
  <2>1. AffinitiesInBounds
    BY FilteredInBounds DEF CoreInv, CoreType
  <2> QED
    BY <1>1, <2>1 DEF ParseArgs, threadVars, CoreInv, CoreType, NoStrayStore, Progress, Meters,
                      Places, Running, Ended
<1>2. CASE ArgumentError \/ PrintParams \/ SeedFails \/ JoinCrashes
  BY <1>2, ExitCore DEF ArgumentError, PrintParams, SeedFails, JoinCrashes
<1>3. CASE Create \/ CreateFails
  <2>1. i \in Threads /\ pc[i] = "none"
    BY <1>3 DEF Create, CreateFails, CoreInv, CoreType, Progress, Threads
  <2>2. CoreType' /\ NoStrayStore'
    BY <1>3, <2>1 DEF Create, CreateFails, Goto, CoreInv, CoreType, NoStrayStore, Active, Over
  <2>3. Progress'
    BY <1>3, <2>1 DEF Create, CreateFails, Goto, CoreInv, CoreType, Progress, Threads
  <2>4. Meters'
    BY <1>3, <2>1 DEF Create, CreateFails, Goto, CoreInv, CoreType, Meters, Threads
  <2> QED
    BY <2>2, <2>3, <2>4 DEF CoreInv
<1>4. CASE AllCreated
  BY <1>4 DEF AllCreated, threadVars, CoreInv, CoreType, NoStrayStore, Progress, Meters, Places,
              Running, Threads
<1>5. CASE Join
  BY <1>5 DEF Join, threadVars, CoreInv, CoreType, NoStrayStore, Progress, Meters, Places,
              Running, Threads
<1>6. CASE Sum
  <2>1. \A t \in Threads : pc[t] \in {"done", "failed"}
    BY <1>6 DEF Sum, CoreInv, Progress, Threads
  <2> QED
    BY <1>6, <2>1 DEF Sum, threadVars, CoreInv, CoreType, NoStrayStore, Progress, Meters, Places,
                      Running, Ended
<1>7. CASE AddFile
  BY <1>7 DEF AddFile, mainVars, threadVars, CoreInv, CoreType, NoStrayStore, Progress, Meters
<1>8. CASE PrintJson
  BY <1>8 DEF PrintJson, threadVars, CoreInv, CoreType, NoStrayStore, Progress, Meters, Places,
              Running, Ended
<1>9. CASE \E t \in Threads : ThreadStep(t)
  <2> PICK t \in Threads : ThreadStep(t)
    BY <1>9
  <2>1. CASE Bind(t) \/ Open(t) \/ Report(t) \/ Close(t)
    BY <2>1, ThreadCore DEF Bind, Open, Report, Close, mainVars, Active
  <2>2. CASE DoIO(t)
    BY <2>2, ThreadCore DEF DoIO, mainVars, Active
  <2>3. CASE LogStep(t)
    <3>1. CASE LogTest(t) \/ LogSet(t)
      BY <3>1, ThreadCore DEF LogTest, LogSet, mainVars, Active
    <3>2. CASE LogFormat(t) \/ LogWrite(t)
      BY <3>2, ThreadCore DEF LogFormat, LogWrite, mainVars, Active
    <3>3. CASE LogPut(t) \/ LogLoad(t) \/ LogBump(t)
      BY <3>3, ThreadCore DEF LogPut, LogLoad, LogBump, mainVars, Active
    <3> QED
      BY <2>3, <3>1, <3>2, <3>3 DEF LogStep
  <2> QED
    BY <2>1, <2>2, <2>3 DEF ThreadStep
<1>10. CASE \E t \in Threads : ThreadFails(t)
  <2> PICK t \in Threads : ThreadFails(t)
    BY <1>10
  <2>1. CASE OpenFails(t) \/ IOFails(t) \/ CloseFails(t)
    BY <2>1, ExitCore DEF OpenFails, IOFails, CloseFails
  <2>2. CASE LogPutFails(t)
    BY <2>2, ThreadCore DEF LogPutFails, mainVars, Active
  <2> QED
    BY <2>1, <2>2 DEF ThreadFails
<1>11. CASE UNCHANGED vars
  BY <1>11 DEF vars, mainVars, threadVars, CoreInv, CoreType, NoStrayStore, Progress, Meters
<1> QED
  BY <1>1, <1>2, <1>3, <1>4, <1>5, <1>6, <1>7, <1>8, <1>9, <1>10, <1>11
     DEF Next, MainStep, MainFails

LEMMA CoreAlways == Spec => []CoreInv
  BY InitCore, CoreStep, PTL DEF Spec

\* parse_args never stores an affinity outside of the array, for every description that
\* the front end can be given and every number of threads: NoStrayStore.
THEOREM NoStray == Spec => []NoStrayStore
<1>1. CoreInv => NoStrayStore
  BY DEF CoreInv
<1> QED
  BY <1>1, CoreAlways, PTL
-----------------------------------------------------------------------------
\* The refinement mapping, for the steps below
Phase == IF main \in {"parse", "params", "create", "join"} THEN "run"
         ELSE IF main \in {"json", "done"} THEN "reported" ELSE "aborted"
Live == {t \in Threads : pc[t] \notin {"done", "failed", "gone"}}

LEMMA InitForks == Init => FJ!Init
<1> SUFFICES ASSUME Init PROVE FJ!Init
  OBVIOUS
<1>1. DOMAIN io_count = Threads /\ io_count = [w \in DOMAIN io_count |-> 0]
  BY DEF Init
<1>2. Live = Threads
  BY DEF Init, Live
<1> QED
  BY <1>1, <1>2 DEF Init, FJ!Init, Live

\* However the process is left before it has a result, the benchmark is broken off.
LEMMA ExitAborts ==
    ASSUME CoreInv, NEW how \in {"exit", "quit", "crash"}, ExitProcess(how), main \in Running
    PROVE  FJ!Abort
<1>1. Threads' = Threads
  BY DEF ExitProcess, Threads
<1>2. Live' = {}
  BY <1>1 DEF ExitProcess, Live
<1>3. Phase = "run" /\ Phase' = "aborted"
  BY DEF ExitProcess, Phase, Running
<1> QED
  BY <1>2, <1>3 DEF FJ!Abort, Phase, Live, ExitProcess

\* A step that ends no thread and counts no I/O
LEMMA Stutters ==
    ASSUME UNCHANGED <<io_count, result>>, Phase' = Phase, Live' = Live
    PROVE  UNCHANGED FJ!vars
  BY DEF FJ!vars, Phase, Live

LEMMA ThreadStutters ==
    ASSUME CoreInv, NEW t \in Threads, pc[t] \in Active, NEW l \in Active, Goto(t, l),
           UNCHANGED <<user, option, main, i, affinities, result, io_count>>
    PROVE  UNCHANGED FJ!vars
<1>1. Threads' = Threads
  BY DEF Threads
<1>2. \A s \in Threads : pc'[s] \in {"done", "failed", "gone"} <=> pc[s] \in {"done", "failed", "gone"}
  BY DEF CoreInv, CoreType, Goto, Active
<1>3. Live' = Live
  BY <1>1, <1>2 DEF Live
<1> QED
  BY <1>3, Stutters DEF Phase

\* A thread that ends, or is found not to exist
LEMMA ThreadFinishes ==
    ASSUME CoreInv, NEW t \in Threads, pc[t] \in Active, NEW l \in {"done", "failed"}, Goto(t, l),
           UNCHANGED <<user, option, main, affinities, result, io_count>>
    PROVE  FJ!Next
<1>1. Threads' = Threads
  BY DEF Threads
<1>2. t \in Live /\ Live' = Live \ {t}
  BY <1>1 DEF CoreInv, CoreType, Goto, Active, Live
<1>3. Phase = "run" /\ Phase' = "run"
  BY ActiveInRun DEF Phase, Running
<1>4. FJ!Finish(t)
  BY <1>2, <1>3 DEF FJ!Finish, Phase, Live
<1> QED
  BY <1>2, <1>4 DEF FJ!Next, Live

\* An I/O is the work of its thread.
LEMMA IOWorks ==
    ASSUME CoreInv, NEW t \in Threads, DoIO(t)
    PROVE  FJ!Next
<1>1. Threads' = Threads /\ pc[t] \in Active /\ UNCHANGED <<main, result>>
  BY DEF DoIO, mainVars, Threads, Active
<1>2. t \in Live /\ Live' = Live
  BY <1>1 DEF CoreInv, CoreType, DoIO, Goto, Live
<1>3. Phase = "run" /\ Phase' = "run"
  BY <1>1, ActiveInRun DEF Phase, Running
<1>4. io_count'[t] >= io_count[t] /\ io_count' = [io_count EXCEPT ![t] = io_count'[t]]
  BY DEF CoreInv, CoreType, DoIO
<1>5. FJ!Work(t)
  BY <1>1, <1>2, <1>3, <1>4 DEF FJ!Work, Phase, Live
<1> QED
  BY <1>2, <1>5 DEF FJ!Next, Live

\* When all threads are joined none of them works, and the meters are their counts.
LEMMA SumReports ==
    ASSUME CoreInv, Sum
    PROVE  FJ!Next
<1>1. \A t \in Threads : pc[t] \in {"done", "failed"}
  BY MultiNatural DEF CoreInv, Progress, Sum, Threads
<1>2. Live = {} /\ Live' = {}
  BY <1>1 DEF Live, Sum, threadVars, Threads
<1>3. meter = io_count
  <2>1. \A t \in Threads : meter[t] = io_count[t]
    BY <1>1 DEF CoreInv, Meters
  <2> QED
    BY <2>1 DEF CoreInv, CoreType
<1>4. Phase = "run" /\ Phase' = "reported"
  BY DEF Sum, Phase
<1>5. result' = FJ!SumOf(io_count) /\ io_count' = io_count
  BY <1>3 DEF Sum, threadVars
<1> QED
  BY <1>2, <1>4, <1>5 DEF FJ!Next, FJ!Report, Phase, Live

LEMMA StepForks == CoreInv /\ [Next]_vars => [FJ!Next]_(FJ!vars)
<1> SUFFICES ASSUME CoreInv, [Next]_vars PROVE FJ!Next \/ UNCHANGED FJ!vars
  OBVIOUS
<1>0. Threads' = Threads /\ pc \in [Threads -> Active \cup Over] /\ main \in Places
  BY SameOptions DEF CoreInv, CoreType
<1> USE <1>0
<1>1. CASE ParseArgs
  <2>1. AffinitiesInBounds
    BY FilteredInBounds DEF CoreInv, CoreType
  <2> QED
    BY <1>1, <2>1, Stutters DEF ParseArgs, threadVars, Phase, Live
<1>2. CASE ArgumentError \/ PrintParams \/ SeedFails \/ JoinCrashes
  <2>1. PICK how \in {"exit", "quit", "crash"} : ExitProcess(how) /\ main \in Running
    BY <1>2 DEF ArgumentError, PrintParams, SeedFails, JoinCrashes, Running
  <2> QED
    BY <2>1, ExitAborts DEF FJ!Next
<1>3. CASE Create \/ CreateFails
  <2>1. i \in Threads /\ pc[i] = "none"
    BY <1>3, MultiNatural DEF Create, CreateFails, CoreInv, CoreType, Progress, Threads
  <2>2. CASE Create
    <3>1. Live' = Live
      BY <2>1, <2>2 DEF Create, Goto, Live
    <3> QED
      BY <2>2, <3>1, Stutters DEF Create, Phase
  <2>3. CASE CreateFails
    BY <2>1, <2>3, ThreadFinishes DEF CreateFails, Active
  <2> QED
    BY <1>3, <2>2, <2>3
<1>4. CASE AllCreated \/ Join \/ AddFile \/ PrintJson
  <2>1. UNCHANGED <<io_count, result, pc>>
    BY <1>4 DEF AllCreated, Join, AddFile, PrintJson, mainVars, threadVars
  <2>2. Phase' = Phase
    BY <1>4 DEF AllCreated, Join, AddFile, PrintJson, mainVars, Phase
  <2> QED
    BY <2>1, <2>2, Stutters DEF Live
<1>5. CASE Sum
  BY <1>5, SumReports
<1>6. CASE \E t \in Threads : ThreadStep(t)
  <2> PICK t \in Threads : ThreadStep(t)
    BY <1>6
  <2>1. CASE Bind(t) \/ Open(t) \/ Report(t)
    BY <2>1, ThreadStutters DEF Bind, Open, Report, mainVars, Active
  <2>2. CASE Close(t)
    BY <2>2, ThreadFinishes DEF Close, mainVars, Active
  <2>3. CASE DoIO(t)
    BY <2>3, IOWorks
  <2>4. CASE LogStep(t)
    <3>1. CASE LogTest(t) \/ LogSet(t)
      BY <3>1, ThreadStutters DEF LogTest, LogSet, mainVars, Active
    <3>2. CASE LogFormat(t) \/ LogWrite(t)
      BY <3>2, ThreadStutters DEF LogFormat, LogWrite, mainVars, Active
    <3>3. CASE LogPut(t) \/ LogLoad(t) \/ LogBump(t)
      BY <3>3, ThreadStutters DEF LogPut, LogLoad, LogBump, mainVars, Active
    <3> QED
      BY <2>4, <3>1, <3>2, <3>3 DEF LogStep
  <2> QED
    BY <2>1, <2>2, <2>3, <2>4 DEF ThreadStep
<1>7. CASE \E t \in Threads : ThreadFails(t)
  <2> PICK t \in Threads : ThreadFails(t)
    BY <1>7
  <2>1. CASE OpenFails(t) \/ IOFails(t) \/ CloseFails(t)
    <3>1. ExitProcess("exit") /\ pc[t] \in Active
      BY <2>1 DEF OpenFails, IOFails, CloseFails, Active
    <3> QED
      BY <3>1, ActiveInRun, ExitAborts DEF FJ!Next
  <2>2. CASE LogPutFails(t)
    BY <2>2, ThreadStutters DEF LogPutFails, mainVars, Active
  <2> QED
    BY <2>1, <2>2 DEF ThreadFails
<1>8. CASE UNCHANGED vars
  BY <1>8, Stutters DEF vars, mainVars, threadVars, Phase, Live
<1> QED
  BY <1>1, <1>2, <1>3, <1>4, <1>5, <1>6, <1>7, <1>8 DEF Next, MainStep, MainFails

\* micbench-io implements the specification of a fork and join for every number of threads
\* and every command line, threads that cannot be created, failures and the log included:
\* the io_count that it prints is the I/Os of all threads, all of which have ended.
THEOREM ResultIsWork == Spec => ImplementsForkJoin
  BY InitForks, StepForks, CoreAlways, PTL DEF Spec, ImplementsForkJoin, FJ!Spec
-----------------------------------------------------------------------------
Pieces == [file : FileIndices, cut : BOOLEAN]
Piece(k) == [file |-> k, cut |-> FALSE]

\* The list of files: every name that is in it is whole, and the end of it fits as well.
Listed ==
    /\ str \in [len : Nat, pos : Nat, pieces : Seq(Pieces)]
    /\ str.pos + 2 <= str.len
    /\ \A k \in 1 .. Len(str.pieces) : str.pieces[k] = Piece(k)

\* A step that is not one of the list leaves it alone.
LEMMA SameList ==
    ASSUME [Next]_vars
    PROVE  AddFile \/ str' = str
  BY DEF Next, MainStep, MainFails, ThreadStep, ThreadFails, LogStep, ParseArgs, ArgumentError,
         ExitProcess, Create, AllCreated, Join, Sum, PrintJson, PrintParams, SeedFails,
         CreateFails, JoinCrashes, Bind, Open, OpenFails, DoIO, IOFails, Report, Close, CloseFails,
         LogTest, LogSet, LogFormat, LogWrite, LogPut, LogPutFails, LogLoad, LogBump, vars

LEMMA ModAtMost ==
    ASSUME NEW a \in Nat, NEW b \in Nat \ {0}
    PROVE  a % b \in Nat /\ a % b <= a
<1>1. a % b \in 0 .. b - 1
  OBVIOUS
<1>2. a < b => a % b = a
  OBVIOUS
<1> QED
  BY <1>1, <1>2

LEMMA InitList == Init => Listed
  BY DEF Init, Listed

LEMMA ListStep == CoreInv /\ Listed /\ [Next]_vars => Listed'
<1> SUFFICES ASSUME CoreInv, Listed, [Next]_vars PROVE Listed'
  OBVIOUS
<1>0. Pieces' = Pieces
  BY SameOptions DEF FileIndices, Pieces
<1>1. CASE str' = str
  BY <1>0, <1>1 DEF Listed
<1>2. CASE AddFile
  <2> DEFINE n == PieceLength(NextPiece)
  <2>1. NextPiece \in FileIndices /\ str' = Snprintf(n)
    BY <1>2 DEF AddFile
  <2>2. n \in Nat
    <3>1. option.files = user.files /\ user \in Commands
      BY DEF CoreInv, CoreType, IoArgs
    <3>2. option.files[NextPiece].length \in Nat
      BY <2>1, <3>1, IoMainAssumption DEF FileIndices
    <3> QED
      BY <3>2 DEF PieceLength
  <2>3. Room \in Nat /\ Room <= str.len - 2 - str.pos
    <3>1. str.len - 2 - str.pos \in Nat
      BY DEF Listed
    <3> QED
      BY <3>1, ModAtMost, IoMainAssumption DEF Room
  <2> HIDE DEF n
  <2>4. CASE n >= Room
    <3>1. str' = [str EXCEPT !.len = 2 * @]
      BY <2>1, <2>4 DEF Snprintf
    <3> QED
      BY <1>0, <3>1 DEF Listed
  <2>5. CASE ~(n >= Room)
    <3> DEFINE new == [file |-> NextPiece, cut |-> n > Room - 1]
    <3>1. str' = [str EXCEPT !.pos = @ + n, !.pieces = Append(@, new)]
      BY <2>1, <2>5 DEF Snprintf
    <3>2. new = Piece(Len(str.pieces) + 1) /\ new \in Pieces
      <4>1. (n > Room - 1) = FALSE
        BY <2>2, <2>3, <2>5
      <4>2. new = [file |-> NextPiece, cut |-> FALSE]
        BY <4>1, Zenon
      <4> QED
        BY <2>1, <4>2, Zenon DEF NextPiece, Piece, Pieces
    <3> HIDE DEF new
    <3>3. /\ str'.len = str.len /\ str'.pos = str.pos + n /\ str'.pieces = Append(str.pieces, new)
          /\ str' \in [len : Nat, pos : Nat, pieces : Seq(Pieces)]
      <4>1. /\ str \in [len : Nat, pos : Nat, pieces : Seq(Pieces)]
            /\ Append(str.pieces, new) \in Seq(Pieces) /\ str.pos + n \in Nat
        BY <2>2, <3>2 DEF Listed
      <4> QED
        BY <3>1, <4>1
    <3>4. str'.pos + 2 <= str'.len
      BY <2>2, <2>3, <2>5, <3>3 DEF Listed
    <3>5. \A k \in 1 .. Len(str'.pieces) : str'.pieces[k] = Piece(k)
      BY <3>2, <3>3 DEF Listed
    <3> QED
      BY <1>0, <3>3, <3>4, <3>5 DEF Listed
  <2> QED
    BY <2>4, <2>5
<1> QED
  BY <1>1, <1>2, SameList

LEMMA ListAlways == Spec => []Listed
  BY InitList, ListStep, CoreAlways, PTL DEF Spec

\* The list of files in the JSON output is whole and inside its buffer, for every number of
\* files and all lengths of their names, and whatever the width of a size_t: JsonWhole.
THEOREM JsonComplete == Spec => []JsonWhole
<1>1. Listed => JsonWhole
  <2> SUFFICES ASSUME Listed PROVE JsonWhole
    OBVIOUS
  <2>1. DOMAIN str.pieces = 1 .. Len(str.pieces)
    BY DEF Listed
  <2> QED
    BY <2>1 DEF Listed, JsonWhole, Piece
<1> QED
  BY <1>1, ListAlways, PTL
-----------------------------------------------------------------------------
\* The places of mb_log_io_activity before it has written its line, and all of them
Pending == {"test", "set", "format", "write", "put"}
Logging == Pending \cup {"load", "bump"}

\* A process that has not been left
Going == Running \cup {"json", "done"}

\* The rest of the types: an I/O that is being logged has been counted, and the last cell
\* of the buffer is only ever the end of a string.
Masks == [tid : Int, cpumask : SUBSET Nat, nodemask : SUBSET Nat]

MainTypes ==
    /\ result \in Nat
    /\ affinities \in [Threads -> Masks] /\ cpus \in [Threads -> SUBSET Online]
    /\ io_count \in [Threads -> 0 .. MaxIO] /\ meter \in [Threads -> 0 .. MaxIO]
    /\ \A t \in Threads : pc[t] \in Logging => io_count[t] >= 1

LogTypes ==
    /\ buf \in [1 .. BufSize -> CharType] /\ IsNul(buf[BufSize])
    /\ logcount \in Nat /\ log_start \in IOs
    /\ tmp \in [Threads -> Nat] /\ line \in [Threads -> LineType]
    /\ chars \in [Threads -> 0 .. BufSize - 1]
    /\ log \in Seq(CharType) /\ lost \in Nat

Typed == MainTypes /\ LogTypes

\* A thread that writes its line has not written all of it.
Stored == \A t \in Threads : pc[t] = "write" => chars[t] <= line[t].length + 1

LEMMA ThreadsFinite ==
    ASSUME CoreType
    PROVE  IsFiniteSet(Threads)
  BY MultiNatural, FS_Interval DEF Threads

\* What main adds up, as a sum
LEMMA SumOfIs ==
    ASSUME NEW f
    PROVE  FJ!SumOf(f) = SumOver(f, DOMAIN f)
  BY Zenon DEF FJ!SumOf, FJ!MapThenSumSet, FJ!MapThenFoldSet, SumOver, SumMap, IsSum, Step, Chosen

\* What mb_parse_affinity stores is a mask of CPUs and a mask of nodes.
LEMMA MasksParsed ==
    ASSUME NEW arg, arg.tid \in Int
    PROVE  ParseAffinity(arg) \in Masks
<1>1. Ones(arg.mem) \subseteq Int
  BY DEF Ones
<1>2. ASSUME NEW idx \in Int PROVE NodeBits(idx) \subseteq Nat
  <2>1. idx % IntBits \in Nat
    BY AffinityAssumption
  <2> QED
    BY <2>1, AffinityAssumption DEF NodeBits
<1>3. UNION {NodeBits(idx) : idx \in Ones(arg.mem)} \subseteq Nat
  BY <1>1, <1>2
<1>4. Ones(arg.cpu) \cap 0 .. CpuSetSize - 1 \subseteq Nat
  BY AffinityAssumption
<1> QED
  BY <1>3, <1>4 DEF ParseAffinity, Masks

LEMMA AffinitiesMasks ==
    ASSUME CoreType
    PROVE  Affinities \in [Threads -> Masks]
<1>1. NoAffinity \in Masks
  BY DEF NoAffinity, Masks
<1>2. ASSUME NEW t \in Threads, \E arg \in option.affinity : arg.tid = t
      PROVE  ParseAffinity(CHOOSE arg \in option.affinity : arg.tid = t) \in Masks
  <2>1. (CHOOSE arg \in option.affinity : arg.tid = t).tid = t
    BY <1>2
  <2>2. t \in Int
    BY MultiNatural DEF Threads
  <2> QED
    BY <2>1, <2>2, MasksParsed
<1> QED
  BY <1>1, <1>2, Zenon DEF Affinities

\* Each line fits into the buffer with its newline and its NUL.
LEMMA LineFits ==
    ASSUME NEW l \in LineType
    PROVE  l.length \in Nat /\ l.length + 2 <= BufSize
<1>1. l.length = 0 \/ l.length \in LineLengths
  BY DEF LineType
<1>2. BufSize \in Nat /\ BufSize >= 2 /\ LineLengths \subseteq Nat /\ \A n \in LineLengths : n + 2 <= BufSize
  BY IoMainAssumption
<1>3. CASE l.length = 0
  <2>1. 0 \in Nat /\ 0 + 2 <= BufSize
    BY <1>2
  <2> QED
    BY <1>3, <2>1
<1>4. CASE l.length \in LineLengths
  BY <1>2, <1>4
<1> QED
  BY <1>1, <1>3, <1>4

\* What fputs finds in the buffer, if there is a NUL
LEMMA TextFound ==
    ASSUME LogTypes
    PROVE  /\ FirstNul \in 1 .. BufSize /\ IsNul(buf[FirstNul])
           /\ \A j \in 1 .. FirstNul - 1 : ~IsNul(buf[j])
           /\ BufText \in Seq(CharType) /\ Len(BufText) = FirstNul - 1
           /\ \A j \in 1 .. FirstNul - 1 : BufText[j] = buf[j]
<1> DEFINE T == {k \in 1 .. BufSize : IsNul(buf[k])}
<1>1. BufSize \in T /\ T \in SUBSET Nat
  BY IoMainAssumption DEF LogTypes
<1>2. PICK x \in T : \A y \in T : x <= y
  BY <1>1, Least
<1>3. x \in 1 .. BufSize /\ IsNul(buf[x]) /\ \A j \in 1 .. x - 1 : ~IsNul(buf[j])
  BY <1>2, IoMainAssumption
<1>4. /\ FirstNul \in 1 .. BufSize /\ IsNul(buf[FirstNul])
      /\ \A j \in 1 .. FirstNul - 1 : ~IsNul(buf[j])
  BY <1>3, Zenon DEF FirstNul
<1> DEFINE n == FirstNul
<1>5. BufText = SubSeq(buf, 1, n - 1) /\ n \in 1 .. BufSize
  BY <1>4 DEF BufText
<1> HIDE DEF n
<1>6. buf \in Seq(CharType) /\ Len(buf) = BufSize
  BY IoMainAssumption DEF LogTypes
<1>7. BufText \in Seq(CharType) /\ Len(BufText) = n - 1 /\ \A j \in 1 .. n - 1 : BufText[j] = buf[j]
  BY <1>5, <1>6, IoMainAssumption
<1> QED
  BY <1>4, <1>7 DEF n

LEMMA InitTyped == Init => Typed
<1> SUFFICES ASSUME Init PROVE Typed
  OBVIOUS
<1>1. NoLine \in LineType /\ NoIO \in IOs /\ NoAffinity \in Masks
  BY DEF NoLine, LineType, IOs, NoAffinity, Masks
<1>2. 0 \in 0 .. MaxIO
  BY IoMainAssumption
<1>3. MainTypes
  BY <1>1, <1>2 DEF Init, MainTypes, Logging, Pending
<1>4. LogTypes
  <2>1. Char(NoLine, 2) \in CharType /\ IsNul(Char(NoLine, 2)) /\ NoLine.length = 0
    BY <1>1, IoMainAssumption DEF Char, CharType, IsNul, NoLine
  <2> QED
    BY <1>1, <2>1, IoMainAssumption DEF Init, LogTypes
<1> QED
  BY <1>3, <1>4 DEF Typed

\* The character that sprintf stores next has a cell in the buffer.
LEMMA NextChar ==
    ASSUME LogTypes, Stored, NEW t \in Threads, pc[t] = "write",
           NEW c, c = Char(line[t], chars[t] + 1)
    PROVE  /\ c \in CharType /\ c.line = line[t] /\ c.at = chars[t] + 1
           /\ c.at \in 1 .. BufSize /\ c.at <= line[t].length + 2
           /\ c.at = BufSize => IsNul(c)
           /\ (IF IsNul(c) THEN 0 ELSE c.at) \in 0 .. BufSize - 1
           /\ ~IsNul(c) => c.at <= line[t].length + 1
<1>1. line[t] \in LineType /\ line[t].length \in Nat /\ line[t].length + 2 <= BufSize
  BY LineFits DEF LogTypes
<1>2. chars[t] \in Nat /\ chars[t] <= line[t].length + 1
  BY IoMainAssumption DEF LogTypes, Stored
<1>3. c.line = line[t] /\ c.at = chars[t] + 1
  BY DEF Char
<1>m. BufSize \in Nat
  BY IoMainAssumption
<1>4. c.at \in 1 .. BufSize
  BY <1>1, <1>2, <1>3, <1>m
<1>5. c \in CharType
  BY <1>1, <1>3, <1>4 DEF Char, CharType
<1>6. IsNul(c) <=> c.at = line[t].length + 2
  BY <1>3 DEF IsNul
<1>7. /\ c.at <= line[t].length + 2
      /\ c.at = BufSize => c.at = line[t].length + 2
      /\ c.at # line[t].length + 2 => c.at <= line[t].length + 1 /\ c.at <= BufSize - 1
      /\ 0 <= BufSize - 1
  BY <1>1, <1>2, <1>3, <1>4, <1>m
<1> QED
  BY <1>1, <1>3, <1>4, <1>5, <1>6, <1>7, <1>m

LEMMA TypedStep == CoreInv /\ Typed /\ Stored /\ [Next]_vars => Typed'
<1> SUFFICES ASSUME CoreInv, Typed, Stored, [Next]_vars PROVE Typed'
  OBVIOUS
<1>0. /\ Threads' = Threads /\ Masks' = Masks /\ IOs' = IOs /\ LineType' = LineType
      /\ CharType' = CharType
  BY SameOptions DEF Masks, IOs, LineType, CharType
<1>a. pc \in [Threads -> Active \cup Over]
  BY DEF CoreInv, CoreType
<1>b. NoLine \in LineType
  BY DEF NoLine, LineType, IOs
<1>c. ASSUME NEW t \in Threads, pc[t] \in Logging PROVE LastIO(t) \in IOs
  <2>1. io_count[t] \in 1 .. MaxIO
    BY <1>c, IoMainAssumption DEF Typed, MainTypes
  <2> QED
    BY <2>1 DEF LastIO, IOs
<1>d. ASSUME UNCHANGED logVars PROVE LogTypes'
  BY <1>d, <1>0 DEF logVars, Typed, LogTypes
<1>e. ASSUME UNCHANGED <<result, affinities, threadVars>> PROVE MainTypes'
  BY <1>e, <1>0 DEF threadVars, Typed, MainTypes
<1>f. ASSUME NEW how, ExitProcess(how) PROVE Typed'
  <2>1. LogTypes'
    BY <1>d, <1>f DEF ExitProcess
  <2>2. MainTypes'
    BY <1>0, <1>f DEF ExitProcess, Typed, MainTypes, Logging, Pending
  <2> QED
    BY <2>1, <2>2 DEF Typed
<1>1. CASE ParseArgs
  <2>1. LogTypes'
    BY <1>1, <1>d DEF ParseArgs
  <2>2. affinities' \in [Threads -> Masks]
    BY <1>1, AffinitiesMasks DEF ParseArgs, CoreInv
  <2>3. MainTypes'
    BY <1>0, <1>1, <2>2 DEF ParseArgs, threadVars, Typed, MainTypes
  <2> QED
    BY <2>1, <2>3 DEF Typed
<1>2. CASE ArgumentError \/ PrintParams \/ SeedFails \/ JoinCrashes
  BY <1>2, <1>f DEF ArgumentError, PrintParams, SeedFails, JoinCrashes
<1>3. CASE Create \/ CreateFails
  <2>1. LogTypes'
    BY <1>3, <1>d DEF Create, CreateFails
  <2>2. MainTypes'
    BY <1>0, <1>a, <1>3 DEF Create, CreateFails, Goto, Typed, MainTypes, Logging, Pending
  <2> QED
    BY <2>1, <2>2 DEF Typed
<1>4. CASE AllCreated \/ Join \/ AddFile \/ PrintJson
  <2>1. UNCHANGED <<result, affinities, threadVars>> /\ UNCHANGED logVars
    BY <1>4 DEF AllCreated, Join, AddFile, PrintJson, mainVars
  <2> QED
    BY <2>1, <1>d, <1>e DEF Typed
<1>5. CASE Sum
  <2>1. meter \in [Threads -> Nat] /\ IsFiniteSet(Threads)
    BY ThreadsFinite DEF CoreInv, CoreType
  <2>2. result' = SumOver(meter, Threads)
    BY <1>5, <2>1, SumOfIs DEF Sum
  <2>3. result' \in Nat
    BY <2>1, <2>2, SumType
  <2>4. MainTypes'
    BY <1>0, <1>5, <2>3 DEF Sum, threadVars, Typed, MainTypes
  <2>5. LogTypes'
    BY <1>5, <1>d DEF Sum
  <2> QED
    BY <2>4, <2>5 DEF Typed
<1>6. CASE \E t \in Threads : ThreadStep(t)
  <2> PICK t \in Threads : ThreadStep(t)
    BY <1>6
  <2>1. CASE Bind(t)
    <3>1. LogTypes'
      BY <2>1, <1>d DEF Bind
    <3>2. cpus' \in [Threads -> SUBSET Online]
      BY <2>1 DEF Bind, SetAffinity, Typed, MainTypes
    <3>3. MainTypes'
      BY <1>0, <1>a, <2>1, <3>2 DEF Bind, mainVars, Goto, Typed, MainTypes, Logging, Pending
    <3> QED
      BY <3>1, <3>3 DEF Typed
  <2>2. CASE Open(t) \/ Close(t)
    <3>1. LogTypes'
      BY <2>2, <1>d DEF Open, Close
    <3>2. MainTypes'
      BY <1>0, <1>a, <2>2 DEF Open, Close, mainVars, Goto, Typed, MainTypes, Logging, Pending
    <3> QED
      BY <3>1, <3>2 DEF Typed
  <2>3. CASE DoIO(t)
    <3>1. LogTypes'
      BY <2>3, <1>d DEF DoIO
    <3>2. io_count[t] < MaxIO
      <4>1. io_count \in [Threads -> Nat] /\ IsFiniteSet(Threads)
        BY ThreadsFinite DEF CoreInv, CoreType
      <4>2. SumOver(io_count, Threads) < MaxIO
        BY <2>3, <4>1, SumOfIs DEF DoIO
      <4>3. io_count[t] <= SumOver(io_count, Threads) /\ SumOver(io_count, Threads) \in Nat
        BY <4>1, SumMember, SumType
      <4> QED
        BY <4>1, <4>2, <4>3, IoMainAssumption
    <3>3. io_count' \in [Threads -> 0 .. MaxIO] /\ io_count'[t] >= 1
      BY <2>3, <3>2, IoMainAssumption DEF DoIO, Typed, MainTypes
    <3>4. \A u \in Threads \ {t} : io_count'[u] = io_count[u] /\ pc'[u] = pc[u]
      BY <1>a, <2>3 DEF DoIO, Goto, Typed, MainTypes
    <3>5. MainTypes'
      BY <1>0, <2>3, <3>3, <3>4 DEF DoIO, mainVars, Typed, MainTypes
    <3> QED
      BY <3>1, <3>5 DEF Typed
  <2>4. CASE Report(t)
    <3>1. LogTypes'
      BY <2>4, <1>d DEF Report
    <3>2. MainTypes'
      BY <1>0, <1>a, <2>4 DEF Report, mainVars, Goto, Typed, MainTypes, Logging, Pending
    <3> QED
      BY <3>1, <3>2 DEF Typed
  <2>5. CASE LogStep(t)
    <3>1. MainTypes'
      <4>1. UNCHANGED <<result, affinities, cpus, io_count, meter>>
        BY <2>5 DEF LogStep, LogTest, LogSet, LogFormat, LogWrite, LogPut, LogLoad, LogBump,
                    mainVars
      <4>2. pc[t] \in Logging /\ \A u \in Threads \ {t} : pc'[u] = pc[u]
        BY <1>a, <2>5 DEF LogStep, LogTest, LogSet, LogFormat, LogWrite, LogPut, LogLoad,
                          LogBump, Goto, Logging, Pending
      <4> QED
        BY <1>0, <4>1, <4>2 DEF Typed, MainTypes
    <3>2. CASE LogTest(t)
      BY <3>1, <3>2, <1>d DEF LogTest, Typed
    <3>3. CASE LogSet(t)
      <4>1. LastIO(t) \in IOs
        BY <1>c, <3>3 DEF LogSet, Logging, Pending
      <4> QED
        BY <1>0, <3>1, <3>3, <4>1 DEF LogSet, Typed, LogTypes
    <3>4. CASE LogFormat(t)
      <4>1. LastIO(t) \in IOs
        BY <1>c, <3>4 DEF LogFormat, Logging, Pending
      <4>2. PICK n \in LineLengths :
               line' = [line EXCEPT ![t] = [io |-> LastIO(t), start |-> log_start, length |-> n]]
        BY <3>4 DEF LogFormat
      <4>3. [io |-> LastIO(t), start |-> log_start, length |-> n] \in LineType
        BY <4>1 DEF LineType, Typed, LogTypes
      <4>4. line' \in [Threads -> LineType] /\ chars' \in [Threads -> 0 .. BufSize - 1]
        BY <3>4, <4>2, <4>3, IoMainAssumption DEF LogFormat, Typed, LogTypes
      <4> QED
        BY <1>0, <3>1, <3>4, <4>4 DEF LogFormat, Typed, LogTypes
    <3>5. CASE LogWrite(t)
      <4>1. pc[t] = "write"
        BY <3>5 DEF LogWrite
      <4> DEFINE c == Char(line[t], chars[t] + 1)
      <4>2. /\ c \in CharType /\ c.at \in 1 .. BufSize
            /\ c.at = BufSize => IsNul(c)
            /\ (IF IsNul(c) THEN 0 ELSE c.at) \in 0 .. BufSize - 1
        BY <4>1, NextChar DEF Typed
      <4>3. /\ buf' = [buf EXCEPT ![c.at] = c]
            /\ chars' = [chars EXCEPT ![t] = IF IsNul(c) THEN 0 ELSE c.at]
        BY <3>5 DEF LogWrite
      <4> HIDE DEF c
      <4>4. buf' \in [1 .. BufSize -> CharType] /\ IsNul(buf'[BufSize])
        <5>1. BufSize \in 1 .. BufSize
          BY IoMainAssumption
        <5> QED
          BY <4>2, <4>3, <5>1 DEF Typed, LogTypes
      <4>5. chars' \in [Threads -> 0 .. BufSize - 1]
        BY <4>2, <4>3 DEF Typed, LogTypes
      <4> QED
        BY <1>0, <3>1, <3>5, <4>4, <4>5 DEF LogWrite, Typed, LogTypes
    <3>6. CASE LogPut(t)
      <4>1. log' \in Seq(CharType)
        BY <3>6, TextFound DEF LogPut, Typed, LogTypes
      <4> QED
        BY <1>0, <1>b, <3>1, <3>6, <4>1 DEF LogPut, Typed, LogTypes
    <3>7. CASE LogLoad(t)
      BY <1>0, <3>1, <3>7 DEF LogLoad, Typed, LogTypes
    <3>8. CASE LogBump(t)
      BY <1>0, <3>1, <3>8 DEF LogBump, Typed, LogTypes
    <3> QED
      BY <2>5, <3>2, <3>3, <3>4, <3>5, <3>6, <3>7, <3>8 DEF LogStep
  <2> QED
    BY <2>1, <2>2, <2>3, <2>4, <2>5 DEF ThreadStep
<1>7. CASE \E t \in Threads : ThreadFails(t)
  <2> PICK t \in Threads : ThreadFails(t)
    BY <1>7
  <2>1. CASE OpenFails(t) \/ IOFails(t) \/ CloseFails(t)
    BY <2>1, <1>f DEF OpenFails, IOFails, CloseFails
  <2>2. CASE LogPutFails(t)
    <3>1. MainTypes'
      BY <1>0, <1>a, <2>2 DEF LogPutFails, mainVars, Goto, Typed, MainTypes, Logging, Pending
    <3> QED
      BY <1>0, <1>b, <2>2, <3>1 DEF LogPutFails, Typed, LogTypes
  <2> QED
    BY <2>1, <2>2 DEF ThreadFails
<1>8. CASE UNCHANGED vars
  BY <1>8, <1>d, <1>e DEF vars, mainVars, Typed
<1> QED
  BY <1>1, <1>2, <1>3, <1>4, <1>5, <1>6, <1>7, <1>8 DEF Next, MainStep, MainFails

\* Whoever is about to write has just begun a line, or goes on with the one it had.
LEMMA StoredStep == CoreInv /\ Typed /\ Stored /\ [Next]_vars => Stored'
<1> SUFFICES ASSUME CoreInv, Typed, Stored, [Next]_vars PROVE Stored'
  OBVIOUS
<1>0. /\ Threads' = Threads /\ pc \in [Threads -> Active \cup Over]
      /\ line \in [Threads -> LineType] /\ chars \in [Threads -> 0 .. BufSize - 1]
  BY SameOptions DEF CoreInv, CoreType, Typed, LogTypes
<1>f. ASSUME NEW how, ExitProcess(how) PROVE Stored'
  BY <1>0, <1>f DEF ExitProcess, Stored
<1>g. ASSUME NEW t \in Threads, NEW l, l # "write", Goto(t, l), chars' = chars,
             \A u \in Threads \ {t} : line'[u] = line[u]
      PROVE  Stored'
  BY <1>0, <1>g DEF Goto, Stored
<1>1. CASE ParseArgs \/ AllCreated \/ Join \/ AddFile \/ PrintJson \/ Sum \/ UNCHANGED vars
  <2>1. UNCHANGED <<pc, line, chars>>
    BY <1>1 DEF ParseArgs, AllCreated, Join, AddFile, PrintJson, Sum, vars, threadVars, logVars
  <2> QED
    BY <1>0, <2>1 DEF Stored
<1>2. CASE ArgumentError \/ PrintParams \/ SeedFails \/ JoinCrashes
  BY <1>2, <1>f DEF ArgumentError, PrintParams, SeedFails, JoinCrashes
<1>3. CASE Create \/ CreateFails
  <2>1. i \in Threads
    BY <1>3, MultiNatural DEF Create, CreateFails, CoreInv, CoreType, Threads
  <2> QED
    BY <1>3, <1>g, <2>1 DEF Create, CreateFails, logVars
<1>4. CASE \E t \in Threads : ThreadStep(t)
  <2> PICK t \in Threads : ThreadStep(t)
    BY <1>4
  <2>1. CASE Bind(t) \/ Open(t) \/ DoIO(t) \/ Report(t) \/ Close(t)
    BY <2>1, <1>g DEF Bind, Open, DoIO, Report, Close, logVars
  <2>2. CASE LogTest(t) \/ LogSet(t) \/ LogLoad(t) \/ LogBump(t)
    BY <2>2, <1>g DEF LogTest, LogSet, LogLoad, LogBump, logVars
  <2>3. CASE LogFormat(t)
    <3>1. PICK n \in LineLengths :
             line' = [line EXCEPT ![t] = [io |-> LastIO(t), start |-> log_start, length |-> n]]
      BY <2>3 DEF LogFormat
    <3>2. line'[t].length \in Nat /\ chars'[t] = 0
      BY <1>0, <2>3, <3>1, IoMainAssumption DEF LogFormat
    <3>3. \A u \in Threads \ {t} : line'[u] = line[u] /\ chars'[u] = chars[u] /\ pc'[u] = pc[u]
      BY <1>0, <2>3, <3>1 DEF LogFormat, Goto
    <3> QED
      BY <1>0, <3>2, <3>3 DEF Stored
  <2>4. CASE LogWrite(t)
    <3> DEFINE c == Char(line[t], chars[t] + 1)
    <3>1. pc[t] = "write" /\ line' = line
      BY <2>4 DEF LogWrite
    <3>2. /\ chars' = [chars EXCEPT ![t] = IF IsNul(c) THEN 0 ELSE c.at]
          /\ pc' = [pc EXCEPT ![t] = IF IsNul(c) THEN "put" ELSE "write"]
      BY <2>4 DEF LogWrite, Goto
    <3>3. ~IsNul(c) => c.at <= line[t].length + 1
      BY <3>1, NextChar DEF Typed
    <3> HIDE DEF c
    <3> QED
      BY <1>0, <3>1, <3>2, <3>3 DEF Stored
  <2>5. CASE LogPut(t)
    BY <1>0, <2>5, <1>g DEF LogPut
  <2> QED
    BY <2>1, <2>2, <2>3, <2>4, <2>5 DEF ThreadStep, LogStep
<1>5. CASE \E t \in Threads : ThreadFails(t)
  <2> PICK t \in Threads : ThreadFails(t)
    BY <1>5
  <2>1. CASE OpenFails(t) \/ IOFails(t) \/ CloseFails(t)
    BY <2>1, <1>f DEF OpenFails, IOFails, CloseFails
  <2>2. CASE LogPutFails(t)
    BY <1>0, <2>2, <1>g DEF LogPutFails
  <2> QED
    BY <2>1, <2>2 DEF ThreadFails
<1> QED
  BY <1>1, <1>2, <1>3, <1>4, <1>5 DEF Next, MainStep, MainFails

LEMMA TypedAlways == Spec => [](Typed /\ Stored)
<1>1. Init => Stored
  BY DEF Init, Stored
<1> QED
  BY <1>1, InitTyped, TypedStep, StoredStep, CoreAlways, PTL DEF Spec

\* Type correctness of micbench-io for every number of threads, every command line and
\* every bound on the I/Os: TypeOK.
THEOREM IoTypes == Spec => []TypeOK
<1>1. CoreInv /\ Listed /\ Typed => TypeOK
  <2> SUFFICES ASSUME CoreInv, Listed, Typed PROVE TypeOK
    OBVIOUS
  <2>1. \E k \in 1 .. BufSize : IsNul(buf[k])
    BY TextFound DEF Typed
  <2> QED
    BY <2>1 DEF CoreInv, CoreType, Places, Running, Active, Over, Listed, Pieces, Typed, MainTypes,
                LogTypes, Masks, TypeOK, Ended
<1> QED
  BY <1>1, CoreAlways, ListAlways, TypedAlways, PTL
-----------------------------------------------------------------------------
\* A thread that is alone: the counter of the log is one behind while a line is made.
Counter ==
    /\ pc[0] \in Logging => logcount = io_count[0] - 1
    /\ pc[0] \notin Logging => logcount = io_count[0]
    /\ pc[0] = "set" => logcount = 0
    /\ pc[0] = "bump" => tmp[0] = logcount

\* The line that it makes, and as much of it as is in the buffer
Draft ==
    /\ logcount > 0 \/ pc[0] \in Logging \ {"test", "set"} => log_start = <<0, 1>>
    /\ pc[0] \in {"write", "put"} => line[0].io = <<0, io_count[0]>> /\ line[0].start = <<0, 1>>
    /\ pc[0] = "write" => \A k \in 1 .. chars[0] : buf[k] = Char(line[0], k)
    /\ pc[0] = "put" => \A k \in 1 .. line[0].length + 2 : buf[k] = Char(line[0], k)

\* The lines that it has made, and what main has made of its count
Written == IF pc[0] \in Pending THEN io_count[0] - 1 ELSE io_count[0]

Lined ==
    /\ lost = 0 => LinesOf(Written)
    /\ main \in {"json", "done"} => result = io_count[0]

Alone == option.multi = 1 /\ option.log # "none" /\ main \in Going => Counter /\ Draft /\ Lined

LEMMA InitAlone == Init => Alone
<1> SUFFICES ASSUME Init, option.multi = 1 PROVE Counter /\ Draft /\ Lined
  BY DEF Alone
<1>1. 0 \in Threads
  BY DEF Threads
<1>2. Written = 0 /\ log = <<>>
  BY <1>1 DEF Init, Written, Pending
<1> QED
  BY <1>1, <1>2 DEF Init, Counter, Draft, Lined, LinesOf, Logging, Pending

\* A step outside of the log
LEMMA AloneOutside ==
    ASSUME CoreInv, Counter, Draft, Lined, 0 \in Threads, Threads' = Threads,
           pc[0] \notin Logging, pc'[0] \notin Logging, UNCHANGED <<main, result, io_count, logVars>>
    PROVE  Counter' /\ Draft' /\ Lined'
<1>1. Written' = Written /\ LinesOf(Written)' = LinesOf(Written)
  BY DEF Written, Logging, LinesOf, Follows, logVars
<1> QED
  BY <1>1 DEF Counter, Draft, Lined, logVars, Logging, Pending

LEMMA Joined ==
    ASSUME NEW S, NEW a \in Seq(S), NEW b \in Seq(S)
    PROVE  /\ Len(a \o b) = Len(a) + Len(b) /\ DOMAIN (a \o b) = 1 .. Len(a) + Len(b)
           /\ \A k \in 1 .. Len(a) : (a \o b)[k] = a[k]
           /\ \A k \in Len(a) + 1 .. Len(a) + Len(b) : (a \o b)[k] = b[k - Len(a)]
  OBVIOUS

\* The whole line in the buffer, put out after the lines of the I/Os before it
LEMMA LinePut ==
    ASSUME LogTypes, 0 \in Threads, NEW n \in Nat, LinesOf(n), log' = log \o BufText,
           line[0].io = <<0, n + 1>>, line[0].start = <<0, 1>>,
           \A k \in 1 .. line[0].length + 2 : buf[k] = Char(line[0], k)
    PROVE  LinesOf(n + 1)'
<1> DEFINE l == line[0]
           len == l.length
<1>1. len \in Nat /\ len + 2 <= BufSize
  BY LineFits DEF LogTypes
<1>2. \A k \in 1 .. len + 2 : buf[k].line = l /\ buf[k].at = k /\ (IsNul(buf[k]) <=> k = len + 2)
  <2>1. \A k : Char(l, k).line = l /\ Char(l, k).at = k
    BY DEF Char
  <2>2. \A k \in 1 .. len + 2 : buf[k] = Char(l, k)
    OBVIOUS
  <2> HIDE DEF l
  <2>3. \A k \in 1 .. len + 2 : buf[k].line = l /\ buf[k].at = k
    BY <2>1, <2>2
  <2> QED
    BY <2>3 DEF IsNul
<1>3. FirstNul = len + 2
  <2>1. /\ FirstNul \in 1 .. BufSize /\ IsNul(buf[FirstNul])
        /\ \A j \in 1 .. FirstNul - 1 : ~IsNul(buf[j])
    BY TextFound
  <2> DEFINE f == FirstNul
  <2>2. f \in 1 .. BufSize /\ IsNul(buf[f]) /\ \A j \in 1 .. f - 1 : ~IsNul(buf[j])
    BY <2>1
  <2> HIDE DEF f, l, len
  <2>3. f = len + 2
    <3>1. f \in Int /\ f >= 1 /\ len \in Int /\ len >= 0
      BY <1>1, <2>2, IoMainAssumption
    <3>2. ~(f < len + 2)
      <4>1. f < len + 2 => f \in 1 .. len + 2 /\ f # len + 2
        BY <3>1
      <4> QED
        BY <1>2, <2>2, <4>1, Zenon
    <3>3. ~(len + 2 < f)
      <4>1. len + 2 < f => len + 2 \in 1 .. f - 1 /\ len + 2 \in 1 .. len + 2
        BY <3>1
      <4> QED
        BY <1>2, <2>2, <4>1, Zenon
    <3> QED
      BY <3>1, <3>2, <3>3
  <2> QED
    BY <2>3 DEF f
<1>4. /\ BufText \in Seq(CharType) /\ Len(BufText) = len + 1
      /\ \A j \in 1 .. len + 1 : BufText[j] = Char(l, j)
  <2>1. /\ BufText \in Seq(CharType) /\ Len(BufText) = FirstNul - 1
        /\ \A j \in 1 .. FirstNul - 1 : BufText[j] = buf[j]
    BY TextFound
  <2>2. \A k \in 1 .. len + 2 : buf[k] = Char(l, k)
    OBVIOUS
  <2> HIDE DEF l, len
  <2>3. FirstNul - 1 = len + 1 /\ \A j \in 1 .. len + 1 : j \in 1 .. len + 2
    BY <1>1, <1>3
  <2> QED
    BY <2>1, <2>2, <2>3
<1> HIDE DEF l
<1> DEFINE m == Len(log)
<1>5. /\ log \in Seq(CharType) /\ m \in Nat /\ DOMAIN log = 1 .. m
  BY DEF LogTypes
<1>6. /\ DOMAIN log' = 1 .. m + len + 1 /\ Len(log') = m + len + 1
      /\ \A k \in 1 .. m : log'[k] = log[k]
      /\ \A k \in m + 1 .. m + len + 1 : log'[k] = Char(l, k - m)
  <2> DEFINE s == BufText
  <2>1. s \in Seq(CharType) /\ Len(s) = len + 1 /\ \A j \in 1 .. len + 1 : s[j] = Char(l, j)
    BY <1>4
  <2>2. log' = log \o s
    OBVIOUS
  <2> HIDE DEF s, len
  <2>3. /\ DOMAIN log' = 1 .. m + len + 1 /\ Len(log') = m + len + 1
        /\ \A k \in 1 .. m : log'[k] = log[k]
        /\ \A k \in m + 1 .. m + len + 1 : log'[k] = s[k - m]
    <3>1. m + (len + 1) = m + len + 1
      BY <1>1, <1>5
    <3>2. /\ Len(log \o s) = Len(log) + Len(s) /\ DOMAIN (log \o s) = 1 .. Len(log) + Len(s)
          /\ \A k \in 1 .. Len(log) : (log \o s)[k] = log[k]
          /\ \A k \in Len(log) + 1 .. Len(log) + Len(s) : (log \o s)[k] = s[k - Len(log)]
      BY <1>5, <2>1, Joined, Zenon
    <3> QED
      BY <2>1, <2>2, <3>1, <3>2
  <2>4. \A k \in m + 1 .. m + len + 1 : k - m \in 1 .. len + 1
    BY <1>1, <1>5
  <2> QED
    BY <2>1, <2>3, <2>4
<1>7. l.io = <<0, n + 1>> /\ l.start = <<0, 1>> /\ l.length = len
  BY DEF l
<1>8. \A j : Char(l, j).line = l /\ Char(l, j).at = j
  BY DEF Char
<1> HIDE DEF len, m
<1>9. ASSUME NEW k \in 1 .. m + len + 1
      PROVE  /\ k = 1 => log'[k].at = 1 /\ log'[k].line.io = <<0, 1>>
             /\ k > 1 => Follows(log'[k - 1], log'[k])
             /\ k = m + len + 1 =>
                   log'[k].at = log'[k].line.length + 1 /\ log'[k].line.io = <<0, n + 1>>
             /\ log'[k].line.start = <<0, 1>>
  <2>1. CASE k <= m
    <3>1. k \in 1 .. m /\ log'[k] = log[k] /\ k # m + len + 1
      BY <1>1, <1>5, <1>6, <2>1
    <3>2. k > 1 => log'[k - 1] = log[k - 1]
      BY <1>5, <1>6, <3>1
    <3> QED
      BY <1>5, <3>1, <3>2 DEF LinesOf
  <2>2. CASE k = m + 1
    <3>1. log'[k] = Char(l, 1)
      BY <1>1, <1>5, <1>6, <2>2
    <3>2. k = 1 => n = 0
      BY <1>5, <2>2 DEF LinesOf
    <3>3. k > 1 => /\ log'[k - 1] = log[m] /\ m \in 1 .. m /\ m = Len(log)
                   /\ log[m].at = log[m].line.length + 1 /\ log[m].line.io = <<0, n>>
                   /\ log[m].line.length \in Nat
      <4> SUFFICES ASSUME k > 1
                   PROVE  /\ log'[k - 1] = log[m] /\ m \in 1 .. m /\ m = Len(log)
                          /\ log[m].at = log[m].line.length + 1 /\ log[m].line.io = <<0, n>>
                          /\ log[m].line.length \in Nat
        OBVIOUS
      <4>1. m \in 1 .. m /\ k - 1 = m
        BY <1>5, <2>2
      <4>2. log[m].line \in LineType
        <5>1. log[m] \in CharType
          BY <1>5, <4>1
        <5> QED
          BY <5>1 DEF CharType
      <4> QED
        BY <1>5, <1>6, <4>1, <4>2, LineFits DEF LinesOf, m
    <3>4. k > 1 => Follows(log'[k - 1], log'[k])
      <4> SUFFICES ASSUME k > 1 PROVE Follows(log'[k - 1], log'[k])
        OBVIOUS
      <4>1. log'[k].at = 1 /\ log'[k].line.io = <<0, n + 1>>
        BY <1>7, <1>8, <3>1
      <4>2. ~(log[m].at <= log[m].line.length) /\ log[m].line.io[2] + 1 = n + 1
        BY <3>3
      <4> QED
        BY <3>3, <4>1, <4>2 DEF Follows
    <3> QED
      BY <1>1, <1>5, <1>7, <1>8, <2>2, <3>1, <3>2, <3>4
  <2>3. CASE k > m + 1
    <3>1. log'[k] = Char(l, k - m) /\ log'[k - 1] = Char(l, k - m - 1) /\ k > 1
      <4>1. k - 1 \in m + 1 .. m + len + 1 /\ k \in m + 1 .. m + len + 1 /\ (k - 1) - m = k - m - 1
        BY <1>1, <1>5, <2>3
      <4>2. log'[k] = Char(l, k - m) /\ log'[k - 1] = Char(l, (k - 1) - m)
        BY <1>6, <4>1, Zenon
      <4> QED
        BY <1>5, <2>3, <4>1, <4>2
    <3>2. k - m - 1 <= l.length /\ (k - m - 1) + 1 = k - m
      BY <1>1, <1>5, <1>7, <2>3
    <3>3. Follows(log'[k - 1], log'[k])
      BY <1>8, <3>1, <3>2 DEF Follows
    <3>4. k = m + len + 1 => k - m = l.length + 1
      BY <1>1, <1>5, <1>7
    <3> QED
      BY <1>7, <1>8, <3>1, <3>3, <3>4
  <2> QED
    <3>1. k <= m \/ k = m + 1 \/ k > m + 1
      BY <1>1, <1>5
    <3> QED
      BY <2>1, <2>2, <2>3, <3>1
<1>10. n + 1 # 0 /\ log' # <<>>
  BY <1>1, <1>5, <1>6
<1> QED
  BY <1>6, <1>9, <1>10 DEF LinesOf, Follows

\* A step of the log that puts nothing out
LEMMA SameLines ==
    ASSUME Lined, UNCHANGED <<main, result, io_count, log, lost>>, Written' = Written
    PROVE  Lined'
<1>1. LinesOf(Written)' = LinesOf(Written)
  BY DEF LinesOf, Follows
<1> QED
  BY <1>1 DEF Lined

\* An I/O, and each step of the log
LEMMA AloneInside ==
    ASSUME CoreInv, Typed, Stored, Counter, Draft, Lined, 0 \in Threads, Threads' = Threads,
           main \in Running, option.log # "none", DoIO(0) \/ LogStep(0) \/ LogPutFails(0)
    PROVE  Counter' /\ Draft' /\ Lined'
<1>0. /\ pc \in [Threads -> Active \cup Over] /\ io_count \in [Threads -> Nat]
      /\ logcount \in Nat /\ tmp \in [Threads -> Nat] /\ line \in [Threads -> LineType]
      /\ buf \in [1 .. BufSize -> CharType] /\ chars \in [Threads -> 0 .. BufSize - 1]
      /\ lost \in Nat
      /\ pc[0] \in Logging => io_count[0] >= 1
  BY DEF CoreInv, CoreType, Typed, MainTypes, LogTypes
<1>m. main' = main /\ main \notin {"json", "done"} /\ result' = result
  BY DEF DoIO, LogStep, LogTest, LogSet, LogFormat, LogWrite, LogPut, LogPutFails, LogLoad, LogBump,
         mainVars, Running
<1>1. CASE DoIO(0)
  <2>1. /\ pc[0] = "loop" /\ pc'[0] = "test" /\ io_count'[0] = io_count[0] + 1 /\ UNCHANGED logVars
    BY <1>0, <1>1 DEF DoIO, Goto
  <2>2. Written' = Written
    BY <1>0, <2>1 DEF Written, Pending
  <2>3. LinesOf(Written)' = LinesOf(Written)
    BY <2>1, <2>2 DEF LinesOf, Follows, logVars
  <2> QED
    BY <1>0, <1>m, <2>1, <2>3 DEF Counter, Draft, Lined, logVars, Logging, Pending
<1>2. CASE LogTest(0)
  <2>1. /\ pc[0] = "test" /\ pc'[0] = IF logcount = 0 THEN "set" ELSE "format"
        /\ UNCHANGED <<io_count, logVars>>
    BY <1>0, <1>2 DEF LogTest, Goto
  <2>2. Lined'
    BY <1>m, <2>1, SameLines DEF Written, Pending, logVars
  <2> QED
    BY <1>0, <2>1, <2>2 DEF Counter, Draft, logVars, Logging, Pending
<1>3. CASE LogSet(0)
  <2>1. /\ pc[0] = "set" /\ pc'[0] = "format" /\ log_start' = <<0, io_count[0]>>
        /\ UNCHANGED <<io_count, buf, logcount, tmp, line, chars, log, lost>>
    BY <1>0, <1>3 DEF LogSet, Goto, LastIO
  <2>2. io_count[0] = 1
    BY <1>0, <2>1 DEF Counter, Logging, Pending
  <2>3. Lined'
    BY <1>m, <2>1, SameLines DEF Written, Pending
  <2> QED
    BY <1>0, <2>1, <2>2, <2>3 DEF Counter, Draft, Logging, Pending
<1>4. CASE LogFormat(0)
  <2>1. /\ pc[0] = "format" /\ pc'[0] = "write" /\ chars'[0] = 0
        /\ UNCHANGED <<io_count, buf, logcount, log_start, tmp, log, lost>>
    BY <1>0, <1>4 DEF LogFormat, Goto
  <2>2. line'[0].io = <<0, io_count[0]>> /\ line'[0].start = log_start
    BY <1>0, <1>4 DEF LogFormat, LastIO
  <2>3. Lined'
    BY <1>m, <2>1, SameLines DEF Written, Pending
  <2> QED
    BY <1>0, <2>1, <2>2, <2>3 DEF Counter, Draft, Logging, Pending
<1>5. CASE LogWrite(0)
  <2> DEFINE c == Char(line[0], chars[0] + 1)
  <2>1. /\ pc[0] = "write" /\ pc'[0] = (IF IsNul(c) THEN "put" ELSE "write")
        /\ buf' = [buf EXCEPT ![c.at] = c] /\ chars'[0] = (IF IsNul(c) THEN 0 ELSE c.at)
        /\ UNCHANGED <<io_count, logcount, log_start, tmp, line, log, lost>>
    BY <1>0, <1>5 DEF LogWrite, Goto
  <2>2. c.line = line[0] /\ c.at = chars[0] + 1 /\ c.at \in 1 .. BufSize
    BY <2>1, NextChar DEF Typed
  <2>3. IsNul(c) <=> c.at = line[0].length + 2
    BY <2>2 DEF IsNul
  <2>4. \A k \in 1 .. c.at : buf'[k] = Char(line[0], k)
    <3>1. c = Char(line[0], c.at)
      BY <2>2
    <3> HIDE DEF c
    <3>2. ASSUME NEW k \in 1 .. c.at PROVE buf'[k] = Char(line[0], k)
      <4>1. k \in 1 .. BufSize /\ (k = c.at \/ k \in 1 .. chars[0])
        BY <1>0, <2>2, IoMainAssumption
      <4> QED
        BY <1>0, <2>1, <2>2, <3>1, <4>1 DEF Draft
    <3> QED
      BY <3>2
  <2>5. Lined'
    BY <1>m, <2>1, SameLines DEF Written, Pending
  <2> HIDE DEF c
  <2>6. Draft'
    BY <1>0, <2>1, <2>3, <2>4 DEF Draft, Logging, Pending
  <2> QED
    BY <1>0, <2>1, <2>5, <2>6 DEF Counter, Logging, Pending
<1>6. CASE LogPut(0)
  <2>1. /\ pc[0] = "put" /\ pc'[0] = "load" /\ log' = log \o BufText
        /\ UNCHANGED <<io_count, buf, logcount, log_start, tmp, chars, lost>>
    BY <1>0, <1>6 DEF LogPut, Goto
  <2>2. Lined'
    <3> SUFFICES ASSUME lost = 0 PROVE LinesOf(Written)'
      BY <1>m, <2>1 DEF Lined
    <3>0. io_count[0] - 1 \in Nat
      BY <1>0, <2>1 DEF Pending, Logging
    <3>p. PICK n \in Nat : n = io_count[0] - 1
      BY <3>0
    <3>1. n \in Nat /\ n + 1 = io_count[0] /\ Written = n /\ Written' = n + 1
      BY <1>0, <2>1, <3>p DEF Written, Pending, Logging
    <3>2. LinesOf(n)
      BY <3>1 DEF Lined
    <3>3. /\ line[0].io = <<0, n + 1>> /\ line[0].start = <<0, 1>>
          /\ \A k \in 1 .. line[0].length + 2 : buf[k] = Char(line[0], k)
      BY <2>1, <3>1 DEF Draft
    <3>4. LinesOf(n + 1)'
      BY <2>1, <3>1, <3>2, <3>3, LinePut DEF Typed
    <3> QED
      BY <3>1, <3>4 DEF LinesOf, Follows
  <2> QED
    BY <1>0, <2>1, <2>2 DEF Counter, Draft, Logging, Pending
<1>7. CASE LogPutFails(0)
  <2>1. /\ pc[0] = "put" /\ pc'[0] = "load" /\ lost' = lost + 1
        /\ UNCHANGED <<io_count, buf, logcount, log_start, tmp, chars, log>>
    BY <1>0, <1>7 DEF LogPutFails, Goto
  <2> QED
    BY <1>0, <1>m, <2>1 DEF Counter, Draft, Lined, Logging, Pending
<1>8. CASE LogLoad(0)
  <2>1. /\ pc[0] = "load" /\ pc'[0] = "bump" /\ tmp'[0] = logcount
        /\ UNCHANGED <<io_count, buf, logcount, log_start, line, chars, log, lost>>
    BY <1>0, <1>8 DEF LogLoad, Goto
  <2>2. Lined'
    BY <1>m, <2>1, SameLines DEF Written, Pending
  <2> QED
    BY <1>0, <2>1, <2>2 DEF Counter, Draft, Logging, Pending
<1>9. CASE LogBump(0)
  <2>1. /\ pc[0] = "bump" /\ pc'[0] = "loop" /\ logcount' = tmp[0] + 1
        /\ UNCHANGED <<io_count, buf, log_start, line, chars, log, lost>>
    BY <1>0, <1>9 DEF LogBump, Goto
  <2>2. Lined'
    BY <1>m, <2>1, SameLines DEF Written, Pending
  <2> QED
    BY <1>0, <2>1, <2>2 DEF Counter, Draft, Logging, Pending
<1> QED
  BY <1>1, <1>2, <1>3, <1>4, <1>5, <1>6, <1>7, <1>8, <1>9 DEF LogStep

\* The sum over a single thread
LEMMA LoneSum ==
    ASSUME NEW f \in [{0} -> Nat]
    PROVE  SumOver(f, {0}) = f[0]
<1> DEFINE z == [x \in {0} |-> 0]
<1>1. IsFiniteSet({0}) /\ z \in [{0} -> Nat] /\ z[0] = 0
  BY FS_Singleton
<1> DEFINE d == f[0]
           g == [z EXCEPT ![0] = z[0] + d]
<1>2. g = f /\ d \in Nat
  OBVIOUS
<1>3. SumOver(g, {0}) = SumOver(z, {0}) + d
  BY <1>1, <1>2, SumAdd
<1>4. SumOver(z, {0}) = 0
  BY <1>1, SumZero
<1> HIDE DEF z, g
<1>5. SumOver(g, {0}) = d
  BY <1>2, <1>3, <1>4
<1> QED
  BY <1>2, <1>5

LEMMA AloneStep == CoreInv /\ Typed /\ Stored /\ Alone /\ [Next]_vars => Alone'
<1> SUFFICES ASSUME CoreInv, Typed, Stored, Alone, [Next]_vars, option.multi = 1, option.log # "none",
                    main' \in Going
             PROVE  Counter' /\ Draft' /\ Lined'
  BY SameOptions DEF Alone
<1>0. /\ Threads' = Threads /\ option' = option /\ pc \in [Threads -> Active \cup Over]
      /\ Threads = {0} /\ 0 \in Threads
  BY SameOptions DEF CoreInv, CoreType, Threads
<1>f. ASSUME NEW how \in {"exit", "quit", "crash"}, ExitProcess(how) PROVE FALSE
  BY <1>f DEF ExitProcess, Going, Running
<1>1. CASE ParseArgs \/ AllCreated \/ Join \/ AddFile \/ PrintJson \/ Sum \/ UNCHANGED vars
  <2>1. UNCHANGED <<pc, io_count, logVars>> /\ main \in Going
    BY <1>1 DEF ParseArgs, AllCreated, Join, AddFile, PrintJson, Sum, vars, mainVars, threadVars,
                Going, Running
  <2>2. Counter /\ Draft /\ Lined
    BY <2>1 DEF Alone
  <2>3. Written' = Written /\ LinesOf(Written)' = LinesOf(Written)
    BY <2>1 DEF Written, LinesOf, Follows, logVars
  <2>4. main' \in {"json", "done"} => result' = io_count'[0]
    <3>1. CASE Sum
      <4>1. meter[0] = io_count[0] /\ meter \in [{0} -> Nat]
        <5>1. pc[0] \in {"done", "failed"}
          BY <1>0, <3>1 DEF Sum, CoreInv, Progress
        <5> QED
          BY <1>0, <5>1 DEF CoreInv, CoreType, Meters
      <4>2. result' = SumOver(meter, {0})
        BY <3>1, <4>1, SumOfIs DEF Sum
      <4> QED
        BY <2>1, <4>1, <4>2, LoneSum
    <3>2. CASE ParseArgs \/ AllCreated \/ Join
      BY <3>2 DEF ParseArgs, AllCreated, Join
    <3>3. CASE AddFile \/ PrintJson \/ UNCHANGED vars
      <4>1. result' = result /\ (main' \in {"json", "done"} => main \in {"json", "done"})
        BY <3>3 DEF AddFile, PrintJson, vars, mainVars
      <4> QED
        BY <2>1, <2>2, <4>1 DEF Lined
    <3> QED
      BY <1>1, <3>1, <3>2, <3>3
  <2> QED
    BY <2>1, <2>2, <2>3, <2>4 DEF Counter, Draft, Lined, logVars
<1>2. CASE ArgumentError \/ PrintParams \/ SeedFails \/ JoinCrashes
  BY <1>2, <1>f DEF ArgumentError, PrintParams, SeedFails, JoinCrashes
<1>3. CASE Create \/ CreateFails
  <2>1. i = 0 /\ pc[0] = "none" /\ main \in Going
    BY <1>0, <1>3, MultiNatural DEF Create, CreateFails, CoreInv, CoreType, Progress, Going, Running
  <2>2. pc'[0] \in {"start", "failed"} /\ UNCHANGED <<main, result, io_count, logVars>>
    BY <1>0, <1>3, <2>1 DEF Create, CreateFails, Goto
  <2> QED
    BY <1>0, <2>1, <2>2, AloneOutside DEF Alone, Logging, Pending
<1>4. CASE \E t \in Threads : ThreadStep(t) \/ ThreadFails(t)
  <2>0. (ThreadStep(0) \/ ThreadFails(0))
    BY <1>0, <1>4
  <2>1. CASE Bind(0) \/ Open(0) \/ Report(0) \/ Close(0)
    <3>1. /\ pc[0] \in {"start", "open", "loop", "close"} /\ pc'[0] \in {"open", "loop", "close", "done"}
          /\ UNCHANGED <<main, result, io_count, logVars>>
      BY <1>0, <2>1 DEF Bind, Open, Report, Close, Goto, mainVars
    <3> QED
      BY <1>0, <3>1, AloneOutside DEF Alone, Logging, Pending
  <2>2. CASE DoIO(0) \/ LogStep(0) \/ LogPutFails(0)
    <3>1. main' = main /\ pc[0] \in Active
      BY <2>2 DEF DoIO, LogStep, LogTest, LogSet, LogFormat, LogWrite, LogPut, LogPutFails,
                  LogLoad, LogBump, mainVars, Active
    <3>2. main \in Running
      BY <1>0, <3>1, ActiveInRun
    <3> QED
      BY <1>0, <2>2, <3>1, <3>2, AloneInside DEF Alone
  <2>3. CASE OpenFails(0) \/ IOFails(0) \/ CloseFails(0)
    BY <2>3, <1>f DEF OpenFails, IOFails, CloseFails
  <2> QED
    BY <2>0, <2>1, <2>2, <2>3 DEF ThreadStep, ThreadFails
<1> QED
  BY <1>1, <1>2, <1>3, <1>4 DEF Next, MainStep, MainFails

LEMMA AloneAlways == Spec => []Alone
  BY InitAlone, AloneStep, CoreAlways, TypedAlways, PTL DEF Spec

\* The log of a thread that is alone is the whole lines of the I/Os that main reports, in
\* their order, for every number of I/Os and whatever the lengths of the lines, which are
\* all made in one buffer that is never cleared: LoneLogWhole.
THEOREM LoneLogRight == Spec => []LoneLogWhole
<1>1. CoreInv /\ Alone => LoneLogWhole
  <2> SUFFICES ASSUME CoreInv, Alone, main \in {"json", "done"}, option.log # "none",
                      option.multi = 1, lost = 0
               PROVE  LinesOf(result)
    BY DEF LoneLogWhole
  <2>1. Counter /\ Draft /\ Lined
    BY DEF Alone, Going
  <2>2. pc[0] \in {"done", "failed"}
    BY DEF CoreInv, Progress, Threads
  <2>3. Written = io_count[0]
    BY <2>2 DEF Written, Pending
  <2> QED
    BY <2>1, <2>3 DEF Lined
<1> QED
  BY <1>1, CoreAlways, AloneAlways, PTL
-----------------------------------------------------------------------------
\* The CPUs of the machine are the first ones, and all of them are online.
AllOnline == Online = 0 .. Logicores - 1

\* The bitmap of a set of ids has the ids that the machine has.
LEMMA BitmapOnes ==
    ASSUME NEW ids \in SUBSET Nat, IsFiniteSet(ids), ids # {}, NEW limit \in Nat \ {0}
    PROVE  Ones(Bitmap(ids, limit)) = ids \cap 0 .. limit - 1
<1> DEFINE m == Min({Max(ids), limit - 1})
           b == Bitmap(ids, limit)
<1>1. Max(ids) \in ids /\ \A y \in ids : y <= Max(ids)
  BY Greatest
<1>2. m \in Nat /\ \A y \in ids : y <= m <=> y <= limit - 1
  <2> DEFINE top == Max(ids)
  <2>1. top \in ids /\ top \in Nat /\ \A y \in ids : y <= top
    BY <1>1
  <2> HIDE DEF top
  <2>2. Min({top, limit - 1}) = IF top <= limit - 1 THEN top ELSE limit - 1
    BY <2>1, MinPair
  <2>3. Min({top, limit - 1}) \in Nat /\ \A y \in ids : y <= Min({top, limit - 1}) <=> y <= limit - 1
    BY <2>1, <2>2
  <2> QED
    BY <2>3 DEF top
<1>3. b = [k \in 1 .. m + 1 |-> IF k - 1 \in ids THEN 1 ELSE 0]
  BY Zenon DEF Bitmap
<1> HIDE DEF m, b
<1>4. Len(b) = m + 1 /\ \A k \in 0 .. m : b[k + 1] = 1 <=> k \in ids
  BY <1>2, <1>3
<1>5. Ones(b) = {k \in 0 .. m : k \in ids}
  BY <1>2, <1>4 DEF Ones
<1>6. Ones(b) = ids \cap 0 .. limit - 1
  BY <1>2, <1>5
<1> QED
  BY <1>6 DEF b

\* An entry that names CPUs, in ranges whose ends are in order
Ordered(e) ==
    /\ \A r \in e.cpus : r[3] = "c"
    /\ \A r \in e.threads \cup e.cpus : r[1] <= r[2]

LEMMA EntryThreads ==
    ASSUME NEW e \in Entries, Ordered(e), NEW t \in Nat
    PROVE  t \in ParseThreads(e) <=> Names(e, t)
<1>1. ASSUME NEW r \in e.threads PROVE ParseIds(r) = r[1] .. r[2] /\ r[1] \in Nat /\ r[2] \in Nat
  BY <1>1 DEF Entries, Ordered, ParseIds
<1>2. t \in ParseThreads(e) <=> \E r \in e.threads : t \in ParseIds(r)
  BY Zenon DEF ParseThreads
<1> QED
  BY <1>1, <1>2 DEF Names

\* The CPUs that an entry describes, as the front end gathers them
LEMMA EntryCpus ==
    ASSUME NEW e \in Entries, Ordered(e), IsFiniteSet(e.cpus), e.cpus # {}
    PROVE  /\ ParseCpuAssignment(e) \in SUBSET Nat
           /\ IsFiniteSet(ParseCpuAssignment(e)) /\ ParseCpuAssignment(e) # {}
           /\ \A c \in Nat : c \in ParseCpuAssignment(e) <=> Covers(e, c)
<1> DEFINE Unit(r) == IF r[3] = "c" THEN ParseIds(r) ELSE UNION {CpusOfNode(n) : n \in ParseIds(r)}
           units == {Unit(r) : r \in e.cpus}
<1>1. ASSUME NEW r \in e.cpus
      PROVE  Unit(r) = r[1] .. r[2] /\ r[1] \in Nat /\ r[2] \in Nat /\ r[1] <= r[2]
  <2>1. r[1] \in Nat /\ r[2] \in Nat /\ r[1] <= r[2]
    BY <1>1 DEF Entries, Ordered
  <2>2. ParseIds(r) = r[1] .. r[2]
    BY <2>1 DEF ParseIds
  <2>3. r[3] = "c"
    BY <1>1 DEF Ordered
  <2> QED
    BY <2>1, <2>2, <2>3
<1>2. ParseCpuAssignment(e) = UNION units
  BY Zenon DEF ParseCpuAssignment
<1> HIDE DEF Unit
<1>3. UNION units \in SUBSET Nat
  BY <1>1
<1>4. IsFiniteSet(UNION units)
  <2>1. IsFiniteSet(units)
    <3> DEFINE f == [r \in e.cpus |-> Unit(r)]
    <3>1. f \in Surjection(e.cpus, units)
      BY DEF Surjection
    <3> QED
      BY <3>1, FS_Surjection
  <2>2. ASSUME NEW s \in units PROVE IsFiniteSet(s)
    <3>1. PICK r \in e.cpus : s = Unit(r)
      OBVIOUS
    <3>2. s = r[1] .. r[2] /\ r[1] \in Int /\ r[2] \in Int
      BY <1>1, <3>1
    <3> QED
      BY <3>2, FS_Interval
  <2> QED
    BY <2>1, <2>2, FS_UNION
<1>5. UNION units # {}
  <2>1. PICK r \in e.cpus : TRUE
    OBVIOUS
  <2>2. r[1] \in Unit(r)
    BY <1>1, <2>1
  <2> QED
    BY <2>1, <2>2
<1>6. ASSUME NEW c \in Nat PROVE c \in UNION units <=> Covers(e, c)
  <2>1. c \in UNION units <=> \E r \in e.cpus : c \in Unit(r)
    OBVIOUS
  <2> QED
    BY <1>1, <2>1 DEF Covers
<1> QED
  BY <1>2, <1>3, <1>4, <1>5, <1>6

\* An entry of a description
LEMMA EntryOf ==
    ASSUME NEW desc \in Descriptions, NEW k \in DOMAIN desc
    PROVE  /\ desc[k] \in Entries /\ IsFiniteSet(desc[k].cpus) /\ desc[k].cpus # {}
           /\ DOMAIN desc = 1 .. Len(desc) /\ Len(desc) \in Nat
<1>1. desc \in Seq(Entries) /\ IsFiniteSet(desc[k].cpus) /\ desc[k].cpus # {}
  BY DEF Descriptions
<1> QED
  BY <1>1

\* The last entry that names a thread is the one that counts.
LEMMA LastEntry ==
    ASSUME NEW desc \in Descriptions, \A k \in DOMAIN desc : Ordered(desc[k]),
           NEW t \in Nat, NEW k \in DOMAIN desc, Names(desc[k], t),
           \A l \in k + 1 .. Len(desc) : ~Names(desc[l], t)
    PROVE  /\ t \in DOMAIN ThreadMasks(desc)
           /\ ThreadMasks(desc)[t][1] = ParseCpuAssignment(desc[k])
<1> DEFINE ks == {l \in DOMAIN desc : t \in ParseThreads(desc[l])}
<1>1. DOMAIN desc = 1 .. Len(desc) /\ Len(desc) \in Nat /\ k \in Nat
  BY EntryOf
<1>2. \A l \in DOMAIN desc : l \in ks <=> Names(desc[l], t)
  BY EntryOf, EntryThreads
<1>3. k \in ks /\ \A l \in ks : l <= k
  BY <1>1, <1>2
<1>4. Max(ks) = k
  <2>1. ks \in SUBSET Nat /\ ks # {}
    BY <1>1, <1>3
  <2>2. IsFiniteSet(ks)
    <3>1. IsFiniteSet(1 .. Len(desc)) /\ ks \subseteq 1 .. Len(desc)
      BY <1>1, FS_Interval
    <3> QED
      BY <3>1, FS_Subset
  <2> HIDE DEF ks
  <2>3. Max(ks) \in ks /\ \A y \in ks : y <= Max(ks)
    BY <2>1, <2>2, Greatest
  <2>4. Max(ks) <= k /\ k <= Max(ks) /\ Max(ks) \in Nat
    BY <1>3, <2>1, <2>3
  <2> QED
    BY <1>1, <2>4
<1>5. t \in UNION {ParseThreads(desc[l]) : l \in DOMAIN desc}
  BY <1>3
<1>6. ThreadMasks(desc)[t] = <<ParseCpuAssignment(desc[Max(ks)]), ParseMemAssignment(desc[Max(ks)])>>
  BY <1>5, Zenon DEF ThreadMasks
<1>7. t \in DOMAIN ThreadMasks(desc)
  BY <1>5, Zenon DEF ThreadMasks
<1> HIDE DEF ks
<1> QED
  BY <1>4, <1>6, <1>7

\* The mask that parse_args stores for a thread is the one that the description asks for:
\* through the ranges and the bitmap of the front end, and the bits of a cpu_set_t.
LEMMA MaskStored ==
    ASSUME AllOnline, CoreType, Plain, NEW t \in Threads, NEW k \in DOMAIN user.affinity,
           Names(user.affinity[k], t),
           \A l \in k + 1 .. Len(user.affinity) : ~Names(user.affinity[l], t)
    PROVE  /\ Affinities[t].tid = t
           /\ Affinities[t].cpumask = {c \in Online : Covers(user.affinity[k], c)}
<1> DEFINE desc == user.affinity
           e == desc[k]
           ids == ParseCpuAssignment(e)
<1>1. desc \in Descriptions /\ option.affinity = AffinityArgs(desc, option.multi)
  BY ArgsOfCommand, IoMainAssumption DEF CoreType
<1>2. t \in Nat /\ t < option.multi
  BY MultiNatural DEF Threads
<1>3. \A l \in DOMAIN desc : Ordered(desc[l])
  BY DEF Plain, Ordered
<1>4. t \in DOMAIN ThreadMasks(desc) /\ ThreadMasks(desc)[t][1] = ids
  BY <1>1, <1>2, <1>3, LastEntry
<1>5. /\ \E arg \in option.affinity : arg.tid = t
      /\ \A arg \in option.affinity : arg.tid = t => arg.cpu = Bitmap(ids, Logicores)
  <2> DEFINE Arg(u) == [tid |-> u, cpu |-> Bitmap(ThreadMasks(desc)[u][1], Logicores),
                        mem |-> Bitmap(ThreadMasks(desc)[u][2], Nodes)]
  <2>1. option.affinity = {Arg(u) : u \in {v \in DOMAIN ThreadMasks(desc) : v < option.multi}}
    BY <1>1, Zenon DEF AffinityArgs
  <2>2. \A u : Arg(u).tid = u /\ Arg(u).cpu = Bitmap(ThreadMasks(desc)[u][1], Logicores)
    OBVIOUS
  <2> HIDE DEF Arg
  <2>3. Arg(t) \in option.affinity
    BY <1>2, <1>4, <2>1
  <2>4. \A arg \in option.affinity : arg.tid = t => arg = Arg(t)
    BY <2>1, <2>2
  <2> QED
    BY <1>4, <2>2, <2>3, <2>4
<1> DEFINE arg == CHOOSE x \in option.affinity : x.tid = t
<1>6. arg.tid = t /\ arg.cpu = Bitmap(ids, Logicores)
  <2>1. arg \in option.affinity /\ arg.tid = t
    BY <1>5, Zenon
  <2> QED
    BY <1>5, <2>1
<1>7. Affinities[t] = ParseAffinity(arg)
  BY <1>5, Zenon DEF Affinities
<1> HIDE DEF arg
<1>8. Affinities[t].tid = t /\ Affinities[t].cpumask = Ones(Bitmap(ids, Logicores)) \cap 0 .. CpuSetSize - 1
  BY <1>6, <1>7 DEF ParseAffinity
<1>9. /\ ids \in SUBSET Nat /\ IsFiniteSet(ids) /\ ids # {}
      /\ \A c \in Nat : c \in ids <=> Covers(e, c)
  BY <1>1, <1>3, EntryOf, EntryCpus
<1> HIDE DEF ids
<1>10. Ones(Bitmap(ids, Logicores)) = ids \cap Online
  BY <1>9, BitmapOnes, FrontEndAssumption DEF AllOnline
<1>11. Online \subseteq 0 .. CpuSetSize - 1 /\ Online \subseteq Nat
  BY AffinityAssumption
<1>12. Affinities[t].cpumask = {c \in Online : Covers(e, c)}
  BY <1>8, <1>9, <1>10, <1>11
<1> QED
  BY <1>8, <1>12
-----------------------------------------------------------------------------
\* The masks are the ones that parse_args has stored, and a thread that has begun is bound.
Bound ==
    main \in Going =>
        /\ main # "parse" => affinities = Affinities
        /\ \A t \in Threads : pc[t] # "gone"
        /\ \A t \in Threads : pc[t] \notin {"none", "failed", "start"} /\ affinities[t] # NoAffinity =>
                               cpus[t] = SetAffinity(affinities[t].cpumask)

LEMMA InitBound == Init => Bound
  BY DEF Init, Bound

LEMMA ThreadBound ==
    ASSUME CoreInv, Bound, NEW t \in Threads, pc[t] \in Active,
           NEW l \in Active \cup {"done", "failed"}, Goto(t, l),
           pc[t] \in {"none", "start"} => l \in {"start", "failed"},
           UNCHANGED <<user, option, main, affinities, cpus>>
    PROVE  Bound'
<1>0. Threads' = Threads /\ Affinities' = Affinities /\ pc \in [Threads -> Active \cup Over]
  BY DEF Threads, Affinities, CoreInv, CoreType
<1> QED
  BY <1>0 DEF Bound, Goto, Active, Over

LEMMA BoundStep == CoreInv /\ Typed /\ Bound /\ [Next]_vars => Bound'
<1> SUFFICES ASSUME CoreInv, Typed, Bound, [Next]_vars PROVE Bound'
  OBVIOUS
<1>0. /\ Threads' = Threads /\ Affinities' = Affinities /\ pc \in [Threads -> Active \cup Over]
  BY SameOptions DEF Affinities, CoreInv, CoreType
<1>f. ASSUME NEW how \in {"exit", "quit", "crash"}, ExitProcess(how) PROVE Bound'
  BY <1>f DEF ExitProcess, Bound, Going, Running
<1>1. CASE ParseArgs
  <2>1. \A t \in Threads : pc[t] = "none"
    BY <1>1, MultiNatural DEF ParseArgs, CoreInv, Progress, CoreType, Threads
  <2> QED
    BY <1>0, <1>1, <2>1 DEF ParseArgs, threadVars, Bound
<1>2. CASE AllCreated \/ Join \/ AddFile \/ PrintJson \/ Sum \/ UNCHANGED vars
  <2>1. /\ UNCHANGED <<pc, cpus, affinities>>
        /\ main' \in Going => main \in Going /\ (main' # "parse" => main # "parse")
    BY <1>2 DEF AllCreated, Join, AddFile, PrintJson, Sum, vars, mainVars, threadVars, Going, Running
  <2> QED
    BY <1>0, <2>1 DEF Bound
<1>3. CASE ArgumentError \/ PrintParams \/ SeedFails \/ JoinCrashes
  BY <1>3, <1>f DEF ArgumentError, PrintParams, SeedFails, JoinCrashes
<1>4. CASE Create \/ CreateFails
  <2>1. i \in Threads /\ pc[i] = "none"
    BY <1>4, MultiNatural DEF Create, CreateFails, CoreInv, CoreType, Progress, Threads
  <2> QED
    BY <1>4, <2>1, ThreadBound DEF Create, CreateFails, Active
<1>5. CASE \E t \in Threads : ThreadStep(t)
  <2> PICK t \in Threads : ThreadStep(t)
    BY <1>5
  <2>1. CASE Bind(t)
    <3>1. /\ \A u \in Threads \ {t} : pc'[u] = pc[u] /\ cpus'[u] = cpus[u]
          /\ pc'[t] = "open" /\ affinities[t] # NoAffinity => cpus'[t] = SetAffinity(affinities[t].cpumask)
          /\ UNCHANGED <<main, affinities>>
      BY <1>0, <2>1 DEF Bind, Goto, mainVars, Typed, MainTypes
    <3>2. pc'[t] = "open"
      BY <1>0, <2>1 DEF Bind, Goto
    <3> QED
      BY <1>0, <3>1, <3>2 DEF Bound
  <2>2. CASE Open(t) \/ DoIO(t) \/ Report(t) \/ Close(t)
    BY <2>2, ThreadBound DEF Open, DoIO, Report, Close, mainVars, Active
  <2>3. CASE LogTest(t) \/ LogSet(t) \/ LogFormat(t) \/ LogWrite(t)
    BY <2>3, ThreadBound DEF LogTest, LogSet, LogFormat, LogWrite, mainVars, Active
  <2>4. CASE LogPut(t) \/ LogLoad(t) \/ LogBump(t)
    BY <2>4, ThreadBound DEF LogPut, LogLoad, LogBump, mainVars, Active
  <2> QED
    BY <2>1, <2>2, <2>3, <2>4 DEF ThreadStep, LogStep
<1>6. CASE \E t \in Threads : ThreadFails(t)
  <2> PICK t \in Threads : ThreadFails(t)
    BY <1>6
  <2>1. CASE OpenFails(t) \/ IOFails(t) \/ CloseFails(t)
    BY <2>1, <1>f DEF OpenFails, IOFails, CloseFails
  <2>2. CASE LogPutFails(t)
    BY <2>2, ThreadBound DEF LogPutFails, mainVars, Active
  <2> QED
    BY <2>1, <2>2 DEF ThreadFails
<1> QED
  BY <1>1, <1>2, <1>3, <1>4, <1>5, <1>6 DEF Next, MainStep, MainFails

LEMMA BoundAlways == Spec => []Bound
  BY InitBound, BoundStep, CoreAlways, TypedAlways, PTL DEF Spec

\* On a machine whose CPUs are all online, each thread is bound to exactly the CPUs that the
\* last entry of the description that names it lists, for every description that names CPUs
\* and not nodes, every number of threads and CPUs: BoundAsDescribed.
THEOREM BoundRight == ASSUME AllOnline PROVE Spec => []BoundAsDescribed
<1>1. CoreInv /\ Bound => BoundAsDescribed
  <2> SUFFICES ASSUME CoreInv, Bound, Plain, main \in {"params", "create", "join", "json", "done"},
                      NEW t \in Threads, NEW k \in DOMAIN user.affinity,
                      Names(user.affinity[k], t),
                      \A l \in k + 1 .. Len(user.affinity) : ~Names(user.affinity[l], t)
               PROVE  LET asked == {c \in Online : Covers(user.affinity[k], c)}
                      IN  /\ affinities[t].cpumask = asked
                          /\ pc[t] \notin {"none", "failed", "start"} /\ asked # {} => cpus[t] = asked
    BY DEF BoundAsDescribed
  <2> DEFINE asked == {c \in Online : Covers(user.affinity[k], c)}
  <2>1. Affinities[t].tid = t /\ Affinities[t].cpumask = asked
    BY MaskStored DEF CoreInv
  <2>2. affinities = Affinities
    BY DEF Bound, Going, Running
  <2>3. affinities[t] # NoAffinity
    <3>1. NoAffinity.tid = -1 /\ t # -1
      BY MultiNatural DEF CoreInv, NoAffinity, Threads
    <3> QED
      BY <2>1, <2>2, <3>1
  <2>4. pc[t] \notin {"none", "failed", "start"} => cpus[t] = SetAffinity(asked)
    BY <2>1, <2>2, <2>3 DEF Bound, Going, Running
  <2>5. asked # {} => SetAffinity(asked) = asked
    BY DEF SetAffinity
  <2> HIDE DEF asked
  <2>6. /\ affinities[t].cpumask = asked
        /\ pc[t] \notin {"none", "failed", "start"} /\ asked # {} => cpus[t] = asked
    BY <2>1, <2>2, <2>4, <2>5
  <2> QED
    BY <2>6 DEF asked
<1> QED
  BY <1>1, CoreAlways, BoundAlways, PTL
=============================================================================
