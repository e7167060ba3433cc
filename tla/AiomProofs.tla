----------------------------- MODULE AiomProofs -----------------------------
(***************************************************************************)
(* The AIO manager, for every number of events, every accepted option      *)
(* record and every bound: types, the accounting of the I/Os, and where    *)
(* the control blocks are, for both engines and every order of             *)
(* completions: each in one place, none lost, and all back in the pool     *)
(* when the manager is destroyed.                                          *)
(***************************************************************************)
EXTENDS Aiom, SequenceTheorems, FiniteSetTheorems, TLAPS

-----------------------------------------------------------------------------
\* The offset handling stays within the integers and the files.
LEMMA NextFileType ==
    ASSUME NEW o, OptionOK(o), NEW f \in FilesOf(o)
    PROVE  NextFile(o, f) \in FilesOf(o)
  BY DEF OptionOK, FilesOf, NextFile

LEMMA OfstTypes ==
    ASSUME NEW o, OptionOK(o), NEW f \in FilesOf(o)
    PROVE  OfstMin(o) \in Nat /\ OfstMax(o, f) \in Int
<1>1. o.file_size[f] \in Nat /\ o.blk_sz \in Nat \ {0}
  BY DEF OptionOK
<1>2. o.file_size[f] \div o.blk_sz \in Int
  BY <1>1
<1> QED
  BY <1>2 DEF OptionOK, OfstMin, OfstMax

LEMMA SeqStartType ==
    ASSUME NEW o, OptionOK(o), NEW f \in FilesOf(o), NEW id \in Nat
    PROVE  SeqStart(o, f, id) \in Int
<1> DEFINE a == (OfstMax(o, f) - OfstMin(o)) * id
<1>1. a \in Int /\ OfstMin(o) \in Int /\ o.multi \in Nat \ {0}
  BY OfstTypes DEF OptionOK
<1>2. CDiv(a, o.multi) \in Int
  <2> HIDE DEF a
  <2> QED
    BY <1>1 DEF CDiv
<1> QED
  BY <1>1, <1>2 DEF SeqStart

LEMMA SeqStepType ==
    ASSUME NEW o, OptionOK(o), NEW f \in FilesOf(o), NEW b \in Int
    PROVE  SeqStep(o, f, b) \in Int
  BY OfstTypes DEF SeqStep

LEMMA RandRangeType ==
    ASSUME NEW from \in Int, NEW to \in Int
    PROVE  RandRange(from, to) \subseteq Int
  BY DEF RandRange

LEMMA AddrType ==
    ASSUME NEW o, OptionOK(o), NEW b \in Int
    PROVE  Addr(o, b) \in Int
  BY DEF OptionOK, Addr
-----------------------------------------------------------------------------
LEMMA InitType == Init => TypeOK
<1> SUFFICES ASSUME Init PROVE TypeOK
  OBVIOUS
<1>1. option \in Options /\ OptionOK(option)
  BY AiomAssumption DEF Init
<1>2. file_idx \in FilesOf(option) /\ ofst \in [FilesOf(option) -> Int]
  BY <1>1 DEF Init, OptionOK, FilesOf
<1>3. cbpool \in Seq(Cbs) /\ pending \in Seq(Requests) /\ cq \in Seq(Requests)
      /\ events \in Seq(Requests)
  BY EmptySeq DEF Init
<1> QED
  BY <1>1, <1>2, <1>3 DEF Init, TypeOK

LEMMA ExitType == TypeOK /\ Exit => TypeOK'
<1> SUFFICES ASSUME TypeOK, Exit PROVE TypeOK'
  OBVIOUS
<1> QED
  BY DEF Exit, TypeOK, walk, pool, queue, count, FilesOf

LEMMA SetupType == TypeOK /\ Setup => TypeOK'
<1> SUFFICES ASSUME TypeOK, Setup PROVE TypeOK'
  OBVIOUS
<1>1. OptionOK(option) /\ option' = option
  BY AiomAssumption DEF TypeOK, Setup
<1>2. cbpool' \in Seq(Cbs)
  <2>1. [i \in 1 .. NrEvents |-> i] \in [1 .. NrEvents -> Cbs]
    BY DEF Cbs
  <2> QED
    BY <2>1, AiomAssumption DEF Setup
<1>3. file_idx' \in FilesOf(option)
  BY <1>1 DEF Setup, OptionOK, FilesOf
<1>4. ofst' \in [FilesOf(option) -> Int]
  <2>1. \A f \in FilesOf(option) : SeqStart(option, f, ThreadId) \in Int
                                  /\ OfstMin(option) \in Int
    BY <1>1, SeqStartType, OfstTypes, AiomAssumption
  <2> QED
    BY <2>1 DEF Setup
<1>5. pending' \in Seq(Requests)
  BY EmptySeq DEF Setup
<1>6. iowait' \in Nat
  BY AiomAssumption DEF Setup
<1> QED
  BY <1>1, <1>2, <1>3, <1>4, <1>5, <1>6 DEF Setup, TypeOK, queue

LEMMA PrepType ==
    ASSUME TypeOK, NEW f \in FilesOf(option), NEW b \in Blocks, Prep(f, b)
    PROVE  TypeOK'
<1>1. OptionOK(option) /\ option' = option
  BY AiomAssumption DEF TypeOK, Prep
<1>2. b \in Int
  <2>1. \A g \in FilesOf(option) :
           /\ RandRange(OfstMin(option), OfstMax(option, g)) \subseteq Int
           /\ SeqStep(option, g, ofst[g]) \in Int
    BY <1>1, OfstTypes, RandRangeType, SeqStepType DEF TypeOK
  <2> QED
    BY <2>1 DEF Blocks
<1>3. ofst' \in [FilesOf(option) -> Int]
  BY <1>2 DEF Prep, TypeOK
<1>4. /\ ret' = Head(cbpool) /\ ret' \in Cbs
      /\ cbpool' \in Seq(Cbs)
  <2>1. cbpool # <<>> /\ cbpool \in Seq(Cbs)
    BY DEF Prep, TypeOK
  <2> QED
    BY <2>1, HeadTailProperties DEF Prep, Pool!Pop
<1>5. Addr(option, b) \in Int /\ f \in Nat
  BY <1>1, <1>2, AddrType DEF FilesOf, OptionOK
<1>6. pending' \in Seq(Requests)
  <2>1. Request(ret', f, Addr(option, b)) \in Requests
    BY <1>4, <1>5 DEF Request, Requests
  <2> QED
    BY <2>1, AppendProperties DEF Prep, TypeOK
<1>7. cbs' \in [Cbs -> [file : Nat, addr : Int]]
  BY <1>4, <1>5 DEF Prep, TypeOK
<1> QED
  BY <1>1, <1>3, <1>4, <1>6, <1>7 DEF Prep, TypeOK, queue, count

LEMMA SubmitType == TypeOK /\ Submit => TypeOK'
<1> SUFFICES ASSUME TypeOK, Submit PROVE TypeOK'
  OBVIOUS
<1>1. Range(pending) \subseteq Requests /\ Len(pending) \in Nat
  BY LenProperties DEF TypeOK, Range
<1>2. pending' \in Seq(Requests)
  BY EmptySeq DEF Submit
<1> QED
  BY <1>1, <1>2 DEF Submit, TypeOK, walk, pool

LEMMA WaitType ==
    ASSUME TypeOK, NEW m \in Nat, NEW p \in {"reap", "reapall"}, Wait(m, p)
    PROVE  TypeOK'
<1>1. CASE Libaio
  <2>1. PICK n \in m .. nr_inflight :
           /\ n <= Len(cq)
           /\ events' = SubSeq(cq, 1, n)
           /\ cq' = SubSeq(cq, n + 1, Len(cq))
           /\ nr_inflight' = nr_inflight - n
           /\ iocount' = iocount + n
           /\ left' = left
    BY <1>1 DEF Wait, Libaio, IoUring
  <2>2. n \in Nat /\ nr_inflight - n \in Nat /\ iocount + n \in Nat
    BY DEF TypeOK
  <2>3. \A i, j \in Int : (1 <= i /\ j <= Len(cq)) => SubSeq(cq, i, j) \in Seq(Requests)
    BY SubSeqProperties DEF TypeOK
  <2>4. events' \in Seq(Requests) /\ cq' \in Seq(Requests)
    BY <2>1, <2>2, <2>3, LenProperties DEF TypeOK
  <2> QED
    BY <2>1, <2>2, <2>4 DEF Wait, TypeOK, walk, pool
<1>2. CASE ~Libaio
  BY <1>2 DEF Wait, TypeOK, walk, pool
<1> QED
  BY <1>1, <1>2

LEMMA PushType ==
    ASSUME TypeOK, NEW c \in Cbs, Pool!Push(c)
    PROVE  cbpool' \in Seq(Cbs) /\ ret' \in Cbs \cup {NULL, Pool!Success, Pool!Failure}
<1>1. cbpool \in Seq(Cbs)
  BY DEF TypeOK
<1>2. Append(cbpool, c) \in Seq(Cbs)
  BY <1>1, AppendProperties
<1> QED
  BY <1>1, <1>2 DEF Pool!Push

LEMMA ReapType == TypeOK /\ Reap => TypeOK'
<1> SUFFICES ASSUME TypeOK, Reap PROVE TypeOK'
  OBVIOUS
<1>1. CASE Libaio /\ events # <<>>
  <2>1. Head(events) \in Requests /\ Tail(events) \in Seq(Requests)
    BY <1>1, HeadTailProperties DEF TypeOK
  <2>2. Pool!Push(Head(events).cb) /\ events' = Tail(events) /\ UNCHANGED <<cq, left>>
    BY <1>1 DEF Reap, Libaio, IoUring
  <2>3. Head(events).cb \in Cbs
    BY <2>1 DEF Requests
  <2>4. cbpool' \in Seq(Cbs) /\ ret' \in Cbs \cup {NULL, Pool!Success, Pool!Failure}
    BY <2>2, <2>3, PushType
  <2>5. iowait' \in Nat
    BY DEF Reap, TypeOK
  <2> QED
    BY <2>1, <2>2, <2>4, <2>5 DEF Reap, TypeOK, walk
<1>2. CASE ~(Libaio /\ events # <<>>)
  <2>0. left > 0 /\ cq # <<>> /\ Pool!Push(Head(cq).cb) /\ cq' = Tail(cq)
        /\ left' = left - 1 /\ events' = events
    BY <1>2 DEF Reap
  <2>1. Head(cq) \in Requests /\ Tail(cq) \in Seq(Requests)
    BY <2>0, HeadTailProperties DEF TypeOK
  <2>3. Head(cq).cb \in Cbs
    BY <2>1 DEF Requests
  <2>5. left' \in Nat /\ iowait' \in Nat
    BY <2>0 DEF TypeOK, Reap
  <2>4. cbpool' \in Seq(Cbs) /\ ret' \in Cbs \cup {NULL, Pool!Success, Pool!Failure}
    BY <2>0, <2>3, PushType
  <2> QED
    BY <2>0, <2>1, <2>4, <2>5 DEF Reap, TypeOK, walk
<1> QED
  BY <1>1, <1>2

LEMMA CompleteType ==
    ASSUME TypeOK, NEW r \in kernel, Complete(r)
    PROVE  TypeOK'
<1>1. r \in Requests
  BY DEF TypeOK
<1>2. cq' \in Seq(Requests)
  BY <1>1, AppendProperties DEF TypeOK, Complete
<1> QED
  BY <1>2 DEF Complete, TypeOK, walk, pool, count

LEMMA TypeStep == TypeOK /\ [Next]_vars => TypeOK'
<1> SUFFICES ASSUME TypeOK, [Next]_vars PROVE TypeOK'
  OBVIOUS
<1>1. CASE Fail \/ MixRefused
  BY <1>1, ExitType DEF Fail, MixRefused, SetupFails, SubmitFails, WaitFails, ReapFails
<1>2. CASE Setup
  BY <1>2, SetupType
<1>3. CASE CheckTimeout
  BY <1>3 DEF CheckTimeout, TypeOK, walk, pool, queue, count
<1>4. ASSUME NEW f \in FilesOf(option), NEW b \in Blocks, Prep(f, b) PROVE TypeOK'
  BY <1>4, PrepType
<1>5. CASE Submit
  BY <1>5, SubmitType
<1>6. CASE WaitOne
  BY <1>6, WaitType DEF WaitOne
<1>7. CASE WaitAll
  <2>1. nr_inflight \in Nat
    BY DEF TypeOK
  <2> QED
    BY <1>7, <2>1, WaitType DEF WaitAll
<1>8. CASE Reap
  BY <1>8, ReapType
<1>9. CASE ReapDone
  BY <1>9 DEF ReapDone, TypeOK, walk, pool, queue, count
<1>10. CASE Report
  BY <1>10 DEF Report, TypeOK, walk, pool, queue, count
<1>11. CASE Destroy
  BY <1>11, EmptySeq DEF Destroy, TypeOK, walk, queue, count
<1>12. ASSUME NEW r \in kernel, Complete(r) PROVE TypeOK'
  BY <1>12, CompleteType
<1>13. CASE Expire
  BY <1>13 DEF Expire, TypeOK, walk, pool, queue, count
<1>14. CASE UNCHANGED vars
  BY <1>14 DEF vars, TypeOK, walk, pool, queue, count
<1> QED
  BY <1>1, <1>2, <1>3, <1>4, <1>5, <1>6, <1>7, <1>8, <1>9, <1>10, <1>11, <1>12,
     <1>13, <1>14 DEF Next, Thread

\* Every variable of the thread, its AIO manager and the kernel queues keeps
\* its type; nr_inflight, from which each wait is subtracted, stays natural.
THEOREM TypeCorrect == Spec => []TypeOK
<1> QED
  BY InitType, TypeStep, PTL DEF Spec
-----------------------------------------------------------------------------
\* The accounting of libaio: each submitted I/O is counted or in flight, and
\* none is in flight once mb_aiom_waitall has fetched its events.
CountInv ==
    /\ Libaio => submitted = iocount + nr_inflight
    /\ Libaio /\ pc \in {"reapall", "meter", "destroy", "done"} => nr_inflight = 0
    /\ pc = "setup" => submitted = 0
    /\ pc \in {"destroy", "done"} => meter.count = iocount

LEMMA CountStep == TypeOK /\ CountInv /\ [Next]_vars => CountInv'
<1> SUFFICES ASSUME TypeOK, CountInv, [Next]_vars PROVE CountInv'
  OBVIOUS
<1> USE DEF CountInv, Libaio, walk, pool, queue, count
<1>0. nr_inflight \in Nat /\ iocount \in Nat /\ submitted \in Nat
  BY DEF TypeOK
<1>1. CASE Fail \/ MixRefused
  BY <1>1 DEF Fail, MixRefused, SetupFails, SubmitFails, WaitFails, ReapFails, Exit
<1>2. CASE Setup
  BY <1>2 DEF Setup
<1>3. CASE CheckTimeout
  BY <1>3 DEF CheckTimeout
<1>4. ASSUME NEW f \in FilesOf(option), NEW b \in Blocks, Prep(f, b) PROVE CountInv'
  BY <1>4 DEF Prep
<1>5. CASE Submit
  <2>1. Len(pending) \in Nat
    BY LenProperties DEF TypeOK
  <2> QED
    BY <1>5, <1>0, <2>1 DEF Submit
<1>w. ASSUME NEW m \in Nat, NEW p, Wait(m, p)
      PROVE  /\ UNCHANGED <<option, submitted, meter>> /\ pc' = p
             /\ Libaio => \E n \in m .. nr_inflight :
                             nr_inflight' = nr_inflight - n /\ iocount' = iocount + n
             /\ ~Libaio => UNCHANGED <<nr_inflight, iocount>>
  BY <1>w DEF Wait, IoUring
<1>6. CASE WaitOne
  <2>1. pc' = "reap"
    BY <1>6, <1>w DEF WaitOne
  <2> QED
    BY <1>6, <1>0, <1>w, <2>1 DEF WaitOne
<1>7. CASE WaitAll
  <2>1. pc' = "reapall" /\ (Libaio => nr_inflight' = 0 /\ iocount' = iocount + nr_inflight)
    BY <1>7, <1>0, <1>w DEF WaitAll
  <2> QED
    BY <1>7, <1>0, <1>w, <2>1 DEF WaitAll
<1>8. CASE Reap
  BY <1>8 DEF Reap
<1>9. CASE ReapDone
  BY <1>9 DEF ReapDone
<1>10. CASE Report
  BY <1>10 DEF Report
<1>11. CASE Destroy
  BY <1>11 DEF Destroy
<1>12. ASSUME NEW r \in kernel, Complete(r) PROVE CountInv'
  BY <1>12 DEF Complete
<1>13. CASE Expire
  BY <1>13 DEF Expire
<1>14. CASE UNCHANGED vars
  BY <1>14 DEF vars
<1> QED
  BY <1>1, <1>2, <1>3, <1>4, <1>5, <1>6, <1>7, <1>8, <1>9, <1>10, <1>11, <1>12,
     <1>13, <1>14 DEF Next, Thread

\* With libaio, the count a finished thread reports is the number of I/Os it
\* issued, whatever the order and the batches in which they completed.
THEOREM CountCorrect == Spec => []AllCounted
<1>1. Init => CountInv
  BY DEF Init, CountInv
<1>2. TypeOK /\ CountInv => AllCounted
  BY DEF TypeOK, CountInv, AllCounted
<1> QED
  BY <1>1, <1>2, TypeCorrect, CountStep, PTL DEF Spec
-----------------------------------------------------------------------------
\* Each request of the sequence s has a control block of its own.
OnceIn(s) == \A k, l \in 1 .. Len(s) : s[k].cb = s[l].cb => k = l

\* No control block is in two places, or twice in one.
Once ==
    /\ \A k, l \in 1 .. Len(cbpool) : cbpool[k] = cbpool[l] => k = l
    /\ OnceIn(pending) /\ OnceIn(cq) /\ OnceIn(events)
    /\ \A r, s \in kernel : r.cb = s.cb => r = s

Apart ==
    /\ InPool \cap (Queued \cup InKernel \cup Completed \cup Fetched) = {}
    /\ Queued \cap (InKernel \cup Completed \cup Fetched) = {}
    /\ InKernel \cap (Completed \cup Fetched) = {}
    /\ Completed \cap Fetched = {}

\* What the kernel still owes
Owed == Cardinality(kernel) + Len(cq)

\* Requests wait in pending only while the thread fills it, and in events only while it
\* reaps; nr_inflight is what the kernel owes (libaio) or more (io_uring, which never
\* decrements it), so that waiting for nr_inflight completions is waiting for all.
Phases ==
    /\ pc = "setup" => pending = <<>> /\ kernel = {} /\ cq = <<>> /\ events = <<>>
    /\ pc \notin {"fill", "exit"} => pending = <<>>
    /\ pc \notin {"reap", "reapall", "exit"} => events = <<>> /\ left = 0
    /\ IsFiniteSet(kernel)
    /\ IF Libaio THEN nr_inflight = Owed ELSE nr_inflight >= Owed
    /\ pc = "reapall" => (IF Libaio THEN Owed = 0 ELSE left >= Owed)
    /\ pc \in {"meter", "destroy"} => Owed = 0

OwnInv == Once /\ Apart /\ Phases /\ CbOwnership /\ InFlightIntact /\ PushNeverRefused
-----------------------------------------------------------------------------
\* Sequences of requests, and the control blocks in them
LEMMA CbsOfSeq ==
    ASSUME NEW s \in Seq(Requests)
    PROVE  /\ Len(s) \in Nat
           /\ \A c : c \in CbsOf(Range(s)) <=> \E k \in 1 .. Len(s) : s[k].cb = c
           /\ \A r : r \in Range(s) <=> \E k \in 1 .. Len(s) : s[k] = r
           /\ \A k \in 1 .. Len(s) : s[k] \in Requests
<1>1. Len(s) \in Nat /\ Range(s) = {s[k] : k \in 1 .. Len(s)}
  BY LenProperties, RangeEquality
<1>2. \A k \in 1 .. Len(s) : s[k] \in Requests
  BY ElementOfSeq
<1> QED
  BY <1>1, <1>2 DEF CbsOf

LEMMA AppendCbs ==
    ASSUME NEW s \in Seq(Requests), NEW r \in Requests
    PROVE  /\ Append(s, r) \in Seq(Requests) /\ Len(Append(s, r)) = Len(s) + 1
           /\ Range(Append(s, r)) = Range(s) \cup {r}
           /\ CbsOf(Range(Append(s, r))) = CbsOf(Range(s)) \cup {r.cb}
           /\ OnceIn(s) /\ r.cb \notin CbsOf(Range(s)) => OnceIn(Append(s, r))
<1> DEFINE t == Append(s, r)
<1>1. /\ t \in Seq(Requests) /\ Len(t) = Len(s) + 1 /\ t[Len(s) + 1] = r
      /\ \A k \in 1 .. Len(s) : t[k] = s[k]
  BY AppendProperties
<1> HIDE DEF t
<1>2. Len(s) \in Nat
  BY CbsOfSeq
<1>3. Range(t) = Range(s) \cup {r}
  BY <1>1, <1>2, CbsOfSeq
<1>4. CbsOf(Range(t)) = CbsOf(Range(s)) \cup {r.cb}
  BY <1>3 DEF CbsOf
<1>5. ASSUME OnceIn(s), r.cb \notin CbsOf(Range(s)) PROVE OnceIn(t)
  <2>1. \A k \in 1 .. Len(s) : s[k].cb # r.cb
    BY <1>5, CbsOfSeq
  <2> QED
    BY <1>1, <1>2, <1>5, <2>1 DEF OnceIn
<1> QED
  BY <1>1, <1>3, <1>4, <1>5 DEF t

LEMMA TailCbs ==
    ASSUME NEW s \in Seq(Requests), s # <<>>, OnceIn(s)
    PROVE  /\ Tail(s) \in Seq(Requests) /\ Len(Tail(s)) = Len(s) - 1 /\ Len(s) > 0
           /\ Head(s) \in Range(s) /\ Range(Tail(s)) \subseteq Range(s)
           /\ Head(s).cb \in CbsOf(Range(s)) /\ Head(s).cb \in Cbs
           /\ CbsOf(Range(Tail(s))) = CbsOf(Range(s)) \ {Head(s).cb}
           /\ OnceIn(Tail(s))
<1> DEFINE t == Tail(s)
           c == Head(s).cb
<1>1. /\ t \in Seq(Requests) /\ Len(t) = Len(s) - 1 /\ Len(s) \in Nat \ {0}
      /\ Head(s) = s[1] /\ Head(s) \in Requests
      /\ \A k \in 1 .. Len(t) : t[k] = s[k + 1]
  BY HeadTailProperties, EmptySeq
<1>2. c = s[1].cb /\ c \in Cbs
  BY <1>1 DEF Requests
<1> HIDE DEF t, c
<1>3. Head(s) \in Range(s) /\ c \in CbsOf(Range(s))
  BY <1>1, <1>2, CbsOfSeq
<1>4. Range(t) \subseteq Range(s)
  <2> SUFFICES ASSUME NEW r \in Range(t) PROVE r \in Range(s)
    OBVIOUS
  <2>1. PICK k \in 1 .. Len(t) : t[k] = r
    BY <1>1, CbsOfSeq
  <2>2. k + 1 \in 1 .. Len(s) /\ s[k + 1] = r
    BY <1>1, <2>1
  <2> QED
    BY <2>2, CbsOfSeq
<1>5. CbsOf(Range(t)) = CbsOf(Range(s)) \ {c}
  <2>1. ASSUME NEW d \in CbsOf(Range(t)) PROVE d \in CbsOf(Range(s)) \ {c}
    <3>1. PICK k \in 1 .. Len(t) : t[k].cb = d
      BY <1>1, <2>1, CbsOfSeq
    <3>2. k + 1 \in 1 .. Len(s) /\ s[k + 1].cb = d /\ k + 1 # 1 /\ 1 \in 1 .. Len(s)
      BY <1>1, <3>1
    <3>3. d # c
      BY <1>2, <3>2 DEF OnceIn
    <3> QED
      BY <3>2, <3>3, CbsOfSeq
  <2>2. ASSUME NEW d \in CbsOf(Range(s)) \ {c} PROVE d \in CbsOf(Range(t))
    <3>1. PICK k \in 1 .. Len(s) : s[k].cb = d
      BY <2>2, CbsOfSeq
    <3>2. k - 1 \in 1 .. Len(t) /\ t[k - 1].cb = d
      BY <1>1, <1>2, <2>2, <3>1
    <3> QED
      BY <1>1, <3>2, CbsOfSeq
  <2> QED
    BY <2>1, <2>2
<1>6. OnceIn(t)
  <2> SUFFICES ASSUME NEW k \in 1 .. Len(t), NEW l \in 1 .. Len(t), t[k].cb = t[l].cb
               PROVE  k = l
    BY DEF OnceIn
  <2>1. k + 1 \in 1 .. Len(s) /\ l + 1 \in 1 .. Len(s) /\ s[k + 1].cb = s[l + 1].cb
    BY <1>1
  <2>2. k + 1 = l + 1
    BY <2>1 DEF OnceIn
  <2> QED
    BY <1>1, <2>2
<1> QED
  BY <1>1, <1>2, <1>3, <1>4, <1>5, <1>6 DEF t, c

\* A part of a sequence of requests
LEMMA PartCbs ==
    ASSUME NEW s \in Seq(Requests), OnceIn(s), NEW a \in 1 .. Len(s) + 1, NEW b \in a - 1 .. Len(s)
    PROVE  /\ SubSeq(s, a, b) \in Seq(Requests) /\ Len(SubSeq(s, a, b)) = b - a + 1
           /\ Range(SubSeq(s, a, b)) \subseteq Range(s)
           /\ \A c : c \in CbsOf(Range(SubSeq(s, a, b))) <=> \E k \in a .. b : s[k].cb = c
           /\ OnceIn(SubSeq(s, a, b))
<1> DEFINE t == SubSeq(s, a, b)
<1>1. Len(s) \in Nat /\ \A k \in 1 .. Len(s) : s[k] \in Requests
  BY CbsOfSeq
<1>2. /\ t \in Seq(Requests) /\ Len(t) = b - a + 1 /\ a \in Int /\ b \in Int
      /\ \A k \in 1 .. Len(t) : t[k] = s[a + k - 1]
  <2>1. a \in Int /\ b \in Int /\ \A k \in a .. b : s[k] \in Requests
    BY <1>1
  <2> QED
    BY <1>1, <2>1, SubSeqProperties
<1> HIDE DEF t
<1>3. \A k \in 1 .. Len(t) : a + k - 1 \in 1 .. Len(s) /\ a + k - 1 \in a .. b
  BY <1>1, <1>2
<1>4. Range(t) \subseteq Range(s)
  <2> SUFFICES ASSUME NEW r \in Range(t) PROVE r \in Range(s)
    OBVIOUS
  <2>1. PICK k \in 1 .. Len(t) : t[k] = r
    BY <1>2, CbsOfSeq
  <2>2. a + k - 1 \in 1 .. Len(s) /\ s[a + k - 1] = r
    BY <1>2, <1>3, <2>1
  <2> QED
    BY <2>2, CbsOfSeq
<1>5. ASSUME NEW c PROVE c \in CbsOf(Range(t)) <=> \E k \in a .. b : s[k].cb = c
  <2>1. ASSUME c \in CbsOf(Range(t)) PROVE \E k \in a .. b : s[k].cb = c
    <3>1. PICK k \in 1 .. Len(t) : t[k].cb = c
      BY <1>2, <2>1, CbsOfSeq
    <3>2. a + k - 1 \in a .. b /\ s[a + k - 1].cb = c
      BY <1>2, <1>3, <3>1, Zenon
    <3> QED
      BY <3>2
  <2>2. ASSUME NEW k \in a .. b, s[k].cb = c PROVE c \in CbsOf(Range(t))
    <3>1. k - a + 1 \in 1 .. Len(t) /\ t[k - a + 1] = s[k]
      BY <1>1, <1>2
    <3> QED
      BY <1>2, <2>2, <3>1, CbsOfSeq
  <2> QED
    BY <2>1, <2>2
<1>6. OnceIn(t)
  <2> SUFFICES ASSUME NEW k \in 1 .. Len(t), NEW l \in 1 .. Len(t), t[k].cb = t[l].cb
               PROVE  k = l
    BY DEF OnceIn
  <2>1. a + k - 1 = a + l - 1
    BY <1>2, <1>3 DEF OnceIn
  <2> QED
    BY <1>2, <2>1
<1> QED
  BY <1>2, <1>4, <1>5, <1>6 DEF t

LEMMA SplitCbs ==
    ASSUME NEW s \in Seq(Requests), OnceIn(s), NEW n \in 0 .. Len(s)
    PROVE  LET front == SubSeq(s, 1, n)
               back  == SubSeq(s, n + 1, Len(s))
           IN  /\ Len(front) = n /\ Len(back) = Len(s) - n
               /\ Range(front) \subseteq Range(s) /\ Range(back) \subseteq Range(s)
               /\ CbsOf(Range(front)) \cup CbsOf(Range(back)) = CbsOf(Range(s))
               /\ CbsOf(Range(front)) \cap CbsOf(Range(back)) = {}
               /\ OnceIn(front) /\ OnceIn(back)
<1> DEFINE front == SubSeq(s, 1, n)
           back  == SubSeq(s, n + 1, Len(s))
<1>0. Len(s) \in Nat
  BY CbsOfSeq
<1>1. /\ Len(front) = n /\ Range(front) \subseteq Range(s) /\ OnceIn(front)
      /\ \A c : c \in CbsOf(Range(front)) <=> \E k \in 1 .. n : s[k].cb = c
  <2>1. 1 \in 1 .. Len(s) + 1 /\ n \in 1 - 1 .. Len(s) /\ n - 1 + 1 = n
    BY <1>0
  <2> QED
    BY <2>1, PartCbs
<1>2. /\ Len(back) = Len(s) - n /\ Range(back) \subseteq Range(s) /\ OnceIn(back)
      /\ \A c : c \in CbsOf(Range(back)) <=> \E k \in n + 1 .. Len(s) : s[k].cb = c
  <2>1. PICK a \in 1 .. Len(s) + 1 : a = n + 1 /\ Len(s) \in a - 1 .. Len(s)
    BY <1>0
  <2>2. /\ Len(SubSeq(s, a, Len(s))) = Len(s) - a + 1
        /\ Range(SubSeq(s, a, Len(s))) \subseteq Range(s) /\ OnceIn(SubSeq(s, a, Len(s)))
        /\ \A c : c \in CbsOf(Range(SubSeq(s, a, Len(s)))) <=> \E k \in a .. Len(s) : s[k].cb = c
    BY <2>1, PartCbs
  <2>3. Len(s) - a + 1 = Len(s) - n
    BY <1>0, <2>1
  <2> QED
    BY <2>1, <2>2, <2>3
<1> HIDE DEF front, back
<1>3. CbsOf(Range(front)) \cup CbsOf(Range(back)) = CbsOf(Range(s))
  <2>1. 1 .. Len(s) = (1 .. n) \cup (n + 1 .. Len(s))
    BY <1>0
  <2>2. \A c : c \in CbsOf(Range(s)) <=> \E k \in 1 .. Len(s) : s[k].cb = c
    BY CbsOfSeq
  <2>3. \A c : c \in CbsOf(Range(s)) <=> c \in CbsOf(Range(front)) \/ c \in CbsOf(Range(back))
    BY <1>1, <1>2, <2>1, <2>2
  <2> QED
    BY <2>3
<1>4. CbsOf(Range(front)) \cap CbsOf(Range(back)) = {}
  <2> SUFFICES ASSUME NEW k \in 1 .. n, NEW l \in n + 1 .. Len(s), s[k].cb = s[l].cb PROVE FALSE
    BY <1>1, <1>2
  <2>1. k \in 1 .. Len(s) /\ l \in 1 .. Len(s) /\ k # l
    BY <1>0
  <2> QED
    BY <2>1 DEF OnceIn
<1> QED
  BY <1>1, <1>2, <1>3, <1>4 DEF front, back

\* As many requests as places in the sequence
LEMMA CountRequests ==
    ASSUME NEW s \in Seq(Requests), OnceIn(s)
    PROVE  IsFiniteSet(Range(s)) /\ Cardinality(Range(s)) = Len(s)
<1>1. Len(s) \in Nat /\ s \in [1 .. Len(s) -> Requests]
  BY LenProperties
<1>2. s \in Bijection(1 .. Len(s), Range(s))
  BY <1>1, CbsOfSeq DEF OnceIn, Bijection, Injection, Surjection, Range, IsInjective
<1>3. ExistsBijection(1 .. Len(s), Range(s))
  BY <1>2 DEF ExistsBijection
<1> QED
  BY <1>1, <1>3, FS_CountingElements, FS_NatBijection
-----------------------------------------------------------------------------
LEMMA InitOwn == Init => OwnInv
<1> SUFFICES ASSUME Init PROVE OwnInv
  OBVIOUS
<1>1. Len(<<>>) = 0 /\ Range(<<>>) = {} /\ CbsOf({}) = {}
  BY EmptySeq DEF Range, CbsOf
<1>2. Once
  BY <1>1 DEF Init, Once, OnceIn
<1>3. Apart
  BY <1>1 DEF Init, Apart, InPool, Queued, InKernel, Completed, Fetched
<1>4. Phases
  BY <1>1, FS_EmptySet DEF Init, Phases, Owed, Libaio
<1>5. InFlightIntact /\ PushNeverRefused /\ CbOwnership
  BY <1>1 DEF Init, InFlightIntact, PushNeverRefused, CbOwnership, Pool!Success, Pool!Failure
<1> QED
  BY <1>2, <1>3, <1>4, <1>5 DEF OwnInv

\* The thread moves on and every control block stays where it is.
LEMMA QuietOwn ==
    ASSUME OwnInv, UNCHANGED <<option, pool, cbs, pending, queue, events, left, nr_inflight>>,
           pc' \notin {"setup", "done", "exit"} => pc \notin {"setup", "done", "exit"},
           Phases'
    PROVE  OwnInv'
<1>1. UNCHANGED <<option, cbpool, ret, cbs, pending, kernel, cq, events>>
  BY DEF pool, queue
<1>2. Once'
  BY <1>1 DEF OwnInv, Once, OnceIn
<1>3. Apart'
  BY <1>1 DEF OwnInv, Apart, InPool, Queued, InKernel, Completed, Fetched
<1>4. InFlightIntact' /\ PushNeverRefused'
  BY <1>1 DEF OwnInv, InFlightIntact, PushNeverRefused, Libaio
<1>5. CbOwnership'
  BY <1>1 DEF OwnInv, CbOwnership, InPool, Queued, InKernel, Completed, Fetched
<1> QED
  BY <1>2, <1>3, <1>4, <1>5 DEF OwnInv

LEMMA ControlOwn ==
    ASSUME TypeOK, OwnInv,
           Exit \/ CheckTimeout \/ ReapDone \/ Report \/ Expire \/ UNCHANGED vars
    PROVE  OwnInv'
<1>1. UNCHANGED <<option, pool, cbs, pending, queue, events, left, nr_inflight>>
  BY DEF Exit, CheckTimeout, ReapDone, Report, Expire, vars, count
<1>2. pc' \notin {"setup", "done", "exit"} => pc \notin {"setup", "done", "exit"}
  BY DEF Exit, CheckTimeout, ReapDone, Report, Expire, vars
<1>3. Phases'
  <2>0. /\ UNCHANGED <<option, pending, kernel, cq, events, left, nr_inflight>>
        /\ Libaio' = Libaio /\ Owed' = Owed /\ Phases
    BY <1>1 DEF queue, Libaio, Owed, OwnInv
  <2>1. CASE Exit
    BY <2>0, <2>1 DEF Exit, Phases
  <2>2. CASE CheckTimeout
    BY <2>0, <2>2 DEF CheckTimeout, Phases
  <2>3. CASE ReapDone
    <3>1. kernel' = kernel /\ Owed \in Nat
      BY <2>0, FS_CardinalityType, LenProperties DEF Phases, Owed, TypeOK
    <3> QED
      BY <2>0, <2>3, <3>1 DEF ReapDone, Phases
  <2>4. CASE Report
    BY <2>0, <2>4 DEF Report, Phases
  <2>5. CASE Expire \/ UNCHANGED vars
    BY <2>0, <2>5 DEF Expire, vars, Phases
  <2> QED
    BY <2>1, <2>2, <2>3, <2>4, <2>5
<1> QED
  BY <1>1, <1>2, <1>3, QuietOwn

LEMMA DestroyOwn == TypeOK /\ OwnInv /\ Destroy => OwnInv'
<1> SUFFICES ASSUME TypeOK, OwnInv, Destroy PROVE OwnInv'
  OBVIOUS
<1>1. UNCHANGED <<option, cbs, pending, kernel, cq, events, left, nr_inflight>>
      /\ cbpool' = <<>> /\ ret' = NULL /\ pc = "destroy" /\ pc' = "done"
  BY DEF Destroy, queue, count
<1>2. Len(<<>>) = 0 /\ Range(<<>>) = {}
  BY EmptySeq DEF Range
<1>3. Once'
  BY <1>1, <1>2 DEF OwnInv, Once, OnceIn
<1>4. Apart'
  BY <1>1, <1>2 DEF OwnInv, Apart, InPool, Queued, InKernel, Completed, Fetched
<1>5. Phases'
  BY <1>1 DEF OwnInv, Phases, Owed, Libaio
<1>6. InFlightIntact'
  BY <1>1 DEF OwnInv, InFlightIntact, Libaio
<1>7. PushNeverRefused' /\ CbOwnership'
  BY <1>1, AiomAssumption DEF PushNeverRefused, CbOwnership, Pool!Failure
<1> QED
  BY <1>3, <1>4, <1>5, <1>6, <1>7 DEF OwnInv

LEMMA SetupOwn == TypeOK /\ OwnInv /\ Setup => OwnInv'
<1> SUFFICES ASSUME TypeOK, OwnInv, Setup PROVE OwnInv'
  OBVIOUS
<1>1. /\ UNCHANGED <<option, cbs, kernel, cq, events, left>>
      /\ cbpool' = [i \in 1 .. NrEvents |-> i] /\ ret' = Pool!Success
      /\ pending' = <<>> /\ kernel = {} /\ cq = <<>> /\ events = <<>> /\ nr_inflight' = 0
      /\ pc = "setup" /\ pc' = "loop" /\ left = 0
  BY DEF Setup, OwnInv, Phases, queue
<1>2. Len(<<>>) = 0 /\ Range(<<>>) = {} /\ CbsOf({}) = {} /\ IsFiniteSet({}) /\ Cardinality({}) = 0
  BY EmptySeq, FS_EmptySet DEF Range, CbsOf
<1>3. Len(cbpool') = NrEvents /\ Range(cbpool') = Cbs
  <2>1. cbpool' \in Seq(Cbs) /\ DOMAIN cbpool' = 1 .. NrEvents
    BY <1>1, SetupType DEF TypeOK
  <2>2. Len(cbpool') \in Nat /\ 1 .. Len(cbpool') = 1 .. NrEvents
    BY <2>1, LenProperties
  <2>3. Len(cbpool') = NrEvents
    BY <2>2, AiomAssumption
  <2> QED
    BY <1>1, <2>3 DEF Range, Cbs
<1>4. Once'
  <2>1. \A k, l \in 1 .. Len(cbpool') : cbpool'[k] = cbpool'[l] => k = l
    BY <1>1, <1>3
  <2>2. OnceIn(pending)' /\ OnceIn(events)' /\ OnceIn(cq)'
    BY <1>1, <1>2 DEF OnceIn
  <2> QED
    BY <1>1, <2>1, <2>2 DEF Once
<1>5. Apart'
  BY <1>1, <1>2 DEF Apart, InPool, Queued, InKernel, Completed, Fetched
<1>6. Phases'
  <2>1. Owed' = 0
    BY <1>1, <1>2 DEF Owed
  <2> QED
    BY <1>1, <1>2, <2>1 DEF Phases
<1>7. InFlightIntact' /\ PushNeverRefused'
  BY <1>1, <1>2 DEF InFlightIntact, PushNeverRefused, Pool!Success, Pool!Failure
<1>8. CbOwnership'
  <2>1. /\ InPool' = Cbs /\ Queued' = {} /\ InKernel' = {} /\ Completed' = {} /\ Fetched' = {}
    BY <1>1, <1>2, <1>3 DEF InPool, Queued, InKernel, Completed, Fetched
  <2>2. /\ Len(cbpool') = NrEvents /\ Len(pending') = 0 /\ Cardinality(kernel') = 0
        /\ Len(cq') = 0 /\ Len(events') = 0 /\ NrEvents \in Nat
    BY <1>1, <1>2, <1>3, AiomAssumption
  <2>3. Len(cbpool') + Len(pending') + Cardinality(kernel') + Len(cq') + Len(events') = NrEvents
    BY <2>2
  <2> QED
    BY <2>1, <2>3 DEF CbOwnership
<1> QED
  BY <1>4, <1>5, <1>6, <1>7, <1>8 DEF OwnInv

LEMMA Lengths ==
    ASSUME TypeOK, OwnInv
    PROVE  /\ Len(cbpool) \in Nat /\ Len(pending) \in Nat /\ Len(cq) \in Nat
           /\ Len(events) \in Nat /\ Cardinality(kernel) \in Nat /\ IsFiniteSet(kernel)
           /\ NrEvents \in Nat
  BY LenProperties, FS_CardinalityType, AiomAssumption DEF TypeOK, OwnInv, Phases

\* A request that the device completes moves from the kernel to the completion queue.
LEMMA CompleteOwn ==
    ASSUME TypeOK, OwnInv, NEW r \in kernel, Complete(r)
    PROVE  OwnInv'
<1>0. /\ UNCHANGED <<option, pc, cbpool, ret, cbs, pending, events, left, nr_inflight>>
      /\ kernel' = kernel \ {r} /\ cq' = Append(cq, r)
  BY DEF Complete, pool, count
<1>1. r \in Requests /\ cq \in Seq(Requests) /\ r.cb \in InKernel
  BY DEF TypeOK, InKernel, CbsOf
<1>2. /\ Len(cq') = Len(cq) + 1 /\ Range(cq') = Range(cq) \cup {r}
      /\ Completed' = Completed \cup {r.cb}
      /\ OnceIn(cq) /\ r.cb \notin Completed => OnceIn(cq')
  BY <1>0, <1>1, AppendCbs DEF Completed
<1>3. InKernel' = InKernel \ {r.cb}
  BY <1>0 DEF InKernel, CbsOf, OwnInv, Once
<1>4. IsFiniteSet(kernel') /\ Cardinality(kernel') = Cardinality(kernel) - 1
  BY <1>0, Lengths, FS_RemoveElement
<1>5. r.cb \notin Completed
  BY <1>1 DEF OwnInv, Apart
<1>6. Once'
  <2>1. \A q, s \in kernel' : q.cb = s.cb => q = s
    BY <1>0 DEF OwnInv, Once
  <2>2. OnceIn(pending)' /\ OnceIn(events)' /\ OnceIn(cq)'
    BY <1>0, <1>2, <1>5 DEF OwnInv, Once, OnceIn
  <2> QED
    BY <1>0, <2>1, <2>2 DEF OwnInv, Once
<1>7. /\ InPool' = InPool /\ Queued' = Queued /\ Fetched' = Fetched
  BY <1>0 DEF InPool, Queued, Fetched
<1>8. Apart'
  BY <1>1, <1>2, <1>3, <1>7 DEF OwnInv, Apart
<1>9. Owed' = Owed /\ Libaio' = Libaio
  BY <1>0, <1>2, <1>4, Lengths DEF Owed, Libaio
<1>10. Phases'
  BY <1>0, <1>4, <1>9 DEF OwnInv, Phases
<1>11. InFlightIntact' /\ PushNeverRefused'
  BY <1>0, <1>2, <1>9 DEF OwnInv, InFlightIntact, PushNeverRefused
<1>12. CbOwnership'
  <2>1. InKernel' \cup Completed' = InKernel \cup Completed
    BY <1>1, <1>2, <1>3
  <2>2. /\ Len(cbpool) \in Nat /\ Len(pending) \in Nat /\ Len(cq) \in Nat
        /\ Len(events) \in Nat /\ Cardinality(kernel) \in Nat
    BY Lengths
  <2>3. Len(cbpool) + Len(pending) + Cardinality(kernel') + Len(cq') + Len(events)
           = Len(cbpool) + Len(pending) + Cardinality(kernel) + Len(cq) + Len(events)
    <3>1. Len(cq') = Len(cq) + 1
      BY <1>2
    <3>2. Cardinality(kernel') = Cardinality(kernel) - 1
      BY <1>4
    <3> QED
      BY <2>2, <3>1, <3>2
  <2> QED
    BY <1>0, <1>7, <2>1, <2>3 DEF OwnInv, CbOwnership
<1> QED
  BY <1>6, <1>8, <1>10, <1>11, <1>12 DEF OwnInv

LEMMA PoolRange ==
    ASSUME NEW s \in Seq(Cbs)
    PROVE  \A c : c \in Range(s) <=> \E k \in 1 .. Len(s) : s[k] = c
<1>1. Range(s) = {s[k] : k \in 1 .. Len(s)}
  BY RangeEquality
<1> QED
  BY <1>1

\* The pool is a sequence of control blocks: what its pop and push do to their set
LEMMA PopCbs ==
    ASSUME TypeOK, Once, cbpool # <<>>, cbpool' = Tail(cbpool)
    PROVE  /\ Len(cbpool') = Len(cbpool) - 1 /\ Head(cbpool) \in InPool
           /\ InPool' = InPool \ {Head(cbpool)}
           /\ \A k, l \in 1 .. Len(cbpool') : cbpool'[k] = cbpool'[l] => k = l
<1>1. /\ cbpool \in Seq(Cbs) /\ cbpool' \in Seq(Cbs)
      /\ Len(cbpool') = Len(cbpool) - 1 /\ Len(cbpool) \in Nat \ {0}
      /\ Head(cbpool) = cbpool[1] /\ \A k \in 1 .. Len(cbpool') : cbpool'[k] = cbpool[k + 1]
  BY HeadTailProperties, EmptySeq DEF TypeOK
<1>2. /\ \A c : c \in InPool <=> \E k \in 1 .. Len(cbpool) : cbpool[k] = c
      /\ \A c : c \in InPool' <=> \E k \in 1 .. Len(cbpool') : cbpool'[k] = c
  BY <1>1, PoolRange DEF InPool
<1>3. Head(cbpool) \in InPool
  BY <1>1, <1>2
<1>4. \A k, l \in 1 .. Len(cbpool) : cbpool[k] = cbpool[l] => k = l
  BY DEF Once
<1>5. ASSUME NEW k \in 1 .. Len(cbpool'), NEW l \in 1 .. Len(cbpool'), cbpool'[k] = cbpool'[l]
      PROVE  k = l
  <2>1. k + 1 \in 1 .. Len(cbpool) /\ l + 1 \in 1 .. Len(cbpool) /\ cbpool[k + 1] = cbpool[l + 1]
    BY <1>1, <1>5
  <2>2. k + 1 = l + 1
    BY <1>4, <2>1
  <2> QED
    BY <1>1, <2>2
<1>6. ASSUME NEW c \in InPool' PROVE c \in InPool \ {Head(cbpool)}
  <2>1. PICK k \in 1 .. Len(cbpool') : cbpool'[k] = c
    BY <1>2, <1>6
  <2>2. k + 1 \in 1 .. Len(cbpool) /\ cbpool[k + 1] = c /\ k + 1 # 1 /\ 1 \in 1 .. Len(cbpool)
    BY <1>1, <2>1
  <2> QED
    BY <1>1, <1>2, <1>4, <2>2
<1>7. ASSUME NEW c \in InPool \ {Head(cbpool)} PROVE c \in InPool'
  <2>1. PICK k \in 1 .. Len(cbpool) : cbpool[k] = c
    BY <1>2, <1>7
  <2>2. k - 1 \in 1 .. Len(cbpool') /\ cbpool'[k - 1] = c
    BY <1>1, <1>7, <2>1
  <2> QED
    BY <1>2, <2>2
<1> QED
  BY <1>1, <1>3, <1>5, <1>6, <1>7

LEMMA PushCbs ==
    ASSUME TypeOK, Once, NEW c \in Cbs, c \notin InPool, cbpool' = Append(cbpool, c)
    PROVE  /\ Len(cbpool') = Len(cbpool) + 1 /\ InPool' = InPool \cup {c}
           /\ \A k, l \in 1 .. Len(cbpool') : cbpool'[k] = cbpool'[l] => k = l
<1>1. /\ cbpool \in Seq(Cbs) /\ cbpool' \in Seq(Cbs) /\ Len(cbpool) \in Nat
      /\ Len(cbpool') = Len(cbpool) + 1 /\ cbpool'[Len(cbpool) + 1] = c
      /\ \A k \in 1 .. Len(cbpool) : cbpool'[k] = cbpool[k]
  BY AppendProperties, LenProperties DEF TypeOK
<1>2. /\ \A d : d \in InPool <=> \E k \in 1 .. Len(cbpool) : cbpool[k] = d
      /\ \A d : d \in InPool' <=> \E k \in 1 .. Len(cbpool') : cbpool'[k] = d
  BY <1>1, PoolRange DEF InPool
<1>3. 1 .. Len(cbpool') = (1 .. Len(cbpool)) \cup {Len(cbpool) + 1}
  BY <1>1
<1>4. InPool' = InPool \cup {c}
  <2>1. \A d : d \in InPool' <=> d \in InPool \/ d = c
    BY <1>1, <1>2, <1>3
  <2> QED
    BY <2>1
<1>5. \A k \in 1 .. Len(cbpool) : cbpool'[k] # c
  BY <1>1, <1>2
<1>6. \A k, l \in 1 .. Len(cbpool') : cbpool'[k] = cbpool'[l] => k = l
  BY <1>1, <1>3, <1>5 DEF Once
<1> QED
  BY <1>1, <1>4, <1>6

\* A control block leaves the pool for a new request.
LEMMA PrepOwn ==
    ASSUME TypeOK, OwnInv, NEW f \in FilesOf(option), NEW b \in Blocks, Prep(f, b)
    PROVE  OwnInv'
<1> DEFINE c == Head(cbpool)
           r == Request(c, f, Addr(option, b))
<1>0. /\ UNCHANGED <<option, pc, kernel, cq, events, left, nr_inflight>>
      /\ cbpool # <<>> /\ cbpool' = Tail(cbpool) /\ ret' = c
      /\ pending' = Append(pending, r) /\ pc = "fill"
      /\ cbs' = [cbs EXCEPT ![c] = [file |-> f, addr |-> IF Libaio THEN Addr(option, b) ELSE 0]]
  <2>1. cbpool # <<>> /\ pc = "fill"
    BY EmptySeq DEF Prep, TypeOK
  <2>2. ret' = c /\ cbpool' = Tail(cbpool)
    BY <2>1 DEF Prep, Pool!Pop
  <2> QED
    BY <2>1, <2>2 DEF Prep, queue, count
<1>1. c \in Cbs /\ r \in Requests /\ r.cb = c /\ pending \in Seq(Requests)
  <2>1. c \in Cbs
    BY <1>0, HeadTailProperties DEF TypeOK
  <2>2. OptionOK(option) /\ f \in Nat
    <3>1. OptionOK(option)
      BY AiomAssumption DEF TypeOK
    <3> QED
      BY <3>1 DEF OptionOK, FilesOf
  <2>3. b \in Int
    <3>1. \A g \in FilesOf(option) :
             /\ RandRange(OfstMin(option), OfstMax(option, g)) \subseteq Int
             /\ SeqStep(option, g, ofst[g]) \in Int
      BY <2>2, OfstTypes, RandRangeType, SeqStepType DEF TypeOK
    <3> QED
      BY <3>1 DEF Blocks
  <2>4. Addr(option, b) \in Int
    BY <2>2, <2>3, AddrType
  <2> QED
    BY <2>1, <2>2, <2>4 DEF Request, Requests, TypeOK
<1>2. /\ r.file = f /\ r.addr = Addr(option, b)
  BY DEF Request
<1> HIDE DEF c, r
<1>3. /\ Len(cbpool') = Len(cbpool) - 1 /\ c \in InPool /\ InPool' = InPool \ {c}
      /\ \A k, l \in 1 .. Len(cbpool') : cbpool'[k] = cbpool'[l] => k = l
  BY <1>0, PopCbs DEF OwnInv, c
<1>4. /\ Len(pending') = Len(pending) + 1 /\ Range(pending') = Range(pending) \cup {r}
      /\ Queued' = Queued \cup {c}
      /\ OnceIn(pending) /\ c \notin Queued => OnceIn(pending')
  BY <1>0, <1>1, AppendCbs DEF Queued
<1>5. c \notin Queued /\ c \notin InKernel /\ c \notin Completed /\ c \notin Fetched
  BY <1>3 DEF OwnInv, Apart
<1>6. InKernel' = InKernel /\ Completed' = Completed /\ Fetched' = Fetched
      /\ Owed' = Owed /\ Libaio' = Libaio
  BY <1>0 DEF InKernel, Completed, Fetched, Owed, Libaio
<1>7. Once'
  <2>1. OnceIn(pending)' /\ OnceIn(events)' /\ OnceIn(cq)'
    BY <1>0, <1>4, <1>5 DEF OwnInv, Once, OnceIn
  <2> QED
    BY <1>0, <1>3, <2>1 DEF OwnInv, Once
<1>8. Apart'
  BY <1>3, <1>4, <1>5, <1>6 DEF OwnInv, Apart
<1>9. Phases'
  BY <1>0, <1>6 DEF OwnInv, Phases
<1>10. InFlightIntact'
  <2> SUFFICES ASSUME NEW q \in (Range(pending) \cup kernel \cup Range(cq) \cup Range(events))'
               PROVE  cbs'[q.cb].file = q.file /\ (Libaio => cbs'[q.cb].addr = q.addr)
    BY <1>6 DEF InFlightIntact
  <2>1. CASE q = r
    BY <1>0, <1>1, <1>2, <2>1 DEF TypeOK
  <2>2. CASE q # r
    <3>1. q \in Range(pending) \cup kernel \cup Range(cq) \cup Range(events)
      BY <1>0, <1>4, <2>2
    <3>2. q.cb # c
      BY <1>5, <3>1 DEF Queued, InKernel, Completed, Fetched, CbsOf
    <3>3. cbs'[q.cb] = cbs[q.cb]
      <4>1. q \in Requests
        BY <3>1, RangeOfSeq DEF TypeOK
      <4> QED
        BY <1>0, <3>2, <4>1 DEF TypeOK, Requests
    <3> QED
      BY <3>1, <3>3 DEF OwnInv, InFlightIntact
  <2> QED
    BY <2>1, <2>2
<1>11. PushNeverRefused'
  BY <1>0, <1>1 DEF PushNeverRefused, Pool!Failure, Cbs
<1>12. CbOwnership'
  <2>1. InPool' \cup Queued' = InPool \cup Queued
    BY <1>3, <1>4
  <2>2. /\ Len(cbpool) \in Nat /\ Len(pending) \in Nat /\ Len(cq) \in Nat
        /\ Len(events) \in Nat /\ Cardinality(kernel) \in Nat
    BY Lengths
  <2>3. Len(cbpool') + Len(pending') + Cardinality(kernel) + Len(cq) + Len(events)
           = Len(cbpool) + Len(pending) + Cardinality(kernel) + Len(cq) + Len(events)
    BY <1>3, <1>4, <2>2
  <2> QED
    BY <1>0, <1>6, <2>1, <2>3 DEF OwnInv, CbOwnership
<1> QED
  BY <1>7, <1>8, <1>9, <1>10, <1>11, <1>12 DEF OwnInv

\* Every pending request goes to the kernel.
LEMMA SubmitOwn == TypeOK /\ OwnInv /\ Submit => OwnInv'
<1> SUFFICES ASSUME TypeOK, OwnInv, Submit PROVE OwnInv'
  OBVIOUS
<1>0. /\ UNCHANGED <<option, cbpool, ret, cbs, cq, events, left>>
      /\ kernel' = kernel \cup Range(pending) /\ pending' = <<>>
      /\ nr_inflight' = nr_inflight + Len(pending)
      /\ pc = "fill" /\ pc' = "wait"
  BY DEF Submit, pool
<1>1. Len(<<>>) = 0 /\ Range(<<>>) = {} /\ CbsOf({}) = {}
  BY EmptySeq DEF Range, CbsOf
<1>2. pending \in Seq(Requests) /\ OnceIn(pending)
  BY DEF TypeOK, OwnInv, Once
<1>3. /\ IsFiniteSet(Range(pending)) /\ Cardinality(Range(pending)) = Len(pending)
      /\ IsFiniteSet(kernel)
  BY <1>2, CountRequests DEF OwnInv, Phases
<1>4. kernel \cap Range(pending) = {}
  BY DEF OwnInv, Apart, InKernel, Queued, CbsOf
<1>5. /\ IsFiniteSet(kernel') /\ Cardinality(kernel') = Cardinality(kernel) + Len(pending)
  <2>1. /\ IsFiniteSet(kernel \cup Range(pending))
        /\ Cardinality(kernel \cup Range(pending)) =
              Cardinality(kernel) + Cardinality(Range(pending)) - Cardinality(kernel \cap Range(pending))
    BY <1>3, FS_Union
  <2>2. Cardinality(kernel \cap Range(pending)) = 0 /\ Cardinality(kernel) \in Nat
    BY <1>4, Lengths, FS_EmptySet
  <2>3. Len(pending) \in Nat
    BY Lengths
  <2> QED
    BY <1>0, <1>3, <2>1, <2>2, <2>3
<1>6. /\ InPool' = InPool /\ Queued' = {} /\ InKernel' = InKernel \cup Queued
      /\ Completed' = Completed /\ Fetched' = Fetched /\ Libaio' = Libaio
  BY <1>0, <1>1 DEF InPool, Queued, InKernel, Completed, Fetched, CbsOf, Libaio
<1>7. /\ Len(cbpool) \in Nat /\ Len(pending) \in Nat /\ Len(cq) \in Nat
      /\ Len(events) \in Nat /\ Cardinality(kernel) \in Nat /\ nr_inflight \in Nat
  BY Lengths DEF TypeOK
<1>8. Once'
  <2>1. ASSUME NEW q \in kernel', NEW s \in kernel', q.cb = s.cb PROVE q = s
    <3>1. CASE q \in kernel /\ s \in kernel
      BY <2>1, <3>1 DEF OwnInv, Once
    <3>2. CASE q \in Range(pending) /\ s \in Range(pending)
      BY <1>2, <2>1, <3>2, CbsOfSeq DEF OnceIn
    <3>3. ~(q \in kernel /\ s \in Range(pending)) /\ ~(s \in kernel /\ q \in Range(pending))
      BY <2>1 DEF OwnInv, Apart, InKernel, Queued, CbsOf
    <3> QED
      BY <1>0, <2>1, <3>1, <3>2, <3>3
  <2>2. OnceIn(pending)' /\ OnceIn(events)' /\ OnceIn(cq)'
    BY <1>0, <1>1 DEF OwnInv, Once, OnceIn
  <2> QED
    BY <1>0, <2>1, <2>2 DEF OwnInv, Once
<1>9. Apart'
  BY <1>6 DEF OwnInv, Apart
<1>10. Phases'
  <2>1. Owed' = Owed + Len(pending) /\ Owed \in Nat
    BY <1>0, <1>5, <1>7 DEF Owed
  <2> QED
    BY <1>0, <1>5, <1>6, <1>7, <2>1 DEF OwnInv, Phases
<1>11. InFlightIntact' /\ PushNeverRefused'
  BY <1>0, <1>1, <1>6 DEF OwnInv, InFlightIntact, PushNeverRefused
<1>12. CbOwnership'
  <2>1. Queued' \cup InKernel' = Queued \cup InKernel
    BY <1>6
  <2>2. Len(cbpool) + Len(pending') + Cardinality(kernel') + Len(cq) + Len(events)
           = Len(cbpool) + Len(pending) + Cardinality(kernel) + Len(cq) + Len(events)
    BY <1>0, <1>1, <1>5, <1>7
  <2> QED
    BY <1>0, <1>6, <2>1, <2>2 DEF OwnInv, CbOwnership
<1> QED
  BY <1>8, <1>9, <1>10, <1>11, <1>12 DEF OwnInv

\* libaio fetches completions; io_uring only notes how many it will wait for.  Waiting
\* for nr_inflight of them leaves the kernel owing nothing, or no more than will be awaited.
LEMMA WaitOwn ==
    ASSUME TypeOK, OwnInv, NEW m \in Nat, NEW p \in {"reap", "reapall"}, Wait(m, p),
           pc \in {"wait", "waitall"}, p = "reapall" => m = nr_inflight
    PROVE  OwnInv'
<1>0. /\ UNCHANGED <<option, cbpool, ret, cbs, pending, kernel>> /\ pc' = p
      /\ events = <<>> /\ left = 0 /\ pending = <<>>
  BY DEF Wait, pool, OwnInv, Phases
<1>1. /\ Len(cbpool) \in Nat /\ Len(pending) \in Nat /\ Len(cq) \in Nat
      /\ Len(events) \in Nat /\ Cardinality(kernel) \in Nat /\ nr_inflight \in Nat
      /\ Len(events) = 0 /\ Range(<<>>) = {} /\ CbsOf({}) = {} /\ IsFiniteSet(kernel)
  <2>1. nr_inflight \in Nat
    BY DEF TypeOK
  <2>2. CbsOf({}) = {} /\ Range(<<>>) = {}
    BY DEF Range, CbsOf
  <2> QED
    BY <1>0, <2>1, <2>2, Lengths, EmptySeq
<1>2. CASE Libaio
  <2>1. PICK n \in m .. nr_inflight :
           /\ n <= Len(cq)
           /\ events' = SubSeq(cq, 1, n)
           /\ cq' = SubSeq(cq, n + 1, Len(cq))
           /\ nr_inflight' = nr_inflight - n
    BY <1>2 DEF Wait, Libaio, IoUring
  <2>2. n \in 0 .. Len(cq) /\ cq \in Seq(Requests) /\ OnceIn(cq) /\ n \in Nat
    BY <1>1, <2>1 DEF TypeOK, OwnInv, Once
  <2>3. /\ Len(events') = n /\ Len(cq') = Len(cq) - n
        /\ Range(events') \subseteq Range(cq) /\ Range(cq') \subseteq Range(cq)
        /\ Fetched' \cup Completed' = Completed /\ Fetched' \cap Completed' = {}
        /\ OnceIn(events') /\ OnceIn(cq')
    BY <2>1, <2>2, SplitCbs DEF Fetched, Completed
  <2>4. /\ InPool' = InPool /\ Queued' = Queued /\ InKernel' = InKernel /\ Fetched = {}
        /\ Libaio' = Libaio
    BY <1>0, <1>1 DEF InPool, Queued, InKernel, Fetched, Libaio
  <2>5. Once'
    <3>1. OnceIn(pending)'
      BY <1>0 DEF OwnInv, Once, OnceIn
    <3>2. OnceIn(cq)' /\ OnceIn(events)'
      BY <2>3 DEF OnceIn
    <3> QED
      BY <1>0, <3>1, <3>2 DEF OwnInv, Once
  <2>6. Apart'
    BY <2>3, <2>4 DEF OwnInv, Apart
  <2>7. Owed' = Owed - n /\ Owed = nr_inflight
    BY <1>0, <1>1, <1>2, <2>3 DEF Owed, OwnInv, Phases
  <2>8. Phases'
    <3>1. nr_inflight' = Owed' /\ (p = "reapall" => Owed' = 0)
      BY <1>1, <2>1, <2>7
    <3> QED
      BY <1>0, <1>1, <1>2, <2>4, <3>1 DEF Phases
  <2>9. InFlightIntact' /\ PushNeverRefused'
    BY <1>0, <2>3, <2>4 DEF OwnInv, InFlightIntact, PushNeverRefused
  <2>10. CbOwnership'
    <3>1. Len(cbpool) + Len(pending) + Cardinality(kernel) + Len(cq') + Len(events')
             = Len(cbpool) + Len(pending) + Cardinality(kernel) + Len(cq) + Len(events)
      BY <1>1, <2>2, <2>3
    <3>2. Completed' \cup Fetched' = Completed \cup Fetched
      BY <2>3, <2>4
    <3>3. pc \notin {"setup", "done", "exit"}
      OBVIOUS
    <3> QED
      BY <1>0, <2>4, <3>1, <3>2, <3>3 DEF OwnInv, CbOwnership
  <2> QED
    BY <2>5, <2>6, <2>8, <2>9, <2>10 DEF OwnInv
<1>3. CASE ~Libaio
  <2>1. left' = m /\ UNCHANGED <<events, cq, nr_inflight>>
    BY <1>3 DEF Wait
  <2>2. Once' /\ Apart' /\ Owed' = Owed /\ Libaio' = Libaio
    BY <1>0, <2>1 DEF OwnInv, Once, OnceIn, Apart, InPool, Queued, InKernel, Completed, Fetched,
                      Owed, Libaio
  <2>3. Phases'
    BY <1>0, <1>1, <1>3, <2>1, <2>2 DEF OwnInv, Phases
  <2>4. InFlightIntact' /\ PushNeverRefused'
    BY <1>0, <2>1, <2>2 DEF OwnInv, InFlightIntact, PushNeverRefused
  <2>5. CbOwnership'
    BY <1>0, <2>1 DEF OwnInv, CbOwnership, InPool, Queued, InKernel, Completed, Fetched
  <2> QED
    BY <2>2, <2>3, <2>4, <2>5 DEF OwnInv
<1> QED
  BY <1>2, <1>3

\* A control block that comes back finds room in the pool.
LEMMA RoomInPool ==
    ASSUME TypeOK, OwnInv, NEW c, Pool!Push(c), pc \in {"reap", "reapall"}, Len(events) + Len(cq) > 0
    PROVE  cbpool' = Append(cbpool, c) /\ ret' = Pool!Success
<1>1. Len(cbpool) + Len(pending) + Cardinality(kernel) + Len(cq) + Len(events) = NrEvents
  BY DEF OwnInv, CbOwnership
<1>2. Len(cbpool) # NrEvents
  BY <1>1, Lengths
<1> QED
  BY <1>2 DEF Pool!Push

LEMMA ReapOwn == TypeOK /\ OwnInv /\ Reap => OwnInv'
<1> SUFFICES ASSUME TypeOK, OwnInv, Reap PROVE OwnInv'
  OBVIOUS
<1>0. /\ UNCHANGED <<option, pc, cbs, pending, kernel, nr_inflight>> /\ pc \in {"reap", "reapall"}
      /\ Libaio' = Libaio
  BY DEF Reap, Libaio
<1>1. /\ Len(cbpool) \in Nat /\ Len(pending) \in Nat /\ Len(cq) \in Nat
      /\ Len(events) \in Nat /\ Cardinality(kernel) \in Nat /\ nr_inflight \in Nat /\ left \in Nat
  BY Lengths DEF TypeOK
<1>2. Queued' = Queued /\ InKernel' = InKernel
  BY <1>0 DEF Queued, InKernel
<1>3. CASE Libaio
  <2> DEFINE c == Head(events).cb
  <2>1. events # <<>> /\ Pool!Push(c) /\ events' = Tail(events) /\ UNCHANGED <<cq, left>>
    BY <1>3 DEF Reap, Libaio, IoUring
  <2>2. /\ Len(events') = Len(events) - 1 /\ Len(events) > 0 /\ Range(events') \subseteq Range(events)
        /\ c \in Fetched /\ c \in Cbs /\ Fetched' = Fetched \ {c} /\ OnceIn(events')
    BY <2>1, TailCbs DEF TypeOK, OwnInv, Once, Fetched
  <2> HIDE DEF c
  <2>3. cbpool' = Append(cbpool, c) /\ ret' = Pool!Success /\ c \notin InPool
    BY <1>0, <1>1, <2>1, <2>2, RoomInPool DEF OwnInv, Apart
  <2>4. /\ Len(cbpool') = Len(cbpool) + 1 /\ InPool' = InPool \cup {c}
        /\ \A k, l \in 1 .. Len(cbpool') : cbpool'[k] = cbpool'[l] => k = l
    BY <2>2, <2>3, PushCbs DEF OwnInv
  <2>5. Completed' = Completed /\ Owed' = Owed
    BY <1>0, <2>1 DEF Completed, Owed
  <2>6. Once'
    <3>1. OnceIn(pending)' /\ OnceIn(events)' /\ OnceIn(cq)'
      BY <1>0, <2>1, <2>2 DEF OwnInv, Once, OnceIn
    <3> QED
      BY <1>0, <2>4, <3>1 DEF OwnInv, Once
  <2>7. Apart'
    BY <1>2, <2>2, <2>4, <2>5 DEF OwnInv, Apart
  <2>8. Phases'
    BY <1>0, <1>3, <2>1, <2>5 DEF OwnInv, Phases
  <2>9. InFlightIntact' /\ PushNeverRefused'
    BY <1>0, <2>1, <2>2, <2>3 DEF OwnInv, InFlightIntact, PushNeverRefused, Pool!Success, Pool!Failure
  <2>10. CbOwnership'
    <3>1. Len(cbpool') + Len(pending) + Cardinality(kernel) + Len(cq) + Len(events')
             = Len(cbpool) + Len(pending) + Cardinality(kernel) + Len(cq) + Len(events)
      BY <1>1, <2>2, <2>4
    <3>2. InPool' \cup Fetched' = InPool \cup Fetched
      BY <2>2, <2>4
    <3> QED
      BY <1>0, <1>2, <2>1, <2>5, <3>1, <3>2 DEF OwnInv, CbOwnership
  <2> QED
    BY <2>6, <2>7, <2>8, <2>9, <2>10 DEF OwnInv
<1>4. CASE ~Libaio
  <2> DEFINE c == Head(cq).cb
  <2>1. cq # <<>> /\ Pool!Push(c) /\ cq' = Tail(cq) /\ UNCHANGED events /\ left > 0 /\ left' = left - 1
    BY <1>4 DEF Reap
  <2>2. /\ Len(cq') = Len(cq) - 1 /\ Len(cq) > 0 /\ Range(cq') \subseteq Range(cq)
        /\ c \in Completed /\ c \in Cbs /\ Completed' = Completed \ {c} /\ OnceIn(cq')
    BY <2>1, TailCbs DEF TypeOK, OwnInv, Once, Completed
  <2> HIDE DEF c
  <2>3. cbpool' = Append(cbpool, c) /\ ret' = Pool!Success /\ c \notin InPool
    BY <1>0, <1>1, <2>1, <2>2, RoomInPool DEF OwnInv, Apart
  <2>4. /\ Len(cbpool') = Len(cbpool) + 1 /\ InPool' = InPool \cup {c}
        /\ \A k, l \in 1 .. Len(cbpool') : cbpool'[k] = cbpool'[l] => k = l
    BY <2>2, <2>3, PushCbs DEF OwnInv
  <2>5. Fetched' = Fetched /\ Owed' = Owed - 1 /\ Owed \in Nat
    BY <1>0, <1>1, <2>1, <2>2 DEF Fetched, Owed
  <2>6. Once'
    <3>1. OnceIn(pending)' /\ OnceIn(events)' /\ OnceIn(cq)'
      BY <1>0, <2>1, <2>2 DEF OwnInv, Once, OnceIn
    <3> QED
      BY <1>0, <2>4, <3>1 DEF OwnInv, Once
  <2>7. Apart'
    BY <1>2, <2>2, <2>4, <2>5 DEF OwnInv, Apart
  <2>8. Phases'
    <3>1. nr_inflight >= Owed' /\ (pc = "reapall" => left' >= Owed')
      BY <1>1, <1>4, <2>1, <2>5 DEF OwnInv, Phases
    <3> QED
      BY <1>0, <1>4, <2>1, <3>1 DEF OwnInv, Phases
  <2>9. InFlightIntact' /\ PushNeverRefused'
    BY <1>0, <2>1, <2>2, <2>3 DEF OwnInv, InFlightIntact, PushNeverRefused, Pool!Success, Pool!Failure
  <2>10. CbOwnership'
    <3>1. Len(cbpool') + Len(pending) + Cardinality(kernel) + Len(cq') + Len(events)
             = Len(cbpool) + Len(pending) + Cardinality(kernel) + Len(cq) + Len(events)
      BY <1>1, <2>2, <2>4
    <3>2. InPool' \cup Completed' = InPool \cup Completed
      BY <2>2, <2>4
    <3> QED
      BY <1>0, <1>2, <2>1, <2>5, <3>1, <3>2 DEF OwnInv, CbOwnership
  <2> QED
    BY <2>6, <2>7, <2>8, <2>9, <2>10 DEF OwnInv
<1> QED
  BY <1>3, <1>4

LEMMA OwnStep == TypeOK /\ OwnInv /\ [Next]_vars => OwnInv'
<1> SUFFICES ASSUME TypeOK, OwnInv, [Next]_vars PROVE OwnInv'
  OBVIOUS
<1>1. CASE Fail \/ MixRefused
  BY <1>1, ControlOwn DEF Fail, MixRefused, SetupFails, SubmitFails, WaitFails, ReapFails
<1>2. CASE Setup \/ Submit \/ Reap \/ Destroy
  BY <1>2, SetupOwn, SubmitOwn, ReapOwn, DestroyOwn
<1>3. CASE CheckTimeout \/ ReapDone \/ Report \/ Expire \/ UNCHANGED vars
  BY <1>3, ControlOwn
<1>4. ASSUME NEW f \in FilesOf(option), NEW b \in Blocks, Prep(f, b) PROVE OwnInv'
  BY <1>4, PrepOwn
<1>5. CASE WaitOne
  BY <1>5, WaitOwn DEF WaitOne
<1>6. CASE WaitAll
  <2>1. nr_inflight \in Nat
    BY DEF TypeOK
  <2> QED
    BY <1>6, <2>1, WaitOwn DEF WaitAll
<1>7. ASSUME NEW r \in kernel, Complete(r) PROVE OwnInv'
  BY <1>7, CompleteOwn
<1> QED
  BY <1>1, <1>2, <1>3, <1>4, <1>5, <1>6, <1>7 DEF Next, Thread

LEMMA Owned == Spec => [](TypeOK /\ OwnInv)
  BY InitOwn, OwnStep, TypeCorrect, PTL DEF Spec
-----------------------------------------------------------------------------
\* While the AIO manager exists every control block is in exactly one of the pool, the
\* pending array, the kernel, the completion queue and the fetched events, for any number
\* of events and any order of completions.
THEOREM ControlBlocksOwned == Spec => []CbOwnership
<1>1. OwnInv => CbOwnership
  BY DEF OwnInv
<1> QED
  BY <1>1, Owned, PTL

\* A control block keeps what was asked of the kernel until its completion is handled: it
\* is never prepared again before it has come back to the pool.
THEOREM RequestsIntact == Spec => []InFlightIntact
<1>1. OwnInv => InFlightIntact
  BY DEF OwnInv
<1> QED
  BY <1>1, Owned, PTL

\* mb_res_pool_push never answers -1 to __mb_aiom_wait, which does not look.
THEOREM PushAccepted == Spec => []PushNeverRefused
<1>1. OwnInv => PushNeverRefused
  BY DEF OwnInv
<1> QED
  BY <1>1, Owned, PTL

\* With libaio nr_inflight is what the kernel still owes.
THEOREM InFlightCounted == Spec => []InFlightCount
<1>1. OwnInv => InFlightCount
  BY DEF OwnInv, Phases, Owed, InFlightCount
<1> QED
  BY <1>1, Owned, PTL

\* mb_aiom_destroy finds the kernel idle and every control block in the pool, with libaio
\* and, whenever it gets there, with io_uring.
THEOREM DestroyedQuiet == Spec => []QuietAtDestroy
<1>1. ASSUME TypeOK, OwnInv PROVE QuietAtDestroy
  <2> SUFFICES ASSUME pc = "destroy" PROVE kernel = {} /\ cq = <<>> /\ Len(cbpool) = NrEvents
    BY DEF QuietAtDestroy
  <2>1. /\ Len(cbpool) \in Nat /\ Len(cq) \in Nat /\ Cardinality(kernel) \in Nat
        /\ IsFiniteSet(kernel) /\ NrEvents \in Nat
    BY <1>1, Lengths
  <2>2. /\ Cardinality(kernel) + Len(cq) = 0 /\ events = <<>> /\ pending = <<>>
    BY <1>1 DEF OwnInv, Phases, Owed
  <2>3. Cardinality(kernel) = 0 /\ Len(cq) = 0 /\ Len(events) = 0 /\ Len(pending) = 0
    BY <2>1, <2>2, EmptySeq
  <2>4. Len(cbpool) + Len(pending) + Cardinality(kernel) + Len(cq) + Len(events) = NrEvents
    BY <1>1 DEF OwnInv, CbOwnership
  <2>5. kernel = {} /\ cq = <<>>
    BY <1>1, <2>1, <2>3, FS_EmptySet, EmptySeq DEF TypeOK
  <2> QED
    BY <2>1, <2>3, <2>4, <2>5
<1> QED
  BY <1>1, Owned, PTL
=============================================================================
