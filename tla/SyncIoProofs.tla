---------------------------- MODULE SyncIoProofs ----------------------------
(***************************************************************************)
(* The synchronous I/O thread, for every option record that parse_args     *)
(* accepts, every number of files and threads, and all sizes: which blocks *)
(* each pattern accesses, in which turn, and what is counted.              *)
(***************************************************************************)
EXTENDS SyncIo, SumProofs

\* The loop of a batch
InBatch == pc \in {"choose", "io", "count"} => i < Batch

\* parse_args lets nothing else through.
Accepted == OffsetsAccepted(option)

\* A sequential scan does not go below the window.
ScanAbove ==
    option.pattern = "SEQ" /\ Sane /\ pc \notin {"setup", "exit"} =>
        \A f \in Files : Bottom <= ofst[f]

\* Once it has been at the first block, it has seen all of them up to the last one accessed.
ScanSeen ==
    option.pattern = "SEQ" /\ Sane /\ pc # "exit" =>
        \A f \in Files : whole[f] =>
            /\ pc # "setup" /\ last[f] \in Window(f) /\ ofst[f] = last[f]
            /\ seen[f] = Bottom .. last[f]

\* The side that is next is the other one than that of the last access.
Sides ==
    option.pattern = "SEEKDIST" /\ Sane /\ pc # "exit" =>
        \A f \in Files : last[f] # -1 =>
            /\ pc # "setup"
            /\ last[f] \in IF side[f] = 1 THEN Top(f) - option.seekdist_stride .. Top(f) - 1
                                          ELSE Bottom .. Bottom + option.seekdist_stride - 1

\* Each file has had k accesses, and those up to the current one, but for the first, k + 1.
Turns ==
    option.pattern # "RAND" =>
        \E k \in Nat : \A f \in Files :
            accesses[f] = k + (IF 1 <= f /\ f <= file_idx THEN 1 ELSE 0)

-----------------------------------------------------------------------------
\* Arithmetic that the provers find by themselves only when it is asked alone
LEMMA DivTimes ==
    ASSUME NEW a \in Nat, NEW b \in Nat \ {0}
    PROVE  a \div b \in Nat /\ (a \div b) * b <= a
  OBVIOUS

LEMMA TimesMonotone ==
    ASSUME NEW x \in Int, NEW y \in Int, NEW b \in Nat, x <= y
    PROVE  x * b <= y * b
  OBVIOUS

LEMMA ModStep ==
    ASSUME NEW n \in Nat \ {0}, NEW k \in 0 .. n - 1
    PROVE  (k + 1) % n = IF k + 1 = n THEN 0 ELSE k + 1
<1>1. CASE k + 1 = n
  <2>1. (k + 1) % n = 0
    BY <1>1
  <2> QED
    BY <1>1, <2>1
<1>2. CASE k + 1 # n
  BY <1>2
<1> QED
  BY <1>1, <1>2

\* What is known of the options of every run
LEMMA OptionFacts ==
    ASSUME option \in Options
    PROVE  /\ option.nr_files \in Nat \ {0} /\ option.blk_sz \in Nat \ {0}
           /\ option.multi \in Nat \ {0}
           /\ option.ofst_start \in Int /\ option.ofst_end \in Int /\ option.misalign \in Int
           /\ option.file_size \in [Files -> Nat] /\ option.seekdist_stride \in Nat
           /\ Files = 0 .. option.nr_files - 1 /\ IsFiniteSet(Files) /\ 0 \in Files
<1>1. OptionOK(option) /\ option.seekdist_stride \in Nat
  BY SyncIoAssumption
<1>2. /\ Files = 0 .. option.nr_files - 1 /\ 0 \in Files
      /\ 0 \in Int /\ option.nr_files - 1 \in Int
  BY <1>1 DEF OptionOK, Files, FilesOf
<1>3. IsFiniteSet(Files)
  BY <1>2, FS_Interval
<1> QED
  BY <1>1, <1>2, <1>3 DEF OptionOK, Files

\* The ends of the window of a file, and that the whole of it is in the file
LEMMA WindowFacts ==
    ASSUME option \in Options
    PROVE  Bottom \in Nat /\ \A f \in Files : Top(f) \in Nat
<1>1. \A f \in Files : option.file_size[f] \div option.blk_sz \in Nat
  BY OptionFacts, DivTimes
<1> QED
  BY <1>1, OptionFacts DEF Bottom, Top, OfstMin, OfstMax

\* What parse_args has accepted: the window ends within the file.
LEMMA WindowFits ==
    ASSUME option \in Options, Accepted, NEW f \in Files
    PROVE  /\ Bottom * option.blk_sz <= option.file_size[f]
           /\ Top(f) * option.blk_sz <= option.file_size[f]
<1>1. option.file_size[f] \in Nat
  BY OptionFacts
<1>2. (option.file_size[f] \div option.blk_sz) * option.blk_sz <= option.file_size[f]
  BY <1>1, OptionFacts, DivTimes
<1>3. /\ option.blk_sz * option.ofst_start <= option.file_size[f]
      /\ option.blk_sz * option.ofst_end <= option.file_size[f]
  BY DEF Accepted, OffsetsAccepted, Files
<1> QED
  BY <1>1, <1>2, <1>3, OptionFacts DEF Bottom, Top, OfstMin, OfstMax

LEMMA NextFileFacts ==
    ASSUME option \in Options, file_idx \in Files
    PROVE  /\ NextFile(option, file_idx) \in Files
           /\ NextFile(option, file_idx) = IF file_idx + 1 = option.nr_files THEN 0 ELSE file_idx + 1
<1>1. /\ option.nr_files \in Nat \ {0} /\ Files = 0 .. option.nr_files - 1
      /\ file_idx \in 0 .. option.nr_files - 1
  BY OptionFacts
<1>2. (file_idx + 1) % option.nr_files = IF file_idx + 1 = option.nr_files THEN 0 ELSE file_idx + 1
  BY <1>1, ModStep
<1> QED
  BY <1>1, <1>2 DEF NextFile

LEMMA RandFacts ==
    ASSUME NEW from \in Int, NEW to \in Int, NEW x \in RandRange(from, to)
    PROVE  /\ x \in Int
           /\ from <= to => from <= x /\ x <= to
           /\ to < from => to <= x /\ x <= from
           /\ from < to /\ 0 < to /\ ~Narrow(from, to) => x < to
  BY DEF RandRange
-----------------------------------------------------------------------------
LEMMA InitTypes == Init => TypeOK /\ InBatch /\ Accepted
<1> SUFFICES ASSUME Init PROVE TypeOK /\ InBatch /\ Accepted
  OBVIOUS
<1>1. option \in Options /\ OffsetsAccepted(option)
  BY DEF Init
<1>2. TypeOK
  <2>1. /\ option.blk_sz \in Nat /\ option.file_size \in [Files -> Nat] /\ 0 \in Files
        /\ Batch \in Nat
    BY <1>1, OptionFacts, SyncIoAssumption
  <2>2. size \in [Files -> Nat] /\ 0 \in 0 .. option.blk_sz /\ 0 \in 0 .. Batch
    BY <2>1 DEF Init
  <2>3. last \in [Files -> Int] /\ seen \in [Files -> SUBSET Int] /\ whole \in [Files -> BOOLEAN]
    BY DEF Init
  <2>4. /\ ofst \in [Files -> Int] /\ side \in [Files -> {0, 1}] /\ pos \in [Files -> Nat]
        /\ accesses \in [Files -> Nat]
    BY DEF Init
  <2>5. expired \in BOOLEAN /\ write \in BOOLEAN
    BY DEF Init
  <2>6. i \in 0 .. Batch /\ rem \in 0 .. option.blk_sz /\ file_idx \in Files
    BY <2>1, <2>2 DEF Init
  <2>7. addr \in Int /\ io_count \in Nat /\ meter \in Nat /\ pc = "setup"
    BY DEF Init
  <2> QED
    BY <1>1, <2>2, <2>3, <2>4, <2>5, <2>6, <2>7 DEF TypeOK
<1> QED
  BY <1>1, <1>2 DEF Init, InBatch, Accepted

\* The I/O on a block of a file, once that is settled
LEMMA AccessTypes ==
    ASSUME TypeOK, NEW f \in Files, NEW b \in Int, Access(f, b), UNCHANGED option
    PROVE  /\ Files' = Files /\ Bottom' = Bottom
           /\ file_idx' \in Files /\ addr' \in Int /\ rem' \in 0 .. option.blk_sz /\ pc' = "io"
           /\ last' \in [Files -> Int] /\ seen' \in [Files -> SUBSET Int]
           /\ whole' \in [Files -> BOOLEAN] /\ accesses' \in [Files -> Nat]
<1>1. Files' = Files /\ Bottom' = Bottom
  BY DEF Files, Bottom
<1>2. option \in Options
  BY DEF TypeOK
<1>3. addr' \in Int /\ rem' \in 0 .. option.blk_sz
  <2>1. /\ addr' = b * option.blk_sz + option.misalign /\ rem' = option.blk_sz
        /\ option.blk_sz \in Nat /\ option.misalign \in Int
    BY <1>2, OptionFacts DEF Access, Addr
  <2> QED
    BY <2>1
<1>4. whole' \in [Files -> BOOLEAN]
  BY DEF Access, TypeOK
<1>5. seen' \in [Files -> SUBSET Int]
  BY DEF Access, TypeOK
<1> QED
  BY <1>1, <1>3, <1>4, <1>5 DEF Access, TypeOK

\* A step that chooses a block goes on to its I/O, or ends the process.
Chooses(f, b) ==
    /\ pc = "choose" /\ UNCHANGED <<option, expired, i, size, io_count, meter>>
    /\ pos' \in [Files -> Nat] /\ write' \in BOOLEAN
    /\ Access(f, b)

Refuses ==
    /\ pc = "choose" /\ pc' = "exit"
    /\ UNCHANGED <<option, expired, i, file_idx, request, io_count, meter, history>>

Choose ==
    \/ \E f \in Files : \E b \in RandRange(Bottom, Top(f)) : ChooseRand(f, b)
    \/ ChooseSeq
    \/ \E b \in SideRange(NextFile(option, file_idx)) : ChooseSeekdist(b)

LEMMA SeekChooses ==
    ASSUME TypeOK, pc = "choose", NEW f \in Files, NEW b \in Int, SeekAndAccess(f, b)
    PROVE  Chooses(f, b) \/ Refuses
<1>1. CASE ~(Addr(option, b) >= 0 /\ (option.read \/ option.write))
  BY <1>1 DEF SeekAndAccess, Refuses
<1>2. CASE Addr(option, b) >= 0 /\ (option.read \/ option.write)
  <2>a. option \in Options
    BY DEF TypeOK
  <2>0. option.blk_sz \in Int /\ option.misalign \in Int
    BY <2>a, OptionFacts
  <2>1. Addr(option, b) \in Nat
    BY <1>2, <2>0 DEF Addr
  <2>2. pos' \in [Files -> Nat]
    BY <1>2, <2>1 DEF SeekAndAccess, TypeOK
  <2>3. write' \in BOOLEAN
    BY <1>2 DEF SeekAndAccess
  <2> QED
    BY <1>2, <2>2, <2>3 DEF SeekAndAccess, Chooses
<1> QED
  BY <1>1, <1>2

LEMMA SideFacts ==
    ASSUME TypeOK, NEW f \in Files, NEW b \in SideRange(f)
    PROVE  b \in Int
<1>0. option \in Options
  BY DEF TypeOK
<1>1. Top(f) \in Nat /\ Bottom \in Nat /\ option.seekdist_stride \in Nat
  BY <1>0, WindowFacts, OptionFacts
<1>2. /\ Top(f) \in Int /\ Bottom \in Int
      /\ Top(f) - option.seekdist_stride \in Int /\ Bottom + option.seekdist_stride \in Int
  BY <1>1
<1> QED
  BY <1>2, RandFacts DEF SideRange

LEMMA ChooseKinds ==
    ASSUME TypeOK, Choose
    PROVE  \/ /\ option.pattern = "RAND"
              /\ \E f \in Files : \E b \in RandRange(Bottom, Top(f)) :
                    Chooses(f, b) /\ ofst' = [ofst EXCEPT ![f] = b] /\ side' = side
           \/ /\ option.pattern = "SEQ"
              /\ \E f \in Files : \E b \in Int :
                    /\ f = NextFile(option, file_idx) /\ b = SeqStep(option, f, ofst[f])
                    /\ ofst' = [ofst EXCEPT ![f] = b] /\ side' = side
                    /\ Chooses(f, b) \/ Refuses
           \/ /\ option.pattern = "SEEKDIST"
              /\ \E f \in Files : \E b \in SideRange(f) :
                    /\ f = NextFile(option, file_idx)
                    /\ ofst' = ofst /\ side' = [side EXCEPT ![f] = 1 - @]
                    /\ Chooses(f, b) \/ Refuses
<1>0. option \in Options /\ file_idx \in Files /\ ofst \in [Files -> Int] /\ pos \in [Files -> Nat]
  BY DEF TypeOK
<1>1. ASSUME NEW f \in Files, NEW b \in RandRange(Bottom, Top(f)), ChooseRand(f, b)
      PROVE  /\ option.pattern = "RAND" /\ Chooses(f, b)
             /\ ofst' = [ofst EXCEPT ![f] = b] /\ side' = side
  BY <1>0, <1>1 DEF ChooseRand, Chooses
<1>2. CASE ChooseSeq
  <2> DEFINE f == NextFile(option, file_idx)
             b == SeqStep(option, f, ofst[f])
  <2>1. f \in Files
    BY <1>0, NextFileFacts
  <2>2. b \in Int
    BY <1>0, <2>1, WindowFacts DEF SeqStep, Bottom, Top
  <2>3. Chooses(f, b) \/ Refuses
    BY <1>2, <2>1, <2>2, SeekChooses DEF ChooseSeq
  <2> HIDE DEF b
  <2> QED
    BY <1>2, <2>1, <2>2, <2>3 DEF ChooseSeq, b
<1>3. ASSUME NEW b \in SideRange(NextFile(option, file_idx)), ChooseSeekdist(b)
      PROVE  /\ option.pattern = "SEEKDIST"
             /\ \E f \in Files : \E c \in SideRange(f) :
                    /\ f = NextFile(option, file_idx)
                    /\ ofst' = ofst /\ side' = [side EXCEPT ![f] = 1 - @]
                    /\ Chooses(f, c) \/ Refuses
  <2> DEFINE f == NextFile(option, file_idx)
  <2>1. f \in Files
    BY <1>0, NextFileFacts
  <2>2. b \in Int
    BY <2>1, SideFacts
  <2>3. Chooses(f, b) \/ Refuses
    BY <1>3, <2>1, <2>2, SeekChooses DEF ChooseSeekdist
  <2> QED
    BY <1>3, <2>1, <2>2, <2>3 DEF ChooseSeekdist
<1> QED
  BY <1>1, <1>2, <1>3 DEF Choose

LEMMA ChooseTypes ==
    ASSUME TypeOK, InBatch, Accepted, Choose
    PROVE  TypeOK' /\ InBatch' /\ Accepted'
<1>0. option \in Options /\ ofst \in [Files -> Int] /\ side \in [Files -> {0, 1}]
  BY DEF TypeOK
<1>1. UNCHANGED option /\ Files' = Files
  BY ChooseKinds DEF Chooses, Refuses, Files
<1>2. ofst' \in [Files -> Int] /\ side' \in [Files -> {0, 1}]
  <2>1. \A f \in Files : \A b \in RandRange(Bottom, Top(f)) : b \in Int
    BY <1>0, WindowFacts, RandFacts
  <2>2. \A f \in Files : [side EXCEPT ![f] = 1 - @] \in [Files -> {0, 1}]
    BY <1>0
  <2> QED
    BY <1>0, <2>1, <2>2, ChooseKinds
<1>3. Refuses \/ \E f \in Files, b \in Int : Chooses(f, b)
  <2>1. \A f \in Files : \A b \in RandRange(Bottom, Top(f)) : b \in Int
    BY <1>0, WindowFacts, RandFacts
  <2> QED
    BY <2>1, ChooseKinds, SideFacts
<1>4. CASE Refuses
  BY <1>1, <1>2, <1>4 DEF Refuses, TypeOK, InBatch, Accepted, request, history
<1>5. ASSUME NEW f \in Files, NEW b \in Int, Chooses(f, b) PROVE TypeOK' /\ InBatch' /\ Accepted'
  <2>1. /\ file_idx' \in Files /\ addr' \in Int /\ rem' \in 0 .. option.blk_sz /\ pc' = "io"
        /\ last' \in [Files -> Int] /\ seen' \in [Files -> SUBSET Int]
        /\ whole' \in [Files -> BOOLEAN] /\ accesses' \in [Files -> Nat]
    BY <1>1, <1>5, AccessTypes DEF Chooses
  <2>2. i < Batch
    BY <1>5 DEF Chooses, InBatch
  <2> QED
    BY <1>1, <1>2, <1>5, <2>1, <2>2 DEF Chooses, TypeOK, InBatch, Accepted
<1> QED
  BY <1>3, <1>4, <1>5

LEMMA SetupTypes ==
    ASSUME TypeOK, InBatch, Accepted, Setup
    PROVE  TypeOK' /\ InBatch' /\ Accepted'
<1>0. /\ option \in Options /\ ThreadId \in Nat /\ option.multi \in Nat \ {0}
      /\ Bottom \in Nat /\ option.seekdist_stride \in Nat
      /\ \A f \in Files : Top(f) \in Nat
  BY OptionFacts, WindowFacts, SyncIoAssumption DEF TypeOK
<1>1. ASSUME NEW a \in Int, NEW m \in Nat \ {0} PROVE CDiv(a, m) \in Int
  BY <1>1 DEF CDiv
<1>2. \A f \in Files : SeqStart(option, f, ThreadId) \in Int
  <2> TAKE f \in Files
  <2>1. (Top(f) - Bottom) * ThreadId \in Int
    BY <1>0
  <2>2. CDiv((Top(f) - Bottom) * ThreadId, option.multi) \in Int
    BY <1>0, <1>1, <2>1
  <2> QED
    BY <1>0, <2>2 DEF SeqStart, Bottom, Top
<1>3. ofst' \in [Files -> Int]
  BY <1>0, <1>2 DEF Setup
<1>4. UNCHANGED option /\ Files' = Files
  BY DEF Setup, Files
<1> QED
  BY <1>0, <1>3, <1>4 DEF Setup, TypeOK, InBatch, Accepted, request, history

LEMMA IOTypes ==
    ASSUME TypeOK, InBatch, Accepted, PositionedIO \/ IOFails \/ \E k \in 1 .. rem : SequentialIO(k)
    PROVE  TypeOK' /\ InBatch' /\ Accepted'
<1>0. /\ option \in Options /\ file_idx \in Files /\ rem \in 0 .. option.blk_sz
      /\ option.blk_sz \in Nat /\ size \in [Files -> Nat] /\ pos \in [Files -> Nat] /\ addr \in Int
  BY OptionFacts DEF TypeOK
<1> USE DEF walk, request, history, IOEnds
<1>1. CASE PositionedIO
  <2>1. UNCHANGED option /\ Files' = Files
    BY <1>1 DEF PositionedIO, Files
  <2>2. rem' \in 0 .. option.blk_sz
    BY <1>0, <1>1 DEF PositionedIO
  <2>3. size' \in [Files -> Nat]
    <3>1. Max({size[file_idx], addr + rem - rem'}) \in Nat
      <4>1. size[file_idx] \in Nat /\ size[file_idx] \in Int /\ addr + rem - rem' \in Int
        BY <1>0, <2>2
      <4> QED
        BY <4>1, MaxPair
    <3> QED
      BY <1>0, <1>1, <3>1 DEF PositionedIO
  <2> QED
    BY <1>1, <2>1, <2>2, <2>3 DEF PositionedIO, TypeOK, InBatch, Accepted
<1>2. CASE IOFails
  <2>1. UNCHANGED option /\ Files' = Files
    BY <1>2 DEF IOFails, Files
  <2>2. /\ UNCHANGED <<option, expired, i, walk, addr, write, rem, pos, size, io_count, meter, history>>
        /\ pc' \in {"count", "exit"} /\ i < Batch
    BY <1>2 DEF IOFails, InBatch
  <2> QED
    BY <2>1, <2>2 DEF TypeOK, InBatch, Accepted
<1>3. ASSUME NEW k \in 1 .. rem, SequentialIO(k) PROVE TypeOK' /\ InBatch' /\ Accepted'
  <2>1. UNCHANGED option /\ Files' = Files
    BY <1>3 DEF SequentialIO, Files
  <2>2. rem' \in 0 .. option.blk_sz /\ pos' \in [Files -> Nat]
    BY <1>0, <1>3 DEF SequentialIO
  <2>3. size' \in [Files -> Nat]
    <3>1. Max({size[file_idx], pos[file_idx] + k}) \in Nat
      <4>1. size[file_idx] \in Nat /\ size[file_idx] \in Int /\ pos[file_idx] + k \in Int
        BY <1>0
      <4> QED
        BY <4>1, MaxPair
    <3> QED
      BY <1>0, <1>3, <3>1 DEF SequentialIO
  <2>4. UNCHANGED <<option, expired, i, walk, addr, write, io_count, meter, history>>
        /\ pc' \in {"io", "count"} /\ i < Batch
    BY <1>3 DEF SequentialIO, InBatch
  <2> QED
    BY <2>1, <2>2, <2>3, <2>4 DEF TypeOK, InBatch, Accepted
<1> QED
  BY <1>1, <1>2, <1>3

LEMMA RestTypes ==
    ASSUME TypeOK, InBatch, Accepted,
           CheckTimeout \/ Count \/ Report \/ Expire \/ UNCHANGED vars
    PROVE  TypeOK' /\ InBatch' /\ Accepted'
<1> USE DEF walk, request, history
<1>0. UNCHANGED option /\ Files' = Files
  BY DEF CheckTimeout, Count, Report, Expire, vars, Files
<1>1. CASE CheckTimeout
  BY <1>0, <1>1, SyncIoAssumption DEF CheckTimeout, TypeOK, InBatch, Accepted
<1>2. CASE Count
  <2>1. i \in Nat /\ i < Batch
    BY <1>2, SyncIoAssumption DEF Count, InBatch, TypeOK
  <2> QED
    BY <1>0, <1>2, <2>1, SyncIoAssumption DEF Count, TypeOK, InBatch, Accepted
<1>3. CASE Report
  BY <1>0, <1>3 DEF Report, TypeOK, InBatch, Accepted
<1>4. CASE Expire
  BY <1>0, <1>4 DEF Expire, TypeOK, InBatch, Accepted
<1>5. CASE UNCHANGED vars
  BY <1>0, <1>5 DEF vars, TypeOK, InBatch, Accepted
<1> QED
  BY <1>1, <1>2, <1>3, <1>4, <1>5

SyncType == TypeOK /\ InBatch /\ Accepted

LEMMA StepTypes == SyncType /\ [Next]_vars => SyncType'
  BY ChooseTypes, SetupTypes, IOTypes, RestTypes DEF SyncType, Next, Thread, Choose

\* Type correctness of the thread for every accepted option record; in particular the file
\* index stays on the files and the loop of a batch within it: TypeOK.
THEOREM SyncTypes == Spec => []TypeOK
<1>1. Init => SyncType
  BY InitTypes DEF SyncType
<1>2. SyncType => TypeOK
  BY DEF SyncType
<1> QED
  BY <1>1, <1>2, StepTypes, PTL DEF Spec
-----------------------------------------------------------------------------
\* Steps that neither choose a block nor set up the walk
Quiet ==
    /\ UNCHANGED <<option, walk, history>>
    /\ pc' = pc \/ (pc \notin {"setup", "exit"} /\ pc' # "setup")

LEMMA StepKinds ==
    ASSUME TypeOK, [Next]_vars
    PROVE  Setup \/ Choose \/ Quiet
<1> USE DEF walk, history, request, IOEnds
<1>1. CheckTimeout \/ Count \/ Report => Quiet
  BY DEF CheckTimeout, Count, Report, Quiet
<1>2. PositionedIO \/ IOFails => Quiet
  BY DEF PositionedIO, IOFails, Quiet
<1>3. \A k : SequentialIO(k) => Quiet
  BY DEF SequentialIO, Quiet
<1>4. Expire \/ UNCHANGED vars => Quiet
  BY DEF Expire, vars, Quiet
<1> QED
  BY <1>1, <1>2, <1>3, <1>4 DEF Next, Thread, Choose

LEMMA SameOption ==
    ASSUME UNCHANGED option
    PROVE  /\ Files' = Files /\ Bottom' = Bottom /\ (Sane' <=> Sane)
           /\ \A f : Top(f)' = Top(f) /\ Window(f)' = Window(f)
  BY DEF Files, Bottom, Top, Sane, Window

LEMMA SaneFacts ==
    ASSUME option \in Options, Sane, NEW f \in Files
    PROVE  /\ option.misalign = 0 /\ Bottom \in Nat /\ Top(f) \in Nat /\ Bottom < Top(f)
           /\ option.seekdist_stride \in Nat
           /\ option.pattern = "RAND" => ~Narrow(Bottom, Top(f))
           /\ option.pattern = "SEEKDIST" =>
                 /\ 1 <= option.seekdist_stride /\ option.seekdist_stride <= Top(f) - Bottom
                 /\ ~Narrow(Top(f) - option.seekdist_stride, Top(f))
                 /\ ~Narrow(Bottom, Bottom + option.seekdist_stride)
<1>1. Bottom \in Nat /\ Top(f) \in Nat /\ option.seekdist_stride \in Nat
  BY WindowFacts, OptionFacts
<1> QED
  BY <1>1 DEF Sane

\* A block at which an access to f may begin: in the window, and not beyond the end
Good(f, b) ==
    /\ b \in Int
    /\ Sane => Bottom <= b /\ b < Top(f)
    /\ option.pattern # "SEEKDIST" => b <= Bottom \/ b <= Top(f)

LEMMA RandGood ==
    ASSUME option \in Options, option.pattern = "RAND",
           NEW f \in Files, NEW b \in RandRange(Bottom, Top(f))
    PROVE  Good(f, b)
<1>1. Bottom \in Nat /\ Top(f) \in Nat
  BY WindowFacts
<1>2. Sane => Bottom < Top(f) /\ ~Narrow(Bottom, Top(f))
  BY SaneFacts
<1> QED
  BY <1>1, <1>2, RandFacts DEF Good

LEMMA SeqGood ==
    ASSUME option \in Options, NEW f \in Files, ofst[f] \in Int, Sane => Bottom <= ofst[f]
    PROVE  Good(f, SeqStep(option, f, ofst[f]))
<1>1. Bottom \in Nat /\ Top(f) \in Nat
  BY WindowFacts
<1>2. Sane => Bottom < Top(f)
  BY SaneFacts
<1>3. SeqStep(option, f, ofst[f]) = IF ofst[f] + 1 >= Top(f) THEN Bottom ELSE ofst[f] + 1
  BY DEF SeqStep, Top, Bottom
<1> QED
  BY <1>1, <1>2, <1>3 DEF Good

\* The two sides of the constant-distance pattern
LEMMA SideBlocks ==
    ASSUME TypeOK, Sane, option.pattern = "SEEKDIST", NEW f \in Files, NEW b \in SideRange(f)
    PROVE  /\ b \in Int
           /\ side[f] = 0 => Top(f) - option.seekdist_stride <= b /\ b < Top(f)
           /\ side[f] = 1 => Bottom <= b /\ b < Bottom + option.seekdist_stride
<1>0. option \in Options
  BY DEF TypeOK
<1> DEFINE d == option.seekdist_stride
           u == Top(f) - d
           v == Bottom + d
<1>1. /\ Bottom \in Nat /\ Top(f) \in Nat /\ Bottom < Top(f) /\ d \in Nat /\ 1 <= d
      /\ d <= Top(f) - Bottom /\ ~Narrow(u, Top(f)) /\ ~Narrow(Bottom, v)
  BY <1>0, SaneFacts
<1>2. u \in Int /\ v \in Int /\ u < Top(f) /\ 0 < Top(f) /\ Bottom < v /\ 0 < v /\ Top(f) \in Int
  BY <1>1
<1>3. b \in RandRange(u, Top(f)) => b \in Int /\ u <= b /\ b < Top(f)
  BY <1>1, <1>2, RandFacts
<1>4. b \in RandRange(Bottom, v) => b \in Int /\ Bottom <= b /\ b < v
  BY <1>1, <1>2, RandFacts
<1>5. b \in IF side[f] = 0 THEN RandRange(u, Top(f)) ELSE RandRange(Bottom, v)
  BY DEF SideRange
<1> QED
  BY <1>3, <1>4, <1>5

LEMMA SideGood ==
    ASSUME TypeOK, option.pattern = "SEEKDIST", NEW f \in Files, NEW b \in SideRange(f)
    PROVE  Good(f, b)
<1>1. option \in Options /\ side[f] \in {0, 1}
  BY DEF TypeOK
<1>2. b \in Int
  BY SideFacts
<1>3. CASE Sane
  <2>1. /\ Bottom \in Nat /\ Top(f) \in Nat /\ Bottom < Top(f) /\ option.seekdist_stride \in Nat
        /\ option.seekdist_stride <= Top(f) - Bottom
    BY <1>1, <1>3, SaneFacts
  <2> QED
    BY <1>1, <1>2, <1>3, <2>1, SideBlocks DEF Good
<1>4. CASE ~Sane
  BY <1>2, <1>4 DEF Good
<1> QED
  BY <1>3, <1>4

\* Each access is to a good block.
LEMMA ChooseGood ==
    ASSUME TypeOK, ScanAbove, Choose
    PROVE  \/ Refuses
           \/ \E f \in Files : \E b \in Int : Chooses(f, b) /\ Good(f, b)
<1>0. option \in Options /\ ofst \in [Files -> Int]
  BY DEF TypeOK
<1>1. option.pattern = "RAND" =>
        \A f \in Files : \A b \in RandRange(Bottom, Top(f)) : Good(f, b) /\ b \in Int
  BY <1>0, RandGood DEF Good
<1>2. option.pattern = "SEQ" /\ pc = "choose" =>
        \A f \in Files : Good(f, SeqStep(option, f, ofst[f]))
  BY <1>0, SeqGood DEF ScanAbove
<1>3. option.pattern = "SEEKDIST" => \A f \in Files : \A b \in SideRange(f) : Good(f, b) /\ b \in Int
  BY SideGood DEF Good
<1>4. pc = "choose"
  BY ChooseKinds DEF Chooses, Refuses
<1> QED
  BY <1>1, <1>2, <1>3, <1>4, ChooseKinds

LEMMA StepScanAbove == TypeOK /\ ScanAbove /\ [Next]_vars => ScanAbove'
<1> SUFFICES ASSUME TypeOK, ScanAbove, [Next]_vars PROVE ScanAbove'
  OBVIOUS
<1>0. option \in Options /\ ofst \in [Files -> Int]
  BY DEF TypeOK
<1>1. CASE Quiet
  <2>1. UNCHANGED <<option, ofst>>
    BY <1>1 DEF Quiet, walk
  <2> QED
    BY <1>1, <2>1, SameOption DEF Quiet, ScanAbove
<1>2. CASE Setup
  <2> SUFFICES ASSUME option.pattern = "SEQ", Sane, NEW f \in Files
               PROVE  Bottom <= ofst'[f]
    BY <1>2, SameOption DEF Setup, ScanAbove
  <2>1. Bottom \in Nat /\ Top(f) \in Nat /\ Bottom < Top(f)
    BY <1>0, SaneFacts
  <2>2. ofst'[f] = Bottom + CDiv((Top(f) - Bottom) * ThreadId, option.multi)
    BY <1>2 DEF Setup, SeqStart, Bottom, Top
  <2>3. (Top(f) - Bottom) * ThreadId \in Nat /\ option.multi \in Nat \ {0}
    BY <1>0, <2>1, OptionFacts, SyncIoAssumption
  <2>4. CDiv((Top(f) - Bottom) * ThreadId, option.multi) \in Nat
    BY <2>3, DivTimes DEF CDiv
  <2> QED
    BY <2>1, <2>2, <2>4
<1>3. CASE Choose
  <2>1. UNCHANGED option /\ pc = "choose"
    BY <1>3, ChooseKinds DEF Chooses, Refuses
  <2> SUFFICES ASSUME option.pattern = "SEQ", Sane, NEW g \in Files
               PROVE  Bottom <= ofst'[g]
    BY <2>1, SameOption DEF ScanAbove
  <2>2. PICK f \in Files : ofst' = [ofst EXCEPT ![f] = SeqStep(option, f, ofst[f])]
    BY <1>3, ChooseKinds
  <2>3. Bottom <= ofst[g] /\ Bottom <= ofst[f]
    BY <2>1 DEF ScanAbove
  <2>4. Good(f, SeqStep(option, f, ofst[f]))
    BY <1>0, <2>3, SeqGood
  <2>5. Bottom <= SeqStep(option, f, ofst[f])
    BY <2>4 DEF Good
  <2> QED
    BY <1>0, <2>2, <2>3, <2>5
<1> QED
  BY <1>1, <1>2, <1>3, StepKinds

LEMMA GoodInside ==
    ASSUME option \in Options, Accepted, NEW f \in Files, NEW b, Good(f, b)
    PROVE  /\ Sane => b \in Window(f)
           /\ option.misalign = 0 /\ (option.pattern = "SEEKDIST" => Sane) =>
                Addr(option, b) + (IF Sane THEN option.blk_sz ELSE 0) <= option.file_size[f]
<1> DEFINE z == option.blk_sz
           s == option.file_size[f]
<1>0. b \in Int /\ z \in Nat /\ Bottom \in Nat /\ Top(f) \in Nat /\ s \in Nat
  BY OptionFacts, WindowFacts DEF Good
<1>1. Bottom * z <= s /\ Top(f) * z <= s
  BY WindowFits
<1>2. Sane => b \in Window(f)
  BY <1>0 DEF Good, Window
<1>3. ASSUME Sane PROVE b * z + z <= s
  <2>1. b + 1 <= Top(f) /\ b + 1 \in Int
    BY <1>0, <1>3 DEF Good
  <2>2. (b + 1) * z <= Top(f) * z
    BY <1>0, <2>1, TimesMonotone
  <2>3. (b + 1) * z = b * z + z
    BY <1>0
  <2>4. b * z \in Int /\ Top(f) * z \in Int
    BY <1>0
  <2> HIDE DEF z, s
  <2> QED
    BY <1>0, <1>1, <2>2, <2>3, <2>4
<1>4. ASSUME ~Sane, option.pattern # "SEEKDIST" PROVE b * z <= s
  <2>1. b <= Bottom \/ b <= Top(f)
    BY <1>4 DEF Good
  <2>2. b * z <= Bottom * z \/ b * z <= Top(f) * z
    BY <1>0, <2>1, TimesMonotone
  <2>3. b * z \in Int /\ Top(f) * z \in Int /\ Bottom * z \in Int
    BY <1>0
  <2> HIDE DEF z, s
  <2> QED
    BY <1>0, <1>1, <2>2, <2>3
<1>5. option.misalign = 0 => Addr(option, b) = b * z /\ b * z \in Int
  BY <1>0 DEF Addr
<1> QED
  BY <1>0, <1>2, <1>3, <1>4, <1>5

Within == InWindow /\ NeverBeyondEnd

LEMMA StepWithin ==
    ASSUME SyncType, ScanAbove, Within, [Next]_vars
    PROVE  Within'
<1>0. option \in Options /\ Accepted /\ TypeOK /\ last \in [Files -> Int]
  BY DEF SyncType, TypeOK
<1>1. CASE UNCHANGED <<option, last>>
  <2>1. InWindow'
    BY <1>1, SameOption DEF Within, InWindow
  <2>2. NeverBeyondEnd'
    BY <1>1, SameOption DEF Within, NeverBeyondEnd
  <2> QED
    BY <2>1, <2>2 DEF Within
<1>2. ASSUME NEW f \in Files, NEW b \in Int, Chooses(f, b), Good(f, b) PROVE Within'
  <2>1. UNCHANGED option /\ last' = [last EXCEPT ![f] = b]
    BY <1>2 DEF Chooses, Access
  <2>2. \A g \in Files : last'[g] = IF g = f THEN b ELSE last[g]
    BY <1>0, <2>1
  <2>3. InWindow'
    BY <1>0, <1>2, <2>1, <2>2, SameOption, GoodInside DEF Within, InWindow
  <2>4. NeverBeyondEnd'
    BY <1>0, <1>2, <2>1, <2>2, SameOption, GoodInside DEF Within, NeverBeyondEnd
  <2> QED
    BY <2>3, <2>4 DEF Within
<1>3. Setup \/ Quiet \/ Refuses => UNCHANGED <<option, last>>
  BY DEF Setup, Quiet, Refuses, history
<1> QED
  BY <1>0, <1>1, <1>2, <1>3, StepKinds, ChooseGood

LEMMA InitWithin == Init => ScanAbove /\ Within
  BY DEF Init, ScanAbove, Within, InWindow, NeverBeyondEnd

LEMMA WithinAlways == Spec => [](SyncType /\ ScanAbove /\ Within)
<1>1. Init => SyncType /\ ScanAbove /\ Within
  BY InitTypes, InitWithin DEF SyncType
<1>2. SyncType /\ ScanAbove /\ Within /\ [Next]_vars => (SyncType /\ ScanAbove /\ Within)'
  BY StepTypes, StepScanAbove, StepWithin DEF SyncType
<1> QED
  BY <1>1, <1>2, PTL DEF Spec

\* Every access of every pattern is to a block of the window that the options delimit, for
\* every size of files, blocks and window, the rounding of doubles included: for every window
\* that is not narrow against its offset: InWindow.
THEOREM BlocksInWindow == Spec => []InWindow
<1>1. SyncType /\ ScanAbove /\ Within => InWindow
  BY DEF Within
<1> QED
  BY <1>1, WithinAlways, PTL

\* No access begins beyond the end of its file, and one in a window that has blocks ends
\* within it, for all offsets that parse_args accepts: NeverBeyondEnd.
THEOREM AccessesInFile == Spec => []NeverBeyondEnd
<1>1. SyncType /\ ScanAbove /\ Within => NeverBeyondEnd
  BY DEF Within
<1> QED
  BY <1>1, WithinAlways, PTL
-----------------------------------------------------------------------------
\* Only the file chosen is accessed.
LEMMA AccessEffect ==
    ASSUME TypeOK, NEW f \in Files, NEW b \in Int, Chooses(f, b)
    PROVE  /\ UNCHANGED option /\ pc = "choose" /\ pc' = "io" /\ file_idx' = f
           /\ \A g \in Files :
                 /\ last'[g] = IF g = f THEN b ELSE last[g]
                 /\ seen'[g] = IF g # f THEN seen[g] ELSE IF b = Bottom THEN {b} ELSE seen[g] \cup {b}
                 /\ whole'[g] => whole[g] \/ (g = f /\ b = Bottom)
                 /\ accesses'[g] = IF g = f THEN accesses[g] + 1 ELSE accesses[g]
  BY DEF Chooses, Access, TypeOK

\* A step of a sequential scan that is not refused
LEMMA SeqEffect ==
    ASSUME TypeOK, option.pattern = "SEQ", Choose, ~Refuses
    PROVE  \E f \in Files, b \in Int :
              /\ Chooses(f, b) /\ ofst' = [ofst EXCEPT ![f] = b]
              /\ b = IF ofst[f] + 1 >= Top(f) THEN Bottom ELSE ofst[f] + 1
<1>1. PICK f \in Files, b \in Int : /\ Chooses(f, b) /\ ofst' = [ofst EXCEPT ![f] = b]
                                    /\ b = SeqStep(option, f, ofst[f])
  BY ChooseKinds
<1> QED
  BY <1>1 DEF SeqStep, Top, Bottom

LEMMA StepScanSeen == TypeOK /\ ScanAbove /\ ScanSeen /\ [Next]_vars => ScanSeen'
<1> SUFFICES ASSUME TypeOK, ScanAbove, ScanSeen, [Next]_vars PROVE ScanSeen'
  OBVIOUS
<1>0. option \in Options /\ ofst \in [Files -> Int] /\ last \in [Files -> Int]
  BY DEF TypeOK
<1>1. CASE Quiet
  <2>1. UNCHANGED <<option, ofst, last, seen, whole>>
    BY <1>1 DEF Quiet, walk, history
  <2> QED
    BY <1>1, <2>1, SameOption DEF Quiet, ScanSeen
<1>2. CASE Setup
  <2>1. UNCHANGED <<option, whole>> /\ pc = "setup"
    BY <1>2 DEF Setup, history
  <2> QED
    BY <2>1, SameOption DEF ScanSeen
<1>3. CASE Choose
  <2>1. UNCHANGED option /\ pc = "choose"
    BY <1>3, ChooseKinds DEF Chooses, Refuses
  <2>2. CASE Refuses
    BY <2>2 DEF Refuses, ScanSeen
  <2>3. CASE ~Refuses
    <3> SUFFICES ASSUME option.pattern = "SEQ", Sane, NEW g \in Files, whole'[g]
                 PROVE  /\ pc' # "setup" /\ last'[g] \in Window(g) /\ ofst'[g] = last'[g]
                        /\ seen'[g] = Bottom .. last'[g]
      BY <2>1, SameOption DEF ScanSeen
    <3>1. PICK f \in Files, b \in Int :
                  /\ Chooses(f, b) /\ ofst' = [ofst EXCEPT ![f] = b]
                  /\ b = IF ofst[f] + 1 >= Top(f) THEN Bottom ELSE ofst[f] + 1
      BY <1>3, <2>3, SeqEffect
    <3>2. /\ pc' = "io"
          /\ last'[g] = IF g = f THEN b ELSE last[g]
          /\ seen'[g] = IF g # f THEN seen[g] ELSE IF b = Bottom THEN {b} ELSE seen[g] \cup {b}
          /\ whole'[g] => whole[g] \/ (g = f /\ b = Bottom)
      <4>1. Chooses(f, b)
        BY <3>1
      <4> QED
        BY <4>1, AccessEffect, Zenon
    <3>3. ofst'[g] = IF g = f THEN b ELSE ofst[g]
      BY <1>0, <3>1
    <3>4. whole[g] => /\ last[g] \in Window(g) /\ ofst[g] = last[g]
                      /\ seen[g] = Bottom .. last[g]
      BY <2>1 DEF ScanSeen
    <3>5. CASE g # f
      BY <3>2, <3>3, <3>4, <3>5
    <3>6. CASE g = f
      <4>1. Bottom \in Nat /\ Top(g) \in Nat /\ Bottom < Top(g) /\ Bottom <= ofst[g] /\ ofst[g] \in Int
        BY <1>0, <2>1, SaneFacts DEF ScanAbove
      <4>2. b \in Window(g)
        BY <3>1, <3>6, <4>1 DEF Window
      <4>3. CASE b = Bottom
        <5>1. {b} = Bottom .. b
          BY <4>1, <4>3
        <5> QED
          BY <3>2, <3>3, <3>6, <4>2, <4>3, <5>1
      <4>4. CASE b # Bottom
        <5>1. whole[g] /\ b = ofst[g] + 1
          BY <3>1, <3>2, <3>6, <4>4
        <5>2. (Bottom .. last[g]) \cup {b} = Bottom .. b
          BY <3>4, <4>1, <5>1
        <5> QED
          BY <3>2, <3>3, <3>4, <3>6, <4>2, <4>4, <5>1, <5>2
      <4> QED
        BY <4>3, <4>4
    <3> QED
      BY <3>5, <3>6
  <2> QED
    BY <2>2, <2>3
<1> QED
  BY <1>1, <1>2, <1>3, StepKinds

\* A step that changes the number of accesses to a file has chosen it.
LEMMA AccessedChosen ==
    ASSUME TypeOK, [Next]_vars, NEW g \in Files, Accessed(g)
    PROVE  Choose /\ ~Refuses /\ \A f \in Files, b \in Int : Chooses(f, b) => f = g
<1>1. ~Setup /\ ~Quiet /\ ~Refuses
  BY DEF Accessed, Setup, Quiet, Refuses, history
<1> QED
  BY <1>1, StepKinds, AccessEffect DEF Accessed

LEMMA ScanStep ==
    ASSUME TypeOK, ScanAbove, ScanSeen, [Next]_vars, NEW g \in Files,
           option.pattern = "SEQ", Sane, Accessed(g), whole[g], last'[g] = Bottom
    PROVE  seen[g] = Window(g)
<1>0. option \in Options /\ ofst \in [Files -> Int]
  BY DEF TypeOK
<1>1. Choose /\ ~Refuses /\ \A f \in Files, b \in Int : Chooses(f, b) => f = g
  BY AccessedChosen
<1>2. PICK b \in Int : Chooses(g, b) /\ b = IF ofst[g] + 1 >= Top(g) THEN Bottom ELSE ofst[g] + 1
  BY <1>1, SeqEffect
<1>3. b = Bottom /\ pc = "choose"
  BY <1>2, AccessEffect
<1>4. last[g] \in Window(g) /\ ofst[g] = last[g] /\ seen[g] = Bottom .. last[g]
  BY <1>3 DEF ScanSeen
<1>5. Bottom \in Nat /\ Top(g) \in Nat /\ Bottom < Top(g)
  BY <1>0, SaneFacts
<1>6. last[g] = Top(g) - 1
  BY <1>2, <1>3, <1>4, <1>5 DEF Window
<1> QED
  BY <1>4, <1>6 DEF Window

\* A sequential scan that comes back to the first block has been at every block of the window
\* since it was last there, wherever the thread began: ScanIsWhole.
THEOREM ScansWhole == Spec => ScanIsWhole
<1> DEFINE I == (SyncType /\ ScanAbove /\ Within) /\ ScanSeen
<1>1. Init => ScanSeen
  BY DEF Init, ScanSeen
<1>2. I /\ [Next]_vars => ScanSeen'
  BY StepScanSeen DEF SyncType
<1>3. I /\ [Next]_vars =>
         [\A f \in Files : option.pattern = "SEQ" /\ Sane /\ Accessed(f) /\ whole[f]
                             /\ last'[f] = Bottom => seen[f] = Window(f)]_vars
  BY ScanStep DEF SyncType
<1> QED
  BY <1>1, <1>2, <1>3, WithinAlways, PTL DEF Spec, ScanIsWhole
-----------------------------------------------------------------------------
\* A seek of the constant-distance pattern that is not refused
LEMMA SideEffect ==
    ASSUME TypeOK, option.pattern = "SEEKDIST", Sane, Choose, ~Refuses
    PROVE  \E f \in Files, b \in Int :
              /\ Chooses(f, b) /\ side' = [side EXCEPT ![f] = 1 - @]
              /\ side[f] = 0 => Top(f) - option.seekdist_stride <= b /\ b < Top(f)
              /\ side[f] = 1 => Bottom <= b /\ b < Bottom + option.seekdist_stride
<1>1. PICK f \in Files : \E b \in SideRange(f) : /\ side' = [side EXCEPT ![f] = 1 - @]
                                                 /\ Chooses(f, b)
  BY ChooseKinds
<1>2. PICK b \in SideRange(f) : side' = [side EXCEPT ![f] = 1 - @] /\ Chooses(f, b)
  BY <1>1
<1>3. /\ b \in Int
      /\ side[f] = 0 => Top(f) - option.seekdist_stride <= b /\ b < Top(f)
      /\ side[f] = 1 => Bottom <= b /\ b < Bottom + option.seekdist_stride
  BY <1>2, SideBlocks
<1> QED
  BY <1>2, <1>3

LEMMA StepSides == TypeOK /\ Sides /\ [Next]_vars => Sides'
<1> SUFFICES ASSUME TypeOK, Sides, [Next]_vars PROVE Sides'
  OBVIOUS
<1>0. option \in Options /\ side \in [Files -> {0, 1}]
  BY DEF TypeOK
<1>1. CASE Quiet
  <2>1. UNCHANGED <<option, side, last>>
    BY <1>1 DEF Quiet, walk, history
  <2> QED
    BY <1>1, <2>1, SameOption DEF Quiet, Sides
<1>2. CASE Setup
  <2>1. UNCHANGED <<option, last>> /\ pc = "setup"
    BY <1>2 DEF Setup, history
  <2> QED
    BY <2>1, SameOption DEF Sides
<1>3. CASE Choose
  <2>1. UNCHANGED option /\ pc = "choose"
    BY <1>3, ChooseKinds DEF Chooses, Refuses
  <2>2. CASE Refuses
    BY <2>2 DEF Refuses, Sides
  <2>3. CASE ~Refuses
    <3> DEFINE Side(g, v, x) ==
                 v \in IF x = 1 THEN Top(g) - option.seekdist_stride .. Top(g) - 1
                                ELSE Bottom .. Bottom + option.seekdist_stride - 1
    <3> SUFFICES ASSUME option.pattern = "SEEKDIST", Sane, NEW g \in Files, last'[g] # -1
                 PROVE  pc' # "setup" /\ Side(g, last'[g], side'[g])
      BY <2>1, SameOption DEF Sides
    <3>1. PICK f \in Files, b \in Int :
              /\ Chooses(f, b) /\ side' = [side EXCEPT ![f] = 1 - @]
              /\ side[f] = 0 => Top(f) - option.seekdist_stride <= b /\ b < Top(f)
              /\ side[f] = 1 => Bottom <= b /\ b < Bottom + option.seekdist_stride
      BY <1>3, <2>3, SideEffect
    <3>2. pc' = "io" /\ last'[g] = IF g = f THEN b ELSE last[g]
      BY <3>1, AccessEffect
    <3>3. side'[g] = IF g = f THEN 1 - side[g] ELSE side[g]
      BY <1>0, <3>1
    <3>4. last[g] # -1 => Side(g, last[g], side[g])
      BY <2>1 DEF Sides
    <3>5. Bottom \in Nat /\ Top(g) \in Nat /\ option.seekdist_stride \in Nat
      BY <1>0, SaneFacts
    <3>6. CASE g # f
      BY <3>2, <3>3, <3>4, <3>6
    <3>7. CASE g = f
      BY <1>0, <3>1, <3>2, <3>3, <3>5, <3>7
    <3> QED
      BY <3>6, <3>7
  <2> QED
    BY <2>2, <2>3
<1> QED
  BY <1>1, <1>2, <1>3, StepKinds

LEMMA SeekStep ==
    ASSUME TypeOK, Sides, [Next]_vars, NEW g \in Files,
           option.pattern = "SEEKDIST", Sane, Accessed(g), last[g] # -1
    PROVE  \/ last'[g] - last[g] >= Top(g) - Bottom - 2 * option.seekdist_stride + 1
           \/ -(last'[g] - last[g]) >= Top(g) - Bottom - 2 * option.seekdist_stride + 1
<1>0. option \in Options /\ side[g] \in {0, 1} /\ last[g] \in Int
  BY DEF TypeOK
<1>1. Choose /\ ~Refuses /\ \A f \in Files, b \in Int : Chooses(f, b) => f = g
  BY AccessedChosen
<1>2. PICK b \in Int :
          /\ Chooses(g, b)
          /\ side[g] = 0 => Top(g) - option.seekdist_stride <= b /\ b < Top(g)
          /\ side[g] = 1 => Bottom <= b /\ b < Bottom + option.seekdist_stride
  BY <1>1, SideEffect
<1>3. last'[g] = b /\ pc = "choose"
  BY <1>2, AccessEffect
<1>4. Bottom \in Nat /\ Top(g) \in Nat /\ option.seekdist_stride \in Nat
  BY <1>0, SaneFacts
<1>5. last[g] \in IF side[g] = 1 THEN Top(g) - option.seekdist_stride .. Top(g) - 1
                                 ELSE Bottom .. Bottom + option.seekdist_stride - 1
  BY <1>3 DEF Sides
<1>6. CASE side[g] = 0
  BY <1>0, <1>2, <1>3, <1>4, <1>5, <1>6
<1>7. CASE side[g] = 1
  BY <1>0, <1>2, <1>3, <1>4, <1>5, <1>7
<1> QED
  BY <1>0, <1>6, <1>7

\* Two successive accesses of the constant-distance pattern to a file are on different sides
\* of it, for every stride: SeekIsLong.
THEOREM SeeksLong == Spec => SeekIsLong
<1> DEFINE I == (SyncType /\ ScanAbove /\ Within) /\ Sides
<1>1. Init => Sides
  BY DEF Init, Sides
<1>2. I /\ [Next]_vars => Sides'
  BY StepSides DEF SyncType
<1>3. I /\ [Next]_vars =>
       [\A f \in Files :
          option.pattern = "SEEKDIST" /\ Sane /\ Accessed(f) /\ last[f] # -1 =>
            LET d == last'[f] - last[f]
                least == Top(f) - Bottom - 2 * option.seekdist_stride + 1
            IN  d >= least \/ -d >= least]_vars
  BY SeekStep DEF SyncType
<1> QED
  BY <1>1, <1>2, <1>3, WithinAlways, PTL DEF Spec, SeekIsLong
-----------------------------------------------------------------------------
LEMMA StepTurns == TypeOK /\ Turns /\ [Next]_vars => Turns'
<1> SUFFICES ASSUME TypeOK, Turns, [Next]_vars PROVE Turns'
  OBVIOUS
<1>0. option \in Options /\ file_idx \in Files /\ accesses \in [Files -> Nat]
  BY DEF TypeOK
<1>1. CASE Setup \/ Quiet \/ Refuses
  <2>1. UNCHANGED <<option, file_idx, accesses>>
    BY <1>1 DEF Setup, Quiet, Refuses, walk, history
  <2> QED
    BY <2>1, SameOption DEF Turns
<1>2. CASE Choose /\ ~Refuses
  <2>1. UNCHANGED option
    BY <1>2, ChooseKinds DEF Chooses
  <2> SUFFICES ASSUME option.pattern # "RAND"
               PROVE  \E k \in Nat : \A f \in Files :
                         accesses'[f] = k + (IF 1 <= f /\ f <= file_idx' THEN 1 ELSE 0)
    BY <2>1, SameOption DEF Turns
  <2>2. PICK k \in Nat : \A g \in Files :
                accesses[g] = k + (IF 1 <= g /\ g <= file_idx THEN 1 ELSE 0)
    BY DEF Turns
  <2>3. PICK f \in Files, b \in Int : f = NextFile(option, file_idx) /\ Chooses(f, b)
    BY <1>2, ChooseKinds, SideFacts
  <2>4. /\ file_idx' = f
        /\ \A g \in Files : accesses'[g] = IF g = f THEN accesses[g] + 1 ELSE accesses[g]
    BY <2>3, AccessEffect
  <2>5. /\ f = IF file_idx + 1 = option.nr_files THEN 0 ELSE file_idx + 1
        /\ option.nr_files \in Nat /\ \A g \in Files : g \in Nat /\ g < option.nr_files
    BY <1>0, <2>3, NextFileFacts, OptionFacts
  <2>6. CASE file_idx + 1 = option.nr_files
    <3>1. \A g \in Files : accesses'[g] = (k + 1) + (IF 1 <= g /\ g <= f THEN 1 ELSE 0)
      BY <1>0, <2>2, <2>4, <2>5, <2>6
    <3>2. k + 1 \in Nat
      OBVIOUS
    <3> QED
      BY <2>4, <3>1, <3>2
  <2>7. CASE file_idx + 1 # option.nr_files
    <3>1. \A g \in Files : accesses'[g] = k + (IF 1 <= g /\ g <= f THEN 1 ELSE 0)
      BY <1>0, <2>2, <2>4, <2>5, <2>7
    <3> QED
      BY <2>4, <3>1
  <2> QED
    BY <2>6, <2>7
<1> QED
  BY <1>1, <1>2, StepKinds

\* The files take turns, however many there are, and across the ends of batches: FilesInTurn.
THEOREM FilesTakeTurns == Spec => []FilesInTurn
<1>1. Init => Turns
  <2> SUFFICES ASSUME Init PROVE \A f \in Files : accesses[f] = 0 + (IF 1 <= f /\ f <= file_idx THEN 1 ELSE 0)
    BY DEF Turns
  <2>1. option \in Options /\ file_idx = 0 /\ \A f \in Files : accesses[f] = 0
    BY DEF Init
  <2>2. \A f \in Files : f \in Nat
    BY <2>1, OptionFacts
  <2> QED
    BY <2>1, <2>2
<1>2. SyncType /\ Turns /\ [Next]_vars => Turns'
  BY StepTurns DEF SyncType
<1>3. SyncType /\ Turns => FilesInTurn
  <2> SUFFICES ASSUME Turns, option.pattern # "RAND", NEW f \in Files, NEW g \in Files
               PROVE  accesses[f] <= accesses[g] + 1
    BY DEF FilesInTurn
  <2>1. PICK k \in Nat : \A h \in Files :
                accesses[h] = k + (IF 1 <= h /\ h <= file_idx THEN 1 ELSE 0)
    BY DEF Turns
  <2> QED
    BY <2>1
<1>4. Init => SyncType
  BY InitTypes DEF SyncType
<1> QED
  BY <1>1, <1>2, <1>3, <1>4, StepTypes, PTL DEF Spec
-----------------------------------------------------------------------------
\* The I/Os started are those counted, and the one under way.
Balance ==
    /\ pc # "exit" => SumOver(accesses, Files) = io_count + (IF pc \in {"io", "count"} THEN 1 ELSE 0)
    /\ pc = "done" => meter = io_count

LEMMA InitBalance == Init => Balance
<1> SUFFICES ASSUME Init PROVE Balance
  OBVIOUS
<1>1. option \in Options /\ accesses = [f \in Files |-> 0] /\ io_count = 0 /\ pc = "setup"
  BY DEF Init
<1>2. IsFiniteSet(Files)
  BY <1>1, OptionFacts
<1>3. SumOver(accesses, Files) = 0
  BY <1>1, <1>2, SumZero
<1> QED
  BY <1>1, <1>3 DEF Balance

LEMMA StepBalance == TypeOK /\ Balance /\ [Next]_vars => Balance'
<1> SUFFICES ASSUME TypeOK, Balance, [Next]_vars PROVE Balance'
  OBVIOUS
<1> USE DEF walk, history, request, IOEnds
<1>0. /\ option \in Options /\ accesses \in [Files -> Nat] /\ io_count \in Nat
      /\ IsFiniteSet(Files)
  BY OptionFacts DEF TypeOK
<1>1. CASE UNCHANGED <<option, accesses>>
  <2>1. Files' = Files /\ SumOver(accesses, Files)' = SumOver(accesses, Files)
    BY <1>1, SameOption
  <2>2. CASE Setup \/ CheckTimeout \/ Expire \/ UNCHANGED vars \/ Refuses
    <3>1. /\ UNCHANGED <<io_count, meter>>
          /\ \/ pc' = pc \/ pc' = "exit"
             \/ pc \in {"setup", "loop"} /\ pc' \in {"loop", "report", "choose"}
      BY <2>2 DEF Setup, CheckTimeout, Expire, vars, Refuses
    <3> QED
      BY <2>1, <3>1 DEF Balance
  <2>3. CASE PositionedIO \/ IOFails \/ \E k \in 1 .. rem : SequentialIO(k)
    <3>1. UNCHANGED io_count /\ pc = "io" /\ pc' \in {"io", "count", "exit"}
      BY <2>3 DEF PositionedIO, IOFails, SequentialIO
    <3> QED
      BY <2>1, <3>1 DEF Balance
  <2>4. CASE Count
    <3>1. pc = "count" /\ io_count' = io_count + 1 /\ pc' \in {"loop", "choose"}
      BY <2>4 DEF Count
    <3> QED
      BY <1>0, <2>1, <3>1 DEF Balance
  <2>5. CASE Report
    <3>1. pc = "report" /\ io_count' = io_count /\ meter' = io_count /\ pc' = "done"
      BY <2>5 DEF Report
    <3> QED
      BY <1>0, <2>1, <3>1 DEF Balance
  <2>6. ASSUME NEW f \in Files, NEW b \in Int, Chooses(f, b) PROVE FALSE
    <3>1. accesses'[f] = accesses[f] + 1 /\ accesses[f] \in Nat
      BY <1>0, <2>6, AccessEffect
    <3> QED
      BY <1>1, <3>1
  <2>7. Choose => Refuses
    BY <1>0, <2>6, ChooseKinds, SideFacts, WindowFacts, RandFacts
  <2> QED
    BY <2>2, <2>3, <2>4, <2>5, <2>7 DEF Next, Thread, Choose
<1>2. CASE ~(UNCHANGED <<option, accesses>>)
  <2>1. ~Setup /\ ~Quiet /\ ~Refuses
    BY <1>2 DEF Setup, Quiet, Refuses
  <2>2. PICK f \in Files, b \in Int : Chooses(f, b)
    BY <1>0, <2>1, StepKinds, ChooseKinds, SideFacts, WindowFacts, RandFacts
  <2>3. /\ UNCHANGED <<option, io_count>> /\ pc = "choose" /\ pc' = "io"
        /\ accesses' = [accesses EXCEPT ![f] = accesses[f] + 1]
    BY <2>2 DEF Chooses, Access
  <2>4. SumOver([accesses EXCEPT ![f] = accesses[f] + 1], Files) = SumOver(accesses, Files) + 1
    <3>1. 1 \in Nat
      OBVIOUS
    <3> QED
      BY <1>0, <3>1, SumAdd, Zenon
  <2>5. SumOver(accesses, Files)' = SumOver(accesses, Files) + 1
    BY <2>3, <2>4, SameOption
  <2> QED
    BY <1>0, <2>3, <2>5 DEF Balance
<1> QED
  BY <1>1, <1>2

\* A thread that ends reports the number of its accesses to all files, for every size of a
\* batch and whichever of them failed: CountExact.
THEOREM CountsExact == Spec => []CountExact
<1>1. SyncType /\ Balance => CountExact
  <2> SUFFICES ASSUME SyncType, Balance, pc = "done"
               PROVE  meter = MapThenSumSet(LAMBDA f : accesses[f], Files)
    BY Zenon DEF CountExact
  <2>1. io_count \in Nat
    BY DEF SyncType, TypeOK
  <2>2. meter = SumOver(accesses, Files)
    BY <2>1 DEF Balance
  <2> QED
    BY <2>2, Zenon DEF MapThenSumSet, MapThenFoldSet, SumOver, SumMap, IsSum, Step, Chosen
<1>2. SyncType /\ Balance /\ [Next]_vars => Balance'
  BY StepBalance DEF SyncType
<1>3. Init => SyncType
  BY InitTypes DEF SyncType
<1> QED
  BY <1>1, <1>2, <1>3, InitBalance, StepTypes, PTL DEF Spec
=============================================================================
