------------------------------ MODULE FrontEnd ------------------------------
(***************************************************************************)
(* `micbench io', the Ruby command in front of micbench-io: what it makes  *)
(* of an affinity description and of offsets in bytes, what it refuses,    *)
(* and the command line that it hands to micbench-io.                      *)
(*                                                                         *)
(* The text of a description is taken as parsed by the regular             *)
(* expressions: a sequence of entries <threads>:<cpus>[:<nodes>], each of  *)
(* them a set of ranges <<id1, id2>>.  A CPU range of nodes (n0-1) says so *)
(* in its third component.  An offset or a stride is a number of blocks or *)
(* of bytes, and says which.                                               *)
(***************************************************************************)
EXTENDS Integers, Sequences, FiniteSets, FiniteSetsExt

CONSTANTS
    Logicores,  \* $logicores: nproc
    Nodes       \* $nodes: numactl --hardware

ASSUME FrontEndAssumption == Logicores \in Nat \ {0} /\ Nodes \in Nat \ {0}

\* What the regular expressions let through: numbers, and at least one range of CPUs
Entries ==
    [threads : SUBSET (Nat \X Nat), cpus : SUBSET (Nat \X Nat \X {"c", "n"}),
     mems : SUBSET (Nat \X Nat)]

Descriptions ==
    {desc \in Seq(Entries) : \A k \in DOMAIN desc : IsFiniteSet(desc[k].cpus) /\ desc[k].cpus # {}}

\* $procs is nproc as well.
Procs == Logicores
LogicoresPerProc == Logicores \div Procs

\* parse_ids.  A range whose ends are swapped is meant to be put in order, but
\* the exchange copies the second end into the first.
ParseIds(r) == IF r[2] < r[1] THEN {r[2]} ELSE r[1] .. r[2]

ParseThreads(entry) == UNION {ParseIds(r) : r \in entry.threads}

CpusOfNode(n) == LogicoresPerProc * n .. LogicoresPerProc * (n + 1) - 1

ParseCpuAssignment(entry) ==
    UNION {IF r[3] = "c" THEN ParseIds(r) ELSE UNION {CpusOfNode(n) : n \in ParseIds(r)}
             : r \in entry.cpus}

\* Without <nodes>, all of them
ParseMemAssignment(entry) ==
    IF entry.mems = {} THEN 0 .. Nodes - 1 ELSE UNION {ParseIds(r) : r \in entry.mems}

\* parse_affinity, and the merge of several -a: a later entry takes the place of
\* an earlier one for the same thread.
ThreadMasks(desc) ==
    [t \in UNION {ParseThreads(desc[k]) : k \in DOMAIN desc} |->
        LET e == desc[Max({k \in DOMAIN desc : t \in ParseThreads(desc[k])})]
        IN  <<ParseCpuAssignment(e), ParseMemAssignment(e)>>]

\* The digits of a bitmap, as far as the greatest id or the machine goes
Bitmap(ids, limit) ==
    [k \in 1 .. Min({Max(ids), limit - 1}) + 1 |-> IF k - 1 \in ids THEN 1 ELSE 0]

\* Mutant of AffinityArgs: threads that will not exist are not left out.
AffinityArgsUnfiltered(desc, multi) ==
    LET masks == ThreadMasks(desc)
    IN  {[tid |-> t, cpu |-> Bitmap(masks[t][1], Logicores), mem |-> Bitmap(masks[t][2], Nodes)]
           : t \in DOMAIN masks}

\* check_option: an argument of -a for each thread that there will be
AffinityArgs(desc, multi) ==
    LET masks == ThreadMasks(desc)
    IN  {[tid |-> t, cpu |-> Bitmap(masks[t][1], Logicores), mem |-> Bitmap(masks[t][2], Nodes)]
           : t \in {u \in DOMAIN masks : u < multi}}

\* An offset <<n, "blocks">>, <<n, "bytes">>, or <<>> when none is given
OffsetAligned(x, blocksize) == x # <<>> /\ x[2] = "bytes" => x[1] % blocksize = 0

Offset(x, blocksize) ==
    IF x = <<>> THEN -1 ELSE IF x[2] = "bytes" THEN x[1] \div blocksize ELSE x[1]

\* The checks of the option parser and of check_option.  (That the files exist
\* is checked as well, some time before they are opened.)
Accepts(u) ==
    /\ u.blocksize >= 512
    /\ ~(u.async /\ u.pattern \in {"SEEKDIST", "SEEKINCR"})
    /\ OffsetAligned(u.offset_start, u.blocksize)
    /\ OffsetAligned(u.offset_end, u.blocksize)
    /\ OffsetAligned(u.seekdist_stride, u.blocksize)
    /\ u.files # <<>>

\* do_cmd: the command line of micbench-io, with micbench-io's own default for the
\* stride.  --json is the default and cannot be switched off.
IoArgs(u) ==
    [noop |-> u.noop, multi |-> u.multi, affinity |-> AffinityArgs(u.affinity, u.multi),
     pattern |-> u.pattern, read |-> u.mode = "read", write |-> u.mode = "write",
     aio |-> u.async, aio_engine |-> u.engine, aio_tracefile |-> u.tracefile,
     direct |-> u.direct, blk_sz |-> u.blocksize, misalign |-> u.misalign,
     ofst_start |-> Offset(u.offset_start, u.blocksize),
     ofst_end |-> Offset(u.offset_end, u.blocksize),
     seekdist_stride |-> IF u.seekdist_stride = <<>> THEN 16 * 1024
                         ELSE Offset(u.seekdist_stride, u.blocksize),
     log |-> u.logfile, json |-> TRUE, files |-> u.files]
=============================================================================
