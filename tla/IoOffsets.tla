----------------------------- MODULE IoOffsets -----------------------------
(***************************************************************************)
(* Which block of which file a micbench-io thread accesses next: the       *)
(* offset handling that do_async_io and do_sync_io share.  `o' is the      *)
(* option record (micbench_io_option_t) that parse_args has filled in;     *)
(* files are numbered 0 .. nr_files - 1 and offsets count blocks.          *)
(***************************************************************************)
EXTENDS Integers

Patterns == {"SEQ", "RAND", "SEEKDIST", "SEEKINCR"}

FilesOf(o) == 0 .. o.nr_files - 1

\* What the offset handling takes for granted of the options.  parse_args
\* does not look at the sign of blk_sz or multi: the command-line front end
\* refuses blocks under 512 bytes.  A file that mb_getsize answers -1 for passes
\* parse_args if no offsets are given, and has the window of an empty file (-1 / blk_sz
\* is 0 in C): it is one of size 0 here.
OptionOK(o) ==
    /\ o.nr_files \in Nat \ {0}
    /\ o.blk_sz \in Nat \ {0}
    /\ o.multi \in Nat \ {0}
    /\ o.ofst_start \in Int /\ o.ofst_end \in Int /\ o.misalign \in Int
    /\ o.file_size \in [FilesOf(o) -> Nat]

\* ofst_min_list[i] and ofst_max_list[i]; a negative option means "not given"
OfstMin(o) == IF o.ofst_start >= 0 THEN o.ofst_start ELSE 0

OfstMax(o, f) ==
    IF o.ofst_end >= 0 THEN o.ofst_end ELSE o.file_size[f] \div o.blk_sz

\* Mutant of OffsetsAccepted: the offsets are held against the first file only.
OffsetsAcceptedFirst(o) ==
    /\ o.blk_sz * o.ofst_start <= o.file_size[0]
    /\ o.blk_sz * o.ofst_end <= o.file_size[0]

\* parse_args refuses an offset beyond the end of any file, but accepts one
\* at the end, and never compares the two.
OffsetsAccepted(o) ==
    \A f \in FilesOf(o) :
        /\ o.blk_sz * o.ofst_start <= o.file_size[f]
        /\ o.blk_sz * o.ofst_end <= o.file_size[f]

\* Integer division of C, towards zero
CDiv(a, b) == IF a >= 0 THEN a \div b ELSE -((-a) \div b)

\* The slice of a file at which thread id of multi begins a sequential scan
SeqStart(o, f, id) ==
    OfstMin(o) + CDiv((OfstMax(o, f) - OfstMin(o)) * id, o.multi)

\* Mutant of NextFile: file_idx is not incremented.
NextFileStays(o, file_idx) == file_idx % o.nr_files

\* file_idx++, file_idx %= nr_files
NextFile(o, file_idx) == (file_idx + 1) % o.nr_files

\* Mutants of SeqStep: the scan wraps one block late, or one early.
SeqStepLate(o, f, ofst) ==
    IF ofst + 1 > OfstMax(o, f) THEN OfstMin(o) ELSE ofst + 1

SeqStepEarly(o, f, ofst) ==
    IF ofst + 2 >= OfstMax(o, f) THEN OfstMin(o) ELSE ofst + 1

\* The next block of a sequential scan: advance, then wrap
SeqStep(o, f, ofst) ==
    IF ofst + 1 >= OfstMax(o, f) THEN OfstMin(o) ELSE ofst + 1

\* drand48 answers at most 1 - 2^-48, and a double has 53 bits: if the width is small
\* against the greatest power of two below `to', the sum of mb_rand_range_long is rounded
\* up to `to'.  (For numbers below 2^53; the factor 33 / 32 is the rounding of the product.)
Narrow(from, to) ==
    \E e \in 0 .. (to - from) + 5 : 2^e < to /\ 1024 * (to - from) <= 33 * 2^e

\* mb_rand_range_long(rand, from, to): the product of the width and a double
\* of [0, 1), plus from, cut towards zero by the conversion to long.
RandRange(from, to) ==
    IF from <= to
    THEN from .. (IF from = to \/ to <= 0 \/ Narrow(from, to) THEN to ELSE to - 1)
    ELSE (IF to >= 0 THEN to ELSE to + 1) .. from

Addr(o, ofst) == ofst * o.blk_sz + o.misalign
=============================================================================
