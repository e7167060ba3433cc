------------------------------- MODULE MCAiom -------------------------------
(* Instances of the AIO manager for TLC.                                   *)
EXTENDS Aiom

\* A scan of two files of two blocks each by the second of two threads, and
\* random access to one file of two blocks; each with both engines.
BaseOption ==
    [aio_engine |-> "libaio", pattern |-> "SEQ", read |-> TRUE, write |-> FALSE,
     nr_files |-> 2, file_size |-> [f \in {0, 1} |-> 1024], blk_sz |-> 512,
     ofst_start |-> -1, ofst_end |-> -1, misalign |-> 0, multi |-> 2]

SeqOption(engine) == [BaseOption EXCEPT !.aio_engine = engine]

RandOption(engine) ==
    [BaseOption EXCEPT !.aio_engine = engine, !.pattern = "RAND", !.nr_files = 1,
                       !.file_size = [f \in {0} |-> 1024],
                       !.read = FALSE, !.write = TRUE]

MixOption == [BaseOption EXCEPT !.read = FALSE]

BothEngines == {SeqOption(e) : e \in {"libaio", "io_uring"}}
    \cup {RandOption(e) : e \in {"libaio", "io_uring"}} \cup {MixOption}

OnlyUring == {SeqOption("io_uring")}

OnlyLibaio == {SeqOption("libaio")}
=============================================================================
