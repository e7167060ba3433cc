------------------------------ MODULE MCIoMain ------------------------------
(* Instances of micbench-io with its front end for TLC: a machine of four  *)
(* CPUs and two nodes.                                                     *)
EXTENDS IoMain, TLC

File == [length |-> 3, size |-> 2048, opens |-> {"read", "write", "mix"}]

Base ==
    [noop |-> FALSE, multi |-> 2, affinity |-> <<>>, pattern |-> "SEQ", mode |-> "read",
     async |-> FALSE, engine |-> "libaio", tracefile |-> FALSE, direct |-> FALSE,
     blocksize |-> 512, misalign |-> 0, offset_start |-> <<>>, offset_end |-> <<>>,
     seekdist_stride |-> <<>>,
     logfile |-> "none", files |-> <<File, File>>]

Noop == [Base EXCEPT !.noop = TRUE]

\* <threads>:<cpus>, an entry of an affinity description
Entry(threads, cpu) == [threads |-> {threads}, cpus |-> {cpu}, mems |-> {}]

\* Threads at work: plain, with one thread or none, bound to CPUs, and with a log
Working ==
    {Base,
     [Base EXCEPT !.multi = 0],
     [Base EXCEPT !.multi = 1, !.logfile = "writable", !.async = TRUE, !.tracefile = TRUE],
     [Base EXCEPT !.logfile = "writable", !.pattern = "RAND", !.mode = "mix"],
     [Base EXCEPT !.affinity = <<Entry(<<0, 3>>, <<1, 2, "c">>), Entry(<<1, 1>>, <<3, 7, "n">>)>>],
     [Base EXCEPT !.affinity = <<Entry(<<1, 2>>, <<5, 6, "c">>)>>, !.engine = "io_uring",
                  !.pattern = "SEEKDIST", !.seekdist_stride = <<1024, "bytes">>]}

\* Command lines that are refused, by the front end or by parse_args
Refused ==
    {[Base EXCEPT !.async = TRUE, !.pattern = "SEEKDIST"],
     [Base EXCEPT !.blocksize = 256],
     [Base EXCEPT !.offset_start = <<700, "bytes">>],
     [Base EXCEPT !.seekdist_stride = <<700, "bytes">>, !.pattern = "SEEKDIST"],
     [Base EXCEPT !.files = <<>>],
     [Base EXCEPT !.offset_start = <<5, "blocks">>],
     [Base EXCEPT !.offset_end = <<2560, "bytes">>],
     [Base EXCEPT !.engine = "posix"],
     [Base EXCEPT !.mode = "write", !.files = <<[File EXCEPT !.opens = {"read"}]>>],
     [Noop EXCEPT !.offset_end = <<0, "blocks">>, !.files = <<[File EXCEPT !.opens = {}]>>],
     [Base EXCEPT !.direct = TRUE, !.blocksize = 600],
     [Base EXCEPT !.tracefile = TRUE],
     [Base EXCEPT !.logfile = "unwritable"]}

\* Dry runs, for the pure parts: every description of one entry, and of two entries
\* for some threads; every list of up to three names of up to seven characters
Ranges == {0, 1, 3} \X {0, 1, 2, 4}
Described ==
    {<<Entry(t, <<c[1], c[2], k>>)>> : t \in Ranges, c \in Ranges, k \in {"c", "n"}}
      \cup {<<Entry(s, <<0, 2, "c">>), Entry(t, <<c[1], c[2], "c">>)>>
              : s \in {<<0, 1>>, <<1, 2>>}, t \in Ranges, c \in Ranges}

Name(n) == [File EXCEPT !.length = n]
NameLists == UNION {[1 .. k -> {Name(n) : n \in 1 .. 7}] : k \in 1 .. 3}

DryRuns ==
    {[Noop EXCEPT !.multi = 3, !.affinity = d] : d \in Described}
      \cup {[Noop EXCEPT !.files = fs] : fs \in NameLists}

AllCommands == Working \cup Refused \cup DryRuns

\* Two threads with a log
Logged == {[Base EXCEPT !.logfile = "writable"]}
=============================================================================
