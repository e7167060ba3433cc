--------------------------- MODULE MCThreadBench ---------------------------
(* Options for the instances of micbench-mem, micbench-lock and            *)
(* micbench-proto.                                                         *)
EXTENDS ThreadBench

Mem(rand, local, size) ==
    [prog |-> "mem", late_multi |-> FALSE, bad_affinity |-> FALSE, rand |-> rand,
     local |-> local, size |-> size]

\* micbench mem -R -L, and micbench mem -S with sizes that are whole segments
MemOptions ==
    {Mem(TRUE, TRUE, 64 * Lines)} \cup {Mem(FALSE, FALSE, s) : s \in {64, 128, 1024, 2048}}

LockOption(mode, count, affinity) ==
    [prog |-> "lock", late_multi |-> FALSE, bad_affinity |-> FALSE, mode |-> mode,
     count |-> count, critical_job_size |-> 10, noncritical_job_size |-> 1000,
     affinity |-> affinity]

\* Arguments of -a for the threads, with every bitmap of up to six CPUs and two nodes
Bitmaps(n) == UNION {[1 .. k -> {0, 1}] : k \in 1 .. n}
Arguments == [tid : {0}, cpu : Bitmaps(6), mem : Bitmaps(2)]

LockOptions ==
    {LockOption(m, 2, {}) : m \in {"spinlock", "mutex", "mfence"}}
      \cup {LockOption("spinlock", 0, {a}) : a \in Arguments}

ProtoOption ==
    [prog |-> "proto", late_multi |-> FALSE, bad_affinity |-> FALSE, mode |-> "spinlock",
     count |-> 2]

\* Command lines that parse_args refuses
Refused ==
    {[ProtoOption EXCEPT !.late_multi = TRUE],
     [ProtoOption EXCEPT !.bad_affinity = TRUE],
     LockOption("rwlock", 2, {}),
     [LockOption("mutex", 2, {}) EXCEPT !.critical_job_size = 0],
     [LockOption("mutex", 2, {}) EXCEPT !.noncritical_job_size = -1]}

AllOptions == MemOptions \cup LockOptions \cup {ProtoOption} \cup Refused

\* micbench mem -R
SharedRegion == {Mem(TRUE, FALSE, 64 * Lines)}
=============================================================================
