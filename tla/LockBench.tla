----------------------------- MODULE LockBench -----------------------------
(***************************************************************************)
(* The threads of micbench-lock and micbench-proto: `count' times through  *)
(* a spin lock or a mutex, or (mfence) through a row of increments of a    *)
(* shared counter, each with a fence after it.  Nobody reads that counter, *)
(* and it is left out.                                                     *)
(*                                                                         *)
(* External: the pthread locks.                                            *)
(***************************************************************************)
EXTENDS BenchMain, Affinity

ASSUME LockAssumption ==
    \A o \in Options : o.prog # "mem" =>
        /\ o.count \in Nat
        /\ o.prog = "proto" => o.mode = "spinlock"
        /\ o.prog = "lock" =>
              /\ \A arg \in o.affinity : /\ arg.tid \in 0 .. Multi - 1   \* nobody checks it
                                         /\ arg.cpu \in Seq({0, 1}) /\ arg.mem \in Seq({0, 1})
              /\ \A a, b \in o.affinity : a.tid = b.tid => a = b   \* the last -a of each thread

VARIABLE holder   \* the thread that holds the lock, or 0

LockInit == holder = 0

\* micbench-proto knows no other mode than "spinlock".
Locking == option.mode \in {"spinlock", "mutex"}

\* Mutant of GeneratedRow: the Makefile makes half the row.
HalfRow == 64

\* The increments, with a fence each, that the Makefile puts into a row
GeneratedRow == 128

\* The operations that `count' rounds of the loop do, and those that the thread says
\* it has done.
Job == option.count * (IF Locking THEN 1 ELSE GeneratedRow)
JobOps == IF Locking THEN option.count ELSE option.count * 128

Lock(t) ==
    /\ pc[t] = "job" /\ Locking /\ work[t] < Job
    /\ holder = 0
    /\ holder' = t
    /\ Goto(t, "critical")
    /\ UNCHANGED <<mainVars, counters>>

Unlock(t) ==
    /\ pc[t] = "critical"
    /\ holder' = 0
    /\ work' = [work EXCEPT ![t] = @ + 1]
    /\ Goto(t, "job")
    /\ UNCHANGED <<mainVars, ops>>

\* A row touches no lock, and only the counter that nobody reads: it is one step.
FenceRow(t) ==
    /\ pc[t] = "job" /\ ~Locking /\ work[t] < Job
    /\ work' = [work EXCEPT ![t] = @ + GeneratedRow]
    /\ UNCHANGED <<mainVars, pc, ops, holder>>

\* arg->pc.ops is what the options ask for; micbench-proto leaves it at zero.
EndJob(t) ==
    /\ pc[t] = "job" /\ work[t] = Job
    /\ ops' = IF option.prog = "proto" THEN ops ELSE [ops EXCEPT ![t] = JobOps]
    /\ Goto(t, "done")
    /\ UNCHANGED <<mainVars, work, holder>>

LockThread(t) == option.prog # "mem" /\ (Lock(t) \/ Unlock(t) \/ FenceRow(t) \/ EndJob(t))
-----------------------------------------------------------------------------
\* What main prints of the affinities given
Printed == {AffinityToString(ParseAffinity(arg)) : arg \in option.affinity}

Denotes(ranges) == UNION {ranges[k][1] .. ranges[k][2] : k \in DOMAIN ranges}

\* The affinities that micbench-lock prints are those it was given, bit by bit, as long
\* as they leave the last bit of the masks alone, and no node number is beyond an int.
AffinityPrinted ==
    option.prog = "lock" /\ main = "done" =>
        \A arg \in option.affinity :
            /\ Len(arg.cpu) < CpuSetSize /\ Len(arg.mem) < IntBits
            => \E p \in Printed :
                  /\ p.tid = arg.tid
                  /\ Denotes(p.cpus) = {k \in 0 .. Len(arg.cpu) - 1 : arg.cpu[k + 1] = 1}
                  /\ Denotes(p.nodes) = {k \in 0 .. Len(arg.mem) - 1 : arg.mem[k + 1] = 1}
                  /\ \A k \in 2 .. Len(p.cpus) : p.cpus[k - 1][2] + 1 < p.cpus[k][1]
=============================================================================
