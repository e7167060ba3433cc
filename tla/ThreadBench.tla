---------------------------- MODULE ThreadBench ----------------------------
(***************************************************************************)
(* The programs micbench-mem, micbench-lock and micbench-proto: the main   *)
(* thread of BenchMain with the threads of MemBench or of LockBench.       *)
(***************************************************************************)
EXTENDS MemBench, LockBench

vars == <<mainVars, pc, counters, memVars, holder>>

Init == MainInit /\ MemInit /\ LockInit

Main == MainStep /\ UNCHANGED <<memVars, holder>>
Barrier == Release /\ UNCHANGED <<memVars, holder>>
Failure == MainFails /\ UNCHANGED <<memVars, holder>>

Thread(t) == \/ MemThread(t) /\ UNCHANGED holder
             \/ LockThread(t) /\ UNCHANGED memVars

Clock(t) == option.prog = "mem" /\ Expire(t) /\ UNCHANGED holder

Next == \/ Main \/ Barrier \/ Failure
        \/ \E t \in Threads : Thread(t) \/ Clock(t)

\* Every thread is scheduled, the barrier opens and the clock advances.  That a lock
\* is fair is not assumed: the others have only so much to do.
Fairness ==
    /\ WF_vars(Main) /\ WF_vars(Barrier)
    /\ \A t \in Threads : WF_vars(Thread(t)) /\ WF_vars(Clock(t))

Spec == Init /\ [][Next]_vars /\ Fairness
-----------------------------------------------------------------------------
TypeOK ==
    /\ option \in Options
    /\ main \in {"parse", "create", "join"} \cup Ended
    /\ i \in 0 .. Multi /\ total \in Nat
    /\ pc \in [Threads -> {"none", "failed", "init", "shuffle", "load", "store1", "store2",
                           "store3", "store4", "test", "check", "evict", "barrier", "job",
                           "critical", "done", "gone"}]
    /\ ops \in [Threads -> Nat] /\ work \in [Threads -> Nat]
    /\ MemTypeOK
    /\ holder \in {0} \cup Threads

\* What the programs put out is the sum of what their threads have done, taken when
\* none of them works any more: the counters are written without synchronisation, by
\* formulas of their own, and only the joins order them.
ImplementsForkJoin == FJ!Spec

\* The programs end, if the threads can be created and do not share the region that
\* they shuffle: the barrier opens, no shuffle is retried for ever, no lock is kept.
Terminates ==
    /\ [](\A t \in Threads : pc[t] # "failed")
    /\ [](option.prog = "mem" /\ option.rand => option.local)
    => <>(main \in Ended)
=============================================================================
