------------------------------ MODULE ForkJoin ------------------------------
(***************************************************************************)
(* What the multi-threaded benchmarks of micbench promise of their         *)
(* results, whatever the threads do: a result is the work of all the       *)
(* workers, taken when none of them works any more; a benchmark that is    *)
(* broken off gives none.                                                  *)
(***************************************************************************)
EXTENDS Integers, FiniteSetsExt

VARIABLES
    phase,   \* "run", then "reported" or "aborted"
    live,    \* the workers that may still work
    work,    \* what each worker has done
    result   \* what is reported

vars == <<phase, live, work, result>>

\* The sum of a function over its domain
SumOf(f) == MapThenSumSet(LAMBDA x : f[x], DOMAIN f)

Init ==
    /\ phase = "run"
    /\ live = DOMAIN work
    /\ work = [w \in DOMAIN work |-> 0]
    /\ result = 0

\* A step of one worker, of any amount
Work(w) ==
    /\ phase = "run" /\ w \in live
    /\ work'[w] >= work[w]
    /\ work' = [work EXCEPT ![w] = work'[w]]
    /\ UNCHANGED <<phase, live, result>>

Finish(w) ==
    /\ phase = "run" /\ w \in live
    /\ live' = live \ {w}
    /\ UNCHANGED <<phase, work, result>>

Report ==
    /\ phase = "run" /\ live = {}
    /\ phase' = "reported"
    /\ result' = SumOf(work)
    /\ UNCHANGED <<live, work>>

Abort ==
    /\ phase = "run"
    /\ phase' = "aborted"
    /\ live' = {}
    /\ UNCHANGED <<work, result>>

Next == (\E w \in live : Work(w) \/ Finish(w)) \/ Report \/ Abort

Spec == Init /\ [][Next]_vars
=============================================================================
