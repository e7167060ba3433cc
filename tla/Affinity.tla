------------------------------ MODULE Affinity ------------------------------
(***************************************************************************)
(* Affinities: the bitmaps of the option -a, the masks that                *)
(* mb_parse_affinity makes of them, and the ranges that                    *)
(* mb_affinity_to_string prints.  A bitmap is a sequence of 0s and 1s, a   *)
(* mask the set of the bits that are set.                                  *)
(***************************************************************************)
EXTENDS Integers, Sequences

CONSTANTS
    CpuSetSize,   \* bits of a cpu_set_t (1024)
    IntBits,      \* bits of an int (32)
    LongBits,     \* bits of the unsigned long nodemask (64)
    Online        \* the CPUs of the machine

ASSUME AffinityAssumption ==
    /\ CpuSetSize \in Nat \ {0}
    /\ IntBits \in Nat \ {0} /\ LongBits \in Nat /\ LongBits >= IntBits
    /\ Online # {} /\ Online \subseteq 0 .. CpuSetSize - 1

\* Mutant of Ones: the first digit is bit 1.
OnesFromOne(bitmap) == {k \in 1 .. Len(bitmap) : bitmap[k] = 1}

Ones(bitmap) == {k \in 0 .. Len(bitmap) - 1 : bitmap[k + 1] = 1}

\* nodemask |= (1 << idx): an int, shifted by idx modulo its width as the processor
\* does it, and widened with its sign
NodeBits(idx) ==
    LET b == idx % IntBits
    IN  IF b = IntBits - 1 THEN b .. LongBits - 1 ELSE {b}

\* mb_parse_affinity of a string `tid:cpus:nodes'.  CPU_SET ignores a bit that
\* a cpu_set_t does not have.
ParseAffinity(arg) ==
    [tid |-> arg.tid,
     cpumask |-> Ones(arg.cpu) \cap 0 .. CpuSetSize - 1,
     nodemask |-> UNION {NodeBits(idx) : idx \in Ones(arg.mem)}]

\* External: sched_setaffinity, whose result nobody looks at.  A mask without
\* a CPU of the machine is refused.
SetAffinity(cpumask) == IF cpumask \cap Online = {} THEN Online ELSE cpumask \cap Online

\* Mutant of BitsToString: start_idx is not reset after a range.
BitsToStringNoReset(mask, nbits) ==
    LET scan[n \in 0 .. nbits] ==
          IF n = 0
          THEN [start |-> -1, out |-> <<>>]
          ELSE LET s == scan[n - 1]
                   b == n - 1
               IN  IF s.start < 0
                   THEN [s EXCEPT !.start = IF b \in mask THEN b ELSE -1]
                   ELSE IF b \in mask
                        THEN s
                        ELSE [s EXCEPT !.out = Append(s.out, <<s.start, b - 1>>)]
    IN  scan[nbits].out

\* __mb_bits_to_string: scan the bits from the lowest, with start_idx < 0
\* outside of a run of ones; a run is put out at the first zero after it.
BitsToString(mask, nbits) ==
    LET scan[n \in 0 .. nbits] ==
          IF n = 0
          THEN [start |-> -1, out |-> <<>>]
          ELSE LET s == scan[n - 1]
                   b == n - 1
               IN  IF s.start < 0
                   THEN [s EXCEPT !.start = IF b \in mask THEN b ELSE -1]
                   ELSE IF b \in mask
                        THEN s
                        ELSE [start |-> -1, out |-> Append(s.out, <<s.start, b - 1>>)]
    IN  scan[nbits].out

\* mb_affinity_to_string; the nodes are left out when there are none.
AffinityToString(aff) ==
    [tid |-> aff.tid,
     cpus |-> BitsToString(aff.cpumask, CpuSetSize),
     nodes |-> IF aff.nodemask = {} THEN <<>> ELSE BitsToString(aff.nodemask, LongBits)]
=============================================================================
