------------------------------ MODULE MCSyncIo ------------------------------
(* Instances of the synchronous thread for TLC; a block is two bytes, the  *)
(* least that a system call can transfer in part.                          *)
EXTENDS SyncIo, TLC

Base ==
    [pattern |-> "SEQ", read |-> TRUE, write |-> FALSE, nr_files |-> 2,
     file_size |-> (0 :> 7 @@ 1 :> 4), blk_sz |-> 2, ofst_start |-> -1,
     ofst_end |-> -1, misalign |-> 0, multi |-> 2, seekdist_stride |-> 1,
     continue_on_error |-> FALSE]

\* One for each pattern and direction, with and without --continue-on-error
EachPattern ==
    {Base,
     [Base EXCEPT !.read = FALSE, !.write = TRUE, !.ofst_start = 1,
                  !.ofst_end = 2, !.continue_on_error = TRUE],
     [Base EXCEPT !.read = FALSE],
     [Base EXCEPT !.pattern = "RAND", !.read = FALSE, !.continue_on_error = TRUE],
     [Base EXCEPT !.pattern = "SEEKDIST", !.file_size = (0 :> 8 @@ 1 :> 6)],
     [Base EXCEPT !.pattern = "SEEKDIST", !.nr_files = 1, !.file_size = (0 :> 10),
                  !.seekdist_stride = 2, !.continue_on_error = TRUE],
     [Base EXCEPT !.pattern = "SEEKINCR"]}

\* Windows without a block, at the end of the shorter file and turned round, one that
\* is too large for that file, and one that is narrow against its offset
OddWindows ==
    {[Base EXCEPT !.ofst_start = 2, !.ofst_end = 2],
     [Base EXCEPT !.ofst_start = 2, !.ofst_end = 0, !.read = FALSE, !.write = TRUE],
     [Base EXCEPT !.ofst_start = 2, !.ofst_end = 0, !.pattern = "RAND"],
     [Base EXCEPT !.ofst_end = 3],
     [Base EXCEPT !.ofst_start = 32, !.ofst_end = 33, !.pattern = "RAND",
                  !.file_size = (0 :> 68 @@ 1 :> 66)]}

AllPatterns == EachPattern \cup OddWindows

\* A sequential read of misaligned blocks of whole files
Misaligned == {[Base EXCEPT !.file_size = (0 :> 6 @@ 1 :> 4), !.misalign = 1]}
=============================================================================
