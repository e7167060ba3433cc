---------------------------- MODULE MCBtreplay ----------------------------
(* Dumps small enough for TLC.                                            *)
EXTENDS Btreplay

Issue(w, s, b) ==
    [magic_ok |-> TRUE, issue |-> TRUE, write |-> w, sector |-> s, bytes |-> b]

Queued == [Issue(FALSE, 0, 512) EXCEPT !.issue = FALSE]
Broken == [Issue(FALSE, 0, 512) EXCEPT !.magic_ok = FALSE]

\* Two adjacent reads, a write far behind them, an event that is no issue and
\* a read back at the first place; and a dump that breaks off.
SmallDumps ==
    {<<Issue(FALSE, 0, 1024), Issue(FALSE, 2, 512), Issue(TRUE, 5, 1024), Queued,
       Issue(FALSE, 0, 512)>>,
     <<Issue(TRUE, 1, 512), Issue(TRUE, 2, 0), Broken, Issue(FALSE, 0, 512)>>,
     <<>>}

\* Two adjacent reads
AdjacentReads == {<<Issue(FALSE, 0, 1024), Issue(FALSE, 2, 512)>>}
=============================================================================
