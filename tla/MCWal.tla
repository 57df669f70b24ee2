-------------------------------- MODULE MCWal --------------------------------
(* Model values and bounds for checking Wal with TLC. *)
EXTENDS Wal

CONSTANTS p1, p2, t1, t2

MCPages == {p1, p2}
MCTxns == {t1, t2}
MCVals == {0, 1}

\* Transaction ids and page addresses are interchangeable.
MCSymmetry == Permutations(MCPages) \cup Permutations(MCTxns)
=============================================================================
