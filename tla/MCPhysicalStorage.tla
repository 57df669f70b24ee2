-------------------------- MODULE MCPhysicalStorage --------------------------
(* Model values for checking PhysicalStorage with TLC. *)
EXTENDS PhysicalStorage

CONSTANTS t1, t2, s1, s2, s3, noThread

MCThreads == {t1, t2}
MCSegs == {s1, s2, s3}

=============================================================================
