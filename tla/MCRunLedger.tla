---------------------------- MODULE MCRunLedger ----------------------------
(* Small instances of RunLedger for TLC. *)
EXTENDS RunLedger, TLC

CONSTANTS t1, t2, t3

MCThreeThreads == {t1, t2, t3}
MCSymmetry == Permutations(Threads)
=============================================================================
