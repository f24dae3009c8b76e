---------------------------- MODULE MCSemaphore -----------------------------
(* Instances of Semaphore for TLC.                                         *)
EXTENDS Semaphore, TLC

CONSTANTS t1, t2, t3, t4

MCThreads == {t1, t2, t3, t4}

Symmetry == Permutations(MCThreads)

=============================================================================
