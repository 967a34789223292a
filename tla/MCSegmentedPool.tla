-------------------------- MODULE MCSegmentedPool --------------------------
EXTENDS SegmentedPool, TLC

CONSTANTS t1, t2, t3

TwoThreads == {t1, t2}
ThreeThreads == {t1, t2, t3}
Symmetry == Permutations(Threads)
=============================================================================
