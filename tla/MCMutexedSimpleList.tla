------------------------- MODULE MCMutexedSimpleList -------------------------
(* Three threads, so that one waits for each of two lists. The symmetry of *)
(* the threads is not used: a run checks liveness, and one thread is timed. *)
EXTENDS MutexedSimpleList

CONSTANTS t1, t2, t3, la, lb, v1

OneThread    == {t1}
ThreeThreads == {t1, t2, t3}
TwoLists     == {la, lb}
OneValue     == {v1}

OneWay   == {<<la, lb>>}

==============================================================================
