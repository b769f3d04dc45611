----------------------- MODULE MCMultipleReferencedData -----------------------
(* Threads and handles are interchangeable model values. *)
EXTENDS MultipleReferencedData, TLC

CONSTANTS t1, t2, t3, h1, h2, h3

ThreeThreads == {t1, t2, t3}
ThreeHandles == {h1, h2, h3}

Symmetry == Permutations(ThreeThreads) \cup Permutations(ThreeHandles)

===============================================================================
