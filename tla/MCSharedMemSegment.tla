-------------------------- MODULE MCSharedMemSegment --------------------------
(* Three processes, any of which may create, and two segments: one to race for  *)
(* and one that replaces it.                                                    *)
EXTENDS SharedMemSegment, TLC

Symmetry == Permutations(Objects) \cup Permutations(Segments)
===============================================================================
