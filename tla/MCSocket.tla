------------------------------- MODULE MCSocket -------------------------------
(* A listener and two sockets, which may be the two sides of a connection, with  *)
(* as many descriptors, so that numbers are used again and the table is full.    *)
EXTENDS Socket, TLC

Symmetry == Permutations(Objects) \cup Permutations(Ends)
===============================================================================
