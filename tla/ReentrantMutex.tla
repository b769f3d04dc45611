--------------------------- MODULE ReentrantMutex ---------------------------
(***************************************************************************)
(* The std::recursive_mutex behind System/ReentrantMutex, as a value: who  *)
(* owns it and how many times.  Lock() is a loop around try_lock(), so one *)
(* iteration of that loop is the atomic step the other modules take; a     *)
(* failed try_lock changes nothing and is a stuttering step.               *)
(***************************************************************************)
EXTENDS Naturals

CONSTANTS
  Threads,    (* the operating system threads *)
  NoThread    (* the owner of a free mutex    *)

ASSUME NoThreadAssumption == NoThread \notin Threads

MutexType == [owner : Threads \cup {NoThread}, depth : Nat]

FreeMutex == [owner |-> NoThread, depth |-> 0]

(* try_lock() returns true: the mutex is free or already mine. *)
TryLock(mx, t) == mx.owner \in {NoThread, t}

(* The mutex after a successful try_lock() of t. *)
Locked(mx, t) == [owner |-> t, depth |-> mx.depth + 1]

(* The mutex after one unlock() of its owner: free again only when every   *)
(* lock has been undone.                                                   *)
Unlocked(mx) ==
  IF mx.depth = 1 THEN FreeMutex ELSE [mx EXCEPT !.depth = @ - 1]

=============================================================================
