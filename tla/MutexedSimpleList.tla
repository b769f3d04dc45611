-------------------------- MODULE MutexedSimpleList --------------------------
(***************************************************************************)
(* System/MutexedSimpleList.h under several threads: AddTail to a list     *)
(* through a SmartLocker, and operator=, which holds the locks of two      *)
(* lists at once. Each list is its recursive mutex and its contents; a     *)
(* copy moves one element a step, under the locks the code has taken.      *)
(***************************************************************************)
EXTENDS Naturals, Sequences, FiniteSets, ReentrantMutex

CONSTANTS
  Lists, Elements,
  Assigns,    (* the pairs <<to, from>> that some thread assigns           *)
  MaxCalls,   (* bound: the number of calls of each thread                 *)
  Timed       (* the threads that AddTail through a SmartLocker with a     *)
              (* timeout                                                   *)

ASSUME AssignsAssumption == Assigns \subseteq Lists \X Lists
ASSUME CallsBoundAssumption == MaxCalls \in Nat /\ Timed \subseteq Threads

VARIABLES
  mutex, contents,
  pc, calls,     (* calls: how many each thread has made                   *)
  to, from,      (* the lists of its call; to = from when it is AddTail's  *)
  copying,       (* the call is an operator=                               *)
  LockCount,     (* of the SmartLocker of to                               *)
  next,          (* the position of the copy in from                       *)
  expired,       (* auxiliary: a timed lock has expired                    *)
  snapshot       (* auxiliary: what from held when both locks were taken   *)

locals == <<calls, to, from, copying>>
ghosts == <<expired, snapshot>>
sharedVars == <<mutex, contents, pc, locals, LockCount, next, ghosts>>

Goto(t, label) == pc' = [pc EXCEPT ![t] = label]

SharedInit ==
  /\ mutex = [l \in Lists |-> FreeMutex]
  /\ contents = [l \in Lists |-> <<>>]
  /\ pc = [t \in Threads |-> "idle"]
  /\ calls = [t \in Threads |-> 0]
  /\ to \in {[t \in Threads |-> l] : l \in Lists} /\ from = to
  /\ copying = [t \in Threads |-> FALSE]
  /\ LockCount = [t \in Threads |-> 0]
  /\ next = [t \in Threads |-> 1]
  /\ expired = FALSE
  /\ snapshot = [t \in Threads |-> <<>>]

Call(t, l, k, isCopy, label) ==
  /\ pc[t] = "idle" /\ calls[t] < MaxCalls
  /\ calls' = [calls EXCEPT ![t] = @ + 1]
  /\ to' = [to EXCEPT ![t] = l] /\ from' = [from EXCEPT ![t] = k]
  /\ copying' = [copying EXCEPT ![t] = isCopy]
  /\ Goto(t, label)
  /\ UNCHANGED <<mutex, contents, LockCount, next, ghosts>>

AddTail(t) == \E l \in Lists : Call(t, l, l, FALSE, "lockTo")

AssignList(t) == \E pair \in Assigns : Call(t, pair[1], pair[2], TRUE, "lockFrom")

-------------------------------------------------------------------------------
(* Names of the form Action_Bug are variants of Action with a bug someone  *)
(* could make there; no specification uses them.                           *)

(* The list to copy is not locked. *)
LockFrom_Missing(t) ==
  /\ pc[t] = "lockFrom"
  /\ Goto(t, "lockTo")
  /\ UNCHANGED <<mutex, contents, locals, LockCount, next, ghosts>>

(* SmartLocker SL_ToCopy(ToCopy) *)
LockFrom(t) ==
  /\ pc[t] = "lockFrom" /\ TryLock(mutex[from[t]], t)
  /\ mutex' = [mutex EXCEPT ![from[t]] = Locked(@, t)]
  /\ Goto(t, "lockTo")
  /\ UNCHANGED <<contents, locals, LockCount, next, ghosts>>

(* SmartLocker SL_Myself, of this list. *)
LockTo(t) ==
  /\ pc[t] = "lockTo" /\ TryLock(mutex[to[t]], t)
  /\ mutex' = [mutex EXCEPT ![to[t]] = Locked(@, t)]
  /\ LockCount' = [LockCount EXCEPT ![t] = 1]
  /\ snapshot' = [snapshot EXCEPT ![t] = contents[from[t]]]
  /\ Goto(t, IF copying[t] THEN "init" ELSE "append")
  /\ UNCHANGED <<contents, locals, next, expired>>

(* The lock times out. SmartLocker::Lock leaves LockCount alone and        *)
(* returns true all the same.                                              *)
LockTimesOut(t) ==
  /\ t \in Timed /\ ~copying[t]
  /\ pc[t] = "lockTo" /\ ~TryLock(mutex[to[t]], t)
  /\ expired' = TRUE
  /\ Goto(t, "append")
  /\ UNCHANGED <<mutex, contents, locals, LockCount, next, snapshot>>

Append_(t) ==
  /\ pc[t] = "append"
  /\ \E v \in Elements : contents' = [contents EXCEPT ![to[t]] = Append(@, v)]
  /\ Goto(t, "unlockTo")
  /\ UNCHANGED <<mutex, locals, LockCount, next, ghosts>>

(* SimpleList::Init: this list forgets what it had. ToCopy.First().        *)
Forget(t) ==
  /\ pc[t] = "init"
  /\ contents' = [contents EXCEPT ![to[t]] = <<>>]
  /\ next' = [next EXCEPT ![t] = 1]
  /\ Goto(t, "copy")
  /\ UNCHANGED <<mutex, locals, LockCount, ghosts>>

(* The last element is not copied. *)
Copy_MissesLast(t) ==
  /\ pc[t] = "copy"
  /\ IF next[t] < Len(contents[from[t]])
     THEN /\ contents' = [contents EXCEPT ![to[t]] = Append(@, contents[from[t]][next[t]])]
          /\ next' = [next EXCEPT ![t] = @ + 1]
          /\ UNCHANGED pc
     ELSE Goto(t, "unlockTo") /\ UNCHANGED <<contents, next>>
  /\ UNCHANGED <<mutex, locals, LockCount, ghosts>>

Copy(t) ==
  /\ pc[t] = "copy"
  /\ IF next[t] <= Len(contents[from[t]])
     THEN /\ contents' = [contents EXCEPT ![to[t]] = Append(@, contents[from[t]][next[t]])]
          /\ next' = [next EXCEPT ![t] = @ + 1]
          /\ UNCHANGED pc
     ELSE Goto(t, "unlockTo") /\ UNCHANGED <<contents, next>>
  /\ UNCHANGED <<mutex, locals, LockCount, ghosts>>

(* The mutex is given back without a look at LockCount. *)
UnlockTo_Uncounted(t) ==
  /\ pc[t] = "unlockTo"
  /\ mutex' = [mutex EXCEPT ![to[t]] = Unlocked(@)]
  /\ LockCount' = [LockCount EXCEPT ![t] = 0]
  /\ Goto(t, IF copying[t] THEN "unlockFrom" ELSE "idle")
  /\ UNCHANGED <<contents, locals, next, ghosts>>

(* The mutex is not given back. *)
UnlockTo_Missing(t) ==
  /\ pc[t] = "unlockTo"
  /\ LockCount' = [LockCount EXCEPT ![t] = 0]
  /\ Goto(t, IF copying[t] THEN "unlockFrom" ELSE "idle")
  /\ UNCHANGED <<mutex, contents, locals, next, ghosts>>

(* ~SmartLocker of this list gives back what it counted... *)
UnlockTo(t) ==
  /\ pc[t] = "unlockTo"
  /\ mutex' = IF LockCount[t] = 0 THEN mutex ELSE [mutex EXCEPT ![to[t]] = Unlocked(@)]
  /\ LockCount' = [LockCount EXCEPT ![t] = 0]
  /\ Goto(t, IF copying[t] THEN "unlockFrom" ELSE "idle")
  /\ UNCHANGED <<contents, locals, next, ghosts>>

(* ...and then that of ToCopy. *)
UnlockFrom(t) ==
  /\ pc[t] = "unlockFrom"
  /\ mutex' = [mutex EXCEPT ![from[t]] = Unlocked(@)]
  /\ Goto(t, "idle")
  /\ UNCHANGED <<contents, locals, LockCount, next, ghosts>>

Advance(t) ==
  \/ LockFrom(t) \/ LockTo(t) \/ LockTimesOut(t) \/ Append_(t) \/ Forget(t) \/ Copy(t)
  \/ UnlockTo(t) \/ UnlockFrom(t)

SharedNext == \E t \in Threads : AddTail(t) \/ AssignList(t) \/ Advance(t)

SharedSpec == SharedInit /\ [][SharedNext]_sharedVars

(* Every thread that can run does; as each makes finitely many calls, no   *)
(* polling of a try_lock loses for ever.                                   *)
SharedFairSpec == SharedSpec /\ \A t \in Threads : WF_sharedVars(Advance(t))

-------------------------------------------------------------------------------
Writing(t) == pc[t] \in {"append", "init", "copy", "unlockTo"}
Reading(t) == copying[t] /\ pc[t] \in {"lockTo", "init", "copy", "unlockTo", "unlockFrom"}

(* A list that one thread writes is neither written nor read by another:   *)
(* MutexedSimpleList.h 24, "The mutex is used to lock and unlock the       *)
(* access to the simple list."                                             *)
Exclusive ==
  \A t, u \in Threads : t # u /\ Writing(t) =>
    /\ Writing(u) => to[t] # to[u]
    /\ Reading(u) => to[t] # from[u]

(* So it is as long as no timed lock expires. *)
AccessIsExclusive == expired \/ Exclusive

(* MutexedSimpleList.h 189-191: operator= builds a copy of the list, as it *)
(* is when its lock is held (193-208).                                     *)
CopyIsExact ==
  \A t \in Threads :
    copying[t] /\ pc[t] = "unlockTo" /\ ~expired => contents[to[t]] = snapshot[t]

(* Once every thread is idle every mutex is free (LockManagement.cpp       *)
(* 46-57).                                                                 *)
LocksAreReturned ==
  (\A t \in Threads : pc[t] = "idle") => \A l \in Lists : mutex[l] = FreeMutex

(* Every call returns. *)
CallsReturn == \A t \in Threads : (pc[t] # "idle") ~> (pc[t] = "idle")

==============================================================================
