------------------------ MODULE MultipleReferencedData ------------------------
(***************************************************************************)
(* System/MultipleReferencedData.cpp: one object that carries its own      *)
(* mutex and the number of references made to it, and that the last        *)
(* ReleaseData deletes. A handle is one owner of a reference (a pointer    *)
(* kept somewhere). Threads act through the handles there are: a call      *)
(* reaches the object through a handle that is counted and that no other   *)
(* call is giving up, except that the keeper of an object nobody refers    *)
(* to, the one that made it or took its last reference with RemoveRef,     *)
(* may use it as long as it is alone.                                      *)
(***************************************************************************)
EXTENDS Naturals, FiniteSets, ReentrantMutex

CONSTANTS Handles, NoHandle

ASSUME HandlesAssumption == IsFiniteSet(Handles) /\ NoHandle \notin Handles

VARIABLES
  mutex, NbCurrentRef,
  alive,    (* the object has not been deleted                             *)
  held,     (* the handles at rest, outside any call                       *)
  pc, op,
  source,   (* the handle through which a call reaches the object          *)
  target,   (* the handle it adds a reference for, or gives up             *)
  tmp,      (* the count a call has read                                   *)
  counted,  (* auxiliary: the handles the count accounts for               *)
  kept      (* auxiliary: the count came to 0 without a ReleaseData        *)

object == <<mutex, NbCurrentRef, alive>>
locals == <<op, source, target>>
vars == <<object, held, pc, locals, tmp, counted, kept>>

Ops == {"AddRef", "RemoveRef", "IsStillUseful", "ReleaseData", "Init"}
Inside == {"read", "write", "test", "unlock", "unlockLast"}

Idle(t) == pc[t] = "idle"
Goto(t, label) == pc' = [pc EXCEPT ![t] = label]

(* The constructor: no reference yet. *)
Init ==
  /\ mutex = FreeMutex /\ NbCurrentRef = 0 /\ alive = TRUE
  /\ held = {} /\ counted = {} /\ kept = TRUE
  /\ pc = [t \in Threads |-> "idle"]
  /\ op = [t \in Threads |-> "Init"]
  /\ source = [t \in Threads |-> NoHandle]
  /\ target = [t \in Threads |-> NoHandle]
  /\ tmp = [t \in Threads |-> 0]

-------------------------------------------------------------------------------
(* The calls. g and h leave held for as long as the call lasts. *)

InUse(h) == \E t \in Threads : ~Idle(t) /\ h \in {source[t], target[t]}

Unreferenced == alive /\ held = {} /\ \A t \in Threads : Idle(t)

Call(t, what, g, h) ==
  /\ Idle(t)
  /\ op' = [op EXCEPT ![t] = what]
  /\ source' = [source EXCEPT ![t] = g]
  /\ target' = [target EXCEPT ![t] = h]
  /\ held' = held \ {g, h}
  /\ Goto(t, "lock")
  /\ UNCHANGED <<object, tmp, counted, kept>>

Through(g) == g \in held \/ (g = NoHandle /\ Unreferenced)

CallAddRef(t) ==
  \E g \in Handles \cup {NoHandle}, h \in Handles :
    /\ Through(g) /\ h \notin held /\ ~InUse(h)
    /\ Call(t, "AddRef", g, h)

CallIsStillUseful(t) ==
  \E g \in Handles \cup {NoHandle} : Through(g) /\ Call(t, "IsStillUseful", g, NoHandle)

(* ReleaseData on an object without references deletes it. *)
CallRelease(t) ==
  \E h \in Handles \cup {NoHandle} : Through(h) /\ Call(t, "ReleaseData", NoHandle, h)

CallRemoveRef(t) == \E h \in held : Call(t, "RemoveRef", NoHandle, h)

CallInit(t) == Unreferenced /\ Call(t, "Init", NoHandle, NoHandle)

-------------------------------------------------------------------------------
(* Names of the form Action_Bug are variants of Action with a bug someone  *)
(* could make there; no specification uses them.                           *)

(* Without the mutex. *)
Lock_NoTry(t) ==
  /\ pc[t] = "lock"
  /\ mutex' = Locked(mutex, t)
  /\ Goto(t, IF op[t] = "Init" THEN "write" ELSE "read")
  /\ UNCHANGED <<NbCurrentRef, alive, held, locals, tmp, counted, kept>>

(* SmartLocker SL_Myself *)
Lock(t) ==
  /\ pc[t] = "lock" /\ TryLock(mutex, t)
  /\ mutex' = Locked(mutex, t)
  /\ Goto(t, IF op[t] = "Init" THEN "write" ELSE "read")
  /\ UNCHANGED <<NbCurrentRef, alive, held, locals, tmp, counted, kept>>

Read(t) ==
  /\ pc[t] = "read"
  /\ tmp' = [tmp EXCEPT ![t] = NbCurrentRef]
  /\ Goto(t, IF op[t] = "IsStillUseful" THEN "unlock" ELSE "write")
  /\ UNCHANGED <<object, held, locals, counted, kept>>

(* The count goes below zero. *)
NewCount_Unguarded(what, n) ==
  CASE what = "AddRef" -> n + 1
    [] what \in {"RemoveRef", "ReleaseData"} -> n - 1
    [] OTHER -> 0

(* InternalAddRef, InternalRemoveRef and the assignment in Init. *)
NewCount(what, n) ==
  CASE what = "AddRef" -> n + 1
    [] what \in {"RemoveRef", "ReleaseData"} -> IF n > 0 THEN n - 1 ELSE 0
    [] OTHER -> 0

Write(t) ==
  /\ pc[t] = "write"
  /\ NbCurrentRef' = NewCount(op[t], tmp[t])
  /\ counted' = IF op[t] = "AddRef" THEN counted \cup {target[t]} ELSE counted \ {target[t]}
  /\ kept' = (op[t] \in {"RemoveRef", "Init"} \/ (op[t] # "AddRef" /\ kept))
  /\ Goto(t, IF op[t] = "ReleaseData" THEN "test" ELSE "unlock")
  /\ UNCHANGED <<mutex, alive, held, locals, tmp>>

(* Deleted with one reference left. *)
Test_OffByOne(t) ==
  /\ pc[t] = "test"
  /\ Goto(t, IF NbCurrentRef > 1 THEN "unlock" ELSE "unlockLast")
  /\ UNCHANGED <<object, held, locals, tmp, counted, kept>>

(* The object is never deleted. *)
Test_KeepsOne(t) ==
  /\ pc[t] = "test"
  /\ Goto(t, IF NbCurrentRef >= 0 THEN "unlock" ELSE "unlockLast")
  /\ UNCHANGED <<object, held, locals, tmp, counted, kept>>

(* InternalIsStillUseful() == false, in ReleaseData. *)
Test(t) ==
  /\ pc[t] = "test"
  /\ Goto(t, IF NbCurrentRef > 0 THEN "unlock" ELSE "unlockLast")
  /\ UNCHANGED <<object, held, locals, tmp, counted, kept>>

(* The end of SL_Myself. The handles of the call that still have their     *)
(* reference are at rest again.                                            *)
Unlock(t) ==
  /\ pc[t] = "unlock"
  /\ mutex' = Unlocked(mutex)
  /\ held' = held \cup ({source[t]} \ {NoHandle})
                  \cup (IF op[t] = "AddRef" THEN {target[t]} ELSE {})
  /\ Goto(t, "idle")
  /\ UNCHANGED <<NbCurrentRef, alive, locals, tmp, counted, kept>>

(* SL_Myself.Unlock(), and then the object goes, deleted or given to its   *)
(* methodForRelease.                                                       *)
UnlockLast(t) ==
  /\ pc[t] = "unlockLast"
  /\ mutex' = Unlocked(mutex)
  /\ Goto(t, "delete")
  /\ UNCHANGED <<NbCurrentRef, alive, held, locals, tmp, counted, kept>>

Delete(t) ==
  /\ pc[t] = "delete"
  /\ alive' = FALSE
  /\ Goto(t, "idle")
  /\ UNCHANGED <<mutex, NbCurrentRef, held, locals, tmp, counted, kept>>

Step(t) ==
  \/ CallAddRef(t) \/ CallIsStillUseful(t) \/ CallRelease(t) \/ CallRemoveRef(t) \/ CallInit(t)
  \/ Lock(t) \/ Read(t) \/ Write(t) \/ Test(t) \/ Unlock(t) \/ UnlockLast(t) \/ Delete(t)

Next == \E t \in Threads : Step(t)

Spec == Init /\ [][Next]_vars

-------------------------------------------------------------------------------
(* The type invariant. *)
TypeOK ==
  /\ mutex \in MutexType /\ NbCurrentRef \in Nat
  /\ alive \in BOOLEAN /\ kept \in BOOLEAN
  /\ held \subseteq Handles /\ counted \subseteq Handles
  /\ pc \in [Threads -> {"idle", "lock", "delete"} \cup Inside]
  /\ op \in [Threads -> Ops]
  /\ source \in [Threads -> Handles \cup {NoHandle}]
  /\ target \in [Threads -> Handles \cup {NoHandle}]
  /\ tmp \in [Threads -> Nat]

(* The number of references (MultipleReferencedData.h 83) is the number of *)
(* owners, whatever calls are under way: no increment or decrement is lost *)
(* between two threads.                                                    *)
CountIsExact == NbCurrentRef = Cardinality(counted)

(* As long as any handle is at rest, or any call still reaches the object  *)
(* through one, the object is there: ReleaseData deletes it only behind    *)
(* its last owner, once, and with nobody waiting for its mutex (.cpp 21).  *)
NoUseAfterDelete ==
  /\ ~alive => held = {} /\ \A t \in Threads : Idle(t)
  /\ \A t \in Threads : pc[t] = "delete" =>
       held = {} /\ \A u \in Threads \ {t} : Idle(u)

(* An object whose last reference was given up by ReleaseData does not     *)
(* stay behind undeleted.                                                  *)
NoLeak == Unreferenced => kept

===============================================================================
