--------------------------- MODULE SharedMemSegment ---------------------------
(* The System V shared segment (SharedMemSegment.cpp): objects of several        *)
(* processes create, open and close the segment of one key, each call of the     *)
(* kernel and each access to the flags in the segment a step, and processes die. *)
(* The processes are of one user.  An object that has a segment closes it before *)
(* it is used again.                                                             *)
EXTENDS Integers, FiniteSets

CONSTANTS
  Objects,     \* SharedMemSegment objects, each in a process of its own
  Segments,    \* the identifiers the kernel may give, none of them twice
  MaxTries,    \* how many times a writer looks at the flags (10)
  None,        \* no segment: -1 for shmget, NULL for an address
  Failed       \* the address shmat returns when it fails, which is not NULL

ASSUME SegmentAssumption ==
  /\ MaxTries \in Nat \ {0}
  /\ None \notin Segments /\ Failed \notin Segments /\ None # Failed /\ None \notin Objects

VARIABLES
  life,        \* of a segment: "unborn", "live", "marked" (to be removed) or "gone"
  flags,       \* AccessFlags, in the segment
  creator,     \* history: the object that created the segment ...
  granted,     \* ... and whether it let others write
  named,       \* the segment the key gives
  pc,          \* where each object is in its call
  call,        \* the call in progress or that succeeded: "create", or "share" when it
               \* grants write access to others, or Open to "read" or to "write"
  iSegMem, SegAddress,
  found,       \* iSharedMem of RemoveSharedMemSegment
  tries,       \* NbTry
  crashed      \* history: some process died with a segment

kernel == <<life, flags, creator, granted, named>>
object == <<iSegMem, SegAddress, found, tries>>
vars == <<kernel, pc, call, object, crashed>>

Init ==
  /\ life = [s \in Segments |-> "unborn"] /\ flags = [s \in Segments |-> {}]
  /\ creator = [s \in Segments |-> None] /\ granted = [s \in Segments |-> FALSE]
  /\ named = None
  /\ pc = [o \in Objects |-> "idle"] /\ call = [o \in Objects |-> "none"]
  /\ iSegMem = [o \in Objects |-> None] /\ SegAddress = [o \in Objects |-> None]
  /\ found = [o \in Objects |-> None] /\ tries = [o \in Objects |-> 0]
  /\ crashed = FALSE

-------------------------------------------------------------------------------
(* The kernel: a segment marked for removal leaves its key at once and goes      *)
(* away with the last process attached to it.                                    *)

Attached(s) == {o \in Objects : SegAddress[o] = s}
Exists(s) == s # None /\ life[s] \in {"live", "marked"}

Remove(s) ==
  /\ life' = [life EXCEPT ![s] = IF Attached(s) = {} THEN "gone" ELSE "marked"]
  /\ named' = IF named = s THEN None ELSE named

Detach(o) ==
  /\ SegAddress' = [SegAddress EXCEPT ![o] = None]
  /\ life' = [s \in Segments |->
                IF life[s] = "marked" /\ Attached(s) = {o} THEN "gone" ELSE life[s]]

Goto(o, from, to) ==
  /\ pc[o] = from /\ pc' = [pc EXCEPT ![o] = to]
  /\ call' = IF to = "idle" THEN [call EXCEPT ![o] = "none"] ELSE call

Calls(o, entry, kinds) ==
  /\ pc[o] = "idle" /\ pc' = [pc EXCEPT ![o] = entry]
  /\ \E k \in kinds : call' = [call EXCEPT ![o] = k]
  /\ UNCHANGED <<kernel, object, crashed>>

-------------------------------------------------------------------------------
(* CreateAndOpen.                                                                *)

CallCreate(o) == Calls(o, "create", {"create", "share"})

\* shmget with IPC_CREAT and IPC_EXCL; the kernel may have no segment left.
Create(o, from, otherwise) ==
  \/ /\ named = None
     /\ \E s \in Segments :
          /\ life[s] = "unborn"
          /\ life' = [life EXCEPT ![s] = "live"] /\ named' = s
          /\ creator' = [creator EXCEPT ![s] = o]
          /\ granted' = [granted EXCEPT ![s] = call[o] = "share"]
          /\ iSegMem' = [iSegMem EXCEPT ![o] = s]
     /\ Goto(o, from, "attach")
     /\ UNCHANGED <<flags, SegAddress, found, tries, crashed>>
  \/ /\ named # None \/ \A s \in Segments : life[s] # "unborn"
     /\ Goto(o, from, otherwise)
     /\ UNCHANGED <<kernel, object, crashed>>

CreateFirst(o) == Create(o, "create", "find")
CreateAgain(o) == Create(o, "again", "idle")

\* RemoveSharedMemSegment, from one call of the kernel to the next.
RemoveFind(o) ==
  /\ Goto(o, "find", IF named = None THEN "idle" ELSE "stat")
  /\ found' = [found EXCEPT ![o] = named]
  /\ UNCHANGED <<kernel, iSegMem, SegAddress, tries, crashed>>

RemoveStat(o) ==
  /\ pc[o] = "stat"
  /\ IF Exists(found[o]) /\ Attached(found[o]) = {}
     THEN Goto(o, "stat", "rmid") /\ UNCHANGED found
     ELSE Goto(o, "stat", "idle") /\ found' = [found EXCEPT ![o] = None]
  /\ UNCHANGED <<kernel, iSegMem, SegAddress, tries, crashed>>

RemoveIt(o) ==
  /\ Goto(o, "rmid", IF Exists(found[o]) THEN "again" ELSE "idle")
  /\ IF Exists(found[o]) THEN Remove(found[o]) ELSE UNCHANGED <<life, named>>
  /\ found' = [found EXCEPT ![o] = None]
  /\ UNCHANGED <<flags, creator, granted, iSegMem, SegAddress, tries, crashed>>

\* shmat, of both calls; its failure is compared with NULL and not seen.
Attach(o) ==
  /\ Goto(o, "attach", CASE call[o] \in {"create", "share"} -> "read only"
                         [] call[o] = "write" -> "wait"
                         [] OTHER -> "open")
  /\ SegAddress' = [SegAddress EXCEPT ![o] = IF Exists(iSegMem[o]) THEN iSegMem[o] ELSE Failed]
  /\ UNCHANGED <<kernel, iSegMem, found, tries, crashed>>

\* InitNewSharedMemSegment, one store after the other.
SetReadOnly(o) ==
  /\ Goto(o, "read only", "initialized")
  /\ SegAddress[o] # Failed
  /\ flags' = IF call[o] = "share" THEN flags ELSE [flags EXCEPT ![SegAddress[o]] = @ \cup {"ReadOnly"}]
  /\ UNCHANGED <<life, creator, granted, named, object, crashed>>

SetInitialized(o) ==
  /\ Goto(o, "initialized", "open")
  /\ flags' = [flags EXCEPT ![SegAddress[o]] = @ \cup {"Initialized"}]
  /\ UNCHANGED <<life, creator, granted, named, object, crashed>>

-------------------------------------------------------------------------------
(* Open and GetSharedMemSegmentAccess.                                           *)

CallOpen(o) == Calls(o, "lookup", {"read", "write"})

Lookup(o) ==
  /\ Goto(o, "lookup", IF named = None THEN "idle" ELSE "attach")
  /\ iSegMem' = [iSegMem EXCEPT ![o] = named]
  /\ UNCHANGED <<kernel, SegAddress, found, tries, crashed>>

\* Variant: the segment is taken for initialized.
WaitInitialized_Trusts(o) ==
  /\ SegAddress[o] # Failed
  /\ Goto(o, "wait", "check")
  /\ UNCHANGED <<kernel, object, crashed>>

\* A pass of the loop on NbTry; an access through a failed address kills the process.
WaitInitialized(o) ==
  /\ pc[o] = "wait" /\ SegAddress[o] # Failed
  /\ IF "Initialized" \in flags[SegAddress[o]]
     THEN Goto(o, "wait", "check") /\ tries' = [tries EXCEPT ![o] = 0]
     ELSE /\ tries' = [tries EXCEPT ![o] = (@ + 1) % MaxTries]
          /\ Goto(o, "wait", IF tries'[o] = 0 THEN "close" ELSE "wait")
  /\ UNCHANGED <<kernel, iSegMem, SegAddress, found, crashed>>

CheckReadOnly(o) ==
  /\ pc[o] = "check"
  /\ Goto(o, "check", IF "ReadOnly" \in flags[SegAddress[o]] THEN "close" ELSE "open")
  /\ UNCHANGED <<kernel, object, crashed>>

-------------------------------------------------------------------------------
(* Close, by the caller, by the destructor or by an Open that gives up: whoever   *)
(* closes marks the segment for removal.                                         *)

CallClose(o) ==
  /\ Goto(o, "open", "close")
  /\ UNCHANGED <<kernel, object, crashed>>

\* Variant: the segment is removed only when nobody is attached to it.
CloseRemove_WhenUnused(o) ==
  /\ Goto(o, "close", "detach")
  /\ IF Exists(iSegMem[o]) /\ Attached(iSegMem[o]) = {} THEN Remove(iSegMem[o])
     ELSE UNCHANGED <<life, named>>
  /\ UNCHANGED <<flags, creator, granted, object, crashed>>

CloseRemove(o) ==
  /\ Goto(o, "close", "detach")
  /\ IF Exists(iSegMem[o]) THEN Remove(iSegMem[o]) ELSE UNCHANGED <<life, named>>
  /\ UNCHANGED <<flags, creator, granted, object, crashed>>

CloseDetach(o) ==
  /\ Goto(o, "detach", "idle")
  /\ Detach(o)
  /\ iSegMem' = [iSegMem EXCEPT ![o] = None]
  /\ UNCHANGED <<flags, creator, granted, named, found, tries, crashed>>

\* The process dies, of itself or of an access through the address of a failed
\* shmat; the kernel detaches it, and another process takes its place.
Crash(o) ==
  /\ pc[o] # "idle"
  /\ Goto(o, pc[o], "idle")
  /\ Detach(o)
  /\ iSegMem' = [iSegMem EXCEPT ![o] = None]
  /\ found' = [found EXCEPT ![o] = None] /\ tries' = [tries EXCEPT ![o] = 0]
  /\ crashed' = TRUE
  /\ UNCHANGED <<flags, creator, granted, named>>

Step(o) ==
  \/ CallCreate(o) \/ CreateFirst(o) \/ RemoveFind(o) \/ RemoveStat(o) \/ RemoveIt(o)
  \/ CreateAgain(o) \/ Attach(o) \/ SetReadOnly(o) \/ SetInitialized(o)
  \/ CallOpen(o) \/ Lookup(o) \/ WaitInitialized(o) \/ CheckReadOnly(o)
  \/ CallClose(o) \/ CloseRemove(o) \/ CloseDetach(o)
  \/ Crash(o)

Next == \E o \in Objects : Step(o)
Spec == Init /\ [][Next]_vars

-------------------------------------------------------------------------------
(* Properties.                                                                   *)

(* Nobody ever has write access, from Open, to a segment whose creator did not    *)
(* grant it, however the flags' stores and the looks at them are interleaved.     *)
AccessIsGranted ==
  \A o \in Objects :
    (pc[o] = "open" /\ call[o] = "write" /\ SegAddress[o] \in Segments) => granted[SegAddress[o]]

(* While no process died a segment never stays behind with nobody to remove it:   *)
(* a segment that is not marked is held by its creator, attached to it or about   *)
(* to be.  (The kernel would keep it after the last process.)                     *)
NoOrphanSegment ==
  \A s \in Segments :
    ~crashed /\ life[s] = "live" =>
      \E o \in Objects : /\ o = creator[s] /\ iSegMem[o] = s
                         /\ SegAddress[o] = s \/ pc[o] = "attach"
===============================================================================
