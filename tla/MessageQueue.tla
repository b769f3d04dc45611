----------------------------- MODULE MessageQueue -----------------------------
(***************************************************************************)
(* Thread's message queue: SendMessage, GetMessage and WaitAndGetMessage   *)
(* (System/Thread.cpp) over a MutexedSimpleList, down to the stores that   *)
(* SimpleList makes on its cells, with the SmartLocker each call builds    *)
(* and destroys.  Every step is what one thread does between two points    *)
(* where another thread could run.                                         *)
(***************************************************************************)
EXTENDS Sequences, FiniteSets, ReentrantMutex

CONSTANTS
  Cells,     (* the list cells that operator new can hand out; the bound *)
  NULL,      (* the null pointer                                         *)
  Msgs,      (* the messages                                             *)
  NoMsg      (* what a message variable holds when nothing was received  *)

ASSUME CellsAssumption == NULL \notin Cells
ASSUME MsgsAssumption  == NoMsg \notin Msgs

Pointers == Cells \cup {NULL}
Values   == Msgs \cup {NoMsg}

VARIABLES
  mutex,             (* MutexedSimpleList::mutex                        *)
  head, tail, NumberOfElements,       (* the fields of SimpleList        *)
  NextElement, ElementContainer,      (* the fields of each cell         *)
  free,              (* the cells that are not allocated                *)
  pc,                (* where each thread is in the call it makes       *)
  op,                (* the call each thread makes                      *)
  LockCount,         (* the LockCount of the call's SmartLocker         *)
  arg,               (* the message SendMessage was called with         *)
  tmp,               (* Add's tmp, ExtractFirst's elt                   *)
  result,            (* what the last receive of each thread gave       *)
  chain              (* auxiliary: the cells of the list, in order      *)

listVars   == <<head, tail, NumberOfElements, NextElement, ElementContainer,
                free, chain>>
threadVars == <<pc, op, LockCount, arg, tmp, result>>
vars       == <<mutex, listVars, threadVars>>

(* "get" is GetMessage, "wait" WaitAndGetMessage with DelayMax = 0 and     *)
(* "timed" WaitAndGetMessage with a delay.                                 *)
Receives == {"get", "wait", "timed"}

(* The points at which the call's SmartLocker holds the mutex. *)
Holding == {"alloc", "link", "tail", "count", "check", "extract", "uncount",
            "release", "unlock"}
Labels  == {"idle", "lock", "retry"} \cup Holding

Goto(t, label) == pc' = [pc EXCEPT ![t] = label]

-------------------------------------------------------------------------------
(* SimpleList::Init, and no thread in a call. *)
Init ==
  /\ mutex = FreeMutex
  /\ head = NULL /\ tail = NULL /\ NumberOfElements = 0
  /\ NextElement = [c \in Cells |-> NULL]
  /\ ElementContainer = [c \in Cells |-> NoMsg]
  /\ free = Cells
  /\ pc = [t \in Threads |-> "idle"]
  /\ op = [t \in Threads |-> "get"]
  /\ LockCount = [t \in Threads |-> 0]
  /\ arg = [t \in Threads |-> NoMsg]
  /\ tmp = [t \in Threads |-> NULL]
  /\ result = [t \in Threads |-> NoMsg]
  /\ chain = <<>>

SendMessage(t, m) ==
  /\ pc[t] = "idle"
  /\ op' = [op EXCEPT ![t] = "send"]
  /\ arg' = [arg EXCEPT ![t] = m]
  /\ Goto(t, "lock")
  /\ UNCHANGED <<mutex, listVars, LockCount, tmp, result>>

(* GetMessage and the two forms of WaitAndGetMessage. *)
Receive(t, kind) ==
  /\ pc[t] = "idle"
  /\ op' = [op EXCEPT ![t] = kind]
  /\ result' = [result EXCEPT ![t] = NoMsg]
  /\ Goto(t, "lock")
  /\ UNCHANGED <<mutex, listVars, LockCount, arg, tmp>>

-------------------------------------------------------------------------------
(* Names of the form Action_Bug are variants of Action with a bug someone  *)
(* could make there; no specification uses them.                           *)

(* SmartLocker::Lock -> MutexedSimpleList::Lock -> ReentrantMutex::Lock(0). *)
LockAcquire(t) ==
  /\ pc[t] = "lock"
  /\ TryLock(mutex, t)
  /\ mutex' = Locked(mutex, t)
  /\ LockCount' = [LockCount EXCEPT ![t] = @ + 1]
  /\ Goto(t, IF op[t] = "send" THEN "alloc" ELSE "check")
  /\ UNCHANGED <<listVars, op, arg, tmp, result>>

(* SmartLocker::Unlock, or its destructor: the call returns, except a      *)
(* WaitAndGetMessage that has found nothing.                               *)
LockRelease(t) ==
  /\ pc[t] = "unlock"
  /\ mutex' = Unlocked(mutex)
  /\ LockCount' = [LockCount EXCEPT ![t] = @ - 1]
  /\ Goto(t, IF op[t] \in {"wait", "timed"} /\ result[t] = NoMsg
             THEN "retry" ELSE "idle")
  /\ arg' = [arg EXCEPT ![t] = NoMsg]
  /\ tmp' = [tmp EXCEPT ![t] = NULL]
  /\ UNCHANGED <<listVars, op, result>>

(* WaitAndGetMessage after Sleep(10). *)
Retry(t) ==
  /\ pc[t] = "retry"
  /\ Goto(t, "lock")
  /\ UNCHANGED <<mutex, listVars, op, LockCount, arg, tmp, result>>

(* CountWaitedTime.Get() >= DelayMax: WaitAndGetMessage returns false. *)
TimeOut(t) ==
  /\ pc[t] = "retry"
  /\ op[t] = "timed"
  /\ Goto(t, "idle")
  /\ UNCHANGED <<mutex, listVars, op, LockCount, arg, tmp, result>>

-------------------------------------------------------------------------------
(* SimpleList::Add, called through AddTail. *)

(* GetNewSimpleListElement and the copy of Val into the new cell. *)
Allocate(t) ==
  /\ pc[t] = "alloc"
  /\ \E c \in free :
       /\ free' = free \ {c}
       /\ tmp' = [tmp EXCEPT ![t] = c]
       /\ ElementContainer' = [ElementContainer EXCEPT ![c] = arg[t]]
       /\ NextElement' = [NextElement EXCEPT ![c] = NULL]
  /\ Goto(t, "link")
  /\ UNCHANGED <<mutex, head, tail, NumberOfElements, chain,
                 op, LockCount, arg, result>>

(* No memory for the cell: Add returns false, which SendMessage ignores,   *)
(* or operator new throws; the destructor of the SmartLocker unlocks.      *)
AllocateFails(t) ==
  /\ pc[t] = "alloc"
  /\ free = {}
  /\ Goto(t, "unlock")
  /\ UNCHANGED <<mutex, listVars, op, LockCount, arg, tmp, result>>

(* Add puts the new cell in front. *)
Link_AtHead(t) ==
  /\ pc[t] = "link"
  /\ head' = tmp[t]
  /\ NextElement' = [NextElement EXCEPT ![tmp[t]] = head]
  /\ chain' = <<tmp[t]>> \o chain
  /\ Goto(t, "tail")
  /\ UNCHANGED <<mutex, tail, NumberOfElements, ElementContainer, free,
                 op, LockCount, arg, tmp, result>>

(* The store that makes the cell reachable: head = tmp on an empty list,   *)
(* tail->NextElement = tmp otherwise.                                      *)
Link(t) ==
  /\ pc[t] = "link"
  /\ \/ /\ head = NULL
        /\ head' = tmp[t]
        /\ UNCHANGED NextElement
     \/ /\ head # NULL
        /\ NextElement' = [NextElement EXCEPT ![tail] = tmp[t]]
        /\ UNCHANGED head
  /\ chain' = Append(chain, tmp[t])
  /\ Goto(t, "tail")
  /\ UNCHANGED <<mutex, tail, NumberOfElements, ElementContainer, free,
                 op, LockCount, arg, tmp, result>>

(* tail = tmp *)
SetTail(t) ==
  /\ pc[t] = "tail"
  /\ tail' = tmp[t]
  /\ Goto(t, "count")
  /\ UNCHANGED <<mutex, head, NumberOfElements, NextElement, ElementContainer,
                 free, chain, op, LockCount, arg, tmp, result>>

(* NumberOfElements++ *)
CountUp(t) ==
  /\ pc[t] = "count"
  /\ NumberOfElements' = NumberOfElements + 1
  /\ Goto(t, "unlock")
  /\ UNCHANGED <<mutex, head, tail, NextElement, ElementContainer, free, chain,
                 op, LockCount, arg, tmp, result>>

-------------------------------------------------------------------------------
(* The last message stays in the list. *)
Check_OffByOne(t) ==
  /\ pc[t] = "check"
  /\ Goto(t, IF NumberOfElements > 1 THEN "extract" ELSE "unlock")
  /\ UNCHANGED <<mutex, listVars, op, LockCount, arg, tmp, result>>

(* The mutex is kept while waiting for a message. *)
Check_KeepsLock(t) ==
  /\ pc[t] = "check"
  /\ NumberOfElements # 0
  /\ Goto(t, "extract")
  /\ UNCHANGED <<mutex, listVars, op, LockCount, arg, tmp, result>>

(* GetNumberOfElements() != 0, the test that guards every ExtractFirst. *)
Check(t) ==
  /\ pc[t] = "check"
  /\ Goto(t, IF NumberOfElements # 0 THEN "extract" ELSE "unlock")
  /\ UNCHANGED <<mutex, listVars, op, LockCount, arg, tmp, result>>

(* ExtractFirst does not clear tail with the last cell. *)
Unlink_KeepsTail(t) ==
  /\ pc[t] = "extract"
  /\ head # NULL
  /\ tmp' = [tmp EXCEPT ![t] = head]
  /\ head' = NextElement[head]
  /\ chain' = Tail(chain)
  /\ Goto(t, "uncount")
  /\ UNCHANGED <<mutex, tail, NumberOfElements, NextElement, ElementContainer,
                 free, op, LockCount, arg, result>>

(* ExtractFirst: elt = head leaves the list. *)
Unlink(t) ==
  /\ pc[t] = "extract"
  /\ head # NULL
  /\ tmp' = [tmp EXCEPT ![t] = head]
  /\ \/ head = tail /\ head' = NULL /\ tail' = NULL
     \/ head # tail /\ head' = NextElement[head] /\ UNCHANGED tail
  /\ chain' = Tail(chain)
  /\ Goto(t, "uncount")
  /\ UNCHANGED <<mutex, NumberOfElements, NextElement, ElementContainer, free,
                 op, LockCount, arg, result>>

(* The element is counted out twice. *)
CountDown_Twice(t) ==
  /\ pc[t] = "uncount"
  /\ NumberOfElements' = NumberOfElements - 2
  /\ Goto(t, "release")
  /\ UNCHANGED <<mutex, head, tail, NextElement, ElementContainer, free, chain,
                 op, LockCount, arg, tmp, result>>

(* NumberOfElements-- *)
CountDown(t) ==
  /\ pc[t] = "uncount"
  /\ NumberOfElements' = NumberOfElements - 1
  /\ Goto(t, "release")
  /\ UNCHANGED <<mutex, head, tail, NextElement, ElementContainer, free, chain,
                 op, LockCount, arg, tmp, result>>

(* The cell is never given back. *)
ReleaseElement_Leaks(t) ==
  /\ pc[t] = "release"
  /\ result' = [result EXCEPT ![t] = ElementContainer[tmp[t]]]
  /\ Goto(t, "unlock")
  /\ UNCHANGED <<mutex, listVars, op, LockCount, arg, tmp>>

(* The message is copied out and the cell deleted. *)
ReleaseElement(t) ==
  /\ pc[t] = "release"
  /\ result' = [result EXCEPT ![t] = ElementContainer[tmp[t]]]
  /\ free' = free \cup {tmp[t]}
  /\ ElementContainer' = [ElementContainer EXCEPT ![tmp[t]] = NoMsg]
  /\ NextElement' = [NextElement EXCEPT ![tmp[t]] = NULL]
  /\ Goto(t, "unlock")
  /\ UNCHANGED <<mutex, head, tail, NumberOfElements, chain,
                 op, LockCount, arg, tmp>>

-------------------------------------------------------------------------------
(* A thread goes on with the call it is in. *)
Proceed(t) ==
  \/ LockAcquire(t) \/ LockRelease(t) \/ Retry(t) \/ TimeOut(t)
  \/ Allocate(t) \/ AllocateFails(t) \/ Link(t) \/ SetTail(t) \/ CountUp(t)
  \/ Check(t) \/ Unlink(t) \/ CountDown(t) \/ ReleaseElement(t)

Next ==
  \E t \in Threads :
    \/ \E m \in Msgs : SendMessage(t, m)
    \/ \E kind \in Receives : Receive(t, kind)
    \/ Proceed(t)

Spec == Init /\ [][Next]_vars

(* The operating system runs every thread that can run; nothing makes      *)
(* try_lock fair, and no thread has to make another call.                  *)
FairSpec == Spec /\ \A t \in Threads : WF_vars(Proceed(t))

-------------------------------------------------------------------------------
(* The type invariant. The count, an unsigned int in the code, never goes  *)
(* below zero.                                                             *)
TypeOK ==
  /\ mutex \in MutexType
  /\ head \in Pointers /\ tail \in Pointers /\ NumberOfElements \in Nat
  /\ NextElement \in [Cells -> Pointers]
  /\ ElementContainer \in [Cells -> Values]
  /\ free \in SUBSET Cells
  /\ pc \in [Threads -> Labels]
  /\ op \in [Threads -> Receives \cup {"send"}]
  /\ LockCount \in [Threads -> Nat]
  /\ arg \in [Threads -> Values]
  /\ tmp \in [Threads -> Pointers]
  /\ result \in [Threads -> Values]
  /\ chain \in Seq(Cells)

(* At most one thread is between the Lock and the Unlock of its            *)
(* SmartLocker, and it is the owner of the list's mutex.                   *)
MutualExclusion ==
  \A t, u \in Threads :
    pc[t] \in Holding /\ pc[u] \in Holding => t = u /\ mutex.owner = t

(* ExtractFirst throws on an empty list (SimpleList.h:661-664); the test   *)
(* of NumberOfElements made before it must still hold when it runs.        *)
NeverExtractsFromEmpty ==
  \A t \in Threads : pc[t] = "extract" => head # NULL /\ NumberOfElements # 0

(* Whenever nobody holds the mutex the pointers form one list: from head,  *)
(* through NextElement, to tail, with NumberOfElements cells.              *)
ListIsWellFormed ==
  mutex.owner = NoThread =>
    /\ NumberOfElements = Len(chain)
    /\ IF chain = <<>> THEN head = NULL /\ tail = NULL
       ELSE /\ head = chain[1]
            /\ tail = chain[Len(chain)]
            /\ NextElement[tail] = NULL
            /\ \A i \in 1..(Len(chain) - 1) : NextElement[chain[i]] = chain[i + 1]

(* Every cell is either unallocated, in the list, or held by the one       *)
(* thread that is adding or extracting it: none is leaked, used after its  *)
(* delete, or in the list twice.                                           *)
InHand(t) == pc[t] \in {"link", "uncount", "release"}

CellsAccountedFor ==
  /\ \A c \in Cells :
       \/ c \in free
       \/ \E i \in 1..Len(chain) : chain[i] = c
       \/ \E t \in Threads : InHand(t) /\ tmp[t] = c
  /\ \A i, j \in 1..Len(chain) : chain[i] = chain[j] => i = j
  /\ \A i \in 1..Len(chain) : chain[i] \notin free
  /\ \A t \in Threads : InHand(t) =>
       /\ tmp[t] \in Cells \ free
       /\ \A i \in 1..Len(chain) : chain[i] # tmp[t]

-------------------------------------------------------------------------------
(* The queue implements the mailbox: a put takes effect when the cell is   *)
(* linked, a take when it is unlinked.                                     *)
boxBar == [i \in 1..Len(chain) |-> ElementContainer[chain[i]]]

Answer(t) ==
  CASE pc[t] = "idle" \/ op[t] = "send" -> result[t]
    [] pc[t] \in {"lock", "check", "extract"} /\ op[t] # "send" -> "pending"
    [] pc[t] \in {"uncount", "release"} /\ op[t] # "send" ->
         ElementContainer[tmp[t]]
    [] pc[t] \in {"unlock", "retry"} /\ op[t] # "send" ->
         IF result[t] = NoMsg THEN "missed" ELSE result[t]

answerBar == [t \in Threads |-> Answer(t)]

Box == INSTANCE Mailbox
         WITH box <- boxBar, answer <- answerBar,
              Pending <- "pending", Missed <- "missed"

(* What each receiver is given is what a first-in first-out mailbox would  *)
(* give it, whatever the interleaving.                                     *)
ImplementsMailbox == Box!Spec

-------------------------------------------------------------------------------
(* A thread that gets the mutex gives it back. *)
LockIsReleased ==
  \A t \in Threads : (mutex.owner = t) ~> (mutex.owner # t)

(* Once the other threads are quiet, a thread is not left waiting while a  *)
(* message lies in the queue: either its call returns or the queue is      *)
(* empty, again and again.                                                 *)
WaitGetsMessage ==
  \A t \in Threads :
    <>[](\A u \in Threads \ {t} : pc[u] = "idle")
      => []<>(pc[t] = "idle" \/ chain = <<>>)

===============================================================================
