---------------------------- MODULE TrackingMemory ----------------------------
(* The memory leak tracker (TrackingMemoryLeaks.cpp): operators new and delete   *)
(* keep, while a TrackMemoryLeaks object lives, a list of the blocks they gave,   *)
(* under one mutex that is not reentrant.  A tracked block is a cell of the list  *)
(* and the memory behind it, from one malloc: its address, Where, is not the      *)
(* address malloc returned.  A call is a step of its caller; its body, under the  *)
(* mutex from end to end, is another.                                            *)
EXTENDS Naturals, Sequences, FiniteSets, SequencesExt

CONSTANTS
  Threads,      \* the threads that allocate
  Blocks,       \* the blocks malloc can give
  MaxClients,   \* how many TrackMemoryLeaks objects there may be at a time
  NULL, NoThread, Wild   \* no cell, no owner, and a pointer nobody initialised

ASSUME TrackingAssumption ==
  IsFiniteSet(Blocks) /\ NULL \notin Blocks /\ Wild \notin Blocks \cup {NULL}
  /\ NoThread \notin Threads

VARIABLES
  mutex,     \* TrackingMemoryLocker: who holds it between two steps
  clients,   \* NumberOfTrackingMemoryClient
  objects,   \* the TrackMemoryLeaks objects no thread is destroying
  ml,        \* AllocList
  heap,      \* what malloc gave a block for: "none", "plain" or "cell"
  held,      \* the pointers the program may still delete
  call,      \* the call each thread is in, and its argument
  outlived,  \* some tracked block was alive when the last client went
  starved,   \* malloc failed for a tracked block
  aborted    \* free was given an address malloc never returned

vars == <<mutex, clients, objects, ml, heap, held, call, outlived, starved, aborted>>

-------------------------------------------------------------------------------
(* MemoryList: the cells are linked from Head to Tail; the cursor is Current,    *)
(* with the cell before it.                                                      *)

EmptyList == [Head |-> NULL, Tail |-> NULL, Next |-> [b \in Blocks |-> NULL], Number |-> 0,
              Previous |-> NULL, Current |-> NULL, Removed |-> FALSE]

\* The cells met from c on, at most n of them, and those from Head on.
Walk[n \in 0..Cardinality(Blocks)] ==
  [c \in Blocks \cup {NULL} |->
    IF n = 0 \/ c = NULL THEN <<>> ELSE <<c>> \o Walk[n - 1][ml.Next[c]]]

Cells == Walk[Cardinality(Blocks)][ml.Head]

\* Add, of the cell malloc gave.
AddTail(l, cell) ==
  LET linked == [l EXCEPT !.Next = [n \in Blocks |-> CASE n = cell -> NULL
                                                     [] n # cell /\ n = l.Tail -> cell
                                                     [] OTHER -> l.Next[n]]]
  IN IF l.Head = NULL
     THEN [l EXCEPT !.Head = cell, !.Tail = cell, !.Next[cell] = NULL, !.Number = @ + 1]
     ELSE [linked EXCEPT !.Tail = cell, !.Number = @ + 1]

First(l) == [l EXCEPT !.Previous = NULL, !.Current = l.Head, !.Removed = FALSE]

\* The loop of Remove from First on: the cursor stops on the cell, or at the end.
\* (A cell that is freed has no NextElement any more.)
Seek(l, cell) ==
  LET links == {n \in Blocks : l.Next[n] = cell}
      found == cell # NULL /\ (cell = l.Head \/ links # {})
  IN [First(l) EXCEPT !.Current  = IF found THEN cell ELSE NULL,
                      !.Previous = CASE ~found -> l.Tail
                                     [] found /\ cell = l.Head -> NULL
                                     [] OTHER -> CHOOSE n \in links : TRUE]

\* Variant: Tail is left on the cell that goes.
RemoveCurrent_KeepsTail(l) ==
  LET cell == l.Current
      cut == IF l.Head = cell THEN [l EXCEPT !.Head = l.Next[cell]]
             ELSE [l EXCEPT !.Next[l.Previous] = l.Next[cell]]
  IN [cut EXCEPT !.Next[cell] = NULL,
                 !.Current = l.Next[cell],
                 !.Number  = @ - 1,
                 !.Removed = TRUE]

RemoveCurrent(l) ==
  LET cell == l.Current
      cut == IF l.Head = cell THEN [l EXCEPT !.Head = l.Next[cell]]
             ELSE [l EXCEPT !.Next[l.Previous] = l.Next[cell]]
  IN [cut EXCEPT !.Next[cell] = NULL,
                 !.Current = l.Next[cell],
                 !.Tail    = IF @ = cell THEN l.Previous ELSE @,
                 !.Number  = @ - 1,
                 !.Removed = TRUE]

\* Remove: the list, and whether the cell was there.
RemoveElement(l, cell) ==
  LET sought == Seek(l, cell)
  IN IF sought.Current = NULL THEN [list |-> sought, found |-> FALSE]
     ELSE [list |-> RemoveCurrent(sought), found |-> TRUE]

-------------------------------------------------------------------------------
Idle == [op |-> "idle", arg |-> NULL]
Call(t, op, arg) == call[t] = Idle /\ call' = [call EXCEPT ![t] = [op |-> op, arg |-> arg]]
Return(t) == call' = [call EXCEPT ![t] = Idle]

\* EnterMutex succeeds; LeaveMutex ends the body.
Enters(t, op) == call[t].op = op /\ mutex = NoThread /\ ~aborted

Tracked == {b \in Blocks : heap[b] = "cell"}

Init ==
  /\ mutex = NoThread /\ clients = 0 /\ objects = 0 /\ ml = EmptyList
  /\ heap = [b \in Blocks |-> "none"] /\ held = {}
  /\ call = [t \in Threads |-> Idle]
  /\ outlived = FALSE /\ starved = FALSE /\ aborted = FALSE

(* What a thread of the program may do.                                          *)
CallNew(t) == Call(t, "new", NULL) /\ ~aborted
              /\ UNCHANGED <<mutex, clients, objects, ml, heap, held, outlived, starved, aborted>>

CallDelete(t, p) == Call(t, "delete", p) /\ ~aborted
                    /\ p \in held /\ held' = held \ {p}
                    /\ UNCHANGED <<mutex, clients, objects, ml, heap, outlived, starved, aborted>>

Construct(t) == Call(t, "construct", NULL) /\ ~aborted
                /\ Cardinality({u \in Threads : call[u].op = "construct"}) + clients < MaxClients
                /\ UNCHANGED <<mutex, clients, objects, ml, heap, held, outlived, starved, aborted>>

Destroy(t) == Call(t, "destroy", NULL) /\ ~aborted
              /\ objects > 0 /\ objects' = objects - 1
              /\ UNCHANGED <<mutex, clients, ml, heap, held, outlived, starved, aborted>>

-------------------------------------------------------------------------------
(* operator new: AddMemoryBlock.  When malloc fails, a tracked new returns the    *)
(* pointer it never set.                                                         *)
AddMemoryBlock(t) ==
  /\ Enters(t, "new")
  /\ LET room == {b \in Blocks : heap[b] = "none"}
     IN IF room = {}
        THEN /\ held' = IF clients # 0 THEN held \cup {Wild} ELSE held
             /\ starved' = (starved \/ clients # 0)
             /\ UNCHANGED <<ml, heap>>
        ELSE \E b \in room :
               /\ held' = held \cup {b}
               /\ heap' = [heap EXCEPT ![b] = IF clients # 0 THEN "cell" ELSE "plain"]
               /\ ml' = IF clients # 0 THEN AddTail(ml, b) ELSE ml
               /\ UNCHANGED starved
  /\ Return(t)
  /\ UNCHANGED <<mutex, clients, objects, outlived, aborted>>

\* free, of an address the program has: what malloc did not return aborts.
Free(p) ==
  IF p \in Blocks /\ heap[p] = "plain"
  THEN heap' = [heap EXCEPT ![p] = "none"] /\ UNCHANGED aborted
  ELSE aborted' = TRUE /\ UNCHANGED heap

\* Variant: the address is freed whether or not the list had it.
RemoveMemoryBlock_FreesFound(t) ==
  /\ Enters(t, "delete")
  /\ LET p == call[t].arg
         r == RemoveElement(ml, p)
     IN IF clients = 0 THEN Free(p) /\ UNCHANGED ml
        ELSE /\ ml' = r.list
             /\ Free(p)
  /\ Return(t)
  /\ UNCHANGED <<mutex, clients, objects, held, outlived, starved>>

\* Variant: the return of a call without clients does not leave the mutex.
RemoveMemoryBlock_KeepsMutex(t) ==
  /\ Enters(t, "delete")
  /\ LET p == call[t].arg
         r == RemoveElement(ml, p)
     IN IF clients = 0 THEN Free(p) /\ UNCHANGED ml
        ELSE /\ ml' = r.list
             /\ IF r.found THEN heap' = [heap EXCEPT ![p] = "none"] /\ UNCHANGED aborted
                ELSE Free(p)
  /\ mutex' = IF clients = 0 THEN t ELSE mutex
  /\ Return(t)
  /\ UNCHANGED <<clients, objects, held, outlived, starved>>

(* operator delete: RemoveMemoryBlock.  Without a client the list is not looked  *)
(* at.                                                                           *)
RemoveMemoryBlock(t) ==
  /\ Enters(t, "delete")
  /\ LET p == call[t].arg
         r == RemoveElement(ml, p)
     IN IF clients = 0 THEN Free(p) /\ UNCHANGED ml
        ELSE /\ ml' = r.list
             /\ IF r.found THEN heap' = [heap EXCEPT ![p] = "none"] /\ UNCHANGED aborted
                ELSE Free(p)
  /\ Return(t)
  /\ UNCHANGED <<mutex, clients, objects, held, outlived, starved>>

TrackMemoryLeaks(t) ==
  /\ Enters(t, "construct")
  /\ clients' = clients + 1 /\ objects' = objects + 1
  /\ Return(t)
  /\ UNCHANGED <<mutex, ml, heap, held, outlived, starved, aborted>>

\* The destructor leaves the mutex before it dumps.
Leave(t) ==
  /\ Enters(t, "destroy")
  /\ clients' = clients - 1
  /\ outlived' = (outlived \/ (clients = 1 /\ Tracked # {}))
  /\ call' = [call EXCEPT ![t].op = "dump"]
  /\ UNCHANGED <<mutex, objects, ml, heap, held, starved, aborted>>

(* DumpUnfreed.  When a block is left its "delete" waits for the mutex DumpUnfreed *)
(* holds: the thread is "hung", there is no step for what would follow.           *)
DumpUnfreed(t) ==
  /\ Enters(t, "dump")
  /\ IF ml.Number = 0 THEN Return(t) /\ UNCHANGED <<mutex, ml>>
     ELSE /\ call' = [call EXCEPT ![t] = [op |-> "hung", arg |-> ml.Head]]
          /\ mutex' = t /\ ml' = First(ml)
  /\ UNCHANGED <<clients, objects, heap, held, outlived, starved, aborted>>

Body(t) == \/ AddMemoryBlock(t) \/ RemoveMemoryBlock(t) \/ TrackMemoryLeaks(t)
           \/ Leave(t) \/ DumpUnfreed(t)

Next == \E t \in Threads :
          \/ CallNew(t) \/ (\E p \in held : CallDelete(t, p)) \/ Construct(t) \/ Destroy(t)
          \/ Body(t)

\* A thread that waits for a free mutex gets it: each holds it for one step.
Fairness == \A t \in Threads : WF_vars(Body(t))
Spec == Init /\ [][Next]_vars /\ Fairness

-------------------------------------------------------------------------------
(* Properties.                                                                   *)

Hung == \E t \in Threads : call[t].op = "hung"

(* The list is sound and is the heap's: from Head to Tail it has NumberOfElements *)
(* cells, the tracked blocks, none twice, none freed and none forgotten.          *)
ListIsHeap ==
  LET cells == Cells
  IN /\ Range(cells) = Tracked
     /\ Len(cells) = ml.Number
     /\ ml.Tail = IF cells = <<>> THEN NULL ELSE Last(cells)
     /\ cells # <<>> => ml.Next[Last(cells)] = NULL

(* No address malloc never gave is freed, in any interleaving of the threads and  *)
(* of the lives of the clients, unless a tracked block outlived the last client   *)
(* or an allocation of one failed.                                               *)
FreesAreValid == aborted => outlived \/ starved

(* Every new, delete, construction and destruction returns, unless a destructor   *)
(* found a block that was not freed and hangs with the mutex, or the program has  *)
(* been aborted.                                                                 *)
EveryCallReturns ==
  \A t \in Threads : (call[t] # Idle) ~> (call[t] = Idle \/ Hung \/ aborted)

===============================================================================
