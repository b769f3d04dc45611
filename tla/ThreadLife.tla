------------------------------ MODULE ThreadLife ------------------------------
(***************************************************************************)
(* The life of a Thread object (System/Thread.cpp): StartThread,           *)
(* StopThread, Join and ~Thread called by its owner and by other threads,  *)
(* and CallRun in each operating system thread that StartThread creates.   *)
(* A step is one access to what the threads share; the unsynchronised      *)
(* bools and the pointer MyThread are taken to be read and written         *)
(* atomically and in order.                                                *)
(*                                                                         *)
(* The constants after MaxStarts are what the users of the class do and    *)
(* what the system may do to them; each run says which it allows.          *)
(***************************************************************************)
EXTENDS Naturals, FiniteSets, Event

CONSTANTS
  Owner,       (* the thread that starts and destroys the object            *)
  Peers,       (* other threads that stop or join it                        *)
  MaxStarts,   (* bound: how many operating system threads are created      *)
  OwnerCalls,  (* the methods the owner calls                               *)
  RunStyle,    (* what Run does: "poll" StopPending, "wait" in WaitForStop, *)
               (* "finish" by itself, "stop" or "join" its own thread       *)
  Handshake,   (* nobody calls before Run has begun                         *)
  TimeOuts,    (* timed waits may expire                                    *)
  Spurious     (* pthread_cond_wait may come back without a broadcast       *)

ASSUME CallsAssumption ==
  /\ OwnerCalls \subseteq {"start", "stop", "join", "destroy"}
  /\ RunStyle \subseteq {"poll", "wait", "finish", "stop", "join"}
ASSUME SwitchAssumption == Handshake \in BOOLEAN /\ TimeOuts \in BOOLEAN /\ Spurious \in BOOLEAN
ASSUME BoundAssumption == MaxStarts \in Nat

Children    == 1..MaxStarts        (* the threads created, in order *)
Controllers == {Owner} \cup Peers
Actors      == Controllers \cup Children

ASSUME ActorsAssumption == Owner \notin Peers /\ Controllers \cap Children = {}

VARIABLES
  ThreadIsRunning, StopWasAsked, StopWasAskedEvent, IsEnded,
  MyThread,    (* the pointer: 0, or the child whose std::thread it owns    *)
  handle,      (* the std::thread object of each child                     *)
  old,         (* the value of MyThread that each actor last read          *)
  created,     (* the number of children created so far                    *)
  alive,       (* the object has not been destroyed                        *)
  terminated,  (* an attached std::thread was destroyed, which calls       *)
               (* std::terminate, or one that is null or gone was used     *)
  overlapped,  (* auxiliary: two threads were at MyThread at once           *)
  pc,
  call,        (* the call each actor makes, or made last                  *)
  ret,         (* what that call returned                                  *)
  seen,        (* auxiliary: created, when that call was made              *)
  why,         (* auxiliary: how a child that leaves Run came to do so     *)
  asked,       (* auxiliary: created, when a stop was last called for       *)
  misled       (* auxiliary: IsEnded was signalled for a run before the    *)
               (* last, or its Wait came back without a signal             *)

flags == <<ThreadIsRunning, StopWasAsked, StopWasAskedEvent, IsEnded>>
pointer == <<MyThread, handle, old, terminated, overlapped>>
world == <<pointer, created, alive>>
calls == <<call, ret, seen>>
history == <<why, asked, misled>>
vars  == <<flags, world, pc, calls, history>>

Labels == {"idle", "none", "gone", "free",
           "startTest", "clearFlags", "create", "startRead", "startDelete",
           "startStore", "detach", "awaitStart",
           "stopTest", "ask", "askEvent", "selfTest", "selfId",
           "reset", "delete", "store", "joinTest", "await", "blocked", "destroyTest",
           "begin", "starting", "run", "waiting", "leave", "signal", "done"}

(* Where a thread has read MyThread and is not yet through with it. *)
AtPointer == {"startDelete", "startStore", "detach", "delete", "store", "selfId"}

Goto(a, label) == pc' = [pc EXCEPT ![a] = label]

(* A controller goes back to its own code, a child to its Run. *)
Home(a) == IF a \in Children THEN "run" ELSE "idle"

Return(a, r) ==
  /\ ret' = [ret EXCEPT ![a] = r]
  /\ Goto(a, Home(a))
  /\ UNCHANGED <<call, seen>>

-------------------------------------------------------------------------------
(* The constructor. *)
Init ==
  /\ ThreadIsRunning = FALSE
  /\ StopWasAsked = FALSE
  /\ StopWasAskedEvent = NewEvent
  /\ IsEnded = NewEvent
  /\ MyThread = 0
  /\ handle = [k \in Children |-> "none"]
  /\ old = [a \in Actors |-> 0]
  /\ created = 0
  /\ alive = TRUE
  /\ terminated = FALSE /\ overlapped = FALSE
  /\ pc = [a \in Actors |-> IF a \in Controllers THEN "idle" ELSE "none"]
  /\ call = [a \in Actors |-> "none"]
  /\ ret = [a \in Actors |-> FALSE]
  /\ seen = [a \in Actors |-> 0]
  /\ why = [k \in Children |-> "none"]
  /\ asked = 0 /\ misled = FALSE

(* The child created last has begun its Run and StartThread has returned. *)
RunHasBegun ==
  /\ created > 0
  /\ pc[created] \notin {"begin", "starting"}
  /\ pc[Owner] \notin {"clearFlags", "create", "startRead", "startDelete",
                       "startStore", "detach", "awaitStart"}

(* A controller calls one of the methods. *)
Call(a, what, label) ==
  /\ pc[a] = Home(a) /\ alive
  /\ call' = [call EXCEPT ![a] = what]
  /\ seen' = [seen EXCEPT ![a] = created]
  /\ asked' = IF what \in {"stop", "destroy"} THEN created ELSE asked
  /\ Goto(a, label)
  /\ UNCHANGED <<flags, world, ret, why, misled>>

OwnerMay(what) == what \in OwnerCalls /\ (Handshake => created = 0 \/ RunHasBegun)
(* Nor once the owner has begun to destroy the object. *)
PeerMay == (Handshake => RunHasBegun) /\ call[Owner] # "destroy"

CallStart ==
  /\ OwnerMay("start") /\ created < MaxStarts
  /\ Call(Owner, "start", "startTest")

CallStop ==
  \/ OwnerMay("stop") /\ Call(Owner, "stop", "stopTest")
  \/ PeerMay /\ \E p \in Peers : Call(p, "stop", "stopTest")
  \/ "stop" \in RunStyle /\ \E k \in Children : Call(k, "stop", "stopTest")

CallJoin ==
  \/ OwnerMay("join") /\ Call(Owner, "join", "selfTest")
  \/ PeerMay /\ \E p \in Peers : Call(p, "join", "selfTest")
  \/ "join" \in RunStyle /\ \E k \in Children : Call(k, "join", "selfTest")

(* The owner destroys the object once nobody else calls it. *)
CallDestroy ==
  /\ OwnerMay("destroy") /\ \A p \in Peers : pc[p] = "idle"
  /\ Call(Owner, "destroy", "destroyTest")

-------------------------------------------------------------------------------
(* Names of the form Action_Bug are variants of Action with a bug someone  *)
(* could make there; no specification uses them.                           *)

-------------------------------------------------------------------------------
(* MyThread, an auto_ptr without a lock: reset(p) compares the pointer with *)
(* p and, if they differ, deletes it and then stores p; GetId tests the     *)
(* pointer and then uses it. The build may read it again where it deletes   *)
(* or uses it. What goes wrong is noted and the model goes on as a build    *)
(* does that does not notice.                                               *)

(* Actor a has just read MyThread. *)
ComesTo(a) ==
  IF \E b \in Actors \ {a} : pc[b] \in AtPointer THEN overlapped' = TRUE
  ELSE UNCHANGED overlapped

(* delete of the std::thread of child k, if k is not null. *)
Delete(k) ==
  IF k = 0 THEN UNCHANGED <<handle, terminated>>
  ELSE /\ handle' = [handle EXCEPT ![k] = "deleted"]
       /\ IF handle[k] = "detached" THEN UNCHANGED terminated ELSE terminated' = TRUE

(* StopThread returns, to its caller or to the destructor. *)
AfterReset(a) == Goto(a, IF call[a] = "destroy" THEN "free" ELSE Home(a))

(* MyThread.reset(p) of StartThread and MyThread.reset() of StopThread. *)
ReadOld(a) ==
  /\ \/ /\ \/ pc[a] = "startRead" /\ Goto(a, "startDelete")
           \/ pc[a] = "reset" /\ MyThread # 0 /\ Goto(a, "delete")
        /\ old' = [old EXCEPT ![a] = MyThread]
        /\ ComesTo(a)
     \/ /\ pc[a] = "reset" /\ MyThread = 0 /\ AfterReset(a)
        /\ UNCHANGED <<old, overlapped>>
  /\ UNCHANGED <<flags, MyThread, handle, terminated, created, alive, calls, history>>

DeleteOld(a) ==
  /\ \/ pc[a] = "startDelete" /\ Goto(a, "startStore")
     \/ pc[a] = "delete" /\ Goto(a, "store")
  /\ \E p \in {old[a], MyThread} : Delete(p)
  /\ old' = [old EXCEPT ![a] = 0]
  /\ UNCHANGED <<flags, MyThread, overlapped, created, alive, calls, history>>

StoreNew(a) ==
  /\ \/ pc[a] = "startStore" /\ MyThread' = created /\ Goto(a, "detach")
     \/ pc[a] = "store" /\ MyThread' = 0 /\ AfterReset(a)
  /\ UNCHANGED <<flags, handle, old, terminated, overlapped, created, alive, calls, history>>

(* A StopThread or Join that is not of the thread itself goes on. *)
GoOn(a) ==
  /\ Goto(a, IF call[a] = "join" THEN "joinTest" ELSE "await")
  /\ UNCHANGED calls

(* GetId: a null MyThread is nobody's... *)
SelfTest(a) ==
  /\ pc[a] = "selfTest"
  /\ IF MyThread = 0 THEN GoOn(a) /\ UNCHANGED <<old, overlapped>>
     ELSE /\ old' = [old EXCEPT ![a] = MyThread]
          /\ ComesTo(a)
          /\ Goto(a, "selfId") /\ UNCHANGED calls
  /\ UNCHANGED <<flags, MyThread, handle, terminated, created, alive, history>>

(* ...and another names its child only while it is attached.                *)
SelfId(a) ==
  /\ pc[a] = "selfId"
  /\ \E p \in {old[a], MyThread} :
       IF p = 0 \/ handle[p] = "deleted" THEN GoOn(a) /\ terminated' = TRUE
       ELSE /\ IF p = a /\ handle[p] = "attached" THEN Return(a, FALSE) ELSE GoOn(a)
            /\ UNCHANGED terminated
  /\ old' = [old EXCEPT ![a] = 0]
  /\ UNCHANGED <<flags, MyThread, handle, overlapped, created, alive, history>>

-------------------------------------------------------------------------------
(* StartThread *)

(* StartThread does not look whether Run is running. *)
StartTest_Always ==
  /\ pc[Owner] = "startTest"
  /\ Goto(Owner, "clearFlags")
  /\ UNCHANGED <<flags, world, calls, history>>

StartTest ==
  /\ pc[Owner] = "startTest"
  /\ IF ThreadIsRunning THEN Return(Owner, FALSE)
     ELSE Goto(Owner, "clearFlags") /\ UNCHANGED calls
  /\ UNCHANGED <<flags, world, history>>

(* A request of the run before is kept. *)
ClearFlags_KeepsRequest ==
  /\ pc[Owner] = "clearFlags"
  /\ ThreadIsRunning' = FALSE
  /\ Goto(Owner, "create")
  /\ UNCHANGED <<StopWasAsked, StopWasAskedEvent, IsEnded, world, calls, history>>

(* The two bools are cleared, and neither event. *)
ClearFlags ==
  /\ pc[Owner] = "clearFlags"
  /\ ThreadIsRunning' = FALSE
  /\ StopWasAsked' = FALSE
  /\ Goto(Owner, "create")
  /\ UNCHANGED <<StopWasAskedEvent, IsEnded, world, calls, history>>

(* new std::thread: the child may run before MyThread is stored. *)
Create ==
  /\ pc[Owner] = "create" /\ created < MaxStarts
  /\ created' = created + 1
  /\ handle' = [handle EXCEPT ![created + 1] = "attached"]
  /\ pc' = [pc EXCEPT ![Owner] = "startRead", ![created + 1] = "begin"]
  /\ UNCHANGED <<flags, MyThread, old, terminated, overlapped, alive, calls, history>>

(* The thread stays attached. *)
Detach_Missing ==
  /\ pc[Owner] = "detach"
  /\ Goto(Owner, "awaitStart")
  /\ UNCHANGED <<flags, world, calls, history>>

(* Detaching through a MyThread that a StopThread has reset meanwhile, or  *)
(* a std::thread that it has deleted.                                      *)
Detach ==
  /\ pc[Owner] = "detach"
  /\ IF MyThread # 0 /\ handle[MyThread] = "attached"
     THEN handle' = [handle EXCEPT ![MyThread] = "detached"] /\ UNCHANGED terminated
     ELSE terminated' = TRUE /\ UNCHANGED handle
  /\ Goto(Owner, "awaitStart")
  /\ UNCHANGED <<flags, MyThread, old, overlapped, created, alive, calls, history>>

(* With an argument of 0 the owner polls until the child runs or, in fact, *)
(* until the clock has moved; with another argument it does not wait.      *)
AwaitStart ==
  /\ pc[Owner] = "awaitStart"
  /\ \E argument \in {0, 1} :
       \/ (argument # 0 \/ ThreadIsRunning) /\ Return(Owner, TRUE)
       \/ argument = 0 /\ ~ThreadIsRunning /\ Return(Owner, FALSE)
  /\ UNCHANGED <<flags, world, history>>

-------------------------------------------------------------------------------
(* StopThread, called by actor a, alone or from the destructor *)

StopTest(a) ==
  /\ pc[a] = "stopTest"
  /\ IF ThreadIsRunning THEN Goto(a, "ask") /\ UNCHANGED ret
     ELSE Goto(a, "reset") /\ ret' = [ret EXCEPT ![a] = TRUE]
  /\ UNCHANGED <<flags, world, call, seen, history>>

(* The flag is not set. *)
Ask_Lost(a) ==
  /\ pc[a] = "ask"
  /\ Goto(a, "askEvent")
  /\ UNCHANGED <<flags, world, calls, history>>

Ask(a) ==
  /\ pc[a] = "ask"
  /\ StopWasAsked' = TRUE
  /\ Goto(a, "askEvent")
  /\ UNCHANGED <<ThreadIsRunning, StopWasAskedEvent, IsEnded, world, calls, history>>

AskEvent(a) ==
  /\ pc[a] = "askEvent"
  /\ StopWasAskedEvent' = Signal(StopWasAskedEvent)
  /\ Goto(a, "selfTest")
  /\ UNCHANGED <<ThreadIsRunning, StopWasAsked, IsEnded, world, calls, history>>

-------------------------------------------------------------------------------
(* Join *)

JoinTest(a) ==
  /\ pc[a] = "joinTest"
  /\ IF ThreadIsRunning THEN Goto(a, "await") /\ UNCHANGED calls
     ELSE Return(a, TRUE)
  /\ UNCHANGED <<flags, world, history>>

-------------------------------------------------------------------------------
(* IsEnded.Wait, of StopThread always with a timeout and of Join with the  *)
(* one its caller gives; Join returns nothing, and ret stands for the      *)
(* answer it ignores.                                                      *)

Await(a) ==
  /\ pc[a] = "await" /\ ~Passes(IsEnded)
  /\ IsEnded' = Blocked(IsEnded, a)
  /\ Goto(a, "blocked")
  /\ UNCHANGED <<ThreadIsRunning, StopWasAsked, StopWasAskedEvent, world, calls, history>>

(* What the caller does with the answer of Wait. *)
Waited(a, answer) ==
  IF call[a] = "join" THEN Return(a, answer)
  ELSE /\ ret' = [ret EXCEPT ![a] = answer]
       /\ Goto(a, "reset")
       /\ UNCHANGED <<call, seen>>

AwaitReturns(a) ==
  /\ \/ pc[a] = "await" /\ Passes(IsEnded)
     \/ pc[a] = "blocked" /\ Woken(IsEnded, a)
  /\ Waited(a, TRUE)
  /\ UNCHANGED <<flags, world, history>>

AwaitTimesOut(a) ==
  /\ TimeOuts
  /\ pc[a] = "blocked"
  /\ IsEnded' = Unblocked(IsEnded, a)
  /\ Waited(a, FALSE)
  /\ UNCHANGED <<ThreadIsRunning, StopWasAsked, StopWasAskedEvent, world, history>>

-------------------------------------------------------------------------------
(* ~Thread *)

(* The destructor does not stop the thread. *)
DestroyTest_NeverStops ==
  /\ pc[Owner] = "destroyTest"
  /\ Goto(Owner, "free")
  /\ UNCHANGED <<flags, world, calls, history>>

DestroyTest ==
  /\ pc[Owner] = "destroyTest"
  /\ Goto(Owner, IF ThreadIsRunning THEN "stopTest" ELSE "free")
  /\ UNCHANGED <<flags, world, calls, history>>

(* ~auto_ptr deletes what MyThread owns, and the memory of the object      *)
(* goes.                                                                   *)
Free ==
  /\ pc[Owner] = "free"
  /\ ComesTo(Owner)
  /\ Delete(MyThread)
  /\ MyThread' = 0
  /\ alive' = FALSE
  /\ Goto(Owner, "gone")
  /\ UNCHANGED <<flags, old, created, calls, history>>

-------------------------------------------------------------------------------
(* CallRun, in child k *)

(* IsEnded is not reset. *)
Begin_NoReset(k) ==
  /\ pc[k] = "begin"
  /\ Goto(k, "starting")
  /\ UNCHANGED <<flags, world, calls, history>>

Begin(k) ==
  /\ pc[k] = "begin"
  /\ IsEnded' = Reset(IsEnded)
  /\ Goto(k, "starting")
  /\ UNCHANGED <<ThreadIsRunning, StopWasAsked, StopWasAskedEvent, world, calls, history>>

(* ThreadIsRunning is not set. *)
Starting_Silent(k) ==
  /\ pc[k] = "starting"
  /\ Goto(k, "run")
  /\ UNCHANGED <<flags, world, calls, history>>

Starting(k) ==
  /\ pc[k] = "starting"
  /\ ThreadIsRunning' = TRUE
  /\ Goto(k, "run")
  /\ UNCHANGED <<StopWasAsked, StopWasAskedEvent, IsEnded, world, calls, history>>

(* Run comes to its end. *)
LeaveRun(k, reason) ==
  /\ Goto(k, "leave")
  /\ why' = [why EXCEPT ![k] = reason]
  /\ UNCHANGED <<asked, misled>>

(* Run reads StopPending until it is set. *)
Poll(k) ==
  /\ "poll" \in RunStyle /\ pc[k] = "run"
  /\ StopWasAsked
  /\ LeaveRun(k, "polled")
  /\ UNCHANGED <<flags, world, calls>>

(* Run ends of itself. *)
Finish(k) ==
  /\ "finish" \in RunStyle /\ pc[k] = "run"
  /\ LeaveRun(k, "self")
  /\ UNCHANGED <<flags, world, calls>>

(* It waits for the wrong event. *)
WaitForStop_WrongEvent(k) ==
  /\ "wait" \in RunStyle /\ pc[k] = "run" /\ ~Passes(IsEnded)
  /\ IsEnded' = Blocked(IsEnded, k)
  /\ Goto(k, "waiting")
  /\ UNCHANGED <<ThreadIsRunning, StopWasAsked, StopWasAskedEvent, world, calls, history>>

(* Run calls WaitForStop, which a request made before lets through... *)
WaitForStop(k) ==
  /\ "wait" \in RunStyle /\ pc[k] = "run"
  /\ \/ /\ Passes(StopWasAskedEvent)
        /\ LeaveRun(k, "waited")
        /\ UNCHANGED flags
     \/ /\ ~Passes(StopWasAskedEvent)
        /\ StopWasAskedEvent' = Blocked(StopWasAskedEvent, k)
        /\ Goto(k, "waiting")
        /\ UNCHANGED <<ThreadIsRunning, StopWasAsked, IsEnded, history>>
  /\ UNCHANGED <<world, calls>>

(* ...and otherwise ends when it is woken. *)
WaitForStopReturns(k) ==
  /\ pc[k] = "waiting" /\ Woken(StopWasAskedEvent, k)
  /\ LeaveRun(k, "waited")
  /\ UNCHANGED <<flags, world, calls>>

Leave(k) ==
  /\ pc[k] = "leave"
  /\ ThreadIsRunning' = FALSE
  /\ Goto(k, "signal")
  /\ why' = [why EXCEPT ![k] = "none"]
  /\ UNCHANGED <<StopWasAsked, StopWasAskedEvent, IsEnded, world, calls, asked, misled>>

SignalEnd(k) ==
  /\ pc[k] = "signal"
  /\ IsEnded' = Signal(IsEnded)
  /\ misled' = (misled \/ created > k)
  /\ Goto(k, "done")
  /\ UNCHANGED <<ThreadIsRunning, StopWasAsked, StopWasAskedEvent, world, calls, why, asked>>

(* A thread blocked in either event comes back although nobody signalled. *)
SpuriousWakeup(a) ==
  /\ Spurious
  /\ \/ /\ pc[a] = "blocked" /\ IsEnded' = Unblocked(IsEnded, a)
        /\ misled' = TRUE /\ UNCHANGED StopWasAskedEvent
     \/ /\ pc[a] = "waiting" /\ StopWasAskedEvent' = Unblocked(StopWasAskedEvent, a)
        /\ UNCHANGED <<IsEnded, misled>>
  /\ UNCHANGED <<ThreadIsRunning, StopWasAsked, world, pc, calls, why, asked>>

-------------------------------------------------------------------------------
PointerStep(a) == ReadOld(a) \/ DeleteOld(a) \/ StoreNew(a) \/ SelfTest(a) \/ SelfId(a)
StopStep(a) == StopTest(a) \/ Ask(a) \/ AskEvent(a) \/ JoinTest(a)
WaitStep(a) == Await(a) \/ AwaitReturns(a) \/ AwaitTimesOut(a)
OwnerStep == StartTest \/ ClearFlags \/ Create \/ Detach \/ AwaitStart \/ DestroyTest \/ Free
RunStep(k) ==
  \/ Begin(k) \/ Starting(k) \/ Poll(k) \/ WaitForStopReturns(k) \/ Leave(k) \/ SignalEnd(k)
RunChoice(k) == Finish(k) \/ WaitForStop(k)

Calls == CallStart \/ CallStop \/ CallJoin \/ CallDestroy

Next ==
  \/ Calls \/ OwnerStep
  \/ \E a \in Actors : PointerStep(a) \/ StopStep(a) \/ WaitStep(a) \/ SpuriousWakeup(a)
  \/ \E k \in Children : RunStep(k) \/ RunChoice(k)

Spec == Init /\ [][Next]_vars

(* The scheduler runs every thread that can run. Nobody has to call, and a *)
(* Run that polls StopPending goes on doing so: it need neither finish nor *)
(* call WaitForStop.                                                       *)
Fairness ==
  /\ WF_vars(OwnerStep)
  /\ \A a \in Actors : WF_vars(PointerStep(a) \/ StopStep(a) \/ WaitStep(a))
  /\ \A k \in Children : WF_vars(RunStep(k))

FairSpec == Spec /\ Fairness

-------------------------------------------------------------------------------
(* The type invariant. A thread is counted among the waiters of an event   *)
(* only while it is inside that event's Wait.                              *)
TypeOK ==
  /\ ThreadIsRunning \in BOOLEAN /\ StopWasAsked \in BOOLEAN
  /\ StopWasAskedEvent.signaled \in BOOLEAN /\ IsEnded.signaled \in BOOLEAN
  /\ StopWasAskedEvent.waiters \subseteq {k \in Children : pc[k] = "waiting"}
  /\ IsEnded.waiters \subseteq {a \in Actors : pc[a] = "blocked"}
  /\ created \in 0..MaxStarts
  /\ MyThread \in 0..created /\ old \in [Actors -> 0..created]
  /\ handle \in [Children -> {"none", "attached", "detached", "deleted"}]
  /\ \A k \in Children : handle[k] = "none" <=> k > created
  /\ alive \in BOOLEAN
  /\ terminated \in BOOLEAN /\ overlapped \in BOOLEAN
  /\ pc \in [Actors -> Labels]
  /\ call \in [Actors -> {"none", "start", "stop", "join", "destroy"}]
  /\ ret \in [Actors -> BOOLEAN]
  /\ seen \in [Actors -> 0..created]
  /\ why \in [Children -> {"none", "polled", "waited", "self"}]
  /\ asked \in 0..created /\ misled \in BOOLEAN

Returned(a) == pc[a] = "idle" /\ call[a] # "none"

(* Inside Run, or on the way out of it with ThreadIsRunning still set. *)
InRun(k) == pc[k] \notin {"none", "begin", "starting", "signal", "done"}

(* StopThread that returns TRUE, and Join, come back only when the threads *)
(* there were at the call have left Run (Thread.cpp 139 and 180, "Wait the *)
(* end of the thread").                                                    *)
ReturnMeansEnded ==
  \A a \in Controllers :
    Returned(a) /\ call[a] \in {"stop", "join"} /\ ret[a]
      => \A k \in 1..seen[a] : pc[k] \in {"signal", "done"}

(* The same, as long as no run's end was signalled for a later one and no  *)
(* Wait came back of itself: early StopThreads apart, these are the only   *)
(* ways in which the answer of StopThread or Join is ever wrong.           *)
AnswersAreRight == misled \/ ReturnMeansEnded

(* StartThread "do nothing if already running" (Thread.cpp 77): never two  *)
(* threads in the Run of one object.                                       *)
OneRunAtATime == \A j, k \in Children : InRun(j) /\ InRun(k) => j = k

(* Some StopThread was called since child k was created. *)
WasAsked(k) == asked >= k

(* A Run that leaves because StopPending was true was asked to: no request *)
(* made to an earlier child is left over for this one (Thread.cpp 83-84).  *)
PollsOnlyWhenAsked ==
  \A k \in Children : pc[k] = "leave" /\ why[k] = "polled" => WasAsked(k)

(* A StopThread that gives up waiting, and answers FALSE, leaves its       *)
(* request behind for the Run it could not wait for.                       *)
RequestOutlivesTimeOut ==
  \A a \in Controllers :
    Returned(a) /\ call[a] = "stop" /\ ~ret[a] /\ seen[a] = created /\ created > 0
      => (InRun(created) => StopWasAsked)

(* The destructor waits for the child, so that no CallRun ever touches an  *)
(* object that is gone (Thread.cpp 67-73).                                 *)
NoUseAfterFree == ~alive => \A k \in 1..created : pc[k] = "done"

(* No std::thread is destroyed while attached, deleted twice, or used when *)
(* it is null or gone, unless two threads were at MyThread at once, one    *)
(* between its read and its last use of what it read (Thread.cpp 90, 93,   *)
(* 159, 258-260): with a child that runs before MyThread is stored, stops  *)
(* itself unrecognised and resets the pointer of the next StartThread, it  *)
(* takes that to go wrong.                                                 *)
NeverTerminates == terminated => overlapped

(* A call of StopThread returns (Thread.cpp 111-162). *)
StopReturns ==
  \A a \in Controllers : (pc[a] # "idle" /\ call[a] = "stop") ~> (pc[a] = "idle")

(* A Run that is asked to stop ends, whether it polls StopPending or       *)
(* waits in WaitForStop, and CallRun signals that it has.                  *)
AskedRunEnds ==
  \A k \in Children : (pc[k] \in {"run", "waiting"} /\ StopWasAsked) ~> (pc[k] = "done")

===============================================================================
