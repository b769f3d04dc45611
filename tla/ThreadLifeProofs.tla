---------------------------- MODULE ThreadLifeProofs ----------------------------
(* For any number of starts and of peers: what holds of a Thread as long as its   *)
(* users keep the handshake, and what else when nobody but the owner calls it or  *)
(* it is started once.                                                            *)
EXTENDS ThreadLife, TLAPS

Kinds == {"none", "start", "stop", "join", "destroy"}
StopPath == {"stopTest", "ask", "askEvent", "reset", "delete", "store"}
WaitPath == {"selfTest", "selfId", "joinTest", "await", "blocked"}
Starts == {"startTest", "clearFlags", "create"}
Launch == {"startRead", "startDelete", "startStore", "detach"}
OwnerPlaces ==
  {"idle"} \cup Starts \cup Launch \cup {"awaitStart", "destroyTest", "free", "gone"}
    \cup StopPath \cup WaitPath
PeerPlaces == {"idle"} \cup StopPath \cup WaitPath
Calling == StopPath \cup WaitPath
ChildPlaces ==
  {"none", "begin", "starting", "run", "waiting", "leave", "signal", "done"} \cup Calling

\* Out of Run, with ThreadIsRunning reset.
Past(k) == pc[k] \in {"signal", "done"}

-------------------------------------------------------------------------------
(* The invariant, in the order in which its parts rest on each other.            *)

\* TypeOK by its parts, and further: the events with their types, who is where, and who
\* calls what.
Events == [signaled : BOOLEAN, waiters : SUBSET Actors]
Flags ==
  /\ ThreadIsRunning \in BOOLEAN /\ StopWasAsked \in BOOLEAN
  /\ StopWasAskedEvent \in Events /\ IsEnded \in Events
  /\ \A k \in StopWasAskedEvent.waiters : k \in Children /\ pc[k] = "waiting"
  /\ \A a \in IsEnded.waiters : pc[a] = "blocked"
Counters ==
  /\ created \in 0..MaxStarts /\ asked \in 0..created
  /\ alive \in BOOLEAN /\ misled \in BOOLEAN
  /\ why \in [Children -> {"none", "polled", "waited", "self"}]
Pointers ==
  /\ MyThread \in 0..created /\ old \in [Actors -> 0..created]
  /\ handle \in [Children -> {"none", "attached", "detached", "deleted"}]
  /\ \A k \in Children : handle[k] = "none" <=> k > created
  /\ terminated \in BOOLEAN /\ overlapped \in BOOLEAN
Places ==
  /\ pc \in [Actors -> Labels]
  /\ pc[Owner] \in OwnerPlaces
  /\ \A p \in Peers : pc[p] \in PeerPlaces
  /\ \A k \in Children : pc[k] \in ChildPlaces /\ (pc[k] = "none" <=> k > created)
Callers ==
  /\ call \in [Actors -> Kinds] /\ ret \in [Actors -> BOOLEAN]
  /\ seen \in [Actors -> 0..created]
  /\ \A a \in Peers \cup Children : call[a] \in {"none", "stop", "join"}
Typed == Flags /\ Counters /\ Pointers /\ Places /\ Callers

\* The calls of the owner: which one it makes, and that it alone creates children.
OwnerCall ==
  /\ pc[Owner] \in Starts \cup Launch \cup {"awaitStart"} => call[Owner] = "start"
  /\ pc[Owner] \in Starts \cup StopPath \cup WaitPath \cup {"destroyTest", "free"} =>
       call[Owner] # "none" /\ seen[Owner] = created
  /\ pc[Owner] \in {"destroyTest", "free"} => call[Owner] = "destroy"
  /\ pc[Owner] \in Starts => created < MaxStarts

\* Who is inside a method that ends a run has called one: Join, or StopThread.
Inside ==
  \A a \in Controllers :
    /\ pc[a] \in Calling => call[a] \in {"stop", "join", "destroy"}
    /\ pc[a] = "joinTest" => call[a] = "join"
    /\ pc[a] \in StopPath => call[a] # "join"

\* By the handshake a call finds the last child in its Run or past it.
Begun ==
  \A a \in Controllers :
    call[a] # "none" /\ seen[a] = created /\ created > 0 =>
      pc[created] \notin {"begin", "starting"}

\* One child at a time: those before the last have left, and the last has before the next.
OneChild ==
  /\ \A k \in Children : k < created => Past(k)
  /\ pc[Owner] \in {"clearFlags", "create"} => \A k \in 1..created : Past(k)
  /\ created > 0 /\ InRun(created) => ThreadIsRunning

\* IsEnded is signalled by the last child only, and tells those that wait for it.
Ended(a) == \A k \in 1..seen[a] : Past(k)
Told(a) ==
  \/ pc[a] = "blocked" /\ a \notin IsEnded.waiters
  \/ pc[a] \in {"reset", "store", "delete", "idle"} /\ ret[a]
     /\ call[a] \in {"stop", "join", "destroy"}
Answers ==
  ~misled =>
    /\ IsEnded.signaled => created > 0 /\ pc[created] \in {"begin", "done"}
    /\ \A a \in Controllers : Told(a) => Ended(a)

\* Who has asked, and was not answered that the run has ended.
HasAsked(a) ==
  /\ call[a] \in {"stop", "destroy"}
  /\ \/ pc[a] \in {"askEvent", "selfTest", "selfId", "await", "blocked"}
     \/ pc[a] \in {"reset", "store", "delete", "idle"} /\ ~ret[a]
Requests ==
  \A a \in Controllers :
    HasAsked(a) /\ seen[a] = created /\ created > 0 /\ InRun(created) => StopWasAsked

HandInv == Typed /\ OwnerCall /\ Inside /\ Begun /\ OneChild /\ Answers /\ Requests

\* The owner starts while no peer calls.
Alone ==
  /\ \A p \in Peers : pc[p] # "idle" => created > 0
  /\ pc[Owner] \in Starts \cup Launch \cup {"awaitStart"} =>
       \A p \in Peers : pc[p] = "idle"

\* A request is for the last child.
Asked ==
  /\ StopWasAsked => asked = created
  /\ \A a \in Actors : pc[a] \in {"destroyTest", "stopTest", "ask"} => asked = created
  /\ pc[Owner] = "create" => ~StopWasAsked
  /\ \A k \in Children : why[k] = "polled" => asked >= k

AloneInv == HandInv /\ Alone /\ Asked

\* MyThread, as long as no two actors were at it at once: what it owns is detached, but
\* for the one that StartThread has just stored, and what a reset has just deleted.
Spare(k) == k # 0 => handle[k] = "detached"
Storing == {"startStore", "store"}
Undisturbed ==
  /\ ~terminated
  /\ \A a, b \in Actors : pc[a] \in AtPointer /\ pc[b] \in AtPointer => a = b
  /\ pc[Owner] \in Launch => created > 0 /\ handle[created] = "attached"
  /\ pc[Owner] = "detach" => MyThread = created
  /\ pc[Owner] # "detach" /\ (\A a \in Actors : pc[a] \notin Storing) => Spare(MyThread)
  /\ \A a \in Actors :
       /\ pc[a] \in {"startDelete", "delete", "selfId"} => old[a] = MyThread
       /\ pc[a] = "selfId" => MyThread # 0
OneAtATime == ~overlapped => Undisturbed

\* Started once, by a Run that ends when it is asked to, and with Waits that neither
\* expire nor come back of themselves: no child calls, and nobody is misled...
Plain == ~misled /\ \A k \in Children : pc[k] \notin Calling

\* ...nobody waits for the end of a run before there is one...
Waiting(a) ==
  \/ pc[a] \in {"ask", "askEvent", "await", "blocked"}
  \/ pc[a] \in {"selfTest", "selfId"} /\ call[a] # "join"
Unstarted ==
  created = 0 => /\ ~ThreadIsRunning /\ ~StopWasAskedEvent.signaled
                 /\ \A a \in Controllers : ~Waiting(a)

\* ...who comes back from Wait finds CallRun over...
AllDone == \A k \in 1..created : pc[k] = "done"
Over ==
  /\ IsEnded.signaled => AllDone
  /\ \A a \in Controllers : pc[a] = "blocked" /\ a \notin IsEnded.waiters => AllDone

\* ...a Run leaves because somebody asked, who then waits until CallRun is over...
Asker(a) ==
  /\ call[a] \in {"stop", "destroy"}
  /\ pc[a] \in {"askEvent", "selfTest", "selfId", "await", "blocked"}
Requested(k) ==
  \/ StopWasAsked \/ StopWasAskedEvent.signaled \/ pc[k] \in {"leave", "signal"}
  \/ pc[k] = "waiting" /\ k \notin StopWasAskedEvent.waiters
Watched ==
  \A k \in 1..created : Requested(k) /\ pc[k] # "done" => \E a \in Controllers : Asker(a)

\* ...and the owner, once nobody else calls, frees the object when it is.
Destroying ==
  /\ call[Owner] = "destroy" => \A p \in Peers : pc[p] = "idle"
  /\ call[Owner] = "destroy" /\ pc[Owner] \in {"reset", "delete", "store", "free", "gone"}
       => AllDone
  /\ ~alive => pc[Owner] = "gone" /\ call[Owner] = "destroy"

FreeInv == AloneInv /\ Plain /\ Unstarted /\ Over /\ Watched /\ Destroying
-------------------------------------------------------------------------------
\* Who is who: the owner, the peers and the children are three kinds of actors, and each
\* returns from a call to a place of its own.
LEMMA Roles ==
  /\ Owner \in Actors /\ Peers \subseteq Actors /\ Children \subseteq Actors
  /\ Controllers \subseteq Actors /\ Owner \in Controllers /\ Peers \subseteq Controllers
  /\ Owner \notin Peers /\ Owner \notin Children /\ Peers \cap Children = {}
  /\ \A a \in Actors : a = Owner \/ a \in Peers \/ a \in Children
  /\ \A a \in Controllers : a \notin Children /\ (a = Owner \/ a \in Peers)
  /\ Children \subseteq Nat /\ MaxStarts \in Nat
  /\ \A k \in Nat : k \in Children <=> 1 <= k /\ k <= MaxStarts
BY ActorsAssumption, BoundAssumption DEF Actors, Controllers, Children

\* Who names itself by GetId is a child, and goes back to its Run.
LEMMA Myself ==
  ASSUME Typed, NEW a \in Actors, SelfId(a)
  PROVE  /\ pc[a] = "selfId"
         /\ UNCHANGED <<flags, MyThread, handle, overlapped, created, alive, history>>
         /\ old' = [old EXCEPT ![a] = 0]
         /\ (a \in Children /\ Return(a, FALSE)) \/ GoOn(a)
<1>1. PICK p \in {old[a], MyThread} :
        IF p = 0 \/ handle[p] = "deleted" THEN GoOn(a) /\ terminated' = TRUE
        ELSE /\ IF p = a /\ handle[p] = "attached" THEN Return(a, FALSE) ELSE GoOn(a)
             /\ UNCHANGED terminated
  BY DEF SelfId
<1>2. p \in 0..created /\ created \in 0..MaxStarts
  BY DEF Typed, Pointers, Counters
<1>3. p # 0 /\ p = a => a \in Children
  BY <1>2, Roles
<1>4. (a \in Children /\ Return(a, FALSE)) \/ GoOn(a)
  BY <1>1, <1>3
<1> QED BY <1>4 DEF SelfId

\* Who comes to MyThread without being noticed is there alone.
LEMMA Alarmed ==
  ASSUME Typed, NEW a \in Actors, ComesTo(a)
  PROVE  /\ overlapped' \in BOOLEAN
         /\ ~overlapped' => ~overlapped /\ \A b \in Actors \ {a} : pc[b] \notin AtPointer
BY DEF ComesTo, Typed, Pointers

\* delete destroys one object, and does no harm when that is detached.
LEMMA Deleted ==
  ASSUME Typed, NEW k \in 0..created, Delete(k)
  PROVE  /\ handle' \in [Children -> {"none", "attached", "detached", "deleted"}]
         /\ \A j \in Children : handle'[j] = "none" <=> handle[j] = "none"
         /\ \A j \in Children : j # k => handle'[j] = handle[j]
         /\ terminated' \in BOOLEAN
         /\ Spare(k) => terminated' = terminated
<1>1. CASE k = 0
  BY <1>1 DEF Delete, Typed, Pointers
<1>2. CASE k # 0
  <2>1. k \in Children /\ k <= created
    BY <1>2, Roles DEF Typed, Counters
  <2>2. handle[k] # "none" /\ handle' = [handle EXCEPT ![k] = "deleted"]
    BY <1>2, <2>1, Roles DEF Delete, Typed, Counters, Pointers
  <2>3. terminated' \in BOOLEAN /\ (Spare(k) => terminated' = terminated)
    BY <1>2 DEF Delete, Spare, Typed, Pointers
  <2> QED BY <2>1, <2>2, <2>3 DEF Typed, Pointers
<1> QED BY <1>1, <1>2

\* The flags: an event counts as waiters only those inside its Wait.
LEMMA FlagsStep ==
  ASSUME Typed, [Next]_vars
  PROVE  Flags'
<1>1. CASE CallStart
  BY <1>1, Roles DEF CallStart, Call, OwnerMay, Goto, Home, Typed, Flags, Events, Places,
     vars, flags, world, calls, history
<1>2. CASE OwnerMay("stop") /\ Call(Owner, "stop", "stopTest")
  BY <1>2, Roles DEF Call, OwnerMay, Goto, Home, Typed, Flags, Events, Places, vars,
     flags, world, calls, history
<1>3. ASSUME PeerMay, NEW p \in Peers, Call(p, "stop", "stopTest")
      PROVE  Flags'
  BY <1>3, Roles DEF Call, PeerMay, Goto, Home, Typed, Flags, Events, Places, vars, flags,
     world, calls, history
<1>4. ASSUME "stop" \in RunStyle, NEW k \in Children, Call(k, "stop", "stopTest")
      PROVE  Flags'
  BY <1>4, Roles DEF Call, Goto, Home, Typed, Flags, Events, Places, vars, flags, world,
     calls, history
<1>5. CASE OwnerMay("join") /\ Call(Owner, "join", "selfTest")
  BY <1>5, Roles DEF Call, OwnerMay, Goto, Home, Typed, Flags, Events, Places, vars,
     flags, world, calls, history
<1>6. ASSUME PeerMay, NEW p \in Peers, Call(p, "join", "selfTest")
      PROVE  Flags'
  BY <1>6, Roles DEF Call, PeerMay, Goto, Home, Typed, Flags, Events, Places, vars, flags,
     world, calls, history
<1>7. ASSUME "join" \in RunStyle, NEW k \in Children, Call(k, "join", "selfTest")
      PROVE  Flags'
  BY <1>7, Roles DEF Call, Goto, Home, Typed, Flags, Events, Places, vars, flags, world,
     calls, history
<1>8. CASE CallDestroy
  BY <1>8, Roles DEF CallDestroy, Call, OwnerMay, Goto, Home, Typed, Flags, Events,
     Places, vars, flags, world, calls, history
<1>9. CASE StartTest
  BY <1>9, Roles DEF StartTest, Return, Goto, Home, Typed, Flags, Events, Places, vars,
     flags, world, calls, history
<1>10. CASE ClearFlags
  BY <1>10, Roles DEF ClearFlags, Goto, Typed, Flags, Events, Places, vars, flags, world,
     calls, history
<1>11. CASE Create
  <2>1. created + 1 \in Children /\ pc[created + 1] = "none" /\ pc[Owner] = "create"
    BY <1>11, Roles DEF Create, Typed, Counters, Places
  <2>2. \A a \in Actors : pc[a] \in {"waiting", "blocked"} => pc'[a] = pc[a]
    BY <1>11, <2>1, Roles DEF Create, Typed, Places
  <2> QED BY <1>11, <2>2, Roles DEF Create, Typed, Flags, Events, flags
<1>12. CASE Detach
  BY <1>12, Roles DEF Detach, Goto, Typed, Flags, Events, Places, vars, flags,
     world, calls, history
<1>13. CASE AwaitStart
  BY <1>13, Roles DEF AwaitStart, Return, Goto, Home, Typed, Flags, Events, Places, vars,
     flags, world, calls, history
<1>14. CASE DestroyTest
  BY <1>14, Roles DEF DestroyTest, Goto, Typed, Flags, Events, Places, vars, flags, world,
     calls, history
<1>15. CASE Free
  BY <1>15, Roles DEF Free, Goto, Typed, Flags, Events, Places, vars,
     flags, world, calls, history
<1>16. ASSUME NEW a \in Actors, ReadOld(a) PROVE Flags'
  BY <1>16, Roles DEF ReadOld, AfterReset, Home, Goto, Typed, Flags, Events, Places, vars,
     flags, world, calls, history
<1>17. ASSUME NEW a \in Actors, StoreNew(a) PROVE Flags'
  BY <1>17, Roles DEF StoreNew, AfterReset, Home, Goto, Typed, Flags, Events, Places,
     vars, flags, world, calls, history
<1>18. ASSUME NEW a \in Actors, DeleteOld(a) PROVE Flags'
  BY <1>18, Roles DEF DeleteOld, Goto, Typed, Flags, Events, Places, vars, flags,
     world, calls, history
<1>19. ASSUME NEW a \in Actors, SelfTest(a) PROVE Flags'
  BY <1>19, Roles DEF SelfTest, GoOn, Goto, Typed, Flags, Events, Places, vars, flags,
     world, calls, history
<1>20. ASSUME NEW a \in Actors, SelfId(a) PROVE Flags'
  BY <1>20, Roles DEF SelfId, GoOn, Return, Goto, Home, Typed, Flags, Events, Places,
     vars, flags, world, calls, history
<1>21. ASSUME NEW a \in Actors, StopTest(a) PROVE Flags'
  BY <1>21, Roles DEF StopTest, Goto, Typed, Flags, Events, Places, vars, flags, world,
     calls, history
<1>22. ASSUME NEW a \in Actors, Ask(a) PROVE Flags'
  BY <1>22, Roles DEF Ask, Goto, Typed, Flags, Events, Places, vars, flags, world, calls,
     history
<1>23. ASSUME NEW a \in Actors, AskEvent(a) PROVE Flags'
  BY <1>23, Roles DEF AskEvent, Goto, Signal, Typed, Flags, Events, Places, vars, flags,
     world, calls, history
<1>24. ASSUME NEW a \in Actors, JoinTest(a) PROVE Flags'
  BY <1>24, Roles DEF JoinTest, Return, Goto, Home, Typed, Flags, Events, Places, vars,
     flags, world, calls, history
<1>25. ASSUME NEW a \in Actors, Await(a) PROVE Flags'
  BY <1>25, Roles DEF Await, Blocked, Passes, Goto, Typed, Flags, Events, Places, vars,
     flags, world, calls, history
<1>26. ASSUME NEW a \in Actors, AwaitReturns(a) PROVE Flags'
  BY <1>26, Roles DEF AwaitReturns, Passes, Woken, Waited, Return, Goto, Home, Typed,
     Flags, Events, Places, vars, flags, world, calls, history
<1>27. ASSUME NEW a \in Actors, AwaitTimesOut(a) PROVE Flags'
  BY <1>27, Roles DEF AwaitTimesOut, Unblocked, Waited, Return, Goto, Home, Typed, Flags,
     Events, Places, vars, flags, world, calls, history
<1>28. ASSUME NEW a \in Actors, SpuriousWakeup(a) PROVE Flags'
  BY <1>28, Roles DEF SpuriousWakeup, Unblocked, Typed, Flags, Events, Places, vars,
     flags, world, calls, history
<1>29. ASSUME NEW k \in Children, Begin(k) PROVE Flags'
  BY <1>29, Roles DEF Begin, Reset, Goto, Typed, Flags, Events, Places, vars, flags,
     world, calls, history
<1>30. ASSUME NEW k \in Children, Starting(k) PROVE Flags'
  BY <1>30, Roles DEF Starting, Goto, Typed, Flags, Events, Places, vars, flags, world,
     calls, history
<1>31. ASSUME NEW k \in Children, Poll(k) PROVE Flags'
  BY <1>31, Roles DEF Poll, LeaveRun, Goto, Typed, Flags, Events, Places, vars, flags,
     world, calls, history
<1>32. ASSUME NEW k \in Children, WaitForStopReturns(k) PROVE Flags'
  BY <1>32, Roles DEF WaitForStopReturns, Woken, LeaveRun, Goto, Typed, Flags, Events,
     Places, vars, flags, world, calls, history
<1>33. ASSUME NEW k \in Children, Leave(k) PROVE Flags'
  BY <1>33, Roles DEF Leave, Goto, Typed, Flags, Events, Places, vars, flags, world,
     calls, history
<1>34. ASSUME NEW k \in Children, SignalEnd(k) PROVE Flags'
  BY <1>34, Roles DEF SignalEnd, Signal, Goto, Typed, Flags, Events, Places, vars, flags,
     world, calls, history
<1>35. ASSUME NEW k \in Children, Finish(k) PROVE Flags'
  BY <1>35, Roles DEF Finish, LeaveRun, Goto, Typed, Flags, Events, Places, vars, flags,
     world, calls, history
<1>36. ASSUME NEW k \in Children, WaitForStop(k) PROVE Flags'
  BY <1>36, Roles DEF WaitForStop, Blocked, Passes, LeaveRun, Goto, Typed, Flags, Events,
     Places, vars, flags, world, calls, history
<1>37. CASE UNCHANGED vars
  BY <1>37, Roles DEF Typed, Flags, Events, Places, vars, flags, world, calls, history
<1> QED BY <1>1, <1>2, <1>3, <1>4, <1>5, <1>6, <1>7, <1>8, <1>9, <1>10, <1>11, <1>12,
   <1>13, <1>14, <1>15, <1>16, <1>17, <1>18, <1>19, <1>20, <1>21, <1>22, <1>23, <1>24,
   <1>25, <1>26, <1>27, <1>28, <1>29, <1>30, <1>31, <1>32, <1>33, <1>34, <1>35, <1>36,
   <1>37 DEF Next, Calls, OwnerStep, PointerStep, StopStep, WaitStep, RunStep, RunChoice,
   CallStop, CallJoin

\* The counters.
LEMMA CountersStep ==
  ASSUME Typed, [Next]_vars
  PROVE  Counters'
<1>1. CASE CallStart
  BY <1>1, Roles DEF CallStart, Call, OwnerMay, Goto, Home, Typed, Counters, vars, flags,
     world, calls, history
<1>2. CASE OwnerMay("stop") /\ Call(Owner, "stop", "stopTest")
  BY <1>2, Roles DEF Call, OwnerMay, Goto, Home, Typed, Counters, vars, flags, world,
     calls, history
<1>3. ASSUME PeerMay, NEW p \in Peers, Call(p, "stop", "stopTest")
      PROVE  Counters'
  BY <1>3, Roles DEF Call, PeerMay, Goto, Home, Typed, Counters, vars, flags, world,
     calls, history
<1>4. ASSUME "stop" \in RunStyle, NEW k \in Children, Call(k, "stop", "stopTest")
      PROVE  Counters'
  BY <1>4, Roles DEF Call, Goto, Home, Typed, Counters, vars, flags, world, calls, history
<1>5. CASE OwnerMay("join") /\ Call(Owner, "join", "selfTest")
  BY <1>5, Roles DEF Call, OwnerMay, Goto, Home, Typed, Counters, vars, flags, world,
     calls, history
<1>6. ASSUME PeerMay, NEW p \in Peers, Call(p, "join", "selfTest")
      PROVE  Counters'
  BY <1>6, Roles DEF Call, PeerMay, Goto, Home, Typed, Counters, vars, flags, world,
     calls, history
<1>7. ASSUME "join" \in RunStyle, NEW k \in Children, Call(k, "join", "selfTest")
      PROVE  Counters'
  BY <1>7, Roles DEF Call, Goto, Home, Typed, Counters, vars, flags, world, calls, history
<1>8. CASE CallDestroy
  BY <1>8, Roles DEF CallDestroy, Call, OwnerMay, Goto, Home, Typed, Counters, vars,
     flags, world, calls, history
<1>9. CASE StartTest
  BY <1>9, Roles DEF StartTest, Return, Goto, Home, Typed, Counters, vars, flags, world,
     calls, history
<1>10. CASE ClearFlags
  BY <1>10, Roles DEF ClearFlags, Goto, Typed, Counters, vars, flags, world, calls,
     history
<1>11. CASE Create
  BY <1>11, Roles DEF Create, Typed, Counters, vars, flags, world, calls, history
<1>12. CASE Detach
  BY <1>12, Roles DEF Detach, Goto, Typed, Counters, vars, flags, world, calls,
     history
<1>13. CASE AwaitStart
  BY <1>13, Roles DEF AwaitStart, Return, Goto, Home, Typed, Counters, vars, flags, world,
     calls, history
<1>14. CASE DestroyTest
  BY <1>14, Roles DEF DestroyTest, Goto, Typed, Counters, vars, flags, world, calls,
     history
<1>15. CASE Free
  BY <1>15, Roles DEF Free, Goto, Typed, Counters, vars, flags, world, calls, history
<1>16. ASSUME NEW a \in Actors, ReadOld(a) PROVE Counters'
  BY <1>16, Roles DEF ReadOld, AfterReset, Home, Goto, Typed, Counters, vars, flags,
     world, calls, history
<1>17. ASSUME NEW a \in Actors, StoreNew(a) PROVE Counters'
  BY <1>17, Roles DEF StoreNew, AfterReset, Home, Goto, Typed, Counters, vars, flags,
     world, calls, history
<1>18. ASSUME NEW a \in Actors, DeleteOld(a) PROVE Counters'
  BY <1>18, Roles DEF DeleteOld, Goto, Typed, Counters, vars, flags, world, calls,
     history
<1>19. ASSUME NEW a \in Actors, SelfTest(a) PROVE Counters'
  BY <1>19, Roles DEF SelfTest, GoOn, Goto, Typed, Counters, vars, flags, world, calls,
     history
<1>20. ASSUME NEW a \in Actors, SelfId(a) PROVE Counters'
  BY <1>20, Roles DEF SelfId, GoOn, Return, Goto, Home, Typed, Counters, vars, flags,
     world, calls, history
<1>21. ASSUME NEW a \in Actors, StopTest(a) PROVE Counters'
  BY <1>21, Roles DEF StopTest, Goto, Typed, Counters, vars, flags, world, calls, history
<1>22. ASSUME NEW a \in Actors, Ask(a) PROVE Counters'
  BY <1>22, Roles DEF Ask, Goto, Typed, Counters, vars, flags, world, calls, history
<1>23. ASSUME NEW a \in Actors, AskEvent(a) PROVE Counters'
  BY <1>23, Roles DEF AskEvent, Goto, Signal, Typed, Counters, vars, flags, world, calls,
     history
<1>24. ASSUME NEW a \in Actors, JoinTest(a) PROVE Counters'
  BY <1>24, Roles DEF JoinTest, Return, Goto, Home, Typed, Counters, vars, flags, world,
     calls, history
<1>25. ASSUME NEW a \in Actors, Await(a) PROVE Counters'
  BY <1>25, Roles DEF Await, Blocked, Passes, Goto, Typed, Counters, vars, flags, world,
     calls, history
<1>26. ASSUME NEW a \in Actors, AwaitReturns(a) PROVE Counters'
  BY <1>26, Roles DEF AwaitReturns, Passes, Woken, Waited, Return, Goto, Home, Typed,
     Counters, vars, flags, world, calls, history
<1>27. ASSUME NEW a \in Actors, AwaitTimesOut(a) PROVE Counters'
  BY <1>27, Roles DEF AwaitTimesOut, Unblocked, Waited, Return, Goto, Home, Typed,
     Counters, vars, flags, world, calls, history
<1>28. ASSUME NEW a \in Actors, SpuriousWakeup(a) PROVE Counters'
  BY <1>28, Roles DEF SpuriousWakeup, Unblocked, Typed, Counters, vars, flags, world,
     calls, history
<1>29. ASSUME NEW k \in Children, Begin(k) PROVE Counters'
  BY <1>29, Roles DEF Begin, Reset, Goto, Typed, Counters, vars, flags, world, calls,
     history
<1>30. ASSUME NEW k \in Children, Starting(k) PROVE Counters'
  BY <1>30, Roles DEF Starting, Goto, Typed, Counters, vars, flags, world, calls, history
<1>31. ASSUME NEW k \in Children, Poll(k) PROVE Counters'
  BY <1>31, Roles DEF Poll, LeaveRun, Goto, Typed, Counters, vars, flags, world, calls,
     history
<1>32. ASSUME NEW k \in Children, WaitForStopReturns(k) PROVE Counters'
  BY <1>32, Roles DEF WaitForStopReturns, Woken, LeaveRun, Goto, Typed, Counters, vars,
     flags, world, calls, history
<1>33. ASSUME NEW k \in Children, Leave(k) PROVE Counters'
  BY <1>33, Roles DEF Leave, Goto, Typed, Counters, vars, flags, world, calls, history
<1>34. ASSUME NEW k \in Children, SignalEnd(k) PROVE Counters'
  BY <1>34, Roles DEF SignalEnd, Signal, Goto, Typed, Counters, vars, flags, world, calls,
     history
<1>35. ASSUME NEW k \in Children, Finish(k) PROVE Counters'
  BY <1>35, Roles DEF Finish, LeaveRun, Goto, Typed, Counters, vars, flags, world, calls,
     history
<1>36. ASSUME NEW k \in Children, WaitForStop(k) PROVE Counters'
  BY <1>36, Roles DEF WaitForStop, Blocked, Passes, LeaveRun, Goto, Typed, Counters, vars,
     flags, world, calls, history
<1>37. CASE UNCHANGED vars
  BY <1>37, Roles DEF Typed, Counters, vars, flags, world, calls, history
<1> QED BY <1>1, <1>2, <1>3, <1>4, <1>5, <1>6, <1>7, <1>8, <1>9, <1>10, <1>11, <1>12,
   <1>13, <1>14, <1>15, <1>16, <1>17, <1>18, <1>19, <1>20, <1>21, <1>22, <1>23, <1>24,
   <1>25, <1>26, <1>27, <1>28, <1>29, <1>30, <1>31, <1>32, <1>33, <1>34, <1>35, <1>36,
   <1>37 DEF Next, Calls, OwnerStep, PointerStep, StopStep, WaitStep, RunStep, RunChoice,
   CallStop, CallJoin

\* MyThread and the objects it owns.
LEMMA PointersStep ==
  ASSUME Typed, [Next]_vars
  PROVE  Pointers'
<1>1. CASE CallStart
  BY <1>1, Roles DEF CallStart, Call, OwnerMay, Goto, Home, Typed, Counters, Pointers,
     pointer, world
<1>2. CASE OwnerMay("stop") /\ Call(Owner, "stop", "stopTest")
  BY <1>2, Roles DEF Call, Goto, Home, Typed, Counters, Pointers, pointer, world
<1>3. ASSUME PeerMay, NEW p \in Peers, Call(p, "stop", "stopTest") PROVE Pointers'
  BY <1>3, Roles DEF Call, Goto, Home, Typed, Counters, Pointers, pointer, world
<1>4. ASSUME "stop" \in RunStyle, NEW k \in Children, Call(k, "stop", "stopTest")
      PROVE  Pointers'
  BY <1>4, Roles DEF Call, Goto, Home, Typed, Counters, Pointers, pointer, world
<1>5. CASE OwnerMay("join") /\ Call(Owner, "join", "selfTest")
  BY <1>5, Roles DEF Call, Goto, Home, Typed, Counters, Pointers, pointer, world
<1>6. ASSUME PeerMay, NEW p \in Peers, Call(p, "join", "selfTest") PROVE Pointers'
  BY <1>6, Roles DEF Call, Goto, Home, Typed, Counters, Pointers, pointer, world
<1>7. ASSUME "join" \in RunStyle, NEW k \in Children, Call(k, "join", "selfTest")
      PROVE  Pointers'
  BY <1>7, Roles DEF Call, Goto, Home, Typed, Counters, Pointers, pointer, world
<1>8. CASE CallDestroy
  BY <1>8, Roles DEF CallDestroy, Call, OwnerMay, Goto, Home, Typed, Counters, Pointers,
     pointer, world
<1>9. CASE StartTest
  BY <1>9, Roles DEF StartTest, Return, Goto, Home, Typed, Counters, Pointers, pointer,
     world
<1>10. CASE ClearFlags
  BY <1>10, Roles DEF ClearFlags, Goto, Typed, Counters, Pointers, pointer, world
<1>11. CASE Create
  BY <1>11, Roles DEF Create, Typed, Counters, Pointers, pointer, world
<1>12. CASE Detach
  BY <1>12, Roles DEF Detach, Goto, Typed, Counters, Pointers, pointer, world
<1>13. CASE AwaitStart
  BY <1>13, Roles DEF AwaitStart, Return, Goto, Home, Typed, Counters, Pointers, pointer,
     world
<1>14. CASE DestroyTest
  BY <1>14, Roles DEF DestroyTest, Goto, Typed, Counters, Pointers, pointer, world
<1>15. CASE Free
  <2>1. MyThread \in 0..created /\ created' = created /\ MyThread' = 0 /\ old' = old
    BY <1>15 DEF Free, Typed, Pointers
  <2>2. overlapped' \in BOOLEAN
    BY <1>15, Roles, Alarmed DEF Free
  <2>3. /\ handle' \in [Children -> {"none", "attached", "detached", "deleted"}]
        /\ \A k \in Children : handle'[k] = "none" <=> handle[k] = "none"
        /\ terminated' \in BOOLEAN
    BY <1>15, <2>1, Deleted DEF Free
  <2> QED BY <2>1, <2>2, <2>3, Roles DEF Typed, Counters, Pointers
<1>16. ASSUME NEW a \in Actors, ReadOld(a) PROVE Pointers'
  <2>1. ComesTo(a) \/ overlapped' = overlapped
    BY <1>16 DEF ReadOld
  <2>2. overlapped' \in BOOLEAN
    BY <2>1, Alarmed DEF Typed, Pointers
  <2>3. old' \in [Actors -> 0..created]
    BY <1>16 DEF ReadOld, Typed, Pointers
  <2> QED BY <1>16, <2>2, <2>3 DEF ReadOld, Typed, Pointers
<1>17. ASSUME NEW a \in Actors, StoreNew(a) PROVE Pointers'
  BY <1>17, Roles DEF StoreNew, Typed, Counters, Pointers, pointer, world
<1>18. ASSUME NEW a \in Actors, DeleteOld(a) PROVE Pointers'
  <2>1. created' = created /\ old' \in [Actors -> 0..created]
    BY <1>18, Roles DEF DeleteOld, Typed, Counters, Pointers
  <2>2. PICK p \in {old[a], MyThread} : Delete(p)
    BY <1>18 DEF DeleteOld
  <2>3. p \in 0..created
    BY DEF Typed, Pointers
  <2>4. /\ handle' \in [Children -> {"none", "attached", "detached", "deleted"}]
        /\ \A k \in Children : handle'[k] = "none" <=> handle[k] = "none"
        /\ terminated' \in BOOLEAN
    BY <2>2, <2>3, Deleted
  <2> QED BY <1>18, <2>1, <2>4 DEF DeleteOld, Typed, Pointers
<1>19. ASSUME NEW a \in Actors, SelfTest(a) PROVE Pointers'
  <2>1. old' \in [Actors -> 0..created] /\ overlapped' \in BOOLEAN
    <3>1. CASE MyThread = 0
      BY <1>19, <3>1 DEF SelfTest, Typed, Pointers
    <3>2. CASE MyThread # 0
      BY <1>19, <3>2, Alarmed DEF SelfTest, Typed, Pointers
    <3> QED BY <3>1, <3>2
  <2> QED BY <1>19, <2>1 DEF SelfTest, Typed, Pointers
<1>20. ASSUME NEW a \in Actors, SelfId(a) PROVE Pointers'
  <2>1. UNCHANGED <<MyThread, handle, overlapped, created>> /\ old' = [old EXCEPT ![a] = 0]
    BY <1>20, Myself
  <2>2. old' \in [Actors -> 0..created]
    BY <2>1, Roles DEF Typed, Counters, Pointers
  <2>3. terminated' \in BOOLEAN
    BY <1>20 DEF SelfId, Typed, Pointers
  <2> QED BY <2>1, <2>2, <2>3 DEF Typed, Pointers
<1>21. ASSUME NEW a \in Actors, StopTest(a) PROVE Pointers'
  BY <1>21, Roles DEF StopTest, Goto, Typed, Counters, Pointers, pointer, world
<1>22. ASSUME NEW a \in Actors, Ask(a) PROVE Pointers'
  BY <1>22, Roles DEF Ask, Goto, Typed, Counters, Pointers, pointer, world
<1>23. ASSUME NEW a \in Actors, AskEvent(a) PROVE Pointers'
  BY <1>23, Roles DEF AskEvent, Goto, Typed, Counters, Pointers, pointer, world
<1>24. ASSUME NEW a \in Actors, JoinTest(a) PROVE Pointers'
  BY <1>24, Roles DEF JoinTest, Return, Goto, Home, Typed, Counters, Pointers, pointer,
     world
<1>25. ASSUME NEW a \in Actors, Await(a) PROVE Pointers'
  BY <1>25, Roles DEF Await, Goto, Typed, Counters, Pointers, pointer, world
<1>26. ASSUME NEW a \in Actors, AwaitReturns(a) PROVE Pointers'
  BY <1>26, Roles DEF AwaitReturns, Waited, Return, Goto, Home, Typed, Counters, Pointers,
     pointer, world
<1>27. ASSUME NEW a \in Actors, AwaitTimesOut(a) PROVE Pointers'
  BY <1>27, Roles DEF AwaitTimesOut, Waited, Return, Goto, Home, Typed, Counters,
     Pointers, pointer, world
<1>28. ASSUME NEW a \in Actors, SpuriousWakeup(a) PROVE Pointers'
  BY <1>28, Roles DEF SpuriousWakeup, Typed, Counters, Pointers, pointer, world
<1>29. ASSUME NEW k \in Children, Begin(k) PROVE Pointers'
  BY <1>29, Roles DEF Begin, Goto, Typed, Counters, Pointers, pointer, world
<1>30. ASSUME NEW k \in Children, Starting(k) PROVE Pointers'
  BY <1>30, Roles DEF Starting, Goto, Typed, Counters, Pointers, pointer, world
<1>31. ASSUME NEW k \in Children, Poll(k) PROVE Pointers'
  BY <1>31, Roles DEF Poll, LeaveRun, Goto, Typed, Counters, Pointers, pointer, world
<1>32. ASSUME NEW k \in Children, WaitForStopReturns(k) PROVE Pointers'
  BY <1>32, Roles DEF WaitForStopReturns, LeaveRun, Goto, Typed, Counters, Pointers,
     pointer, world
<1>33. ASSUME NEW k \in Children, Leave(k) PROVE Pointers'
  BY <1>33, Roles DEF Leave, Goto, Typed, Counters, Pointers, pointer, world
<1>34. ASSUME NEW k \in Children, SignalEnd(k) PROVE Pointers'
  BY <1>34, Roles DEF SignalEnd, Goto, Typed, Counters, Pointers, pointer, world
<1>35. ASSUME NEW k \in Children, Finish(k) PROVE Pointers'
  BY <1>35, Roles DEF Finish, LeaveRun, Goto, Typed, Counters, Pointers, pointer, world
<1>36. ASSUME NEW k \in Children, WaitForStop(k) PROVE Pointers'
  BY <1>36, Roles DEF WaitForStop, LeaveRun, Goto, Typed, Counters, Pointers, pointer,
     world
<1>37. CASE UNCHANGED vars
  BY <1>37, Roles DEF Typed, Counters, Pointers, pointer, world, vars
<1> QED BY <1>1, <1>2, <1>3, <1>4, <1>5, <1>6, <1>7, <1>8, <1>9, <1>10, <1>11, <1>12,
   <1>13, <1>14, <1>15, <1>16, <1>17, <1>18, <1>19, <1>20, <1>21, <1>22, <1>23, <1>24,
   <1>25, <1>26, <1>27, <1>28, <1>29, <1>30, <1>31, <1>32, <1>33, <1>34, <1>35, <1>36,
   <1>37 DEF Next, Calls, OwnerStep, PointerStep, StopStep, WaitStep, RunStep, RunChoice,
   CallStop, CallJoin

\* Everybody is where it may be.
LEMMA PlacesStep ==
  ASSUME Typed, [Next]_vars
  PROVE  Places'
<1>1. CASE CallStart
  BY <1>1, Roles DEF CallStart, Call, OwnerMay, Goto, Home, Typed, Counters, Places,
     Callers, OwnerPlaces, PeerPlaces, ChildPlaces, StopPath, WaitPath, Starts, Launch,
     Calling, Labels, vars, flags, world, calls, history
<1>2. CASE OwnerMay("stop") /\ Call(Owner, "stop", "stopTest")
  BY <1>2, Roles DEF Call, OwnerMay, Goto, Home, Typed, Counters, Places, Callers,
     OwnerPlaces, PeerPlaces, ChildPlaces, StopPath, WaitPath, Starts, Launch, Calling,
     Labels, vars, flags, world, calls, history
<1>3. ASSUME PeerMay, NEW p \in Peers, Call(p, "stop", "stopTest")
      PROVE  Places'
  BY <1>3, Roles DEF Call, PeerMay, Goto, Home, Typed, Counters, Places, Callers,
     OwnerPlaces, PeerPlaces, ChildPlaces, StopPath, WaitPath, Starts, Launch, Calling,
     Labels, vars, flags, world, calls, history
<1>4. ASSUME "stop" \in RunStyle, NEW k \in Children, Call(k, "stop", "stopTest")
      PROVE  Places'
  BY <1>4, Roles DEF Call, Goto, Home, Typed, Counters, Places, Callers, OwnerPlaces,
     PeerPlaces, ChildPlaces, StopPath, WaitPath, Starts, Launch, Calling, Labels, vars,
     flags, world, calls, history
<1>5. CASE OwnerMay("join") /\ Call(Owner, "join", "selfTest")
  BY <1>5, Roles DEF Call, OwnerMay, Goto, Home, Typed, Counters, Places, Callers,
     OwnerPlaces, PeerPlaces, ChildPlaces, StopPath, WaitPath, Starts, Launch, Calling,
     Labels, vars, flags, world, calls, history
<1>6. ASSUME PeerMay, NEW p \in Peers, Call(p, "join", "selfTest")
      PROVE  Places'
  BY <1>6, Roles DEF Call, PeerMay, Goto, Home, Typed, Counters, Places, Callers,
     OwnerPlaces, PeerPlaces, ChildPlaces, StopPath, WaitPath, Starts, Launch, Calling,
     Labels, vars, flags, world, calls, history
<1>7. ASSUME "join" \in RunStyle, NEW k \in Children, Call(k, "join", "selfTest")
      PROVE  Places'
  BY <1>7, Roles DEF Call, Goto, Home, Typed, Counters, Places, Callers, OwnerPlaces,
     PeerPlaces, ChildPlaces, StopPath, WaitPath, Starts, Launch, Calling, Labels, vars,
     flags, world, calls, history
<1>8. CASE CallDestroy
  BY <1>8, Roles DEF CallDestroy, Call, OwnerMay, Goto, Home, Typed, Counters, Places,
     Callers, OwnerPlaces, PeerPlaces, ChildPlaces, StopPath, WaitPath, Starts, Launch,
     Calling, Labels, vars, flags, world, calls, history
<1>9. CASE StartTest
  BY <1>9, Roles DEF StartTest, Return, Goto, Home, Typed, Counters, Places, Callers,
     OwnerPlaces, PeerPlaces, ChildPlaces, StopPath, WaitPath, Starts, Launch, Calling,
     Labels, vars, flags, world, calls, history
<1>10. CASE ClearFlags
  BY <1>10, Roles DEF ClearFlags, Goto, Typed, Counters, Places, Callers, OwnerPlaces,
     PeerPlaces, ChildPlaces, StopPath, WaitPath, Starts, Launch, Calling, Labels, vars,
     flags, world, calls, history
<1>11. CASE Create
  BY <1>11, Roles DEF Create, Typed, Counters, Places, Callers, OwnerPlaces, PeerPlaces,
     ChildPlaces, StopPath, WaitPath, Starts, Launch, Calling, Labels, vars, flags, world,
     calls, history
<1>12. CASE Detach
  BY <1>12, Roles DEF Detach, Goto, Typed, Counters, Places, Callers, OwnerPlaces,
     PeerPlaces, ChildPlaces, StopPath, WaitPath, Starts, Launch, Calling, Labels, vars,
     flags, world, calls, history
<1>13. CASE AwaitStart
  BY <1>13, Roles DEF AwaitStart, Return, Goto, Home, Typed, Counters, Places, Callers,
     OwnerPlaces, PeerPlaces, ChildPlaces, StopPath, WaitPath, Starts, Launch, Calling,
     Labels, vars, flags, world, calls, history
<1>14. CASE DestroyTest
  BY <1>14, Roles DEF DestroyTest, Goto, Typed, Counters, Places, Callers, OwnerPlaces,
     PeerPlaces, ChildPlaces, StopPath, WaitPath, Starts, Launch, Calling, Labels, vars,
     flags, world, calls, history
<1>15. CASE Free
  BY <1>15, Roles DEF Free, Goto, Typed, Counters, Places, Callers, OwnerPlaces,
     PeerPlaces, ChildPlaces, StopPath, WaitPath, Starts, Launch, Calling, Labels, vars,
     flags, world, calls, history
<1>16. ASSUME NEW a \in Actors, ReadOld(a) PROVE Places'
  BY <1>16, Roles DEF ReadOld, AfterReset, Home, Goto, Typed, Counters, Places, Callers,
     OwnerPlaces, PeerPlaces, ChildPlaces, StopPath, WaitPath, Starts, Launch, Calling,
     Labels, vars, flags, world, calls, history
<1>17. ASSUME NEW a \in Actors, StoreNew(a) PROVE Places'
  BY <1>17, Roles DEF StoreNew, AfterReset, Home, Goto, Typed, Counters, Places, Callers,
     OwnerPlaces, PeerPlaces, ChildPlaces, StopPath, WaitPath, Starts, Launch, Calling,
     Labels, vars, flags, world, calls, history
<1>18. ASSUME NEW a \in Actors, DeleteOld(a) PROVE Places'
  BY <1>18, Roles DEF DeleteOld, Goto, Typed, Counters, Places, Callers,
     OwnerPlaces, PeerPlaces, ChildPlaces, StopPath, WaitPath, Starts, Launch, Calling,
     Labels, vars, flags, world, calls, history
<1>19. ASSUME NEW a \in Actors, SelfTest(a) PROVE Places'
  BY <1>19, Roles DEF SelfTest, GoOn, Goto, Typed, Counters, Places, Callers, OwnerPlaces,
     PeerPlaces, ChildPlaces, StopPath, WaitPath, Starts, Launch, Calling, Labels, vars,
     flags, world, calls, history
<1>20. ASSUME NEW a \in Actors, SelfId(a) PROVE Places'
  BY <1>20, Roles DEF SelfId, GoOn, Return, Goto, Home, Typed, Counters, Places, Callers,
     OwnerPlaces, PeerPlaces, ChildPlaces, StopPath, WaitPath, Starts, Launch, Calling,
     Labels, vars, flags, world, calls, history
<1>21. ASSUME NEW a \in Actors, StopTest(a) PROVE Places'
  BY <1>21, Roles DEF StopTest, Goto, Typed, Counters, Places, Callers, OwnerPlaces,
     PeerPlaces, ChildPlaces, StopPath, WaitPath, Starts, Launch, Calling, Labels, vars,
     flags, world, calls, history
<1>22. ASSUME NEW a \in Actors, Ask(a) PROVE Places'
  BY <1>22, Roles DEF Ask, Goto, Typed, Counters, Places, Callers, OwnerPlaces,
     PeerPlaces, ChildPlaces, StopPath, WaitPath, Starts, Launch, Calling, Labels, vars,
     flags, world, calls, history
<1>23. ASSUME NEW a \in Actors, AskEvent(a) PROVE Places'
  BY <1>23, Roles DEF AskEvent, Goto, Signal, Typed, Counters, Places, Callers,
     OwnerPlaces, PeerPlaces, ChildPlaces, StopPath, WaitPath, Starts, Launch, Calling,
     Labels, vars, flags, world, calls, history
<1>24. ASSUME NEW a \in Actors, JoinTest(a) PROVE Places'
  BY <1>24, Roles DEF JoinTest, Return, Goto, Home, Typed, Counters, Places, Callers,
     OwnerPlaces, PeerPlaces, ChildPlaces, StopPath, WaitPath, Starts, Launch, Calling,
     Labels, vars, flags, world, calls, history
<1>25. ASSUME NEW a \in Actors, Await(a) PROVE Places'
  BY <1>25, Roles DEF Await, Blocked, Passes, Goto, Typed, Counters, Places, Callers,
     OwnerPlaces, PeerPlaces, ChildPlaces, StopPath, WaitPath, Starts, Launch, Calling,
     Labels, vars, flags, world, calls, history
<1>26. ASSUME NEW a \in Actors, AwaitReturns(a) PROVE Places'
  <2>1. created' = created /\ pc[a] \in {"await", "blocked"}
    BY <1>26 DEF AwaitReturns, world
  <2>2. \E l \in {"reset", "run", "idle"} :
          pc' = [pc EXCEPT ![a] = l] /\ (l = "run" => a \in Children)
          /\ (l = "idle" => a \notin Children)
    BY <1>26 DEF AwaitReturns, Waited, Return, Goto, Home
  <2> QED BY <2>1, <2>2, Roles DEF Typed, Counters, Places, OwnerPlaces, PeerPlaces,
     ChildPlaces, StopPath, WaitPath, Starts, Launch, Calling, Labels
<1>27. ASSUME NEW a \in Actors, AwaitTimesOut(a) PROVE Places'
  <2>1. created' = created /\ pc[a] \in {"await", "blocked"}
    BY <1>27 DEF AwaitTimesOut, world
  <2>2. \E l \in {"reset", "run", "idle"} :
          pc' = [pc EXCEPT ![a] = l] /\ (l = "run" => a \in Children)
          /\ (l = "idle" => a \notin Children)
    BY <1>27 DEF AwaitTimesOut, Waited, Return, Goto, Home
  <2> QED BY <2>1, <2>2, Roles DEF Typed, Counters, Places, OwnerPlaces, PeerPlaces,
     ChildPlaces, StopPath, WaitPath, Starts, Launch, Calling, Labels
<1>28. ASSUME NEW a \in Actors, SpuriousWakeup(a) PROVE Places'
  BY <1>28, Roles DEF SpuriousWakeup, Unblocked, Typed, Counters, Places, Callers,
     OwnerPlaces, PeerPlaces, ChildPlaces, StopPath, WaitPath, Starts, Launch, Calling,
     Labels, vars, flags, world, calls, history
<1>29. ASSUME NEW k \in Children, Begin(k) PROVE Places'
  BY <1>29, Roles DEF Begin, Reset, Goto, Typed, Counters, Places, Callers, OwnerPlaces,
     PeerPlaces, ChildPlaces, StopPath, WaitPath, Starts, Launch, Calling, Labels, vars,
     flags, world, calls, history
<1>30. ASSUME NEW k \in Children, Starting(k) PROVE Places'
  BY <1>30, Roles DEF Starting, Goto, Typed, Counters, Places, Callers, OwnerPlaces,
     PeerPlaces, ChildPlaces, StopPath, WaitPath, Starts, Launch, Calling, Labels, vars,
     flags, world, calls, history
<1>31. ASSUME NEW k \in Children, Poll(k) PROVE Places'
  BY <1>31, Roles DEF Poll, LeaveRun, Goto, Typed, Counters, Places, Callers, OwnerPlaces,
     PeerPlaces, ChildPlaces, StopPath, WaitPath, Starts, Launch, Calling, Labels, vars,
     flags, world, calls, history
<1>32. ASSUME NEW k \in Children, WaitForStopReturns(k) PROVE Places'
  BY <1>32, Roles DEF WaitForStopReturns, Woken, LeaveRun, Goto, Typed, Counters, Places,
     Callers, OwnerPlaces, PeerPlaces, ChildPlaces, StopPath, WaitPath, Starts, Launch,
     Calling, Labels, vars, flags, world, calls, history
<1>33. ASSUME NEW k \in Children, Leave(k) PROVE Places'
  BY <1>33, Roles DEF Leave, Goto, Typed, Counters, Places, Callers, OwnerPlaces,
     PeerPlaces, ChildPlaces, StopPath, WaitPath, Starts, Launch, Calling, Labels, vars,
     flags, world, calls, history
<1>34. ASSUME NEW k \in Children, SignalEnd(k) PROVE Places'
  BY <1>34, Roles DEF SignalEnd, Signal, Goto, Typed, Counters, Places, Callers,
     OwnerPlaces, PeerPlaces, ChildPlaces, StopPath, WaitPath, Starts, Launch, Calling,
     Labels, vars, flags, world, calls, history
<1>35. ASSUME NEW k \in Children, Finish(k) PROVE Places'
  BY <1>35, Roles DEF Finish, LeaveRun, Goto, Typed, Counters, Places, Callers,
     OwnerPlaces, PeerPlaces, ChildPlaces, StopPath, WaitPath, Starts, Launch, Calling,
     Labels, vars, flags, world, calls, history
<1>36. ASSUME NEW k \in Children, WaitForStop(k) PROVE Places'
  BY <1>36, Roles DEF WaitForStop, Blocked, Passes, LeaveRun, Goto, Typed, Counters,
     Places, Callers, OwnerPlaces, PeerPlaces, ChildPlaces, StopPath, WaitPath, Starts,
     Launch, Calling, Labels, vars, flags, world, calls, history
<1>37. CASE UNCHANGED vars
  BY <1>37, Roles DEF Typed, Counters, Places, Callers, OwnerPlaces, PeerPlaces,
     ChildPlaces, StopPath, WaitPath, Starts, Launch, Calling, Labels, vars, flags, world,
     calls, history
<1> QED BY <1>1, <1>2, <1>3, <1>4, <1>5, <1>6, <1>7, <1>8, <1>9, <1>10, <1>11, <1>12,
   <1>13, <1>14, <1>15, <1>16, <1>17, <1>18, <1>19, <1>20, <1>21, <1>22, <1>23, <1>24,
   <1>25, <1>26, <1>27, <1>28, <1>29, <1>30, <1>31, <1>32, <1>33, <1>34, <1>35, <1>36,
   <1>37 DEF Next, Calls, OwnerStep, PointerStep, StopStep, WaitStep, RunStep, RunChoice,
   CallStop, CallJoin

\* Everybody calls what it may call.
LEMMA CallersStep ==
  ASSUME Typed, [Next]_vars
  PROVE  Callers'
<1>1. CASE CallStart
  BY <1>1, Roles DEF CallStart, Call, OwnerMay, Goto, Home, Typed, Counters, Callers,
     Kinds, vars, flags, world, calls, history
<1>2. CASE OwnerMay("stop") /\ Call(Owner, "stop", "stopTest")
  BY <1>2, Roles DEF Call, OwnerMay, Goto, Home, Typed, Counters, Callers, Kinds, vars,
     flags, world, calls, history
<1>3. ASSUME PeerMay, NEW p \in Peers, Call(p, "stop", "stopTest")
      PROVE  Callers'
  BY <1>3, Roles DEF Call, PeerMay, Goto, Home, Typed, Counters, Callers, Kinds, vars,
     flags, world, calls, history
<1>4. ASSUME "stop" \in RunStyle, NEW k \in Children, Call(k, "stop", "stopTest")
      PROVE  Callers'
  BY <1>4, Roles DEF Call, Goto, Home, Typed, Counters, Callers, Kinds, vars, flags,
     world, calls, history
<1>5. CASE OwnerMay("join") /\ Call(Owner, "join", "selfTest")
  BY <1>5, Roles DEF Call, OwnerMay, Goto, Home, Typed, Counters, Callers, Kinds, vars,
     flags, world, calls, history
<1>6. ASSUME PeerMay, NEW p \in Peers, Call(p, "join", "selfTest")
      PROVE  Callers'
  BY <1>6, Roles DEF Call, PeerMay, Goto, Home, Typed, Counters, Callers, Kinds, vars,
     flags, world, calls, history
<1>7. ASSUME "join" \in RunStyle, NEW k \in Children, Call(k, "join", "selfTest")
      PROVE  Callers'
  BY <1>7, Roles DEF Call, Goto, Home, Typed, Counters, Callers, Kinds, vars, flags,
     world, calls, history
<1>8. CASE CallDestroy
  BY <1>8, Roles DEF CallDestroy, Call, OwnerMay, Goto, Home, Typed, Counters, Callers,
     Kinds, vars, flags, world, calls, history
<1>9. CASE StartTest
  <2>1. UNCHANGED <<call, seen, created>>
    BY <1>9 DEF StartTest, Return, Goto, Home, calls, world
  <2>2. ret' = ret \/ \E r \in BOOLEAN : ret' = [ret EXCEPT ![Owner] = r]
    BY <1>9, Roles DEF StartTest, Return, Goto, Home, calls, Passes, Woken
  <2>3. ret' \in [Actors -> BOOLEAN]
    BY <2>2, Roles DEF Typed, Callers
  <2> QED BY <2>1, <2>3 DEF Typed, Callers
<1>10. CASE ClearFlags
  BY <1>10, Roles DEF ClearFlags, Goto, Typed, Counters, Callers, Kinds, vars, flags,
     world, calls, history
<1>11. CASE Create
  BY <1>11, Roles DEF Create, Typed, Counters, Callers, Kinds, vars, flags, world,
     calls, history
<1>12. CASE Detach
  BY <1>12, Roles DEF Detach, Goto, Typed, Counters, Callers, Kinds, vars, flags,
     world, calls, history
<1>13. CASE AwaitStart
  <2>1. UNCHANGED <<call, seen, created>>
    BY <1>13 DEF AwaitStart, Return, Goto, Home, calls, world
  <2>2. ret' = ret \/ \E r \in BOOLEAN : ret' = [ret EXCEPT ![Owner] = r]
    BY <1>13, Roles DEF AwaitStart, Return, Goto, Home, calls, Passes, Woken
  <2>3. ret' \in [Actors -> BOOLEAN]
    BY <2>2, Roles DEF Typed, Callers
  <2> QED BY <2>1, <2>3 DEF Typed, Callers
<1>14. CASE DestroyTest
  BY <1>14, Roles DEF DestroyTest, Goto, Typed, Counters, Callers, Kinds, vars, flags,
     world, calls, history
<1>15. CASE Free
  BY <1>15, Roles DEF Free, Goto, Typed, Counters, Callers, Kinds, vars,
     flags, world, calls, history
<1>16. ASSUME NEW a \in Actors, ReadOld(a) PROVE Callers'
  BY <1>16, Roles DEF ReadOld, AfterReset, Home, Goto, Typed, Counters, Callers, Kinds,
     vars, flags, world, calls, history
<1>17. ASSUME NEW a \in Actors, StoreNew(a) PROVE Callers'
  BY <1>17, Roles DEF StoreNew, AfterReset, Home, Goto, Typed, Counters, Callers, Kinds,
     vars, flags, world, calls, history
<1>18. ASSUME NEW a \in Actors, DeleteOld(a) PROVE Callers'
  BY <1>18, Roles DEF DeleteOld, Goto, Typed, Counters, Callers, Kinds, vars, flags,
     world, calls, history
<1>19. ASSUME NEW a \in Actors, SelfTest(a) PROVE Callers'
  <2>1. UNCHANGED <<call, seen, created>>
    BY <1>19 DEF SelfTest, GoOn, Goto, calls, world
  <2>2. ret' = ret \/ \E r \in BOOLEAN : ret' = [ret EXCEPT ![a] = r]
    BY <1>19, Roles DEF SelfTest, GoOn, Goto, calls
  <2>3. ret' \in [Actors -> BOOLEAN]
    BY <2>2, Roles DEF Typed, Callers
  <2> QED BY <2>1, <2>3 DEF Typed, Callers
<1>20. ASSUME NEW a \in Actors, SelfId(a) PROVE Callers'
  <2>1. UNCHANGED <<call, seen, created>>
    BY <1>20 DEF SelfId, GoOn, Return, Goto, Home, calls, world
  <2>2. ret' = ret \/ \E r \in BOOLEAN : ret' = [ret EXCEPT ![a] = r]
    BY <1>20, Roles DEF SelfId, GoOn, Return, Goto, Home, calls
  <2>3. ret' \in [Actors -> BOOLEAN]
    BY <2>2, Roles DEF Typed, Callers
  <2> QED BY <2>1, <2>3 DEF Typed, Callers
<1>21. ASSUME NEW a \in Actors, StopTest(a) PROVE Callers'
  <2>1. UNCHANGED <<call, seen, created>>
    BY <1>21 DEF StopTest, Goto, calls, world
  <2>2. ret' = ret \/ \E r \in BOOLEAN : ret' = [ret EXCEPT ![a] = r]
    BY <1>21, Roles DEF StopTest, Goto, calls, Passes, Woken
  <2>3. ret' \in [Actors -> BOOLEAN]
    BY <2>2, Roles DEF Typed, Callers
  <2> QED BY <2>1, <2>3 DEF Typed, Callers
<1>22. ASSUME NEW a \in Actors, Ask(a) PROVE Callers'
  BY <1>22, Roles DEF Ask, Goto, Typed, Counters, Callers, Kinds, vars, flags, world,
     calls, history
<1>23. ASSUME NEW a \in Actors, AskEvent(a) PROVE Callers'
  BY <1>23, Roles DEF AskEvent, Goto, Signal, Typed, Counters, Callers, Kinds, vars,
     flags, world, calls, history
<1>24. ASSUME NEW a \in Actors, JoinTest(a) PROVE Callers'
  <2>1. UNCHANGED <<call, seen, created>>
    BY <1>24 DEF JoinTest, Return, Goto, Home, calls, world
  <2>2. ret' = ret \/ \E r \in BOOLEAN : ret' = [ret EXCEPT ![a] = r]
    BY <1>24, Roles DEF JoinTest, Return, Goto, Home, calls, Passes, Woken
  <2>3. ret' \in [Actors -> BOOLEAN]
    BY <2>2, Roles DEF Typed, Callers
  <2> QED BY <2>1, <2>3 DEF Typed, Callers
<1>25. ASSUME NEW a \in Actors, Await(a) PROVE Callers'
  BY <1>25, Roles DEF Await, Blocked, Passes, Goto, Typed, Counters, Callers, Kinds, vars,
     flags, world, calls, history
<1>26. ASSUME NEW a \in Actors, AwaitReturns(a) PROVE Callers'
  <2>1. UNCHANGED <<call, seen, created>>
    BY <1>26 DEF AwaitReturns, Passes, Woken, Waited, Return, Goto, Home, calls, world
  <2>2. ret' = ret \/ \E r \in BOOLEAN : ret' = [ret EXCEPT ![a] = r]
    BY <1>26, Roles DEF AwaitReturns, Passes, Woken, Waited, Return, Goto, Home, calls,
       Passes, Woken
  <2>3. ret' \in [Actors -> BOOLEAN]
    BY <2>2, Roles DEF Typed, Callers
  <2> QED BY <2>1, <2>3 DEF Typed, Callers
<1>27. ASSUME NEW a \in Actors, AwaitTimesOut(a) PROVE Callers'
  <2>1. UNCHANGED <<call, seen, created>>
    BY <1>27 DEF AwaitTimesOut, Unblocked, Waited, Return, Goto, Home, calls, world
  <2>2. ret' = ret \/ \E r \in BOOLEAN : ret' = [ret EXCEPT ![a] = r]
    BY <1>27, Roles DEF AwaitTimesOut, Unblocked, Waited, Return, Goto, Home, calls,
       Passes, Woken
  <2>3. ret' \in [Actors -> BOOLEAN]
    BY <2>2, Roles DEF Typed, Callers
  <2> QED BY <2>1, <2>3 DEF Typed, Callers
<1>28. ASSUME NEW a \in Actors, SpuriousWakeup(a) PROVE Callers'
  BY <1>28, Roles DEF SpuriousWakeup, Unblocked, Typed, Counters, Callers, Kinds, vars,
     flags, world, calls, history
<1>29. ASSUME NEW k \in Children, Begin(k) PROVE Callers'
  BY <1>29, Roles DEF Begin, Reset, Goto, Typed, Counters, Callers, Kinds, vars, flags,
     world, calls, history
<1>30. ASSUME NEW k \in Children, Starting(k) PROVE Callers'
  BY <1>30, Roles DEF Starting, Goto, Typed, Counters, Callers, Kinds, vars, flags, world,
     calls, history
<1>31. ASSUME NEW k \in Children, Poll(k) PROVE Callers'
  BY <1>31, Roles DEF Poll, LeaveRun, Goto, Typed, Counters, Callers, Kinds, vars, flags,
     world, calls, history
<1>32. ASSUME NEW k \in Children, WaitForStopReturns(k) PROVE Callers'
  BY <1>32, Roles DEF WaitForStopReturns, Woken, LeaveRun, Goto, Typed, Counters, Callers,
     Kinds, vars, flags, world, calls, history
<1>33. ASSUME NEW k \in Children, Leave(k) PROVE Callers'
  BY <1>33, Roles DEF Leave, Goto, Typed, Counters, Callers, Kinds, vars, flags, world,
     calls, history
<1>34. ASSUME NEW k \in Children, SignalEnd(k) PROVE Callers'
  BY <1>34, Roles DEF SignalEnd, Signal, Goto, Typed, Counters, Callers, Kinds, vars,
     flags, world, calls, history
<1>35. ASSUME NEW k \in Children, Finish(k) PROVE Callers'
  BY <1>35, Roles DEF Finish, LeaveRun, Goto, Typed, Counters, Callers, Kinds, vars,
     flags, world, calls, history
<1>36. ASSUME NEW k \in Children, WaitForStop(k) PROVE Callers'
  BY <1>36, Roles DEF WaitForStop, Blocked, Passes, LeaveRun, Goto, Typed, Counters,
     Callers, Kinds, vars, flags, world, calls, history
<1>37. CASE UNCHANGED vars
  BY <1>37, Roles DEF Typed, Counters, Callers, Kinds, vars, flags, world, calls, history
<1> QED BY <1>1, <1>2, <1>3, <1>4, <1>5, <1>6, <1>7, <1>8, <1>9, <1>10, <1>11, <1>12,
   <1>13, <1>14, <1>15, <1>16, <1>17, <1>18, <1>19, <1>20, <1>21, <1>22, <1>23, <1>24,
   <1>25, <1>26, <1>27, <1>28, <1>29, <1>30, <1>31, <1>32, <1>33, <1>34, <1>35, <1>36,
   <1>37 DEF Next, Calls, OwnerStep, PointerStep, StopStep, WaitStep, RunStep, RunChoice,
   CallStop, CallJoin

\* In the constructor's state nobody calls.
LEMMA TypedInit == Init => Typed
<1> SUFFICES ASSUME Init PROVE Typed
  OBVIOUS
<1>1. Flags
  BY DEF Init, Flags, Events, NewEvent
<1>0. created = 0 /\ 0..created = {0} /\ created \in 0..MaxStarts
  BY BoundAssumption DEF Init
<1>2. Counters
  <2>1. created \in 0..MaxStarts /\ asked \in 0..created
    BY <1>0 DEF Init
  <2>2. why \in [Children -> {"none", "polled", "waited", "self"}]
    BY DEF Init
  <2> QED BY <1>0, <2>1, <2>2 DEF Init, Counters
<1>6. Pointers
  <2>1. MyThread \in 0..created /\ terminated \in BOOLEAN /\ overlapped \in BOOLEAN
    BY <1>0 DEF Init
  <2>2. old \in [Actors -> 0..created]
    BY <1>0 DEF Init
  <2>3. /\ handle \in [Children -> {"none", "attached", "detached", "deleted"}]
        /\ \A k \in Children : handle[k] = "none"
    BY DEF Init
  <2>4. \A k \in Children : k > created
    BY <1>0, Roles
  <2> QED BY <2>1, <2>2, <2>3, <2>4 DEF Pointers
<1>3. /\ pc \in [Actors -> Labels]
      /\ \A a \in Actors : pc[a] = IF a \in Controllers THEN "idle" ELSE "none"
  BY DEF Init, Labels
<1>4. Places
  BY <1>3, Roles DEF Init, Places, OwnerPlaces, PeerPlaces, ChildPlaces
<1>5. Callers
  <2>1. call \in [Actors -> Kinds] /\ \A a \in Actors : call[a] = "none"
    BY DEF Init, Kinds
  <2>2. ret \in [Actors -> BOOLEAN]
    BY DEF Init
  <2>3. seen \in [Actors -> 0..created]
    BY <1>0 DEF Init
  <2> QED BY <2>1, <2>2, <2>3, Roles DEF Callers
<1> QED BY <1>1, <1>2, <1>4, <1>5, <1>6 DEF Typed

\* Every step keeps the types.
LEMMA TypedStep == Typed /\ [Next]_vars => Typed'
BY FlagsStep, CountersStep, PointersStep, PlacesStep, CallersStep DEF Typed

\* The types, with everybody at a place of its own, hold in every reachable state.
THEOREM AlwaysTyped == Spec => []Typed
BY TypedInit, TypedStep, PTL DEF Spec

\* The type invariant the runs check.
LEMMA TypedOK == Typed => TypeOK
BY Roles DEF Typed, Flags, Counters, Pointers, Places, Callers, Events, Kinds, TypeOK

\* The type invariant the runs check: an event counts among its waiters only threads
\* that are inside its Wait.
THEOREM TypesAreRight == Spec => []TypeOK
BY AlwaysTyped, TypedOK, PTL

\* An actor alone at MyThread keeps it in order.
LEMMA OneAtATimeStep ==
  ASSUME Typed, OneAtATime, ~overlapped', [Next]_vars
  PROVE  Undisturbed'
<1>1. CASE CallStart
  BY <1>1, Roles DEF CallStart, Call, OwnerMay, Goto, Home, Typed, Counters, Pointers,
     Places, OneAtATime, Undisturbed, Spare, Storing, AtPointer, Launch, OwnerPlaces,
     PeerPlaces, ChildPlaces, Calling, StopPath, WaitPath, Starts, pointer, world
<1>2. CASE OwnerMay("stop") /\ Call(Owner, "stop", "stopTest")
  BY <1>2, Roles DEF Call, Goto, Home, Typed, Counters, Pointers, Places, OneAtATime,
     Undisturbed, Spare, Storing, AtPointer, Launch, OwnerPlaces, PeerPlaces, ChildPlaces,
     Calling, StopPath, WaitPath, Starts, pointer, world
<1>3. ASSUME PeerMay, NEW p \in Peers, Call(p, "stop", "stopTest") PROVE Undisturbed'
  BY <1>3, Roles DEF Call, Goto, Home, Typed, Counters, Pointers, Places, OneAtATime,
     Undisturbed, Spare, Storing, AtPointer, Launch, OwnerPlaces, PeerPlaces, ChildPlaces,
     Calling, StopPath, WaitPath, Starts, pointer, world
<1>4. ASSUME "stop" \in RunStyle, NEW k \in Children, Call(k, "stop", "stopTest")
      PROVE  Undisturbed'
  BY <1>4, Roles DEF Call, Goto, Home, Typed, Counters, Pointers, Places, OneAtATime,
     Undisturbed, Spare, Storing, AtPointer, Launch, OwnerPlaces, PeerPlaces, ChildPlaces,
     Calling, StopPath, WaitPath, Starts, pointer, world
<1>5. CASE OwnerMay("join") /\ Call(Owner, "join", "selfTest")
  BY <1>5, Roles DEF Call, Goto, Home, Typed, Counters, Pointers, Places, OneAtATime,
     Undisturbed, Spare, Storing, AtPointer, Launch, OwnerPlaces, PeerPlaces, ChildPlaces,
     Calling, StopPath, WaitPath, Starts, pointer, world
<1>6. ASSUME PeerMay, NEW p \in Peers, Call(p, "join", "selfTest") PROVE Undisturbed'
  BY <1>6, Roles DEF Call, Goto, Home, Typed, Counters, Pointers, Places, OneAtATime,
     Undisturbed, Spare, Storing, AtPointer, Launch, OwnerPlaces, PeerPlaces, ChildPlaces,
     Calling, StopPath, WaitPath, Starts, pointer, world
<1>7. ASSUME "join" \in RunStyle, NEW k \in Children, Call(k, "join", "selfTest")
      PROVE  Undisturbed'
  BY <1>7, Roles DEF Call, Goto, Home, Typed, Counters, Pointers, Places, OneAtATime,
     Undisturbed, Spare, Storing, AtPointer, Launch, OwnerPlaces, PeerPlaces, ChildPlaces,
     Calling, StopPath, WaitPath, Starts, pointer, world
<1>8. CASE CallDestroy
  BY <1>8, Roles DEF CallDestroy, Call, OwnerMay, Goto, Home, Typed, Counters, Pointers,
     Places, OneAtATime, Undisturbed, Spare, Storing, AtPointer, Launch, OwnerPlaces,
     PeerPlaces, ChildPlaces, Calling, StopPath, WaitPath, Starts, pointer, world
<1>9. CASE StartTest
  BY <1>9, Roles DEF StartTest, Return, Goto, Home, Typed, Counters, Pointers, Places,
     OneAtATime, Undisturbed, Spare, Storing, AtPointer, Launch, OwnerPlaces, PeerPlaces,
     ChildPlaces, Calling, StopPath, WaitPath, Starts, pointer, world
<1>10. CASE ClearFlags
  BY <1>10, Roles DEF ClearFlags, Goto, Typed, Counters, Pointers, Places, OneAtATime,
     Undisturbed, Spare, Storing, AtPointer, Launch, OwnerPlaces, PeerPlaces, ChildPlaces,
     Calling, StopPath, WaitPath, Starts, pointer, world
<1>11. CASE Create
  BY <1>11, Roles DEF Create, Typed, Counters, Pointers, Places, OneAtATime, Undisturbed,
     Spare, Storing, AtPointer, Launch, OwnerPlaces, PeerPlaces, ChildPlaces, Calling,
     StopPath, WaitPath, Starts, pointer, world
<1>12. CASE Detach
  BY <1>12, Roles DEF Detach, Goto, Typed, Counters, Pointers, Places, OneAtATime,
     Undisturbed, Spare, Storing, AtPointer, Launch, OwnerPlaces, PeerPlaces, ChildPlaces,
     Calling, StopPath, WaitPath, Starts, pointer, world
<1>13. CASE AwaitStart
  BY <1>13, Roles DEF AwaitStart, Return, Goto, Home, Typed, Counters, Pointers, Places,
     OneAtATime, Undisturbed, Spare, Storing, AtPointer, Launch, OwnerPlaces, PeerPlaces,
     ChildPlaces, Calling, StopPath, WaitPath, Starts, pointer, world
<1>14. CASE DestroyTest
  BY <1>14, Roles DEF DestroyTest, Goto, Typed, Counters, Pointers, Places, OneAtATime,
     Undisturbed, Spare, Storing, AtPointer, Launch, OwnerPlaces, PeerPlaces, ChildPlaces,
     Calling, StopPath, WaitPath, Starts, pointer, world
<1>15. CASE Free
  <2>1. ~overlapped /\ \A b \in Actors \ {Owner} : pc[b] \notin AtPointer
    BY <1>15, Roles, Alarmed DEF Free
  <2>2. Undisturbed /\ MyThread \in 0..created /\ pc[Owner] = "free"
    BY <1>15, <2>1 DEF Free, OneAtATime, Typed, Pointers
  <2>3. Spare(MyThread)
    BY <2>1, <2>2 DEF Undisturbed, Storing, AtPointer
  <2>4. terminated' = terminated
    BY <1>15, <2>2, <2>3, Deleted DEF Free
  <2>5. /\ UNCHANGED <<old, created>> /\ MyThread' = 0
        /\ pc' = [pc EXCEPT ![Owner] = "gone"]
    BY <1>15 DEF Free, Goto
  <2>6. \A b \in Actors : pc'[b] \notin AtPointer
    BY <2>1, <2>5 DEF AtPointer, Typed, Places
  <2>7. pc'[Owner] = "gone"
    BY <2>5, Roles DEF Typed, Places
  <2> QED BY <2>2, <2>4, <2>5, <2>6, <2>7 DEF Undisturbed, AtPointer, Launch, Spare
<1>16. ASSUME NEW a \in Actors, ReadOld(a) PROVE Undisturbed'
  <2>1. CASE pc[a] = "reset" /\ MyThread = 0
    <3>1. Undisturbed /\ UNCHANGED <<MyThread, handle, terminated, created, old>>
      BY <1>16, <2>1 DEF ReadOld, OneAtATime
    <3>2. \E l \in {"free", "run", "idle"} : pc' = [pc EXCEPT ![a] = l]
      BY <1>16, <2>1 DEF ReadOld, AfterReset, Home, Goto
    <3>3. pc'[a] \in {"free", "run", "idle"} /\ \A b \in Actors \ {a} : pc'[b] = pc[b]
      BY <3>2 DEF Typed, Places
    <3>4. Spare(MyThread)'
      BY <2>1, <3>1 DEF Spare
    <3>5. \A b \in Actors : pc'[b] \in AtPointer \cup Launch => pc'[b] = pc[b]
      BY <3>3 DEF AtPointer, Launch
    <3> QED BY <3>1, <3>4, <3>5, Roles DEF Undisturbed, AtPointer, Launch
  <2>2. CASE ~(pc[a] = "reset" /\ MyThread = 0)
    <3>1. ComesTo(a) /\ old' = [old EXCEPT ![a] = MyThread]
      BY <1>16, <2>2 DEF ReadOld
    <3>2. ~overlapped /\ \A b \in Actors \ {a} : pc[b] \notin AtPointer
      BY <3>1, Alarmed
    <3>3. Undisturbed
      BY <3>2 DEF OneAtATime
    <3>4. /\ UNCHANGED <<MyThread, handle, terminated, created>>
          /\ pc[a] \in {"startRead", "reset"}
          /\ pc[a] = "startRead" => pc' = [pc EXCEPT ![a] = "startDelete"]
          /\ pc[a] = "reset" => pc' = [pc EXCEPT ![a] = "delete"]
      BY <1>16, <2>2 DEF ReadOld, Goto
    <3>5. old'[a] = MyThread
      BY <3>1 DEF Typed, Pointers
    <3>6. /\ \A b \in Actors \ {a} : pc'[b] = pc[b]
          /\ pc[a] = "startRead" => pc'[a] = "startDelete"
          /\ pc[a] = "reset" => pc'[a] = "delete"
      BY <3>4 DEF Typed, Places
    <3>7. \A b \in Actors : pc[b] \notin Storing
      BY <3>2, <3>4 DEF AtPointer, Storing
    <3>8. pc[Owner] # "detach"
      BY <3>2, <3>4, Roles DEF AtPointer
    <3>9. Spare(MyThread)'
      BY <3>3, <3>4, <3>7, <3>8 DEF Undisturbed, Spare
    <3>10. pc'[Owner] # "detach" /\ (pc'[Owner] \in Launch => pc[Owner] \in Launch)
      BY <3>4, <3>6, <3>8, Roles DEF Launch
    <3>11. \A b \in Actors : pc'[b] \in AtPointer => b = a
      BY <3>2, <3>6
    <3>12. pc'[a] # "selfId"
      BY <3>4, <3>6
    <3> QED BY <3>3, <3>4, <3>5, <3>9, <3>10, <3>11, <3>12 DEF Undisturbed, AtPointer
  <2> QED BY <2>1, <2>2
<1>17. ASSUME NEW a \in Actors, DeleteOld(a) PROVE Undisturbed'
  <2>1. Undisturbed /\ MyThread \in 0..created /\ created \in 0..MaxStarts
    BY <1>17 DEF DeleteOld, OneAtATime, Typed, Counters, Pointers
  <2>2. /\ UNCHANGED <<MyThread, created>> /\ pc[a] \in {"startDelete", "delete"}
        /\ pc[a] = "startDelete" => pc' = [pc EXCEPT ![a] = "startStore"]
        /\ pc[a] = "delete" => pc' = [pc EXCEPT ![a] = "store"]
    BY <1>17 DEF DeleteOld, Goto
  <2>3. Delete(MyThread)
    BY <1>17, <2>1, <2>2 DEF DeleteOld, Undisturbed
  <2>4. \A b \in Actors \ {a} : pc[b] \notin AtPointer
    BY <2>1, <2>2 DEF Undisturbed, AtPointer
  <2>5. \A b \in Actors : pc[b] \notin Storing
    BY <2>2, <2>4 DEF AtPointer, Storing
  <2>6. pc[Owner] # "detach"
    BY <2>2, <2>4, Roles DEF AtPointer
  <2>7. Spare(MyThread)
    BY <2>1, <2>5, <2>6 DEF Undisturbed
  <2>8. /\ terminated' = terminated
        /\ \A k \in Children : k # MyThread => handle'[k] = handle[k]
    BY <2>1, <2>3, <2>7, Deleted
  <2>9. /\ \A b \in Actors \ {a} : pc'[b] = pc[b]
        /\ pc[a] = "startDelete" => pc'[a] = "startStore"
        /\ pc[a] = "delete" => pc'[a] = "store"
    BY <2>2 DEF Typed, Places
  <2>10. \A b \in Actors : pc'[b] \in AtPointer => b = a
    BY <2>4, <2>9
  <2>11. pc'[a] \in Storing
    BY <2>2, <2>9 DEF Storing
  <2>12. pc'[Owner] # "detach" /\ (pc'[Owner] \in Launch => pc[Owner] \in Launch)
    BY <2>2, <2>6, <2>9, Roles DEF Launch
  <2>13. ASSUME pc[Owner] \in Launch PROVE created > 0 /\ handle'[created] = "attached"
    <3>1. created > 0 /\ handle[created] = "attached"
      BY <2>1, <2>13 DEF Undisturbed
    <3>2. created \in Children /\ created # MyThread
      BY <2>1, <2>7, <3>1, Roles DEF Spare
    <3> QED BY <2>8, <3>1, <3>2
  <2> QED BY <2>1, <2>2, <2>8, <2>10, <2>11, <2>12, <2>13 DEF Undisturbed, Storing,
     AtPointer
<1>18. ASSUME NEW a \in Actors, StoreNew(a) PROVE Undisturbed'
  <2>1. Undisturbed /\ UNCHANGED <<handle, old, terminated, created>>
    BY <1>18 DEF StoreNew, OneAtATime
  <2>2. \A b \in Actors \ {a} : pc[b] \notin AtPointer
    BY <1>18, <2>1 DEF StoreNew, Undisturbed, AtPointer
  <2>3. CASE pc[a] = "startStore"
    <3>1. a = Owner
      BY <2>3, Roles DEF Typed, Places, PeerPlaces, ChildPlaces, Calling, StopPath,
         WaitPath
    <3>2. MyThread' = created /\ pc' = [pc EXCEPT ![a] = "detach"]
      BY <1>18, <2>3 DEF StoreNew, Goto
    <3>3. pc'[Owner] = "detach" /\ \A b \in Actors \ {Owner} : pc'[b] = pc[b]
      BY <3>1, <3>2 DEF Typed, Places
    <3>4. \A b \in Actors : pc'[b] \in AtPointer => b = Owner
      BY <2>2, <3>1, <3>3
    <3>5. pc[Owner] \in Launch
      BY <2>3, <3>1 DEF Launch
    <3> QED BY <2>1, <3>2, <3>3, <3>4, <3>5 DEF Undisturbed, AtPointer
  <2>4. CASE pc[a] # "startStore"
    <3>1. MyThread' = 0 /\ \E l \in {"free", "run", "idle"} : pc' = [pc EXCEPT ![a] = l]
      BY <1>18, <2>4 DEF StoreNew, AfterReset, Home, Goto
    <3>2. pc'[a] \in {"free", "run", "idle"} /\ \A b \in Actors \ {a} : pc'[b] = pc[b]
      BY <3>1 DEF Typed, Places
    <3>3. \A b \in Actors : pc'[b] \notin AtPointer
      BY <2>2, <3>2 DEF AtPointer
    <3>4. pc'[Owner] \in Launch => pc[Owner] \in Launch
      BY <3>2, Roles DEF Launch
    <3>5. Spare(MyThread)'
      BY <3>1 DEF Spare
    <3> QED BY <2>1, <3>1, <3>3, <3>4, <3>5, Roles DEF Undisturbed, AtPointer
  <2> QED BY <2>3, <2>4
<1>19. ASSUME NEW a \in Actors, SelfTest(a) PROVE Undisturbed'
  <2>1. CASE MyThread = 0
    BY <1>19, <2>1, Roles DEF SelfTest, GoOn, Goto, OneAtATime, Undisturbed, AtPointer,
       Launch, Spare, Storing, Typed, Places
  <2>2. CASE MyThread # 0
    <3>1. ~overlapped /\ \A b \in Actors \ {a} : pc[b] \notin AtPointer
      BY <1>19, <2>2, Alarmed DEF SelfTest
    <3>2. Undisturbed
      BY <3>1 DEF OneAtATime
    <3>3. /\ UNCHANGED <<MyThread, handle, terminated, created>> /\ pc[a] = "selfTest"
          /\ pc' = [pc EXCEPT ![a] = "selfId"] /\ old' = [old EXCEPT ![a] = MyThread]
      BY <1>19, <2>2 DEF SelfTest, Goto
    <3>4. old'[a] = MyThread /\ pc'[a] = "selfId"
      BY <3>3 DEF Typed, Pointers, Places
    <3>5. \A b \in Actors \ {a} : pc'[b] = pc[b] /\ pc'[b] \notin AtPointer
      BY <3>1, <3>3 DEF Typed, Places
    <3>6. \A b \in Actors : pc'[b] \in AtPointer => b = a
      BY <3>5
    <3>7. /\ pc[Owner] # "detach" /\ pc'[Owner] # "detach"
          /\ pc'[Owner] \in Launch => pc[Owner] \in Launch
      BY <3>1, <3>3, <3>4, <3>5, Roles DEF AtPointer, Launch
    <3>8. \A b \in Actors : pc[b] \notin Storing
      BY <3>1, <3>3 DEF AtPointer, Storing
    <3>9. Spare(MyThread)'
      BY <3>2, <3>3, <3>7, <3>8 DEF Undisturbed, Spare
    <3> QED BY <2>2, <3>2, <3>3, <3>4, <3>6, <3>7, <3>9 DEF Undisturbed, AtPointer
  <2> QED BY <2>1, <2>2
<1>20. ASSUME NEW a \in Actors, SelfId(a) PROVE Undisturbed'
  BY <1>20, Roles DEF SelfId, GoOn, Return, Goto, Home, Typed, Counters, Pointers, Places,
     OneAtATime, Undisturbed, Spare, Storing, AtPointer, Launch, OwnerPlaces, PeerPlaces,
     ChildPlaces, Calling, StopPath, WaitPath, Starts, pointer, world
<1>21. ASSUME NEW a \in Actors, StopTest(a) PROVE Undisturbed'
  BY <1>21, Roles DEF StopTest, Goto, Typed, Counters, Pointers, Places, OneAtATime,
     Undisturbed, Spare, Storing, AtPointer, Launch, OwnerPlaces, PeerPlaces, ChildPlaces,
     Calling, StopPath, WaitPath, Starts, pointer, world
<1>22. ASSUME NEW a \in Actors, Ask(a) PROVE Undisturbed'
  BY <1>22, Roles DEF Ask, Goto, Typed, Counters, Pointers, Places, OneAtATime,
     Undisturbed, Spare, Storing, AtPointer, Launch, OwnerPlaces, PeerPlaces, ChildPlaces,
     Calling, StopPath, WaitPath, Starts, pointer, world
<1>23. ASSUME NEW a \in Actors, AskEvent(a) PROVE Undisturbed'
  BY <1>23, Roles DEF AskEvent, Goto, Typed, Counters, Pointers, Places, OneAtATime,
     Undisturbed, Spare, Storing, AtPointer, Launch, OwnerPlaces, PeerPlaces, ChildPlaces,
     Calling, StopPath, WaitPath, Starts, pointer, world
<1>24. ASSUME NEW a \in Actors, JoinTest(a) PROVE Undisturbed'
  BY <1>24, Roles DEF JoinTest, Return, Goto, Home, Typed, Counters, Pointers, Places,
     OneAtATime, Undisturbed, Spare, Storing, AtPointer, Launch, OwnerPlaces, PeerPlaces,
     ChildPlaces, Calling, StopPath, WaitPath, Starts, pointer, world
<1>25. ASSUME NEW a \in Actors, Await(a) PROVE Undisturbed'
  BY <1>25, Roles DEF Await, Goto, Typed, Counters, Pointers, Places, OneAtATime,
     Undisturbed, Spare, Storing, AtPointer, Launch, OwnerPlaces, PeerPlaces, ChildPlaces,
     Calling, StopPath, WaitPath, Starts, pointer, world
<1>26. ASSUME NEW a \in Actors, AwaitReturns(a) PROVE Undisturbed'
  BY <1>26, Roles DEF AwaitReturns, Waited, Return, Goto, Home, Typed, Counters, Pointers,
     Places, OneAtATime, Undisturbed, Spare, Storing, AtPointer, Launch, OwnerPlaces,
     PeerPlaces, ChildPlaces, Calling, StopPath, WaitPath, Starts, pointer, world
<1>27. ASSUME NEW a \in Actors, AwaitTimesOut(a) PROVE Undisturbed'
  BY <1>27, Roles DEF AwaitTimesOut, Waited, Return, Goto, Home, Typed, Counters,
     Pointers, Places, OneAtATime, Undisturbed, Spare, Storing, AtPointer, Launch,
     OwnerPlaces, PeerPlaces, ChildPlaces, Calling, StopPath, WaitPath, Starts, pointer,
     world
<1>28. ASSUME NEW a \in Actors, SpuriousWakeup(a) PROVE Undisturbed'
  BY <1>28, Roles DEF SpuriousWakeup, Typed, Counters, Pointers, Places, OneAtATime,
     Undisturbed, Spare, Storing, AtPointer, Launch, OwnerPlaces, PeerPlaces, ChildPlaces,
     Calling, StopPath, WaitPath, Starts, pointer, world
<1>29. ASSUME NEW k \in Children, Begin(k) PROVE Undisturbed'
  BY <1>29, Roles DEF Begin, Goto, Typed, Counters, Pointers, Places, OneAtATime,
     Undisturbed, Spare, Storing, AtPointer, Launch, OwnerPlaces, PeerPlaces, ChildPlaces,
     Calling, StopPath, WaitPath, Starts, pointer, world
<1>30. ASSUME NEW k \in Children, Starting(k) PROVE Undisturbed'
  BY <1>30, Roles DEF Starting, Goto, Typed, Counters, Pointers, Places, OneAtATime,
     Undisturbed, Spare, Storing, AtPointer, Launch, OwnerPlaces, PeerPlaces, ChildPlaces,
     Calling, StopPath, WaitPath, Starts, pointer, world
<1>31. ASSUME NEW k \in Children, Poll(k) PROVE Undisturbed'
  BY <1>31, Roles DEF Poll, LeaveRun, Goto, Typed, Counters, Pointers, Places, OneAtATime,
     Undisturbed, Spare, Storing, AtPointer, Launch, OwnerPlaces, PeerPlaces, ChildPlaces,
     Calling, StopPath, WaitPath, Starts, pointer, world
<1>32. ASSUME NEW k \in Children, WaitForStopReturns(k) PROVE Undisturbed'
  BY <1>32, Roles DEF WaitForStopReturns, LeaveRun, Goto, Typed, Counters, Pointers,
     Places, OneAtATime, Undisturbed, Spare, Storing, AtPointer, Launch, OwnerPlaces,
     PeerPlaces, ChildPlaces, Calling, StopPath, WaitPath, Starts, pointer, world
<1>33. ASSUME NEW k \in Children, Leave(k) PROVE Undisturbed'
  BY <1>33, Roles DEF Leave, Goto, Typed, Counters, Pointers, Places, OneAtATime,
     Undisturbed, Spare, Storing, AtPointer, Launch, OwnerPlaces, PeerPlaces, ChildPlaces,
     Calling, StopPath, WaitPath, Starts, pointer, world
<1>34. ASSUME NEW k \in Children, SignalEnd(k) PROVE Undisturbed'
  BY <1>34, Roles DEF SignalEnd, Goto, Typed, Counters, Pointers, Places, OneAtATime,
     Undisturbed, Spare, Storing, AtPointer, Launch, OwnerPlaces, PeerPlaces, ChildPlaces,
     Calling, StopPath, WaitPath, Starts, pointer, world
<1>35. ASSUME NEW k \in Children, Finish(k) PROVE Undisturbed'
  BY <1>35, Roles DEF Finish, LeaveRun, Goto, Typed, Counters, Pointers, Places,
     OneAtATime, Undisturbed, Spare, Storing, AtPointer, Launch, OwnerPlaces, PeerPlaces,
     ChildPlaces, Calling, StopPath, WaitPath, Starts, pointer, world
<1>36. ASSUME NEW k \in Children, WaitForStop(k) PROVE Undisturbed'
  BY <1>36, Roles DEF WaitForStop, LeaveRun, Goto, Typed, Counters, Pointers, Places,
     OneAtATime, Undisturbed, Spare, Storing, AtPointer, Launch, OwnerPlaces, PeerPlaces,
     ChildPlaces, Calling, StopPath, WaitPath, Starts, pointer, world
<1>37. CASE UNCHANGED vars
  BY <1>37, Roles DEF Typed, Counters, Pointers, Places, OneAtATime, Undisturbed, Spare,
     Storing, AtPointer, Launch, OwnerPlaces, PeerPlaces, ChildPlaces, Calling, StopPath,
     WaitPath, Starts, pointer, world, vars
<1> QED BY <1>1, <1>2, <1>3, <1>4, <1>5, <1>6, <1>7, <1>8, <1>9, <1>10, <1>11, <1>12,
   <1>13, <1>14, <1>15, <1>16, <1>17, <1>18, <1>19, <1>20, <1>21, <1>22, <1>23, <1>24,
   <1>25, <1>26, <1>27, <1>28, <1>29, <1>30, <1>31, <1>32, <1>33, <1>34, <1>35, <1>36,
   <1>37 DEF Next, Calls, OwnerStep, PointerStep, StopStep, WaitStep, RunStep, RunChoice,
   CallStop, CallJoin

\* std::terminate is called, a std::thread deleted twice or used when it is null or gone,
\* only when two threads were at MyThread at once: for any number of starts and of peers,
\* whatever Run does, with or without the handshake, and whichever Waits expire.
THEOREM TerminateNeedsAnOverlap == Spec => []NeverTerminates
<1>1. Init => OneAtATime
  <2> SUFFICES ASSUME Init PROVE Undisturbed
    BY DEF OneAtATime
  <2>1. \A a \in Actors : pc[a] \in {"idle", "none"}
    BY DEF Init
  <2> QED BY <2>1, Roles DEF Init, Undisturbed, Spare, Storing, AtPointer, Launch
<1>2. Typed /\ OneAtATime /\ [Next]_vars => OneAtATime'
  BY OneAtATimeStep DEF OneAtATime
<1>3. OneAtATime => NeverTerminates
  BY DEF OneAtATime, Undisturbed, NeverTerminates
<1> QED BY <1>1, <1>2, <1>3, AlwaysTyped, PTL DEF Spec

\* The owner makes one call at a time, and creates children in it alone.
LEMMA OwnerCallStep ==
  ASSUME Typed, OwnerCall, [Next]_vars
  PROVE  OwnerCall'
<1>1. CASE CallStart
  BY <1>1, Roles DEF CallStart, Call, OwnerMay, Goto, Home, OwnerCall, Typed, Counters,
     Places, Callers, StopPath, WaitPath, Starts, Launch, vars, flags, world, calls,
     history
<1>2. CASE OwnerMay("stop") /\ Call(Owner, "stop", "stopTest")
  BY <1>2, Roles DEF Call, OwnerMay, Goto, Home, OwnerCall, Typed, Counters, Places,
     Callers, StopPath, WaitPath, Starts, Launch, vars, flags, world, calls, history
<1>3. ASSUME PeerMay, NEW p \in Peers, Call(p, "stop", "stopTest")
      PROVE  OwnerCall'
  BY <1>3, Roles DEF Call, PeerMay, Goto, Home, OwnerCall, Typed, Counters, Places,
     Callers, StopPath, WaitPath, Starts, Launch, vars, flags, world, calls, history
<1>4. ASSUME "stop" \in RunStyle, NEW k \in Children, Call(k, "stop", "stopTest")
      PROVE  OwnerCall'
  BY <1>4, Roles DEF Call, Goto, Home, OwnerCall, Typed, Counters, Places, Callers,
     StopPath, WaitPath, Starts, Launch, vars, flags, world, calls, history
<1>5. CASE OwnerMay("join") /\ Call(Owner, "join", "selfTest")
  BY <1>5, Roles DEF Call, OwnerMay, Goto, Home, OwnerCall, Typed, Counters, Places,
     Callers, StopPath, WaitPath, Starts, Launch, vars, flags, world, calls, history
<1>6. ASSUME PeerMay, NEW p \in Peers, Call(p, "join", "selfTest")
      PROVE  OwnerCall'
  BY <1>6, Roles DEF Call, PeerMay, Goto, Home, OwnerCall, Typed, Counters, Places,
     Callers, StopPath, WaitPath, Starts, Launch, vars, flags, world, calls, history
<1>7. ASSUME "join" \in RunStyle, NEW k \in Children, Call(k, "join", "selfTest")
      PROVE  OwnerCall'
  BY <1>7, Roles DEF Call, Goto, Home, OwnerCall, Typed, Counters, Places, Callers,
     StopPath, WaitPath, Starts, Launch, vars, flags, world, calls, history
<1>8. CASE CallDestroy
  BY <1>8, Roles DEF CallDestroy, Call, OwnerMay, Goto, Home, OwnerCall, Typed, Counters,
     Places, Callers, StopPath, WaitPath, Starts, Launch, vars, flags, world, calls,
     history
<1>9. CASE StartTest
  BY <1>9, Roles DEF StartTest, Return, Goto, Home, OwnerCall, Typed, Counters, Places,
     Callers, StopPath, WaitPath, Starts, Launch, vars, flags, world, calls, history
<1>10. CASE ClearFlags
  BY <1>10, Roles DEF ClearFlags, Goto, OwnerCall, Typed, Counters, Places, Callers,
     StopPath, WaitPath, Starts, Launch, vars, flags, world, calls, history
<1>11. CASE Create
  BY <1>11, Roles DEF Create, OwnerCall, Typed, Counters, Places, Callers,
     StopPath, WaitPath, Starts, Launch, vars, flags, world, calls, history
<1>12. CASE Detach
  BY <1>12, Roles DEF Detach, Goto, OwnerCall, Typed, Counters, Places, Callers,
     StopPath, WaitPath, Starts, Launch, vars, flags, world, calls, history
<1>13. CASE AwaitStart
  BY <1>13, Roles DEF AwaitStart, Return, Goto, Home, OwnerCall, Typed, Counters, Places,
     Callers, StopPath, WaitPath, Starts, Launch, vars, flags, world, calls, history
<1>14. CASE DestroyTest
  BY <1>14, Roles DEF DestroyTest, Goto, OwnerCall, Typed, Counters, Places, Callers,
     StopPath, WaitPath, Starts, Launch, vars, flags, world, calls, history
<1>15. CASE Free
  BY <1>15, Roles DEF Free, Goto, OwnerCall, Typed, Counters, Places,
     Callers, StopPath, WaitPath, Starts, Launch, vars, flags, world, calls, history
<1>16. ASSUME NEW a \in Actors, ReadOld(a) PROVE OwnerCall'
  BY <1>16, Roles DEF ReadOld, AfterReset, Home, Goto, OwnerCall, Typed, Counters, Places,
     Callers, StopPath, WaitPath, Starts, Launch, vars, flags, world, calls, history
<1>17. ASSUME NEW a \in Actors, StoreNew(a) PROVE OwnerCall'
  BY <1>17, Roles DEF StoreNew, AfterReset, Home, Goto, OwnerCall, Typed, Counters,
     Places, Callers, StopPath, WaitPath, Starts, Launch, vars, flags, world, calls,
     history
<1>18. ASSUME NEW a \in Actors, DeleteOld(a) PROVE OwnerCall'
  BY <1>18, Roles DEF DeleteOld, Goto, OwnerCall, Typed, Counters, Places, Callers,
     StopPath, WaitPath, Starts, Launch, vars, flags, world, calls, history
<1>19. ASSUME NEW a \in Actors, SelfTest(a) PROVE OwnerCall'
  BY <1>19, Roles DEF SelfTest, GoOn, Goto, OwnerCall, Typed, Counters, Places, Callers,
     StopPath, WaitPath, Starts, Launch, vars, flags, world, calls, history
<1>20. ASSUME NEW a \in Actors, SelfId(a) PROVE OwnerCall'
  BY <1>20, Roles DEF SelfId, GoOn, Return, Goto, Home, OwnerCall, Typed, Counters,
     Places, Callers, StopPath, WaitPath, Starts, Launch, vars, flags, world, calls,
     history
<1>21. ASSUME NEW a \in Actors, StopTest(a) PROVE OwnerCall'
  BY <1>21, Roles DEF StopTest, Goto, OwnerCall, Typed, Counters, Places, Callers,
     StopPath, WaitPath, Starts, Launch, vars, flags, world, calls, history
<1>22. ASSUME NEW a \in Actors, Ask(a) PROVE OwnerCall'
  BY <1>22, Roles DEF Ask, Goto, OwnerCall, Typed, Counters, Places, Callers, StopPath,
     WaitPath, Starts, Launch, vars, flags, world, calls, history
<1>23. ASSUME NEW a \in Actors, AskEvent(a) PROVE OwnerCall'
  BY <1>23, Roles DEF AskEvent, Goto, Signal, OwnerCall, Typed, Counters, Places, Callers,
     StopPath, WaitPath, Starts, Launch, vars, flags, world, calls, history
<1>24. ASSUME NEW a \in Actors, JoinTest(a) PROVE OwnerCall'
  BY <1>24, Roles DEF JoinTest, Return, Goto, Home, OwnerCall, Typed, Counters, Places,
     Callers, StopPath, WaitPath, Starts, Launch, vars, flags, world, calls, history
<1>25. ASSUME NEW a \in Actors, Await(a) PROVE OwnerCall'
  BY <1>25, Roles DEF Await, Blocked, Passes, Goto, OwnerCall, Typed, Counters, Places,
     Callers, StopPath, WaitPath, Starts, Launch, vars, flags, world, calls, history
<1>26. ASSUME NEW a \in Actors, AwaitReturns(a) PROVE OwnerCall'
  BY <1>26, Roles DEF AwaitReturns, Passes, Woken, Waited, Return, Goto, Home, OwnerCall,
     Typed, Counters, Places, Callers, StopPath, WaitPath, Starts, Launch, vars, flags,
     world, calls, history
<1>27. ASSUME NEW a \in Actors, AwaitTimesOut(a) PROVE OwnerCall'
  BY <1>27, Roles DEF AwaitTimesOut, Unblocked, Waited, Return, Goto, Home, OwnerCall,
     Typed, Counters, Places, Callers, StopPath, WaitPath, Starts, Launch, vars, flags,
     world, calls, history
<1>28. ASSUME NEW a \in Actors, SpuriousWakeup(a) PROVE OwnerCall'
  BY <1>28, Roles DEF SpuriousWakeup, Unblocked, OwnerCall, Typed, Counters, Places,
     Callers, StopPath, WaitPath, Starts, Launch, vars, flags, world, calls, history
<1>29. ASSUME NEW k \in Children, Begin(k) PROVE OwnerCall'
  BY <1>29, Roles DEF Begin, Reset, Goto, OwnerCall, Typed, Counters, Places, Callers,
     StopPath, WaitPath, Starts, Launch, vars, flags, world, calls, history
<1>30. ASSUME NEW k \in Children, Starting(k) PROVE OwnerCall'
  BY <1>30, Roles DEF Starting, Goto, OwnerCall, Typed, Counters, Places, Callers,
     StopPath, WaitPath, Starts, Launch, vars, flags, world, calls, history
<1>31. ASSUME NEW k \in Children, Poll(k) PROVE OwnerCall'
  BY <1>31, Roles DEF Poll, LeaveRun, Goto, OwnerCall, Typed, Counters, Places, Callers,
     StopPath, WaitPath, Starts, Launch, vars, flags, world, calls, history
<1>32. ASSUME NEW k \in Children, WaitForStopReturns(k) PROVE OwnerCall'
  BY <1>32, Roles DEF WaitForStopReturns, Woken, LeaveRun, Goto, OwnerCall, Typed,
     Counters, Places, Callers, StopPath, WaitPath, Starts, Launch, vars, flags, world,
     calls, history
<1>33. ASSUME NEW k \in Children, Leave(k) PROVE OwnerCall'
  BY <1>33, Roles DEF Leave, Goto, OwnerCall, Typed, Counters, Places, Callers, StopPath,
     WaitPath, Starts, Launch, vars, flags, world, calls, history
<1>34. ASSUME NEW k \in Children, SignalEnd(k) PROVE OwnerCall'
  BY <1>34, Roles DEF SignalEnd, Signal, Goto, OwnerCall, Typed, Counters, Places,
     Callers, StopPath, WaitPath, Starts, Launch, vars, flags, world, calls, history
<1>35. ASSUME NEW k \in Children, Finish(k) PROVE OwnerCall'
  BY <1>35, Roles DEF Finish, LeaveRun, Goto, OwnerCall, Typed, Counters, Places, Callers,
     StopPath, WaitPath, Starts, Launch, vars, flags, world, calls, history
<1>36. ASSUME NEW k \in Children, WaitForStop(k) PROVE OwnerCall'
  BY <1>36, Roles DEF WaitForStop, Blocked, Passes, LeaveRun, Goto, OwnerCall, Typed,
     Counters, Places, Callers, StopPath, WaitPath, Starts, Launch, vars, flags, world,
     calls, history
<1>37. CASE UNCHANGED vars
  BY <1>37, Roles DEF OwnerCall, Typed, Counters, Places, Callers, StopPath, WaitPath,
     Starts, Launch, vars, flags, world, calls, history
<1> QED BY <1>1, <1>2, <1>3, <1>4, <1>5, <1>6, <1>7, <1>8, <1>9, <1>10, <1>11, <1>12,
   <1>13, <1>14, <1>15, <1>16, <1>17, <1>18, <1>19, <1>20, <1>21, <1>22, <1>23, <1>24,
   <1>25, <1>26, <1>27, <1>28, <1>29, <1>30, <1>31, <1>32, <1>33, <1>34, <1>35, <1>36,
   <1>37 DEF Next, Calls, OwnerStep, PointerStep, StopStep, WaitStep, RunStep, RunChoice,
   CallStop, CallJoin

\* Who is inside a method has called it.
LEMMA InsideStep ==
  ASSUME Typed, OwnerCall, Inside, [Next]_vars
  PROVE  Inside'
<1>1. CASE CallStart
  BY <1>1, Roles DEF CallStart, Call, OwnerMay, Goto, Home, Inside, OwnerCall, Calling,
     StopPath, WaitPath, Typed, Counters, Places, Callers, vars, flags, world, calls,
     history
<1>2. CASE OwnerMay("stop") /\ Call(Owner, "stop", "stopTest")
  BY <1>2, Roles DEF Call, OwnerMay, Goto, Home, Inside, OwnerCall, Calling, StopPath,
     WaitPath, Typed, Counters, Places, Callers, vars, flags, world, calls, history
<1>3. ASSUME PeerMay, NEW p \in Peers, Call(p, "stop", "stopTest")
      PROVE  Inside'
  BY <1>3, Roles DEF Call, PeerMay, Goto, Home, Inside, OwnerCall, Calling, StopPath,
     WaitPath, Typed, Counters, Places, Callers, vars, flags, world, calls, history
<1>4. ASSUME "stop" \in RunStyle, NEW k \in Children, Call(k, "stop", "stopTest")
      PROVE  Inside'
  BY <1>4, Roles DEF Call, Goto, Home, Inside, OwnerCall, Calling, StopPath, WaitPath,
     Typed, Counters, Places, Callers, vars, flags, world, calls, history
<1>5. CASE OwnerMay("join") /\ Call(Owner, "join", "selfTest")
  BY <1>5, Roles DEF Call, OwnerMay, Goto, Home, Inside, OwnerCall, Calling, StopPath,
     WaitPath, Typed, Counters, Places, Callers, vars, flags, world, calls, history
<1>6. ASSUME PeerMay, NEW p \in Peers, Call(p, "join", "selfTest")
      PROVE  Inside'
  BY <1>6, Roles DEF Call, PeerMay, Goto, Home, Inside, OwnerCall, Calling, StopPath,
     WaitPath, Typed, Counters, Places, Callers, vars, flags, world, calls, history
<1>7. ASSUME "join" \in RunStyle, NEW k \in Children, Call(k, "join", "selfTest")
      PROVE  Inside'
  BY <1>7, Roles DEF Call, Goto, Home, Inside, OwnerCall, Calling, StopPath, WaitPath,
     Typed, Counters, Places, Callers, vars, flags, world, calls, history
<1>8. CASE CallDestroy
  BY <1>8, Roles DEF CallDestroy, Call, OwnerMay, Goto, Home, Inside, OwnerCall, Calling,
     StopPath, WaitPath, Typed, Counters, Places, Callers, vars, flags, world, calls,
     history
<1>9. CASE StartTest
  BY <1>9, Roles DEF StartTest, Return, Goto, Home, Inside, OwnerCall, Calling, StopPath,
     WaitPath, Typed, Counters, Places, Callers, vars, flags, world, calls, history
<1>10. CASE ClearFlags
  BY <1>10, Roles DEF ClearFlags, Goto, Inside, OwnerCall, Calling, StopPath, WaitPath,
     Typed, Counters, Places, Callers, vars, flags, world, calls, history
<1>11. CASE Create
  BY <1>11, Roles DEF Create, Inside, OwnerCall, Calling, StopPath, WaitPath,
     Typed, Counters, Places, Callers, vars, flags, world, calls, history
<1>12. CASE Detach
  BY <1>12, Roles DEF Detach, Goto, Inside, OwnerCall, Calling, StopPath,
     WaitPath, Typed, Counters, Places, Callers, vars, flags, world, calls, history
<1>13. CASE AwaitStart
  BY <1>13, Roles DEF AwaitStart, Return, Goto, Home, Inside, OwnerCall, Calling,
     StopPath, WaitPath, Typed, Counters, Places, Callers, vars, flags, world, calls,
     history
<1>14. CASE DestroyTest
  BY <1>14, Roles DEF DestroyTest, Goto, Inside, OwnerCall, Calling, StopPath, WaitPath,
     Typed, Counters, Places, Callers, vars, flags, world, calls, history
<1>15. CASE Free
  BY <1>15, Roles DEF Free, Goto, Inside, OwnerCall, Calling, StopPath, WaitPath, Typed,
     Counters, Places, Callers, vars, flags, world, calls, history
<1>16. ASSUME NEW a \in Actors, ReadOld(a) PROVE Inside'
  BY <1>16, Roles DEF ReadOld, AfterReset, Home, Goto, Inside, OwnerCall, Calling,
     StopPath, WaitPath, Typed, Counters, Places, Callers, vars, flags, world, calls,
     history
<1>17. ASSUME NEW a \in Actors, StoreNew(a) PROVE Inside'
  BY <1>17, Roles DEF StoreNew, AfterReset, Home, Goto, Inside, OwnerCall, Calling,
     StopPath, WaitPath, Typed, Counters, Places, Callers, vars, flags, world, calls,
     history
<1>18. ASSUME NEW a \in Actors, DeleteOld(a) PROVE Inside'
  BY <1>18, Roles DEF DeleteOld, Goto, Inside, OwnerCall, Calling, StopPath, WaitPath,
     Typed, Counters, Places, Callers, vars, flags, world, calls, history
<1>19. ASSUME NEW a \in Actors, SelfTest(a) PROVE Inside'
  BY <1>19, Roles DEF SelfTest, GoOn, Goto, Inside, OwnerCall, Calling, StopPath,
     WaitPath, Typed, Counters, Places, Callers, vars, flags, world, calls, history
<1>20. ASSUME NEW a \in Actors, SelfId(a) PROVE Inside'
  BY <1>20, Roles DEF SelfId, GoOn, Return, Goto, Home, Inside, OwnerCall, Calling,
     StopPath, WaitPath, Typed, Counters, Places, Callers, vars, flags, world, calls,
     history
<1>21. ASSUME NEW a \in Actors, StopTest(a) PROVE Inside'
  BY <1>21, Roles DEF StopTest, Goto, Inside, OwnerCall, Calling, StopPath, WaitPath,
     Typed, Counters, Places, Callers, vars, flags, world, calls, history
<1>22. ASSUME NEW a \in Actors, Ask(a) PROVE Inside'
  BY <1>22, Roles DEF Ask, Goto, Inside, OwnerCall, Calling, StopPath, WaitPath, Typed,
     Counters, Places, Callers, vars, flags, world, calls, history
<1>23. ASSUME NEW a \in Actors, AskEvent(a) PROVE Inside'
  BY <1>23, Roles DEF AskEvent, Goto, Signal, Inside, OwnerCall, Calling, StopPath,
     WaitPath, Typed, Counters, Places, Callers, vars, flags, world, calls, history
<1>24. ASSUME NEW a \in Actors, JoinTest(a) PROVE Inside'
  BY <1>24, Roles DEF JoinTest, Return, Goto, Home, Inside, OwnerCall, Calling, StopPath,
     WaitPath, Typed, Counters, Places, Callers, vars, flags, world, calls, history
<1>25. ASSUME NEW a \in Actors, Await(a) PROVE Inside'
  BY <1>25, Roles DEF Await, Blocked, Passes, Goto, Inside, OwnerCall, Calling, StopPath,
     WaitPath, Typed, Counters, Places, Callers, vars, flags, world, calls, history
<1>26. ASSUME NEW a \in Actors, AwaitReturns(a) PROVE Inside'
  BY <1>26, Roles DEF AwaitReturns, Passes, Woken, Waited, Return, Goto, Home, Inside,
     OwnerCall, Calling, StopPath, WaitPath, Typed, Counters, Places, Callers, vars,
     flags, world, calls, history
<1>27. ASSUME NEW a \in Actors, AwaitTimesOut(a) PROVE Inside'
  BY <1>27, Roles DEF AwaitTimesOut, Unblocked, Waited, Return, Goto, Home, Inside,
     OwnerCall, Calling, StopPath, WaitPath, Typed, Counters, Places, Callers, vars,
     flags, world, calls, history
<1>28. ASSUME NEW a \in Actors, SpuriousWakeup(a) PROVE Inside'
  BY <1>28, Roles DEF SpuriousWakeup, Unblocked, Inside, OwnerCall, Calling, StopPath,
     WaitPath, Typed, Counters, Places, Callers, vars, flags, world, calls, history
<1>29. ASSUME NEW k \in Children, Begin(k) PROVE Inside'
  BY <1>29, Roles DEF Begin, Reset, Goto, Inside, OwnerCall, Calling, StopPath, WaitPath,
     Typed, Counters, Places, Callers, vars, flags, world, calls, history
<1>30. ASSUME NEW k \in Children, Starting(k) PROVE Inside'
  BY <1>30, Roles DEF Starting, Goto, Inside, OwnerCall, Calling, StopPath, WaitPath,
     Typed, Counters, Places, Callers, vars, flags, world, calls, history
<1>31. ASSUME NEW k \in Children, Poll(k) PROVE Inside'
  BY <1>31, Roles DEF Poll, LeaveRun, Goto, Inside, OwnerCall, Calling, StopPath,
     WaitPath, Typed, Counters, Places, Callers, vars, flags, world, calls, history
<1>32. ASSUME NEW k \in Children, WaitForStopReturns(k) PROVE Inside'
  BY <1>32, Roles DEF WaitForStopReturns, Woken, LeaveRun, Goto, Inside, OwnerCall,
     Calling, StopPath, WaitPath, Typed, Counters, Places, Callers, vars, flags, world,
     calls, history
<1>33. ASSUME NEW k \in Children, Leave(k) PROVE Inside'
  BY <1>33, Roles DEF Leave, Goto, Inside, OwnerCall, Calling, StopPath, WaitPath, Typed,
     Counters, Places, Callers, vars, flags, world, calls, history
<1>34. ASSUME NEW k \in Children, SignalEnd(k) PROVE Inside'
  BY <1>34, Roles DEF SignalEnd, Signal, Goto, Inside, OwnerCall, Calling, StopPath,
     WaitPath, Typed, Counters, Places, Callers, vars, flags, world, calls, history
<1>35. ASSUME NEW k \in Children, Finish(k) PROVE Inside'
  BY <1>35, Roles DEF Finish, LeaveRun, Goto, Inside, OwnerCall, Calling, StopPath,
     WaitPath, Typed, Counters, Places, Callers, vars, flags, world, calls, history
<1>36. ASSUME NEW k \in Children, WaitForStop(k) PROVE Inside'
  BY <1>36, Roles DEF WaitForStop, Blocked, Passes, LeaveRun, Goto, Inside, OwnerCall,
     Calling, StopPath, WaitPath, Typed, Counters, Places, Callers, vars, flags, world,
     calls, history
<1>37. CASE UNCHANGED vars
  BY <1>37, Roles DEF Inside, OwnerCall, Calling, StopPath, WaitPath, Typed, Counters,
     Places, Callers, vars, flags, world, calls, history
<1> QED BY <1>1, <1>2, <1>3, <1>4, <1>5, <1>6, <1>7, <1>8, <1>9, <1>10, <1>11, <1>12,
   <1>13, <1>14, <1>15, <1>16, <1>17, <1>18, <1>19, <1>20, <1>21, <1>22, <1>23, <1>24,
   <1>25, <1>26, <1>27, <1>28, <1>29, <1>30, <1>31, <1>32, <1>33, <1>34, <1>35, <1>36,
   <1>37 DEF Next, Calls, OwnerStep, PointerStep, StopStep, WaitStep, RunStep, RunChoice,
   CallStop, CallJoin

\* By the handshake no call is made before Run has begun.
LEMMA BegunStep ==
  ASSUME Handshake, Typed, OwnerCall, Begun, [Next]_vars
  PROVE  Begun'
<1>1. CASE CallStart
  BY <1>1, Roles DEF CallStart, Call, OwnerMay, Goto, Home, RunHasBegun, Begun, Typed,
     Counters, Places, Callers, vars, flags, world, calls, history
<1>2. CASE OwnerMay("stop") /\ Call(Owner, "stop", "stopTest")
  BY <1>2, Roles DEF Call, OwnerMay, Goto, Home, RunHasBegun, Begun, Typed, Counters,
     Places, Callers, vars, flags, world, calls, history
<1>3. ASSUME PeerMay, NEW p \in Peers, Call(p, "stop", "stopTest")
      PROVE  Begun'
  BY <1>3, Roles DEF Call, PeerMay, Goto, Home, RunHasBegun, Begun, Typed, Counters,
     Places, Callers, vars, flags, world, calls, history
<1>4. ASSUME "stop" \in RunStyle, NEW k \in Children, Call(k, "stop", "stopTest")
      PROVE  Begun'
  BY <1>4, Roles DEF Call, Goto, Home, RunHasBegun, Begun, Typed, Counters, Places,
     Callers, vars, flags, world, calls, history
<1>5. CASE OwnerMay("join") /\ Call(Owner, "join", "selfTest")
  BY <1>5, Roles DEF Call, OwnerMay, Goto, Home, RunHasBegun, Begun, Typed, Counters,
     Places, Callers, vars, flags, world, calls, history
<1>6. ASSUME PeerMay, NEW p \in Peers, Call(p, "join", "selfTest")
      PROVE  Begun'
  BY <1>6, Roles DEF Call, PeerMay, Goto, Home, RunHasBegun, Begun, Typed, Counters,
     Places, Callers, vars, flags, world, calls, history
<1>7. ASSUME "join" \in RunStyle, NEW k \in Children, Call(k, "join", "selfTest")
      PROVE  Begun'
  BY <1>7, Roles DEF Call, Goto, Home, RunHasBegun, Begun, Typed, Counters, Places,
     Callers, vars, flags, world, calls, history
<1>8. CASE CallDestroy
  BY <1>8, Roles DEF CallDestroy, Call, OwnerMay, Goto, Home, RunHasBegun, Begun, Typed,
     Counters, Places, Callers, vars, flags, world, calls, history
<1>9. CASE StartTest
  BY <1>9, Roles DEF StartTest, Return, Goto, Home, RunHasBegun, Begun, Typed, Counters,
     Places, Callers, vars, flags, world, calls, history
<1>10. CASE ClearFlags
  BY <1>10, Roles DEF ClearFlags, Goto, RunHasBegun, Begun, Typed, Counters, Places,
     Callers, vars, flags, world, calls, history
<1>11. CASE Create
  BY <1>11, Roles DEF Create, RunHasBegun, Begun, Typed, Counters, Places,
     Callers, vars, flags, world, calls, history
<1>12. CASE Detach
  BY <1>12, Roles DEF Detach, Goto, RunHasBegun, Begun, Typed, Counters, Places,
     Callers, vars, flags, world, calls, history
<1>13. CASE AwaitStart
  BY <1>13, Roles DEF AwaitStart, Return, Goto, Home, RunHasBegun, Begun, Typed, Counters,
     Places, Callers, vars, flags, world, calls, history
<1>14. CASE DestroyTest
  BY <1>14, Roles DEF DestroyTest, Goto, RunHasBegun, Begun, Typed, Counters, Places,
     Callers, vars, flags, world, calls, history
<1>15. CASE Free
  BY <1>15, Roles DEF Free, Goto, RunHasBegun, Begun, Typed, Counters,
     Places, Callers, vars, flags, world, calls, history
<1>16. ASSUME NEW a \in Actors, ReadOld(a) PROVE Begun'
  BY <1>16, Roles DEF ReadOld, AfterReset, Home, Goto, RunHasBegun, Begun, Typed,
     Counters, Places, Callers, vars, flags, world, calls, history
<1>17. ASSUME NEW a \in Actors, StoreNew(a) PROVE Begun'
  BY <1>17, Roles DEF StoreNew, AfterReset, Home, Goto, RunHasBegun, Begun, Typed,
     Counters, Places, Callers, vars, flags, world, calls, history
<1>18. ASSUME NEW a \in Actors, DeleteOld(a) PROVE Begun'
  BY <1>18, Roles DEF DeleteOld, Goto, RunHasBegun, Begun, Typed, Counters, Places,
     Callers, vars, flags, world, calls, history
<1>19. ASSUME NEW a \in Actors, SelfTest(a) PROVE Begun'
  BY <1>19, Roles DEF SelfTest, GoOn, Goto, RunHasBegun, Begun, Typed, Counters, Places,
     Callers, vars, flags, world, calls, history
<1>20. ASSUME NEW a \in Actors, SelfId(a) PROVE Begun'
  BY <1>20, Roles DEF SelfId, GoOn, Return, Goto, Home, RunHasBegun, Begun, Typed,
     Counters, Places, Callers, vars, flags, world, calls, history
<1>21. ASSUME NEW a \in Actors, StopTest(a) PROVE Begun'
  BY <1>21, Roles DEF StopTest, Goto, RunHasBegun, Begun, Typed, Counters, Places,
     Callers, vars, flags, world, calls, history
<1>22. ASSUME NEW a \in Actors, Ask(a) PROVE Begun'
  BY <1>22, Roles DEF Ask, Goto, RunHasBegun, Begun, Typed, Counters, Places, Callers,
     vars, flags, world, calls, history
<1>23. ASSUME NEW a \in Actors, AskEvent(a) PROVE Begun'
  BY <1>23, Roles DEF AskEvent, Goto, Signal, RunHasBegun, Begun, Typed, Counters, Places,
     Callers, vars, flags, world, calls, history
<1>24. ASSUME NEW a \in Actors, JoinTest(a) PROVE Begun'
  BY <1>24, Roles DEF JoinTest, Return, Goto, Home, RunHasBegun, Begun, Typed, Counters,
     Places, Callers, vars, flags, world, calls, history
<1>25. ASSUME NEW a \in Actors, Await(a) PROVE Begun'
  BY <1>25, Roles DEF Await, Blocked, Passes, Goto, RunHasBegun, Begun, Typed, Counters,
     Places, Callers, vars, flags, world, calls, history
<1>26. ASSUME NEW a \in Actors, AwaitReturns(a) PROVE Begun'
  BY <1>26, Roles DEF AwaitReturns, Passes, Woken, Waited, Return, Goto, Home,
     RunHasBegun, Begun, Typed, Counters, Places, Callers, vars, flags, world, calls,
     history
<1>27. ASSUME NEW a \in Actors, AwaitTimesOut(a) PROVE Begun'
  BY <1>27, Roles DEF AwaitTimesOut, Unblocked, Waited, Return, Goto, Home, RunHasBegun,
     Begun, Typed, Counters, Places, Callers, vars, flags, world, calls, history
<1>28. ASSUME NEW a \in Actors, SpuriousWakeup(a) PROVE Begun'
  BY <1>28, Roles DEF SpuriousWakeup, Unblocked, RunHasBegun, Begun, Typed, Counters,
     Places, Callers, vars, flags, world, calls, history
<1>29. ASSUME NEW k \in Children, Begin(k) PROVE Begun'
  BY <1>29, Roles DEF Begin, Reset, Goto, RunHasBegun, Begun, Typed, Counters, Places,
     Callers, vars, flags, world, calls, history
<1>30. ASSUME NEW k \in Children, Starting(k) PROVE Begun'
  BY <1>30, Roles DEF Starting, Goto, RunHasBegun, Begun, Typed, Counters, Places,
     Callers, vars, flags, world, calls, history
<1>31. ASSUME NEW k \in Children, Poll(k) PROVE Begun'
  BY <1>31, Roles DEF Poll, LeaveRun, Goto, RunHasBegun, Begun, Typed, Counters, Places,
     Callers, vars, flags, world, calls, history
<1>32. ASSUME NEW k \in Children, WaitForStopReturns(k) PROVE Begun'
  BY <1>32, Roles DEF WaitForStopReturns, Woken, LeaveRun, Goto, RunHasBegun, Begun,
     Typed, Counters, Places, Callers, vars, flags, world, calls, history
<1>33. ASSUME NEW k \in Children, Leave(k) PROVE Begun'
  BY <1>33, Roles DEF Leave, Goto, RunHasBegun, Begun, Typed, Counters, Places, Callers,
     vars, flags, world, calls, history
<1>34. ASSUME NEW k \in Children, SignalEnd(k) PROVE Begun'
  BY <1>34, Roles DEF SignalEnd, Signal, Goto, RunHasBegun, Begun, Typed, Counters,
     Places, Callers, vars, flags, world, calls, history
<1>35. ASSUME NEW k \in Children, Finish(k) PROVE Begun'
  BY <1>35, Roles DEF Finish, LeaveRun, Goto, RunHasBegun, Begun, Typed, Counters, Places,
     Callers, vars, flags, world, calls, history
<1>36. ASSUME NEW k \in Children, WaitForStop(k) PROVE Begun'
  BY <1>36, Roles DEF WaitForStop, Blocked, Passes, LeaveRun, Goto, RunHasBegun, Begun,
     Typed, Counters, Places, Callers, vars, flags, world, calls, history
<1>37. CASE UNCHANGED vars
  BY <1>37, Roles DEF RunHasBegun, Begun, Typed, Counters, Places, Callers, vars, flags,
     world, calls, history
<1> QED BY <1>1, <1>2, <1>3, <1>4, <1>5, <1>6, <1>7, <1>8, <1>9, <1>10, <1>11, <1>12,
   <1>13, <1>14, <1>15, <1>16, <1>17, <1>18, <1>19, <1>20, <1>21, <1>22, <1>23, <1>24,
   <1>25, <1>26, <1>27, <1>28, <1>29, <1>30, <1>31, <1>32, <1>33, <1>34, <1>35, <1>36,
   <1>37 DEF Next, Calls, OwnerStep, PointerStep, StopStep, WaitStep, RunStep, RunChoice,
   CallStop, CallJoin

\* A caller that reads ThreadIsRunning reset finds no child in its Run.
LEMMA NoneRuns ==
  ASSUME Typed, Begun, OneChild, ~ThreadIsRunning, NEW a \in Controllers, call[a] # "none"
  PROVE  Ended(a)
<1>1. seen[a] \in 0..created /\ created \in 0..MaxStarts
  BY Roles DEF Typed, Callers, Counters
<1>2. \A k \in Children : k < created => Past(k)
  BY DEF OneChild
<1>3. ASSUME seen[a] = created, created > 0 PROVE Past(created)
  <2>1. created \in Children
    BY <1>1, <1>3, Roles
  <2>2. pc[created] \notin {"begin", "starting"}
    BY <1>3 DEF Begun
  <2>3. pc[created] # "none"
    BY <1>1, <2>1, Roles DEF Typed, Places
  <2>4. ~InRun(created)
    BY <1>3 DEF OneChild
  <2> QED BY <2>2, <2>3, <2>4 DEF InRun, Past
<1> QED BY <1>1, <1>2, <1>3, Roles DEF Ended

\* No child is created before the last one has left.
LEMMA OneChildStep ==
  ASSUME Typed, OwnerCall, Begun, OneChild, [Next]_vars
  PROVE  OneChild'
<1>1. CASE CallStart
  BY <1>1, Roles DEF CallStart, Call, OwnerMay, Goto, Home, OneChild, Past, InRun, Typed,
     Counters, Places, Callers, vars, flags, world, calls, history
<1>2. CASE OwnerMay("stop") /\ Call(Owner, "stop", "stopTest")
  BY <1>2, Roles DEF Call, OwnerMay, Goto, Home, OneChild, Past, InRun, Typed, Counters,
     Places, Callers, vars, flags, world, calls, history
<1>3. ASSUME PeerMay, NEW p \in Peers, Call(p, "stop", "stopTest")
      PROVE  OneChild'
  BY <1>3, Roles DEF Call, PeerMay, Goto, Home, OneChild, Past, InRun, Typed, Counters,
     Places, Callers, vars, flags, world, calls, history
<1>4. ASSUME "stop" \in RunStyle, NEW k \in Children, Call(k, "stop", "stopTest")
      PROVE  OneChild'
  BY <1>4, Roles DEF Call, Goto, Home, OneChild, Past, InRun, Typed, Counters, Places,
     Callers, vars, flags, world, calls, history
<1>5. CASE OwnerMay("join") /\ Call(Owner, "join", "selfTest")
  BY <1>5, Roles DEF Call, OwnerMay, Goto, Home, OneChild, Past, InRun, Typed, Counters,
     Places, Callers, vars, flags, world, calls, history
<1>6. ASSUME PeerMay, NEW p \in Peers, Call(p, "join", "selfTest")
      PROVE  OneChild'
  BY <1>6, Roles DEF Call, PeerMay, Goto, Home, OneChild, Past, InRun, Typed, Counters,
     Places, Callers, vars, flags, world, calls, history
<1>7. ASSUME "join" \in RunStyle, NEW k \in Children, Call(k, "join", "selfTest")
      PROVE  OneChild'
  BY <1>7, Roles DEF Call, Goto, Home, OneChild, Past, InRun, Typed, Counters, Places,
     Callers, vars, flags, world, calls, history
<1>8. CASE CallDestroy
  BY <1>8, Roles DEF CallDestroy, Call, OwnerMay, Goto, Home, OneChild, Past, InRun,
     Typed, Counters, Places, Callers, vars, flags, world, calls, history
<1>9. CASE StartTest
  <2>1. CASE ThreadIsRunning
    BY <1>9, <2>1, Roles DEF StartTest, Return, Goto, Home, OneChild, Past, InRun, Typed,
       Places,
       flags, world
  <2>2. CASE ~ThreadIsRunning
    <3>1. call[Owner] # "none" /\ seen[Owner] = created /\ Owner \in Controllers
      BY <1>9, Roles DEF StartTest, OwnerCall, Starts
    <3>2. Ended(Owner)
      BY <2>2, <3>1, NoneRuns
    <3>3. \A k \in 1..created : Past(k)
      BY <3>1, <3>2 DEF Ended, Past
    <3>4. UNCHANGED <<ThreadIsRunning, created>> /\ pc' = [pc EXCEPT ![Owner] = "clearFlags"]
      BY <1>9, <2>2 DEF StartTest, Goto, flags, world
    <3>5. created \in 0..MaxStarts /\ \A k \in Children : pc'[k] = pc[k]
      BY <3>4, Roles DEF Typed, Counters, Places
    <3>6. \A k \in 1..created : k \in Children
      BY <3>5, Roles
    <3>7. created > 0 => created \in Children
      BY <3>5, Roles
    <3> QED BY <3>3, <3>4, <3>5, <3>6, <3>7 DEF OneChild, Past, InRun
  <2> QED BY <2>1, <2>2
<1>10. CASE ClearFlags
  BY <1>10, Roles DEF ClearFlags, Goto, OneChild, Past, InRun, Typed, Counters, Places,
     Callers, vars, flags, world, calls, history
<1>11. CASE Create
  BY <1>11, Roles DEF Create, OneChild, Past, InRun, Typed, Counters, Places,
     Callers, vars, flags, world, calls, history
<1>12. CASE Detach
  BY <1>12, Roles DEF Detach, Goto, OneChild, Past, InRun, Typed, Counters, Places,
     Callers, vars, flags, world, calls, history
<1>13. CASE AwaitStart
  BY <1>13, Roles DEF AwaitStart, Return, Goto, Home, OneChild, Past, InRun, Typed,
     Counters, Places, Callers, vars, flags, world, calls, history
<1>14. CASE DestroyTest
  BY <1>14, Roles DEF DestroyTest, Goto, OneChild, Past, InRun, Typed, Counters, Places,
     Callers, vars, flags, world, calls, history
<1>15. CASE Free
  BY <1>15, Roles DEF Free, Goto, OneChild, Past, InRun, Typed,
     Counters, Places, Callers, vars, flags, world, calls, history
<1>16. ASSUME NEW a \in Actors, ReadOld(a) PROVE OneChild'
  BY <1>16, Roles DEF ReadOld, AfterReset, Home, Goto, OneChild, Past, InRun, Typed,
     Counters, Places, Callers, vars, flags, world, calls, history
<1>17. ASSUME NEW a \in Actors, StoreNew(a) PROVE OneChild'
  BY <1>17, Roles DEF StoreNew, AfterReset, Home, Goto, OneChild, Past, InRun, Typed,
     Counters, Places, Callers, vars, flags, world, calls, history
<1>18. ASSUME NEW a \in Actors, DeleteOld(a) PROVE OneChild'
  BY <1>18, Roles DEF DeleteOld, Goto, OneChild, Past, InRun, Typed, Counters, Places,
     Callers, vars, flags, world, calls, history
<1>19. ASSUME NEW a \in Actors, SelfTest(a) PROVE OneChild'
  BY <1>19, Roles DEF SelfTest, GoOn, Goto, OneChild, Past, InRun, Typed, Counters,
     Places, Callers, vars, flags, world, calls, history
<1>20. ASSUME NEW a \in Actors, SelfId(a) PROVE OneChild'
  BY <1>20, Roles DEF SelfId, GoOn, Return, Goto, Home, OneChild, Past, InRun, Typed,
     Counters, Places, Callers, vars, flags, world, calls, history
<1>21. ASSUME NEW a \in Actors, StopTest(a) PROVE OneChild'
  BY <1>21, Roles DEF StopTest, Goto, OneChild, Past, InRun, Typed, Counters, Places,
     Callers, vars, flags, world, calls, history
<1>22. ASSUME NEW a \in Actors, Ask(a) PROVE OneChild'
  BY <1>22, Roles DEF Ask, Goto, OneChild, Past, InRun, Typed, Counters, Places, Callers,
     vars, flags, world, calls, history
<1>23. ASSUME NEW a \in Actors, AskEvent(a) PROVE OneChild'
  BY <1>23, Roles DEF AskEvent, Goto, Signal, OneChild, Past, InRun, Typed, Counters,
     Places, Callers, vars, flags, world, calls, history
<1>24. ASSUME NEW a \in Actors, JoinTest(a) PROVE OneChild'
  BY <1>24, Roles DEF JoinTest, Return, Goto, Home, OneChild, Past, InRun, Typed,
     Counters, Places, Callers, vars, flags, world, calls, history
<1>25. ASSUME NEW a \in Actors, Await(a) PROVE OneChild'
  BY <1>25, Roles DEF Await, Blocked, Passes, Goto, OneChild, Past, InRun, Typed,
     Counters, Places, Callers, vars, flags, world, calls, history
<1>26. ASSUME NEW a \in Actors, AwaitReturns(a) PROVE OneChild'
  BY <1>26, Roles DEF AwaitReturns, Passes, Woken, Waited, Return, Goto, Home, OneChild,
     Past, InRun, Typed, Counters, Places, Callers, vars, flags, world, calls, history
<1>27. ASSUME NEW a \in Actors, AwaitTimesOut(a) PROVE OneChild'
  BY <1>27, Roles DEF AwaitTimesOut, Unblocked, Waited, Return, Goto, Home, OneChild,
     Past, InRun, Typed, Counters, Places, Callers, vars, flags, world, calls, history
<1>28. ASSUME NEW a \in Actors, SpuriousWakeup(a) PROVE OneChild'
  BY <1>28, Roles DEF SpuriousWakeup, Unblocked, OneChild, Past, InRun, Typed, Counters,
     Places, Callers, vars, flags, world, calls, history
<1>29. ASSUME NEW k \in Children, Begin(k) PROVE OneChild'
  BY <1>29, Roles DEF Begin, Reset, Goto, OneChild, Past, InRun, Typed, Counters, Places,
     Callers, vars, flags, world, calls, history
<1>30. ASSUME NEW k \in Children, Starting(k) PROVE OneChild'
  BY <1>30, Roles DEF Starting, Goto, OneChild, Past, InRun, Typed, Counters, Places,
     Callers, vars, flags, world, calls, history
<1>31. ASSUME NEW k \in Children, Poll(k) PROVE OneChild'
  BY <1>31, Roles DEF Poll, LeaveRun, Goto, OneChild, Past, InRun, Typed, Counters,
     Places, Callers, vars, flags, world, calls, history
<1>32. ASSUME NEW k \in Children, WaitForStopReturns(k) PROVE OneChild'
  BY <1>32, Roles DEF WaitForStopReturns, Woken, LeaveRun, Goto, OneChild, Past, InRun,
     Typed, Counters, Places, Callers, vars, flags, world, calls, history
<1>33. ASSUME NEW k \in Children, Leave(k) PROVE OneChild'
  BY <1>33, Roles DEF Leave, Goto, OneChild, Past, InRun, Typed, Counters, Places,
     Callers, vars, flags, world, calls, history
<1>34. ASSUME NEW k \in Children, SignalEnd(k) PROVE OneChild'
  BY <1>34, Roles DEF SignalEnd, Signal, Goto, OneChild, Past, InRun, Typed, Counters,
     Places, Callers, vars, flags, world, calls, history
<1>35. ASSUME NEW k \in Children, Finish(k) PROVE OneChild'
  BY <1>35, Roles DEF Finish, LeaveRun, Goto, OneChild, Past, InRun, Typed, Counters,
     Places, Callers, vars, flags, world, calls, history
<1>36. ASSUME NEW k \in Children, WaitForStop(k) PROVE OneChild'
  BY <1>36, Roles DEF WaitForStop, Blocked, Passes, LeaveRun, Goto, OneChild, Past, InRun,
     Typed, Counters, Places, Callers, vars, flags, world, calls, history
<1>37. CASE UNCHANGED vars
  BY <1>37, Roles DEF OneChild, Past, InRun, Typed, Counters, Places, Callers, vars,
     flags, world, calls, history
<1> QED BY <1>1, <1>2, <1>3, <1>4, <1>5, <1>6, <1>7, <1>8, <1>9, <1>10, <1>11, <1>12,
   <1>13, <1>14, <1>15, <1>16, <1>17, <1>18, <1>19, <1>20, <1>21, <1>22, <1>23, <1>24,
   <1>25, <1>26, <1>27, <1>28, <1>29, <1>30, <1>31, <1>32, <1>33, <1>34, <1>35, <1>36,
   <1>37 DEF Next, Calls, OwnerStep, PointerStep, StopStep, WaitStep, RunStep, RunChoice,
   CallStop, CallJoin

\* An actor that moves inside a method changes the answers by what it is told itself.
LEMMA AnswerFrame ==
  ASSUME Typed, Answers, NEW a \in Actors,
         UNCHANGED <<IsEnded, created, misled, call, seen>>,
         \A b \in Actors : b # a => pc'[b] = pc[b] /\ ret'[b] = ret[b],
         a \in Children => pc[a] \notin {"begin", "signal", "done"},
         a \in Controllers /\ Told(a)' /\ ~misled => Ended(a)
  PROVE  Answers'
<1> SUFFICES ASSUME ~misled PROVE Answers'
  BY DEF Answers
<1>1. \A k \in Children : (Past(k) => Past(k)') /\ (pc[k] = "begin" => pc'[k] = "begin")
  BY Roles DEF Past
<1>2. created \in 0..MaxStarts /\ \A b \in Controllers : seen[b] \in 0..created
  BY Roles DEF Typed, Counters, Callers
<1>3. \A b \in Controllers : Ended(b) => Ended(b)'
  BY <1>1, <1>2, Roles DEF Ended
<1>4. \A b \in Controllers : b # a /\ Told(b)' => Told(b)
  BY Roles DEF Told
<1>5. IsEnded'.signaled => created' > 0 /\ pc'[created'] \in {"begin", "done"}
  <2>1. created > 0 => created \in Children
    BY <1>2, Roles
  <2> QED BY <1>1, <2>1, Roles DEF Answers
<1> QED BY <1>3, <1>4, <1>5 DEF Answers

\* Who is told that the run has ended, is told so by the last child or finds no run.
LEMMA AnswersStep ==
  ASSUME Typed, OwnerCall, Inside, Begun, OneChild, Answers, [Next]_vars
  PROVE  Answers'
<1>1. CASE CallStart
  BY <1>1, Roles DEF CallStart, Call, OwnerMay, Goto, Home, Answers, Told, Ended, Past,
     Typed, Counters, Places, Callers, Flags, Events, vars, flags, world, calls, history
<1>2. CASE OwnerMay("stop") /\ Call(Owner, "stop", "stopTest")
  BY <1>2, Roles DEF Call, OwnerMay, Goto, Home, Answers, Told, Ended, Past, Typed,
     Counters, Places, Callers, Flags, Events, vars, flags, world, calls, history
<1>3. ASSUME PeerMay, NEW p \in Peers, Call(p, "stop", "stopTest")
      PROVE  Answers'
  BY <1>3, Roles DEF Call, PeerMay, Goto, Home, Answers, Told, Ended, Past, Typed,
     Counters, Places, Callers, Flags, Events, vars, flags, world, calls, history
<1>4. ASSUME "stop" \in RunStyle, NEW k \in Children, Call(k, "stop", "stopTest")
      PROVE  Answers'
  BY <1>4, Roles DEF Call, Goto, Home, Answers, Told, Ended, Past, Typed, Counters,
     Places, Callers, Flags, Events, vars, flags, world, calls, history
<1>5. CASE OwnerMay("join") /\ Call(Owner, "join", "selfTest")
  BY <1>5, Roles DEF Call, OwnerMay, Goto, Home, Answers, Told, Ended, Past, Typed,
     Counters, Places, Callers, Flags, Events, vars, flags, world, calls, history
<1>6. ASSUME PeerMay, NEW p \in Peers, Call(p, "join", "selfTest")
      PROVE  Answers'
  BY <1>6, Roles DEF Call, PeerMay, Goto, Home, Answers, Told, Ended, Past, Typed,
     Counters, Places, Callers, Flags, Events, vars, flags, world, calls, history
<1>7. ASSUME "join" \in RunStyle, NEW k \in Children, Call(k, "join", "selfTest")
      PROVE  Answers'
  BY <1>7, Roles DEF Call, Goto, Home, Answers, Told, Ended, Past, Typed, Counters,
     Places, Callers, Flags, Events, vars, flags, world, calls, history
<1>8. CASE CallDestroy
  BY <1>8, Roles DEF CallDestroy, Call, OwnerMay, Goto, Home, Answers, Told, Ended, Past,
     Typed, Counters, Places, Callers, Flags, Events, vars, flags, world, calls, history
<1>9. CASE StartTest
  BY <1>9, Roles DEF StartTest, Return, Goto, Home, Answers, Told, Ended, Past, Typed,
     Counters, Places, Callers, Flags, Events, vars, flags, world, calls, history
<1>10. CASE ClearFlags
  BY <1>10, Roles DEF ClearFlags, Goto, Answers, Told, Ended, Past, Typed, Counters,
     Places, Callers, Flags, Events, vars, flags, world, calls, history
<1>11. CASE Create
  BY <1>11, Roles DEF Create, Answers, Told, Ended, Past, Typed, Counters, Places,
     Callers, Flags, Events, vars, flags, world, calls, history
<1>12. CASE Detach
  BY <1>12, Roles DEF Detach, Goto, Answers, Told, Ended, Past, Typed, Counters,
     Places, Callers, Flags, Events, vars, flags, world, calls, history
<1>13. CASE AwaitStart
  <2>1. UNCHANGED <<IsEnded, created, misled, call, seen>>
    BY <1>13 DEF AwaitStart, Return, Goto, Home, flags, world, calls, history
  <2>2. \A b \in Actors : b # Owner => pc'[b] = pc[b] /\ ret'[b] = ret[b]
    BY <1>13, Roles DEF AwaitStart, Return, Goto, Home, calls, Typed, Places, Callers
  <2>3. Owner \in Children => pc[Owner] \notin {"begin", "signal", "done"}
    BY <1>13, Roles DEF AwaitStart
  <2>4. Owner \in Controllers /\ Told(Owner)' /\ ~misled => Ended(Owner)
    <3>1. call'[Owner] = "start" /\ pc'[Owner] = "idle"
      BY <1>13, <2>1, Roles DEF AwaitStart, OwnerCall, Return, Goto, Home, Typed, Places
    <3> QED BY <3>1 DEF Told
  <2> QED BY <2>1, <2>2, <2>3, <2>4, AnswerFrame, Roles
<1>14. CASE DestroyTest
  BY <1>14, Roles DEF DestroyTest, Goto, Answers, Told, Ended, Past, Typed, Counters,
     Places, Callers, Flags, Events, vars, flags, world, calls, history
<1>15. CASE Free
  BY <1>15, Roles DEF Free, Goto, Answers, Told, Ended, Past, Typed,
     Counters, Places, Callers, Flags, Events, vars, flags, world, calls, history
<1>16. ASSUME NEW a \in Actors, ReadOld(a) PROVE Answers'
  BY <1>16, Roles DEF ReadOld, AfterReset, Home, Goto, Answers, Told, Ended, Past, Typed,
     Counters, Places, Callers, Flags, Events, vars, flags, world, calls, history
<1>17. ASSUME NEW a \in Actors, StoreNew(a) PROVE Answers'
  BY <1>17, Roles DEF StoreNew, AfterReset, Home, Goto, Answers, Told, Ended, Past, Typed,
     Counters, Places, Callers, Flags, Events, vars, flags, world, calls, history
<1>18. ASSUME NEW a \in Actors, DeleteOld(a) PROVE Answers'
  BY <1>18, Roles DEF DeleteOld, Goto, Answers, Told, Ended, Past, Typed, Counters,
     Places, Callers, Flags, Events, vars, flags, world, calls, history
<1>19. ASSUME NEW a \in Actors, SelfTest(a) PROVE Answers'
  BY <1>19, Roles DEF SelfTest, GoOn, Goto, Answers, Told, Ended, Past, Typed, Counters,
     Places, Callers, Flags, Events, vars, flags, world, calls, history
<1>20. ASSUME NEW a \in Actors, SelfId(a) PROVE Answers'
  BY <1>20, Roles DEF SelfId, GoOn, Return, Goto, Home, Answers, Told, Ended, Past, Typed,
     Counters, Places, Callers, Flags, Events, vars, flags, world, calls, history
<1>21. ASSUME NEW a \in Actors, StopTest(a) PROVE Answers'
  <2>1. UNCHANGED <<IsEnded, created, misled, call, seen>>
    BY <1>21 DEF StopTest, Goto, flags, world, calls, history
  <2>2. \A b \in Actors : b # a => pc'[b] = pc[b] /\ ret'[b] = ret[b]
    BY <1>21, Roles DEF StopTest, Goto, calls, Typed, Places, Callers
  <2>3. a \in Children => pc[a] \notin {"begin", "signal", "done"}
    BY <1>21, Roles DEF StopTest
  <2>4. a \in Controllers /\ Told(a)' /\ ~misled => Ended(a)
    <3>1. CASE ThreadIsRunning
      BY <1>21, <3>1, Roles DEF StopTest, Goto, Told, Typed, Places
    <3>2. CASE ~ThreadIsRunning /\ a \in Controllers
      BY <1>21, <3>2, NoneRuns DEF StopTest, Inside, Calling, StopPath, WaitPath
    <3> QED BY <3>1, <3>2
  <2> QED BY <2>1, <2>2, <2>3, <2>4, AnswerFrame, Roles
<1>22. ASSUME NEW a \in Actors, Ask(a) PROVE Answers'
  BY <1>22, Roles DEF Ask, Goto, Answers, Told, Ended, Past, Typed, Counters, Places,
     Callers, Flags, Events, vars, flags, world, calls, history
<1>23. ASSUME NEW a \in Actors, AskEvent(a) PROVE Answers'
  BY <1>23, Roles DEF AskEvent, Goto, Signal, Answers, Told, Ended, Past, Typed, Counters,
     Places, Callers, Flags, Events, vars, flags, world, calls, history
<1>24. ASSUME NEW a \in Actors, JoinTest(a) PROVE Answers'
  <2>1. UNCHANGED <<IsEnded, created, misled, call, seen>>
    BY <1>24 DEF JoinTest, Return, Goto, Home, flags, world, calls, history
  <2>2. \A b \in Actors : b # a => pc'[b] = pc[b] /\ ret'[b] = ret[b]
    BY <1>24, Roles DEF JoinTest, Return, Goto, Home, calls, Typed, Places, Callers
  <2>3. a \in Children => pc[a] \notin {"begin", "signal", "done"}
    BY <1>24, Roles DEF JoinTest
  <2>4. a \in Controllers /\ Told(a)' /\ ~misled => Ended(a)
    <3>1. CASE ThreadIsRunning
      BY <1>24, <3>1, Roles DEF JoinTest, Goto, Told, Typed, Places
    <3>2. CASE ~ThreadIsRunning /\ a \in Controllers
      BY <1>24, <3>2, NoneRuns DEF JoinTest, Inside, Calling, StopPath, WaitPath
    <3> QED BY <3>1, <3>2
  <2> QED BY <2>1, <2>2, <2>3, <2>4, AnswerFrame, Roles
<1>25. ASSUME NEW a \in Actors, Await(a) PROVE Answers'
  BY <1>25, Roles DEF Await, Blocked, Passes, Goto, Answers, Told, Ended, Past, Typed,
     Counters, Places, Callers, Flags, Events, vars, flags, world, calls, history
<1>26. ASSUME NEW a \in Actors, AwaitReturns(a) PROVE Answers'
  <2>1. UNCHANGED <<IsEnded, created, misled, call, seen>>
    BY <1>26 DEF AwaitReturns, Passes, Woken, Waited, Return, Goto, Home, flags, world,
       calls, history
  <2>2. \A b \in Actors : b # a => pc'[b] = pc[b] /\ ret'[b] = ret[b]
    BY <1>26, Roles DEF AwaitReturns, Passes, Woken, Waited, Return, Goto, Home, calls,
       Typed, Places, Callers
  <2>3. a \in Children => pc[a] \notin {"begin", "signal", "done"}
    BY <1>26, Roles DEF AwaitReturns
  <2>4. a \in Controllers /\ Told(a)' /\ ~misled => Ended(a)
    <3> SUFFICES ASSUME a \in Controllers, ~misled PROVE Ended(a)
      OBVIOUS
    <3>1. CASE pc[a] = "blocked" /\ Woken(IsEnded, a)
      BY <3>1 DEF Woken, Answers, Told
    <3>2. CASE pc[a] = "await" /\ IsEnded.signaled
      <4>1. created > 0 /\ pc[created] \in {"begin", "done"} /\ call[a] # "none"
        BY <3>2 DEF Answers, Inside, Calling, StopPath, WaitPath
      <4>2. created \in Children /\ seen[a] \in 0..created
        BY <4>1, Roles DEF Typed, Counters, Callers
      <4>3. \A k \in Children : k < created => Past(k)
        BY DEF OneChild
      <4>4. seen[a] = created => Past(created)
        BY <4>1 DEF Begun, Past
      <4> QED BY <4>2, <4>3, <4>4, Roles DEF Ended
    <3> QED BY <1>26, <3>1, <3>2 DEF AwaitReturns, Passes
  <2> QED BY <2>1, <2>2, <2>3, <2>4, AnswerFrame, Roles
<1>27. ASSUME NEW a \in Actors, AwaitTimesOut(a) PROVE Answers'
  <2>1. UNCHANGED <<created, misled, call, seen>> /\ pc[a] = "blocked"
    BY <1>27 DEF AwaitTimesOut, Waited, Return, world, calls, history
  <2>2. IsEnded'.signaled = IsEnded.signaled /\ IsEnded'.waiters = IsEnded.waiters \ {a}
    BY <1>27 DEF AwaitTimesOut, Unblocked, Typed, Flags, Events
  <2>3. /\ ret' = [ret EXCEPT ![a] = FALSE]
        /\ \E l \in {"reset", "run", "idle"} : pc' = [pc EXCEPT ![a] = l]
    BY <1>27 DEF AwaitTimesOut, Waited, Return, Goto, Home
  <2>4. /\ \A b \in Actors \ {a} : pc'[b] = pc[b] /\ ret'[b] = ret[b]
        /\ pc'[a] # "blocked" /\ ~ret'[a]
    BY <2>3 DEF Typed, Places, Callers
  <2>5. created \in 0..MaxStarts /\ \A b \in Controllers : seen[b] \in 0..created
    BY Roles DEF Typed, Counters, Callers
  <2>6. \A k \in Children : /\ Past(k) => Past(k)'
                            /\ pc[k] \in {"begin", "done"} => pc'[k] = pc[k]
    BY <2>1, <2>4, Roles DEF Past
  <2>7. \A b \in Controllers : Ended(b) => Ended(b)'
    <3>1. \A b \in Controllers : \A k \in 1..seen[b] : k \in Children
      BY <2>5, Roles
    <3>2. seen' = seen
      BY <2>1
    <3> QED BY <3>1, <3>2, <2>6 DEF Ended
  <2>8. \A b \in Controllers : Told(b)' => Told(b)
    BY <2>1, <2>2, <2>4, Roles DEF Told
  <2>9. IsEnded'.signaled /\ ~misled => created' > 0 /\ pc'[created'] \in {"begin", "done"}
    <3>1. created > 0 => created \in Children
      BY <2>5, Roles
    <3> QED BY <2>1, <2>2, <2>6, <3>1 DEF Answers
  <2> QED BY <2>1, <2>7, <2>8, <2>9 DEF Answers
<1>28. ASSUME NEW a \in Actors, SpuriousWakeup(a) PROVE Answers'
  BY <1>28, Roles DEF SpuriousWakeup, Unblocked, Answers, Told, Ended, Past, Typed,
     Counters, Places, Callers, Flags, Events, vars, flags, world, calls, history
<1>29. ASSUME NEW k \in Children, Begin(k) PROVE Answers'
  BY <1>29, Roles DEF Begin, Reset, Goto, Answers, Told, Ended, Past, Typed, Counters,
     Places, Callers, Flags, Events, vars, flags, world, calls, history
<1>30. ASSUME NEW k \in Children, Starting(k) PROVE Answers'
  BY <1>30, Roles DEF Starting, Goto, Answers, Told, Ended, Past, Typed, Counters, Places,
     Callers, Flags, Events, vars, flags, world, calls, history
<1>31. ASSUME NEW k \in Children, Poll(k) PROVE Answers'
  BY <1>31, Roles DEF Poll, LeaveRun, Goto, Answers, Told, Ended, Past, Typed, Counters,
     Places, Callers, Flags, Events, vars, flags, world, calls, history
<1>32. ASSUME NEW k \in Children, WaitForStopReturns(k) PROVE Answers'
  BY <1>32, Roles DEF WaitForStopReturns, Woken, LeaveRun, Goto, Answers, Told, Ended,
     Past, Typed, Counters, Places, Callers, Flags, Events, vars, flags, world, calls,
     history
<1>33. ASSUME NEW k \in Children, Leave(k) PROVE Answers'
  BY <1>33, Roles DEF Leave, Goto, Answers, Told, Ended, Past, Typed, Counters, Places,
     Callers, Flags, Events, vars, flags, world, calls, history
<1>34. ASSUME NEW k \in Children, SignalEnd(k) PROVE Answers'
  <2> SUFFICES ASSUME ~misled' PROVE Answers'
    BY DEF Answers
  <2>1. created \in 0..MaxStarts /\ k <= created /\ created = k /\ ~misled
    <3>1. created \in 0..MaxStarts /\ k <= created
      BY <1>34, Roles DEF SignalEnd, Typed, Counters, Places
    <3>2. ~(created > k) /\ ~misled
      BY <1>34 DEF SignalEnd
    <3> QED BY <3>1, <3>2, Roles
  <2>2. UNCHANGED <<created, call, ret, seen>> /\ pc' = [pc EXCEPT ![k] = "done"]
    BY <1>34 DEF SignalEnd, Goto, world, calls
  <2>3. \A j \in 1..created : Past(j)'
    BY <2>1, <2>2, Roles DEF OneChild, Past, Typed, Places
  <2>4. \A a \in Controllers : Ended(a)'
    BY <2>1, <2>2, <2>3, Roles DEF Ended, Typed, Callers
  <2> QED BY <2>1, <2>2, <2>4, Roles DEF Answers, Typed, Places
<1>35. ASSUME NEW k \in Children, Finish(k) PROVE Answers'
  BY <1>35, Roles DEF Finish, LeaveRun, Goto, Answers, Told, Ended, Past, Typed, Counters,
     Places, Callers, Flags, Events, vars, flags, world, calls, history
<1>36. ASSUME NEW k \in Children, WaitForStop(k) PROVE Answers'
  BY <1>36, Roles DEF WaitForStop, Blocked, Passes, LeaveRun, Goto, Answers, Told, Ended,
     Past, Typed, Counters, Places, Callers, Flags, Events, vars, flags, world, calls,
     history
<1>37. CASE UNCHANGED vars
  BY <1>37, Roles DEF Answers, Told, Ended, Past, Typed, Counters, Places, Callers, Flags,
     Events, vars, flags, world, calls, history
<1> QED BY <1>1, <1>2, <1>3, <1>4, <1>5, <1>6, <1>7, <1>8, <1>9, <1>10, <1>11, <1>12,
   <1>13, <1>14, <1>15, <1>16, <1>17, <1>18, <1>19, <1>20, <1>21, <1>22, <1>23, <1>24,
   <1>25, <1>26, <1>27, <1>28, <1>29, <1>30, <1>31, <1>32, <1>33, <1>34, <1>35, <1>36,
   <1>37 DEF Next, Calls, OwnerStep, PointerStep, StopStep, WaitStep, RunStep, RunChoice,
   CallStop, CallJoin

\* An actor that moves inside a method changes the requests by its own at most.
LEMMA RequestFrame ==
  ASSUME Typed, Requests, NEW a \in Actors,
         UNCHANGED <<StopWasAsked, created, call, seen>>,
         \A b \in Actors : b # a => pc'[b] = pc[b] /\ ret'[b] = ret[b],
         a \in Children => pc[a] \in Calling,
         a \in Controllers /\ HasAsked(a)' => HasAsked(a)
  PROVE  Requests'
<1>1. created \in 0..MaxStarts /\ created' = created
  BY DEF Typed, Counters
<1>2. ASSUME created > 0, InRun(created)' PROVE InRun(created)
  <2>1. created \in Children /\ created \in Actors
    BY <1>1, <1>2, Roles
  <2>2. CASE created = a
    BY <2>1, <2>2 DEF InRun, Calling, StopPath, WaitPath
  <2>3. CASE created # a
    BY <1>1, <1>2, <2>1, <2>3 DEF InRun
  <2> QED BY <2>2, <2>3
<1>3. \A b \in Controllers : HasAsked(b)' => HasAsked(b)
  BY Roles DEF HasAsked
<1> QED BY <1>1, <1>2, <1>3 DEF Requests

\* Who has asked leaves a request that only the next start takes back.
LEMMA RequestsStep ==
  ASSUME Typed, OwnerCall, Inside, Begun, OneChild, Requests, [Next]_vars
  PROVE  Requests'
<1>1. CASE CallStart
  BY <1>1, Roles DEF CallStart, Call, OwnerMay, Goto, Home, Requests, HasAsked, InRun,
     Typed, Counters, Places, Callers, vars, flags, world, calls, history
<1>2. CASE OwnerMay("stop") /\ Call(Owner, "stop", "stopTest")
  BY <1>2, Roles DEF Call, OwnerMay, Goto, Home, Requests, HasAsked, InRun, Typed,
     Counters, Places, Callers, vars, flags, world, calls, history
<1>3. ASSUME PeerMay, NEW p \in Peers, Call(p, "stop", "stopTest")
      PROVE  Requests'
  BY <1>3, Roles DEF Call, PeerMay, Goto, Home, Requests, HasAsked, InRun, Typed,
     Counters, Places, Callers, vars, flags, world, calls, history
<1>4. ASSUME "stop" \in RunStyle, NEW k \in Children, Call(k, "stop", "stopTest")
      PROVE  Requests'
  BY <1>4, Roles DEF Call, Goto, Home, Requests, HasAsked, InRun, Typed, Counters, Places,
     Callers, vars, flags, world, calls, history
<1>5. CASE OwnerMay("join") /\ Call(Owner, "join", "selfTest")
  BY <1>5, Roles DEF Call, OwnerMay, Goto, Home, Requests, HasAsked, InRun, Typed,
     Counters, Places, Callers, vars, flags, world, calls, history
<1>6. ASSUME PeerMay, NEW p \in Peers, Call(p, "join", "selfTest")
      PROVE  Requests'
  BY <1>6, Roles DEF Call, PeerMay, Goto, Home, Requests, HasAsked, InRun, Typed,
     Counters, Places, Callers, vars, flags, world, calls, history
<1>7. ASSUME "join" \in RunStyle, NEW k \in Children, Call(k, "join", "selfTest")
      PROVE  Requests'
  BY <1>7, Roles DEF Call, Goto, Home, Requests, HasAsked, InRun, Typed, Counters, Places,
     Callers, vars, flags, world, calls, history
<1>8. CASE CallDestroy
  BY <1>8, Roles DEF CallDestroy, Call, OwnerMay, Goto, Home, Requests, HasAsked, InRun,
     Typed, Counters, Places, Callers, vars, flags, world, calls, history
<1>9. CASE StartTest
  <2>1. UNCHANGED <<StopWasAsked, created, call, seen>>
    BY <1>9 DEF StartTest, Return, Goto, Home, flags, world, calls
  <2>2. \A b \in Actors : b # Owner => pc'[b] = pc[b] /\ ret'[b] = ret[b]
    BY <1>9, Roles DEF StartTest, Return, Goto, Home, calls, Typed, Places, Callers
  <2>3. Owner \in Children => pc[Owner] \in Calling
    BY <1>9, Roles DEF StartTest, Calling, WaitPath
  <2>4. Owner \in Controllers /\ HasAsked(Owner)' => HasAsked(Owner)
    <3>1. call'[Owner] = "start"
      BY <1>9, <2>1 DEF StartTest, OwnerCall, Starts
    <3> QED BY <3>1 DEF HasAsked
  <2> QED BY <2>1, <2>2, <2>3, <2>4, RequestFrame, Roles
<1>10. CASE ClearFlags
  <2>1. created > 0 => created \in 1..created /\ created \in Children /\ created # Owner
    BY Roles DEF Typed, Counters
  <2>2. created > 0 => Past(created)
    BY <1>10, <2>1 DEF ClearFlags, OneChild
  <2>3. created' = created /\ (created > 0 => pc'[created] = pc[created])
    BY <1>10, <2>1, Roles DEF ClearFlags, Goto, world, Typed, Places
  <2> QED BY <2>2, <2>3 DEF Past, InRun, Requests
<1>11. CASE Create
  BY <1>11, Roles DEF Create, Requests, HasAsked, InRun, Typed, Counters, Places,
     Callers, vars, flags, world, calls, history
<1>12. CASE Detach
  BY <1>12, Roles DEF Detach, Goto, Requests, HasAsked, InRun, Typed, Counters,
     Places, Callers, vars, flags, world, calls, history
<1>13. CASE AwaitStart
  <2>1. UNCHANGED <<StopWasAsked, created, call, seen>>
    BY <1>13 DEF AwaitStart, Return, Goto, Home, flags, world, calls
  <2>2. \A b \in Actors : b # Owner => pc'[b] = pc[b] /\ ret'[b] = ret[b]
    BY <1>13, Roles DEF AwaitStart, Return, Goto, Home, calls, Typed, Places, Callers
  <2>3. Owner \in Children => pc[Owner] \in Calling
    BY <1>13, Roles DEF AwaitStart, Calling, WaitPath
  <2>4. Owner \in Controllers /\ HasAsked(Owner)' => HasAsked(Owner)
    <3>1. call'[Owner] = "start"
      BY <1>13, <2>1 DEF AwaitStart, OwnerCall
    <3> QED BY <3>1 DEF HasAsked
  <2> QED BY <2>1, <2>2, <2>3, <2>4, RequestFrame, Roles
<1>14. CASE DestroyTest
  BY <1>14, Roles DEF DestroyTest, Goto, Requests, HasAsked, InRun, Typed, Counters,
     Places, Callers, vars, flags, world, calls, history
<1>15. CASE Free
  BY <1>15, Roles DEF Free, Goto, Requests, HasAsked, InRun, Typed,
     Counters, Places, Callers, vars, flags, world, calls, history
<1>16. ASSUME NEW a \in Actors, ReadOld(a) PROVE Requests'
  BY <1>16, Roles DEF ReadOld, AfterReset, Home, Goto, Requests, HasAsked, InRun, Typed,
     Counters, Places, Callers, vars, flags, world, calls, history
<1>17. ASSUME NEW a \in Actors, StoreNew(a) PROVE Requests'
  BY <1>17, Roles DEF StoreNew, AfterReset, Home, Goto, Requests, HasAsked, InRun, Typed,
     Counters, Places, Callers, vars, flags, world, calls, history
<1>18. ASSUME NEW a \in Actors, DeleteOld(a) PROVE Requests'
  BY <1>18, Roles DEF DeleteOld, Goto, Requests, HasAsked, InRun, Typed, Counters,
     Places, Callers, vars, flags, world, calls, history
<1>19. ASSUME NEW a \in Actors, SelfTest(a) PROVE Requests'
  BY <1>19, Roles DEF SelfTest, GoOn, Goto, Requests, HasAsked, InRun, Typed, Counters,
     Places, Callers, vars, flags, world, calls, history
<1>20. ASSUME NEW a \in Actors, SelfId(a) PROVE Requests'
  BY <1>20, Roles DEF SelfId, GoOn, Return, Goto, Home, Requests, HasAsked, InRun, Typed,
     Counters, Places, Callers, vars, flags, world, calls, history
<1>21. ASSUME NEW a \in Actors, StopTest(a) PROVE Requests'
  BY <1>21, Roles DEF StopTest, Goto, Requests, HasAsked, InRun, Typed, Counters, Places,
     Callers, vars, flags, world, calls, history
<1>22. ASSUME NEW a \in Actors, Ask(a) PROVE Requests'
  BY <1>22, Roles DEF Ask, Goto, Requests, HasAsked, InRun, Typed, Counters, Places,
     Callers, vars, flags, world, calls, history
<1>23. ASSUME NEW a \in Actors, AskEvent(a) PROVE Requests'
  BY <1>23, Roles DEF AskEvent, Goto, Signal, Requests, HasAsked, InRun, Typed, Counters,
     Places, Callers, vars, flags, world, calls, history
<1>24. ASSUME NEW a \in Actors, JoinTest(a) PROVE Requests'
  <2>1. UNCHANGED <<StopWasAsked, created, call, seen>>
    BY <1>24 DEF JoinTest, Return, Goto, Home, flags, world, calls
  <2>2. \A b \in Actors : b # a => pc'[b] = pc[b] /\ ret'[b] = ret[b]
    BY <1>24, Roles DEF JoinTest, Return, Goto, Home, calls, Typed, Places, Callers
  <2>3. a \in Children => pc[a] \in Calling
    BY <1>24, Roles DEF JoinTest, Calling, WaitPath
  <2>4. a \in Controllers /\ HasAsked(a)' => HasAsked(a)
    <3>1. a \in Controllers => call'[a] = "join"
      BY <1>24, <2>1 DEF JoinTest, Inside
    <3> QED BY <3>1 DEF HasAsked
  <2> QED BY <2>1, <2>2, <2>3, <2>4, RequestFrame, Roles
<1>25. ASSUME NEW a \in Actors, Await(a) PROVE Requests'
  BY <1>25, Roles DEF Await, Blocked, Passes, Goto, Requests, HasAsked, InRun, Typed,
     Counters, Places, Callers, vars, flags, world, calls, history
<1>26. ASSUME NEW a \in Actors, AwaitReturns(a) PROVE Requests'
  BY <1>26, Roles DEF AwaitReturns, Passes, Woken, Waited, Return, Goto, Home, Requests,
     HasAsked, InRun, Typed, Counters, Places, Callers, vars, flags, world, calls, history
<1>27. ASSUME NEW a \in Actors, AwaitTimesOut(a) PROVE Requests'
  BY <1>27, Roles DEF AwaitTimesOut, Unblocked, Waited, Return, Goto, Home, Requests,
     HasAsked, InRun, Typed, Counters, Places, Callers, vars, flags, world, calls, history
<1>28. ASSUME NEW a \in Actors, SpuriousWakeup(a) PROVE Requests'
  BY <1>28, Roles DEF SpuriousWakeup, Unblocked, Requests, HasAsked, InRun, Typed,
     Counters, Places, Callers, vars, flags, world, calls, history
<1>29. ASSUME NEW k \in Children, Begin(k) PROVE Requests'
  BY <1>29, Roles DEF Begin, Reset, Goto, Requests, HasAsked, InRun, Typed, Counters,
     Places, Callers, vars, flags, world, calls, history
<1>30. ASSUME NEW k \in Children, Starting(k) PROVE Requests'
  <2>1. UNCHANGED <<created, call, ret, seen, StopWasAsked>> /\ pc' = [pc EXCEPT ![k] = "run"]
    BY <1>30 DEF Starting, Goto, world, calls
  <2>2. CASE k = created
    <3>1. \A a \in Controllers : ~(call[a] # "none" /\ seen[a] = created /\ created > 0)
      BY <1>30, <2>2 DEF Starting, Begun
    <3> QED BY <2>1, <3>1 DEF Requests, HasAsked
  <2>3. CASE k # created
    <3>1. created' = created /\ (created > 0 => created \in Actors)
      BY <2>1, Roles DEF Typed, Counters
    <3>2. created > 0 => pc'[created] = pc[created]
      BY <2>1, <2>3, <3>1, Roles DEF Typed, Places
    <3>3. \A a \in Controllers : HasAsked(a)' => HasAsked(a)
      BY <2>1, Roles DEF HasAsked, Typed, Places
    <3> QED BY <2>1, <3>1, <3>2, <3>3 DEF Requests, InRun
  <2> QED BY <2>2, <2>3
<1>31. ASSUME NEW k \in Children, Poll(k) PROVE Requests'
  BY <1>31, Roles DEF Poll, LeaveRun, Goto, Requests, HasAsked, InRun, Typed, Counters,
     Places, Callers, vars, flags, world, calls, history
<1>32. ASSUME NEW k \in Children, WaitForStopReturns(k) PROVE Requests'
  BY <1>32, Roles DEF WaitForStopReturns, Woken, LeaveRun, Goto, Requests, HasAsked,
     InRun, Typed, Counters, Places, Callers, vars, flags, world, calls, history
<1>33. ASSUME NEW k \in Children, Leave(k) PROVE Requests'
  BY <1>33, Roles DEF Leave, Goto, Requests, HasAsked, InRun, Typed, Counters, Places,
     Callers, vars, flags, world, calls, history
<1>34. ASSUME NEW k \in Children, SignalEnd(k) PROVE Requests'
  BY <1>34, Roles DEF SignalEnd, Signal, Goto, Requests, HasAsked, InRun, Typed, Counters,
     Places, Callers, vars, flags, world, calls, history
<1>35. ASSUME NEW k \in Children, Finish(k) PROVE Requests'
  BY <1>35, Roles DEF Finish, LeaveRun, Goto, Requests, HasAsked, InRun, Typed, Counters,
     Places, Callers, vars, flags, world, calls, history
<1>36. ASSUME NEW k \in Children, WaitForStop(k) PROVE Requests'
  BY <1>36, Roles DEF WaitForStop, Blocked, Passes, LeaveRun, Goto, Requests, HasAsked,
     InRun, Typed, Counters, Places, Callers, vars, flags, world, calls, history
<1>37. CASE UNCHANGED vars
  BY <1>37, Roles DEF Requests, HasAsked, InRun, Typed, Counters, Places, Callers, vars,
     flags, world, calls, history
<1> QED BY <1>1, <1>2, <1>3, <1>4, <1>5, <1>6, <1>7, <1>8, <1>9, <1>10, <1>11, <1>12,
   <1>13, <1>14, <1>15, <1>16, <1>17, <1>18, <1>19, <1>20, <1>21, <1>22, <1>23, <1>24,
   <1>25, <1>26, <1>27, <1>28, <1>29, <1>30, <1>31, <1>32, <1>33, <1>34, <1>35, <1>36,
   <1>37 DEF Next, Calls, OwnerStep, PointerStep, StopStep, WaitStep, RunStep, RunChoice,
   CallStop, CallJoin

\* The constructor leaves no answer and no request.
LEMMA HandInit == Init => HandInv
<1> SUFFICES ASSUME Init PROVE HandInv
  OBVIOUS
<1>1. Typed
  BY TypedInit
<1>2. created = 0 /\ \A a \in Controllers : pc[a] = "idle" /\ call[a] = "none"
  BY Roles DEF Init
<1>3. OwnerCall /\ Inside
  BY <1>2, Roles DEF OwnerCall, Inside, Starts, Launch, StopPath, WaitPath, Calling
<1>4. Begun /\ Requests
  BY <1>2 DEF Begun, Requests
<1>5. OneChild
  BY <1>2, Roles DEF OneChild
<1>6. ~IsEnded.signaled /\ \A a \in Controllers : ~Told(a)
  BY <1>2 DEF Init, NewEvent, Told
<1> QED BY <1>1, <1>3, <1>4, <1>5, <1>6 DEF HandInv, Answers

\* By the handshake every step keeps the invariant.
LEMMA HandStep == ASSUME Handshake PROVE HandInv /\ [Next]_vars => HandInv'
BY TypedStep, OwnerCallStep, InsideStep, BegunStep, OneChildStep, AnswersStep,
   RequestsStep DEF HandInv

\* By the handshake no call of Thread.cpp breaks the invariant, on any timeout and wakeup.
THEOREM HandshakeInvariance == ASSUME Handshake PROVE Spec => []HandInv
BY HandInit, HandStep, PTL DEF Spec

\* By the handshake never two threads are in the Run of one object, for any number of
\* starts and of peers, whatever Run does, and whichever Waits expire or come back of
\* themselves.
THEOREM NeverTwoRuns == ASSUME Handshake PROVE Spec => []OneRunAtATime
<1>1. HandInv => OneRunAtATime
  <2> SUFFICES ASSUME HandInv, NEW j \in Children, NEW k \in Children, InRun(j), InRun(k)
               PROVE  j = k
    BY DEF OneRunAtATime
  <2>1. \A i \in Children : InRun(i) => i = created
    <3> SUFFICES ASSUME NEW i \in Children, InRun(i) PROVE i = created
      OBVIOUS
    <3>1. i <= created
      BY Roles DEF HandInv, Typed, Counters, Places, InRun
    <3>2. ~(i < created)
      BY DEF HandInv, OneChild, Past, InRun
    <3> QED BY <3>1, <3>2, Roles DEF HandInv, Typed, Counters
  <2> QED BY <2>1
<1> QED BY <1>1, HandshakeInvariance, PTL

\* By the handshake an answer of TRUE from StopThread, or a Join that comes back, is wrong
\* only after IsEnded was signalled for a run before the last or a Wait came back of itself.
THEOREM AnswersAreAlwaysRight == ASSUME Handshake PROVE Spec => []AnswersAreRight
<1>1. HandInv => AnswersAreRight
  BY DEF HandInv, AnswersAreRight, ReturnMeansEnded, Returned, Answers, Told, Ended, Past
<1> QED BY <1>1, HandshakeInvariance, PTL

\* By the handshake a StopThread that answers FALSE, as it does when its Wait has expired,
\* has left its request for the run it could not wait for.
THEOREM RequestsOutliveTimeOuts == ASSUME Handshake PROVE Spec => []RequestOutlivesTimeOut
<1>1. HandInv => RequestOutlivesTimeOut
  BY DEF HandInv, RequestOutlivesTimeOut, Returned, Requests, HasAsked
<1> QED BY <1>1, HandshakeInvariance, PTL

\* No peer calls while the owner starts.
LEMMA AloneStep ==
  ASSUME Handshake, Peers = {} \/ MaxStarts <= 1,
         Typed, OwnerCall, Alone, [Next]_vars
  PROVE  Alone'
<1>1. CASE CallStart
  BY <1>1, Roles DEF CallStart, Call, OwnerMay, Goto, Home, Alone, OwnerCall, RunHasBegun,
     Starts, Launch, Typed, Counters, Places, Callers, vars, flags, world, calls, history
<1>2. CASE OwnerMay("stop") /\ Call(Owner, "stop", "stopTest")
  BY <1>2, Roles DEF Call, OwnerMay, Goto, Home, Alone, OwnerCall, RunHasBegun, Starts,
     Launch, Typed, Counters, Places, Callers, vars, flags, world, calls, history
<1>3. ASSUME PeerMay, NEW p \in Peers, Call(p, "stop", "stopTest")
      PROVE  Alone'
  BY <1>3, Roles DEF Call, PeerMay, Goto, Home, Alone, OwnerCall, RunHasBegun, Starts,
     Launch, Typed, Counters, Places, Callers, vars, flags, world, calls, history
<1>4. ASSUME "stop" \in RunStyle, NEW k \in Children, Call(k, "stop", "stopTest")
      PROVE  Alone'
  BY <1>4, Roles DEF Call, Goto, Home, Alone, OwnerCall, RunHasBegun, Starts, Launch,
     Typed, Counters, Places, Callers, vars, flags, world, calls, history
<1>5. CASE OwnerMay("join") /\ Call(Owner, "join", "selfTest")
  BY <1>5, Roles DEF Call, OwnerMay, Goto, Home, Alone, OwnerCall, RunHasBegun, Starts,
     Launch, Typed, Counters, Places, Callers, vars, flags, world, calls, history
<1>6. ASSUME PeerMay, NEW p \in Peers, Call(p, "join", "selfTest")
      PROVE  Alone'
  BY <1>6, Roles DEF Call, PeerMay, Goto, Home, Alone, OwnerCall, RunHasBegun, Starts,
     Launch, Typed, Counters, Places, Callers, vars, flags, world, calls, history
<1>7. ASSUME "join" \in RunStyle, NEW k \in Children, Call(k, "join", "selfTest")
      PROVE  Alone'
  BY <1>7, Roles DEF Call, Goto, Home, Alone, OwnerCall, RunHasBegun, Starts, Launch,
     Typed, Counters, Places, Callers, vars, flags, world, calls, history
<1>8. CASE CallDestroy
  BY <1>8, Roles DEF CallDestroy, Call, OwnerMay, Goto, Home, Alone, OwnerCall,
     RunHasBegun, Starts, Launch, Typed, Counters, Places, Callers, vars, flags, world,
     calls, history
<1>9. CASE StartTest
  BY <1>9, Roles DEF StartTest, Return, Goto, Home, Alone, OwnerCall, RunHasBegun, Starts,
     Launch, Typed, Counters, Places, Callers, vars, flags, world, calls, history
<1>10. CASE ClearFlags
  BY <1>10, Roles DEF ClearFlags, Goto, Alone, OwnerCall, RunHasBegun, Starts, Launch,
     Typed, Counters, Places, Callers, vars, flags, world, calls, history
<1>11. CASE Create
  BY <1>11, Roles DEF Create, Alone, OwnerCall, RunHasBegun, Starts, Launch, Typed,
     Counters, Places, Callers, vars, flags, world, calls, history
<1>12. CASE Detach
  BY <1>12, Roles DEF Detach, Goto, Alone, OwnerCall, RunHasBegun, Starts, Launch, Typed,
     Counters, Places, Callers, vars, flags, world, calls, history
<1>13. CASE AwaitStart
  BY <1>13, Roles DEF AwaitStart, Return, Goto, Home, Alone, OwnerCall, RunHasBegun,
     Starts, Launch, Typed, Counters, Places, Callers, vars, flags, world, calls, history
<1>14. CASE DestroyTest
  BY <1>14, Roles DEF DestroyTest, Goto, Alone, OwnerCall, RunHasBegun, Starts, Launch,
     Typed, Counters, Places, Callers, vars, flags, world, calls, history
<1>15. CASE Free
  BY <1>15, Roles DEF Free, Goto, Alone, OwnerCall, RunHasBegun,
     Starts, Launch, Typed, Counters, Places, Callers, vars, flags, world, calls, history
<1>16. ASSUME NEW a \in Actors, ReadOld(a) PROVE Alone'
  BY <1>16, Roles DEF ReadOld, AfterReset, Home, Goto, Alone, OwnerCall, RunHasBegun,
     Starts, Launch, Typed, Counters, Places, Callers, vars, flags, world, calls, history
<1>17. ASSUME NEW a \in Actors, StoreNew(a) PROVE Alone'
  BY <1>17, Roles DEF StoreNew, AfterReset, Home, Goto, Alone, OwnerCall, RunHasBegun,
     Starts, Launch, Typed, Counters, Places, Callers, vars, flags, world, calls, history
<1>18. ASSUME NEW a \in Actors, DeleteOld(a) PROVE Alone'
  BY <1>18, Roles DEF DeleteOld, Goto, Alone, OwnerCall, RunHasBegun, Starts,
     Launch, Typed, Counters, Places, Callers, vars, flags, world, calls, history
<1>19. ASSUME NEW a \in Actors, SelfTest(a) PROVE Alone'
  BY <1>19, Roles DEF SelfTest, GoOn, Goto, Alone, OwnerCall, RunHasBegun, Starts, Launch,
     Typed, Counters, Places, Callers, vars, flags, world, calls, history
<1>20. ASSUME NEW a \in Actors, SelfId(a) PROVE Alone'
  BY <1>20, Roles DEF SelfId, GoOn, Return, Goto, Home, Alone, OwnerCall, RunHasBegun,
     Starts, Launch, Typed, Counters, Places, Callers, vars, flags, world, calls, history
<1>21. ASSUME NEW a \in Actors, StopTest(a) PROVE Alone'
  BY <1>21, Roles DEF StopTest, Goto, Alone, OwnerCall, RunHasBegun, Starts, Launch,
     Typed, Counters, Places, Callers, vars, flags, world, calls, history
<1>22. ASSUME NEW a \in Actors, Ask(a) PROVE Alone'
  BY <1>22, Roles DEF Ask, Goto, Alone, OwnerCall, RunHasBegun, Starts, Launch, Typed,
     Counters, Places, Callers, vars, flags, world, calls, history
<1>23. ASSUME NEW a \in Actors, AskEvent(a) PROVE Alone'
  BY <1>23, Roles DEF AskEvent, Goto, Signal, Alone, OwnerCall, RunHasBegun, Starts,
     Launch, Typed, Counters, Places, Callers, vars, flags, world, calls, history
<1>24. ASSUME NEW a \in Actors, JoinTest(a) PROVE Alone'
  BY <1>24, Roles DEF JoinTest, Return, Goto, Home, Alone, OwnerCall, RunHasBegun, Starts,
     Launch, Typed, Counters, Places, Callers, vars, flags, world, calls, history
<1>25. ASSUME NEW a \in Actors, Await(a) PROVE Alone'
  BY <1>25, Roles DEF Await, Blocked, Passes, Goto, Alone, OwnerCall, RunHasBegun, Starts,
     Launch, Typed, Counters, Places, Callers, vars, flags, world, calls, history
<1>26. ASSUME NEW a \in Actors, AwaitReturns(a) PROVE Alone'
  BY <1>26, Roles DEF AwaitReturns, Passes, Woken, Waited, Return, Goto, Home, Alone,
     OwnerCall, RunHasBegun, Starts, Launch, Typed, Counters, Places, Callers, vars,
     flags, world, calls, history
<1>27. ASSUME NEW a \in Actors, AwaitTimesOut(a) PROVE Alone'
  BY <1>27, Roles DEF AwaitTimesOut, Unblocked, Waited, Return, Goto, Home, Alone,
     OwnerCall, RunHasBegun, Starts, Launch, Typed, Counters, Places, Callers, vars,
     flags, world, calls, history
<1>28. ASSUME NEW a \in Actors, SpuriousWakeup(a) PROVE Alone'
  BY <1>28, Roles DEF SpuriousWakeup, Unblocked, Alone, OwnerCall, RunHasBegun, Starts,
     Launch, Typed, Counters, Places, Callers, vars, flags, world, calls, history
<1>29. ASSUME NEW k \in Children, Begin(k) PROVE Alone'
  BY <1>29, Roles DEF Begin, Reset, Goto, Alone, OwnerCall, RunHasBegun, Starts, Launch,
     Typed, Counters, Places, Callers, vars, flags, world, calls, history
<1>30. ASSUME NEW k \in Children, Starting(k) PROVE Alone'
  BY <1>30, Roles DEF Starting, Goto, Alone, OwnerCall, RunHasBegun, Starts, Launch,
     Typed, Counters, Places, Callers, vars, flags, world, calls, history
<1>31. ASSUME NEW k \in Children, Poll(k) PROVE Alone'
  BY <1>31, Roles DEF Poll, LeaveRun, Goto, Alone, OwnerCall, RunHasBegun, Starts, Launch,
     Typed, Counters, Places, Callers, vars, flags, world, calls, history
<1>32. ASSUME NEW k \in Children, WaitForStopReturns(k) PROVE Alone'
  BY <1>32, Roles DEF WaitForStopReturns, Woken, LeaveRun, Goto, Alone, OwnerCall,
     RunHasBegun, Starts, Launch, Typed, Counters, Places, Callers, vars, flags, world,
     calls, history
<1>33. ASSUME NEW k \in Children, Leave(k) PROVE Alone'
  BY <1>33, Roles DEF Leave, Goto, Alone, OwnerCall, RunHasBegun, Starts, Launch, Typed,
     Counters, Places, Callers, vars, flags, world, calls, history
<1>34. ASSUME NEW k \in Children, SignalEnd(k) PROVE Alone'
  BY <1>34, Roles DEF SignalEnd, Signal, Goto, Alone, OwnerCall, RunHasBegun, Starts,
     Launch, Typed, Counters, Places, Callers, vars, flags, world, calls, history
<1>35. ASSUME NEW k \in Children, Finish(k) PROVE Alone'
  BY <1>35, Roles DEF Finish, LeaveRun, Goto, Alone, OwnerCall, RunHasBegun, Starts,
     Launch, Typed, Counters, Places, Callers, vars, flags, world, calls, history
<1>36. ASSUME NEW k \in Children, WaitForStop(k) PROVE Alone'
  BY <1>36, Roles DEF WaitForStop, Blocked, Passes, LeaveRun, Goto, Alone, OwnerCall,
     RunHasBegun, Starts, Launch, Typed, Counters, Places, Callers, vars, flags, world,
     calls, history
<1>37. CASE UNCHANGED vars
  BY <1>37, Roles DEF Alone, OwnerCall, RunHasBegun, Starts, Launch, Typed, Counters,
     Places, Callers, vars, flags, world, calls, history
<1> QED BY <1>1, <1>2, <1>3, <1>4, <1>5, <1>6, <1>7, <1>8, <1>9, <1>10, <1>11, <1>12,
   <1>13, <1>14, <1>15, <1>16, <1>17, <1>18, <1>19, <1>20, <1>21, <1>22, <1>23, <1>24,
   <1>25, <1>26, <1>27, <1>28, <1>29, <1>30, <1>31, <1>32, <1>33, <1>34, <1>35, <1>36,
   <1>37 DEF Next, Calls, OwnerStep, PointerStep, StopStep, WaitStep, RunStep, RunChoice,
   CallStop, CallJoin

\* A request is for the child created last.
LEMMA AskedStep ==
  ASSUME Typed, OneChild, Alone, Asked, [Next]_vars
  PROVE  Asked'
<1>1. CASE CallStart
  BY <1>1, Roles DEF CallStart, Call, OwnerMay, Goto, Home, Asked, Alone, OneChild, Past,
     Starts, Launch, Typed, Counters, Places, Callers, vars, flags, world, calls, history
<1>2. CASE OwnerMay("stop") /\ Call(Owner, "stop", "stopTest")
  BY <1>2, Roles DEF Call, OwnerMay, Goto, Home, Asked, Alone, OneChild, Past, Starts,
     Launch, Typed, Counters, Places, Callers, vars, flags, world, calls, history
<1>3. ASSUME PeerMay, NEW p \in Peers, Call(p, "stop", "stopTest")
      PROVE  Asked'
  BY <1>3, Roles DEF Call, PeerMay, Goto, Home, Asked, Alone, OneChild, Past, Starts,
     Launch, Typed, Counters, Places, Callers, vars, flags, world, calls, history
<1>4. ASSUME "stop" \in RunStyle, NEW k \in Children, Call(k, "stop", "stopTest")
      PROVE  Asked'
  BY <1>4, Roles DEF Call, Goto, Home, Asked, Alone, OneChild, Past, Starts, Launch,
     Typed, Counters, Places, Callers, vars, flags, world, calls, history
<1>5. CASE OwnerMay("join") /\ Call(Owner, "join", "selfTest")
  BY <1>5, Roles DEF Call, OwnerMay, Goto, Home, Asked, Alone, OneChild, Past, Starts,
     Launch, Typed, Counters, Places, Callers, vars, flags, world, calls, history
<1>6. ASSUME PeerMay, NEW p \in Peers, Call(p, "join", "selfTest")
      PROVE  Asked'
  BY <1>6, Roles DEF Call, PeerMay, Goto, Home, Asked, Alone, OneChild, Past, Starts,
     Launch, Typed, Counters, Places, Callers, vars, flags, world, calls, history
<1>7. ASSUME "join" \in RunStyle, NEW k \in Children, Call(k, "join", "selfTest")
      PROVE  Asked'
  BY <1>7, Roles DEF Call, Goto, Home, Asked, Alone, OneChild, Past, Starts, Launch,
     Typed, Counters, Places, Callers, vars, flags, world, calls, history
<1>8. CASE CallDestroy
  BY <1>8, Roles DEF CallDestroy, Call, OwnerMay, Goto, Home, Asked, Alone, OneChild,
     Past, Starts, Launch, Typed, Counters, Places, Callers, vars, flags, world, calls,
     history
<1>9. CASE StartTest
  BY <1>9, Roles DEF StartTest, Return, Goto, Home, Asked, Alone, OneChild, Past, Starts,
     Launch, Typed, Counters, Places, Callers, vars, flags, world, calls, history
<1>10. CASE ClearFlags
  BY <1>10, Roles DEF ClearFlags, Goto, Asked, Alone, OneChild, Past, Starts, Launch,
     Typed, Counters, Places, Callers, vars, flags, world, calls, history
<1>11. CASE Create
  BY <1>11, Roles DEF Create, Asked, Alone, OneChild, Past, Starts, Launch, Typed,
     Counters, Places, Callers, vars, flags, world, calls, history
<1>12. CASE Detach
  BY <1>12, Roles DEF Detach, Goto, Asked, Alone, OneChild, Past, Starts, Launch, Typed,
     Counters, Places, Callers, vars, flags, world, calls, history
<1>13. CASE AwaitStart
  BY <1>13, Roles DEF AwaitStart, Return, Goto, Home, Asked, Alone, OneChild, Past,
     Starts, Launch, Typed, Counters, Places, Callers, vars, flags, world, calls, history
<1>14. CASE DestroyTest
  BY <1>14, Roles DEF DestroyTest, Goto, Asked, Alone, OneChild, Past, Starts, Launch,
     Typed, Counters, Places, Callers, vars, flags, world, calls, history
<1>15. CASE Free
  BY <1>15, Roles DEF Free, Goto, Asked, Alone, OneChild, Past,
     Starts, Launch, Typed, Counters, Places, Callers, vars, flags, world, calls, history
<1>16. ASSUME NEW a \in Actors, ReadOld(a) PROVE Asked'
  BY <1>16, Roles DEF ReadOld, AfterReset, Home, Goto, Asked, Alone, OneChild, Past,
     Starts, Launch, Typed, Counters, Places, Callers, vars, flags, world, calls, history
<1>17. ASSUME NEW a \in Actors, StoreNew(a) PROVE Asked'
  BY <1>17, Roles DEF StoreNew, AfterReset, Home, Goto, Asked, Alone, OneChild, Past,
     Starts, Launch, Typed, Counters, Places, Callers, vars, flags, world, calls, history
<1>18. ASSUME NEW a \in Actors, DeleteOld(a) PROVE Asked'
  BY <1>18, Roles DEF DeleteOld, Goto, Asked, Alone, OneChild, Past, Starts, Launch,
     Typed, Counters, Places, Callers, vars, flags, world, calls, history
<1>19. ASSUME NEW a \in Actors, SelfTest(a) PROVE Asked'
  BY <1>19, Roles DEF SelfTest, GoOn, Goto, Asked, Alone, OneChild, Past, Starts, Launch,
     Typed, Counters, Places, Callers, vars, flags, world, calls, history
<1>20. ASSUME NEW a \in Actors, SelfId(a) PROVE Asked'
  BY <1>20, Roles DEF SelfId, GoOn, Return, Goto, Home, Asked, Alone, OneChild, Past,
     Starts, Launch, Typed, Counters, Places, Callers, vars, flags, world, calls, history
<1>21. ASSUME NEW a \in Actors, StopTest(a) PROVE Asked'
  BY <1>21, Roles DEF StopTest, Goto, Asked, Alone, OneChild, Past, Starts, Launch, Typed,
     Counters, Places, Callers, vars, flags, world, calls, history
<1>22. ASSUME NEW a \in Actors, Ask(a) PROVE Asked'
  BY <1>22, Roles DEF Ask, Goto, Asked, Alone, OneChild, Past, Starts, Launch, Typed,
     Counters, Places, Callers, vars, flags, world, calls, history
<1>23. ASSUME NEW a \in Actors, AskEvent(a) PROVE Asked'
  BY <1>23, Roles DEF AskEvent, Goto, Signal, Asked, Alone, OneChild, Past, Starts,
     Launch, Typed, Counters, Places, Callers, vars, flags, world, calls, history
<1>24. ASSUME NEW a \in Actors, JoinTest(a) PROVE Asked'
  BY <1>24, Roles DEF JoinTest, Return, Goto, Home, Asked, Alone, OneChild, Past, Starts,
     Launch, Typed, Counters, Places, Callers, vars, flags, world, calls, history
<1>25. ASSUME NEW a \in Actors, Await(a) PROVE Asked'
  BY <1>25, Roles DEF Await, Blocked, Passes, Goto, Asked, Alone, OneChild, Past, Starts,
     Launch, Typed, Counters, Places, Callers, vars, flags, world, calls, history
<1>26. ASSUME NEW a \in Actors, AwaitReturns(a) PROVE Asked'
  BY <1>26, Roles DEF AwaitReturns, Passes, Woken, Waited, Return, Goto, Home, Asked,
     Alone, OneChild, Past, Starts, Launch, Typed, Counters, Places, Callers, vars, flags,
     world, calls, history
<1>27. ASSUME NEW a \in Actors, AwaitTimesOut(a) PROVE Asked'
  BY <1>27, Roles DEF AwaitTimesOut, Unblocked, Waited, Return, Goto, Home, Asked, Alone,
     OneChild, Past, Starts, Launch, Typed, Counters, Places, Callers, vars, flags, world,
     calls, history
<1>28. ASSUME NEW a \in Actors, SpuriousWakeup(a) PROVE Asked'
  BY <1>28, Roles DEF SpuriousWakeup, Unblocked, Asked, Alone, OneChild, Past, Starts,
     Launch, Typed, Counters, Places, Callers, vars, flags, world, calls, history
<1>29. ASSUME NEW k \in Children, Begin(k) PROVE Asked'
  BY <1>29, Roles DEF Begin, Reset, Goto, Asked, Alone, OneChild, Past, Starts, Launch,
     Typed, Counters, Places, Callers, vars, flags, world, calls, history
<1>30. ASSUME NEW k \in Children, Starting(k) PROVE Asked'
  BY <1>30, Roles DEF Starting, Goto, Asked, Alone, OneChild, Past, Starts, Launch, Typed,
     Counters, Places, Callers, vars, flags, world, calls, history
<1>31. ASSUME NEW k \in Children, Poll(k) PROVE Asked'
  BY <1>31, Roles DEF Poll, LeaveRun, Goto, Asked, Alone, OneChild, Past, Starts, Launch,
     Typed, Counters, Places, Callers, vars, flags, world, calls, history
<1>32. ASSUME NEW k \in Children, WaitForStopReturns(k) PROVE Asked'
  BY <1>32, Roles DEF WaitForStopReturns, Woken, LeaveRun, Goto, Asked, Alone, OneChild,
     Past, Starts, Launch, Typed, Counters, Places, Callers, vars, flags, world, calls,
     history
<1>33. ASSUME NEW k \in Children, Leave(k) PROVE Asked'
  BY <1>33, Roles DEF Leave, Goto, Asked, Alone, OneChild, Past, Starts, Launch, Typed,
     Counters, Places, Callers, vars, flags, world, calls, history
<1>34. ASSUME NEW k \in Children, SignalEnd(k) PROVE Asked'
  BY <1>34, Roles DEF SignalEnd, Signal, Goto, Asked, Alone, OneChild, Past, Starts,
     Launch, Typed, Counters, Places, Callers, vars, flags, world, calls, history
<1>35. ASSUME NEW k \in Children, Finish(k) PROVE Asked'
  BY <1>35, Roles DEF Finish, LeaveRun, Goto, Asked, Alone, OneChild, Past, Starts,
     Launch, Typed, Counters, Places, Callers, vars, flags, world, calls, history
<1>36. ASSUME NEW k \in Children, WaitForStop(k) PROVE Asked'
  BY <1>36, Roles DEF WaitForStop, Blocked, Passes, LeaveRun, Goto, Asked, Alone,
     OneChild, Past, Starts, Launch, Typed, Counters, Places, Callers, vars, flags, world,
     calls, history
<1>37. CASE UNCHANGED vars
  BY <1>37, Roles DEF Asked, Alone, OneChild, Past, Starts, Launch, Typed, Counters,
     Places, Callers, vars, flags, world, calls, history
<1> QED BY <1>1, <1>2, <1>3, <1>4, <1>5, <1>6, <1>7, <1>8, <1>9, <1>10, <1>11, <1>12,
   <1>13, <1>14, <1>15, <1>16, <1>17, <1>18, <1>19, <1>20, <1>21, <1>22, <1>23, <1>24,
   <1>25, <1>26, <1>27, <1>28, <1>29, <1>30, <1>31, <1>32, <1>33, <1>34, <1>35, <1>36,
   <1>37 DEF Next, Calls, OwnerStep, PointerStep, StopStep, WaitStep, RunStep, RunChoice,
   CallStop, CallJoin

\* Nor is anything asked.
LEMMA AloneInit == Init => AloneInv
<1> SUFFICES ASSUME Init PROVE AloneInv
  OBVIOUS
<1>1. HandInv
  BY HandInit
<1>2. created = 0 /\ asked = 0 /\ ~StopWasAsked
  BY DEF Init
<1>3. /\ \A a \in Controllers : pc[a] = "idle"
      /\ \A k \in Children : pc[k] = "none" /\ why[k] = "none"
  BY Roles DEF Init
<1>4. Alone
  BY <1>2, <1>3, Roles DEF Alone, Starts, Launch
<1>5. Asked
  BY <1>2, <1>3, Roles DEF Asked
<1> QED BY <1>1, <1>4, <1>5 DEF AloneInv

\* Every step keeps this when nobody but the owner calls or it starts the object once.
LEMMA AloneInvStep ==
  ASSUME Handshake, Peers = {} \/ MaxStarts <= 1
  PROVE  AloneInv /\ [Next]_vars => AloneInv'
<1> SUFFICES ASSUME AloneInv, [Next]_vars PROVE AloneInv'
  OBVIOUS
<1>1. HandInv'
  BY HandStep DEF AloneInv
<1>2. Alone'
  BY AloneStep DEF AloneInv, HandInv
<1>3. Asked'
  BY AskedStep DEF AloneInv, HandInv
<1> QED BY <1>1, <1>2, <1>3 DEF AloneInv

\* The requests, when nobody but the owner calls or it starts the object
\* once.
THEOREM AloneInvariance ==
  ASSUME Handshake, Peers = {} \/ MaxStarts <= 1
  PROVE  Spec => []AloneInv
BY AloneInit, AloneInvStep, PTL DEF Spec

\* By the handshake, and when only the owner calls or it starts the object once, a Run
\* that leaves because StopPending was set was asked to since its thread was created: no
\* request made to an earlier thread is left over.
THEOREM PollsAreAlwaysAsked ==
  ASSUME Handshake, Peers = {} \/ MaxStarts <= 1
  PROVE  Spec => []PollsOnlyWhenAsked
<1>1. AloneInv => PollsOnlyWhenAsked
  BY DEF AloneInv, Asked, PollsOnlyWhenAsked, WasAsked
<1> QED BY <1>1, AloneInvariance, PTL

\* No child calls, and nobody is misled.
LEMMA PlainStep ==
  ASSUME MaxStarts <= 1, ~TimeOuts, ~Spurious, RunStyle \subseteq {"poll", "wait"},
         Typed, Plain, [Next]_vars
  PROVE  Plain'
<1>1. CASE CallStart
  BY <1>1, Roles DEF CallStart, Call, OwnerMay, Goto, Home, Plain, Calling, StopPath,
     WaitPath, Typed, Counters, Places, Callers, vars, flags, world, calls, history
<1>2. CASE OwnerMay("stop") /\ Call(Owner, "stop", "stopTest")
  BY <1>2, Roles DEF Call, OwnerMay, Goto, Home, Plain, Calling, StopPath, WaitPath,
     Typed, Counters, Places, Callers, vars, flags, world, calls, history
<1>3. ASSUME PeerMay, NEW p \in Peers, Call(p, "stop", "stopTest")
      PROVE  Plain'
  BY <1>3, Roles DEF Call, PeerMay, Goto, Home, Plain, Calling, StopPath, WaitPath, Typed,
     Counters, Places, Callers, vars, flags, world, calls, history
<1>4. ASSUME "stop" \in RunStyle, NEW k \in Children, Call(k, "stop", "stopTest")
      PROVE  Plain'
  BY <1>4, Roles DEF Call, Goto, Home, Plain, Calling, StopPath, WaitPath, Typed,
     Counters, Places, Callers, vars, flags, world, calls, history
<1>5. CASE OwnerMay("join") /\ Call(Owner, "join", "selfTest")
  BY <1>5, Roles DEF Call, OwnerMay, Goto, Home, Plain, Calling, StopPath, WaitPath,
     Typed, Counters, Places, Callers, vars, flags, world, calls, history
<1>6. ASSUME PeerMay, NEW p \in Peers, Call(p, "join", "selfTest")
      PROVE  Plain'
  BY <1>6, Roles DEF Call, PeerMay, Goto, Home, Plain, Calling, StopPath, WaitPath, Typed,
     Counters, Places, Callers, vars, flags, world, calls, history
<1>7. ASSUME "join" \in RunStyle, NEW k \in Children, Call(k, "join", "selfTest")
      PROVE  Plain'
  BY <1>7, Roles DEF Call, Goto, Home, Plain, Calling, StopPath, WaitPath, Typed,
     Counters, Places, Callers, vars, flags, world, calls, history
<1>8. CASE CallDestroy
  BY <1>8, Roles DEF CallDestroy, Call, OwnerMay, Goto, Home, Plain, Calling, StopPath,
     WaitPath, Typed, Counters, Places, Callers, vars, flags, world, calls, history
<1>9. CASE StartTest
  BY <1>9, Roles DEF StartTest, Return, Goto, Home, Plain, Calling, StopPath, WaitPath,
     Typed, Counters, Places, Callers, vars, flags, world, calls, history
<1>10. CASE ClearFlags
  BY <1>10, Roles DEF ClearFlags, Goto, Plain, Calling, StopPath, WaitPath, Typed,
     Counters, Places, Callers, vars, flags, world, calls, history
<1>11. CASE Create
  BY <1>11, Roles DEF Create, Plain, Calling, StopPath, WaitPath, Typed, Counters,
     Places, Callers, vars, flags, world, calls, history
<1>12. CASE Detach
  BY <1>12, Roles DEF Detach, Goto, Plain, Calling, StopPath, WaitPath, Typed,
     Counters, Places, Callers, vars, flags, world, calls, history
<1>13. CASE AwaitStart
  BY <1>13, Roles DEF AwaitStart, Return, Goto, Home, Plain, Calling, StopPath, WaitPath,
     Typed, Counters, Places, Callers, vars, flags, world, calls, history
<1>14. CASE DestroyTest
  BY <1>14, Roles DEF DestroyTest, Goto, Plain, Calling, StopPath, WaitPath, Typed,
     Counters, Places, Callers, vars, flags, world, calls, history
<1>15. CASE Free
  BY <1>15, Roles DEF Free, Goto, Plain, Calling, StopPath, WaitPath,
     Typed, Counters, Places, Callers, vars, flags, world, calls, history
<1>16. ASSUME NEW a \in Actors, ReadOld(a) PROVE Plain'
  BY <1>16, Roles DEF ReadOld, AfterReset, Home, Goto, Plain, Calling, StopPath, WaitPath,
     Typed, Counters, Places, Callers, vars, flags, world, calls, history
<1>17. ASSUME NEW a \in Actors, StoreNew(a) PROVE Plain'
  BY <1>17, Roles DEF StoreNew, AfterReset, Home, Goto, Plain, Calling, StopPath,
     WaitPath, Typed, Counters, Places, Callers, vars, flags, world, calls, history
<1>18. ASSUME NEW a \in Actors, DeleteOld(a) PROVE Plain'
  BY <1>18, Roles DEF DeleteOld, Goto, Plain, Calling, StopPath, WaitPath, Typed,
     Counters, Places, Callers, vars, flags, world, calls, history
<1>19. ASSUME NEW a \in Actors, SelfTest(a) PROVE Plain'
  BY <1>19, Roles DEF SelfTest, GoOn, Goto, Plain, Calling, StopPath, WaitPath, Typed,
     Counters, Places, Callers, vars, flags, world, calls, history
<1>20. ASSUME NEW a \in Actors, SelfId(a) PROVE Plain'
  BY <1>20, Roles DEF SelfId, GoOn, Return, Goto, Home, Plain, Calling, StopPath,
     WaitPath, Typed, Counters, Places, Callers, vars, flags, world, calls, history
<1>21. ASSUME NEW a \in Actors, StopTest(a) PROVE Plain'
  BY <1>21, Roles DEF StopTest, Goto, Plain, Calling, StopPath, WaitPath, Typed, Counters,
     Places, Callers, vars, flags, world, calls, history
<1>22. ASSUME NEW a \in Actors, Ask(a) PROVE Plain'
  BY <1>22, Roles DEF Ask, Goto, Plain, Calling, StopPath, WaitPath, Typed, Counters,
     Places, Callers, vars, flags, world, calls, history
<1>23. ASSUME NEW a \in Actors, AskEvent(a) PROVE Plain'
  BY <1>23, Roles DEF AskEvent, Goto, Signal, Plain, Calling, StopPath, WaitPath, Typed,
     Counters, Places, Callers, vars, flags, world, calls, history
<1>24. ASSUME NEW a \in Actors, JoinTest(a) PROVE Plain'
  BY <1>24, Roles DEF JoinTest, Return, Goto, Home, Plain, Calling, StopPath, WaitPath,
     Typed, Counters, Places, Callers, vars, flags, world, calls, history
<1>25. ASSUME NEW a \in Actors, Await(a) PROVE Plain'
  BY <1>25, Roles DEF Await, Blocked, Passes, Goto, Plain, Calling, StopPath, WaitPath,
     Typed, Counters, Places, Callers, vars, flags, world, calls, history
<1>26. ASSUME NEW a \in Actors, AwaitReturns(a) PROVE Plain'
  BY <1>26, Roles DEF AwaitReturns, Passes, Woken, Waited, Return, Goto, Home, Plain,
     Calling, StopPath, WaitPath, Typed, Counters, Places, Callers, vars, flags, world,
     calls, history
<1>27. ASSUME NEW a \in Actors, AwaitTimesOut(a) PROVE Plain'
  BY <1>27, Roles DEF AwaitTimesOut, Unblocked, Waited, Return, Goto, Home, Plain,
     Calling, StopPath, WaitPath, Typed, Counters, Places, Callers, vars, flags, world,
     calls, history
<1>28. ASSUME NEW a \in Actors, SpuriousWakeup(a) PROVE Plain'
  BY <1>28, Roles DEF SpuriousWakeup, Unblocked, Plain, Calling, StopPath, WaitPath,
     Typed, Counters, Places, Callers, vars, flags, world, calls, history
<1>29. ASSUME NEW k \in Children, Begin(k) PROVE Plain'
  BY <1>29, Roles DEF Begin, Reset, Goto, Plain, Calling, StopPath, WaitPath, Typed,
     Counters, Places, Callers, vars, flags, world, calls, history
<1>30. ASSUME NEW k \in Children, Starting(k) PROVE Plain'
  BY <1>30, Roles DEF Starting, Goto, Plain, Calling, StopPath, WaitPath, Typed, Counters,
     Places, Callers, vars, flags, world, calls, history
<1>31. ASSUME NEW k \in Children, Poll(k) PROVE Plain'
  BY <1>31, Roles DEF Poll, LeaveRun, Goto, Plain, Calling, StopPath, WaitPath, Typed,
     Counters, Places, Callers, vars, flags, world, calls, history
<1>32. ASSUME NEW k \in Children, WaitForStopReturns(k) PROVE Plain'
  BY <1>32, Roles DEF WaitForStopReturns, Woken, LeaveRun, Goto, Plain, Calling, StopPath,
     WaitPath, Typed, Counters, Places, Callers, vars, flags, world, calls, history
<1>33. ASSUME NEW k \in Children, Leave(k) PROVE Plain'
  BY <1>33, Roles DEF Leave, Goto, Plain, Calling, StopPath, WaitPath, Typed, Counters,
     Places, Callers, vars, flags, world, calls, history
<1>34. ASSUME NEW k \in Children, SignalEnd(k) PROVE Plain'
  BY <1>34, Roles DEF SignalEnd, Signal, Goto, Plain, Calling, StopPath, WaitPath, Typed,
     Counters, Places, Callers, vars, flags, world, calls, history
<1>35. ASSUME NEW k \in Children, Finish(k) PROVE Plain'
  BY <1>35, Roles DEF Finish, LeaveRun, Goto, Plain, Calling, StopPath, WaitPath, Typed,
     Counters, Places, Callers, vars, flags, world, calls, history
<1>36. ASSUME NEW k \in Children, WaitForStop(k) PROVE Plain'
  BY <1>36, Roles DEF WaitForStop, Blocked, Passes, LeaveRun, Goto, Plain, Calling,
     StopPath, WaitPath, Typed, Counters, Places, Callers, vars, flags, world, calls,
     history
<1>37. CASE UNCHANGED vars
  BY <1>37, Roles DEF Plain, Calling, StopPath, WaitPath, Typed, Counters, Places,
     Callers, vars, flags, world, calls, history
<1> QED BY <1>1, <1>2, <1>3, <1>4, <1>5, <1>6, <1>7, <1>8, <1>9, <1>10, <1>11, <1>12,
   <1>13, <1>14, <1>15, <1>16, <1>17, <1>18, <1>19, <1>20, <1>21, <1>22, <1>23, <1>24,
   <1>25, <1>26, <1>27, <1>28, <1>29, <1>30, <1>31, <1>32, <1>33, <1>34, <1>35, <1>36,
   <1>37 DEF Next, Calls, OwnerStep, PointerStep, StopStep, WaitStep, RunStep, RunChoice,
   CallStop, CallJoin

\* Nobody waits before there is a run.
LEMMA UnstartedStep ==
  ASSUME Typed, OwnerCall, Plain, Unstarted, [Next]_vars
  PROVE  Unstarted'
<1>1. CASE CallStart
  BY <1>1, Roles DEF CallStart, Call, OwnerMay, Goto, Home, Unstarted, Plain, Waiting,
     Flags, Events, Typed, Counters, Places, Callers, vars, flags, world, calls, history
<1>2. CASE OwnerMay("stop") /\ Call(Owner, "stop", "stopTest")
  BY <1>2, Roles DEF Call, OwnerMay, Goto, Home, Unstarted, Plain, Waiting, Flags, Events,
     Typed, Counters, Places, Callers, vars, flags, world, calls, history
<1>3. ASSUME PeerMay, NEW p \in Peers, Call(p, "stop", "stopTest")
      PROVE  Unstarted'
  BY <1>3, Roles DEF Call, PeerMay, Goto, Home, Unstarted, Plain, Waiting, Flags, Events,
     Typed, Counters, Places, Callers, vars, flags, world, calls, history
<1>4. ASSUME "stop" \in RunStyle, NEW k \in Children, Call(k, "stop", "stopTest")
      PROVE  Unstarted'
  BY <1>4, Roles DEF Call, Goto, Home, Unstarted, Plain, Waiting, Flags, Events, Typed,
     Counters, Places, Callers, vars, flags, world, calls, history
<1>5. CASE OwnerMay("join") /\ Call(Owner, "join", "selfTest")
  BY <1>5, Roles DEF Call, OwnerMay, Goto, Home, Unstarted, Plain, Waiting, Flags, Events,
     Typed, Counters, Places, Callers, vars, flags, world, calls, history
<1>6. ASSUME PeerMay, NEW p \in Peers, Call(p, "join", "selfTest")
      PROVE  Unstarted'
  BY <1>6, Roles DEF Call, PeerMay, Goto, Home, Unstarted, Plain, Waiting, Flags, Events,
     Typed, Counters, Places, Callers, vars, flags, world, calls, history
<1>7. ASSUME "join" \in RunStyle, NEW k \in Children, Call(k, "join", "selfTest")
      PROVE  Unstarted'
  BY <1>7, Roles DEF Call, Goto, Home, Unstarted, Plain, Waiting, Flags, Events, Typed,
     Counters, Places, Callers, vars, flags, world, calls, history
<1>8. CASE CallDestroy
  BY <1>8, Roles DEF CallDestroy, Call, OwnerMay, Goto, Home, Unstarted, Plain, Waiting,
     Flags, Events, Typed, Counters, Places, Callers, vars, flags, world, calls, history
<1>9. CASE StartTest
  BY <1>9, Roles DEF StartTest, Return, Goto, Home, Unstarted, Plain, Waiting, Flags,
     Events, Typed, Counters, Places, Callers, vars, flags, world, calls, history
<1>10. CASE ClearFlags
  BY <1>10, Roles DEF ClearFlags, Goto, Unstarted, Plain, Waiting, Flags, Events, Typed,
     Counters, Places, Callers, vars, flags, world, calls, history
<1>11. CASE Create
  BY <1>11, Roles DEF Create, Unstarted, Plain, Waiting, Flags, Events, Typed,
     Counters, Places, Callers, vars, flags, world, calls, history
<1>12. CASE Detach
  BY <1>12, Roles DEF Detach, Goto, Unstarted, Plain, Waiting, Flags, Events,
     Typed, Counters, Places, Callers, vars, flags, world, calls, history
<1>13. CASE AwaitStart
  BY <1>13, Roles DEF AwaitStart, Return, Goto, Home, Unstarted, Plain, Waiting, Flags,
     Events, Typed, Counters, Places, Callers, vars, flags, world, calls, history
<1>14. CASE DestroyTest
  BY <1>14, Roles DEF DestroyTest, Goto, Unstarted, Plain, Waiting, Flags, Events, Typed,
     Counters, Places, Callers, vars, flags, world, calls, history
<1>15. CASE Free
  BY <1>15, Roles DEF Free, Goto, Unstarted, Plain, Waiting, Flags,
     Events, Typed, Counters, Places, Callers, vars, flags, world, calls, history
<1>16. ASSUME NEW a \in Actors, ReadOld(a) PROVE Unstarted'
  BY <1>16, Roles DEF ReadOld, AfterReset, Home, Goto, Unstarted, Plain, Waiting, Flags,
     Events, Typed, Counters, Places, Callers, vars, flags, world, calls, history
<1>17. ASSUME NEW a \in Actors, StoreNew(a) PROVE Unstarted'
  BY <1>17, Roles DEF StoreNew, AfterReset, Home, Goto, Unstarted, Plain, Waiting, Flags,
     Events, Typed, Counters, Places, Callers, vars, flags, world, calls, history
<1>18. ASSUME NEW a \in Actors, DeleteOld(a) PROVE Unstarted'
  BY <1>18, Roles DEF DeleteOld, Goto, Unstarted, Plain, Waiting, Flags, Events,
     Typed, Counters, Places, Callers, vars, flags, world, calls, history
<1>19. ASSUME NEW a \in Actors, SelfTest(a) PROVE Unstarted'
  BY <1>19, Roles DEF SelfTest, GoOn, Goto, Unstarted, Plain, Waiting, Flags, Events,
     Typed, Counters, Places, Callers, vars, flags, world, calls, history
<1>20. ASSUME NEW a \in Actors, SelfId(a) PROVE Unstarted'
  BY <1>20, Roles DEF SelfId, GoOn, Return, Goto, Home, Unstarted, Plain, Waiting, Flags,
     Events, Typed, Counters, Places, Callers, vars, flags, world, calls, history
<1>21. ASSUME NEW a \in Actors, StopTest(a) PROVE Unstarted'
  BY <1>21, Roles DEF StopTest, Goto, Unstarted, Plain, Waiting, Flags, Events, Typed,
     Counters, Places, Callers, vars, flags, world, calls, history
<1>22. ASSUME NEW a \in Actors, Ask(a) PROVE Unstarted'
  BY <1>22, Roles DEF Ask, Goto, Unstarted, Plain, Waiting, Flags, Events, Typed,
     Counters, Places, Callers, vars, flags, world, calls, history
<1>23. ASSUME NEW a \in Actors, AskEvent(a) PROVE Unstarted'
  BY <1>23, Roles DEF AskEvent, Goto, Signal, Unstarted, Plain, Waiting, Flags, Events,
     Typed, Counters, Places, Callers, vars, flags, world, calls, history
<1>24. ASSUME NEW a \in Actors, JoinTest(a) PROVE Unstarted'
  BY <1>24, Roles DEF JoinTest, Return, Goto, Home, Unstarted, Plain, Waiting, Flags,
     Events, Typed, Counters, Places, Callers, vars, flags, world, calls, history
<1>25. ASSUME NEW a \in Actors, Await(a) PROVE Unstarted'
  BY <1>25, Roles DEF Await, Blocked, Passes, Goto, Unstarted, Plain, Waiting, Flags,
     Events, Typed, Counters, Places, Callers, vars, flags, world, calls, history
<1>26. ASSUME NEW a \in Actors, AwaitReturns(a) PROVE Unstarted'
  BY <1>26, Roles DEF AwaitReturns, Passes, Woken, Waited, Return, Goto, Home, Unstarted,
     Plain, Waiting, Flags, Events, Typed, Counters, Places, Callers, vars, flags, world,
     calls, history
<1>27. ASSUME NEW a \in Actors, AwaitTimesOut(a) PROVE Unstarted'
  BY <1>27, Roles DEF AwaitTimesOut, Unblocked, Waited, Return, Goto, Home, Unstarted,
     Plain, Waiting, Flags, Events, Typed, Counters, Places, Callers, vars, flags, world,
     calls, history
<1>28. ASSUME NEW a \in Actors, SpuriousWakeup(a) PROVE Unstarted'
  BY <1>28, Roles DEF SpuriousWakeup, Unblocked, Unstarted, Plain, Waiting, Flags, Events,
     Typed, Counters, Places, Callers, vars, flags, world, calls, history
<1>29. ASSUME NEW k \in Children, Begin(k) PROVE Unstarted'
  BY <1>29, Roles DEF Begin, Reset, Goto, Unstarted, Plain, Waiting, Flags, Events, Typed,
     Counters, Places, Callers, vars, flags, world, calls, history
<1>30. ASSUME NEW k \in Children, Starting(k) PROVE Unstarted'
  BY <1>30, Roles DEF Starting, Goto, Unstarted, Plain, Waiting, Flags, Events, Typed,
     Counters, Places, Callers, vars, flags, world, calls, history
<1>31. ASSUME NEW k \in Children, Poll(k) PROVE Unstarted'
  BY <1>31, Roles DEF Poll, LeaveRun, Goto, Unstarted, Plain, Waiting, Flags, Events,
     Typed, Counters, Places, Callers, vars, flags, world, calls, history
<1>32. ASSUME NEW k \in Children, WaitForStopReturns(k) PROVE Unstarted'
  BY <1>32, Roles DEF WaitForStopReturns, Woken, LeaveRun, Goto, Unstarted, Plain,
     Waiting, Flags, Events, Typed, Counters, Places, Callers, vars, flags, world, calls,
     history
<1>33. ASSUME NEW k \in Children, Leave(k) PROVE Unstarted'
  BY <1>33, Roles DEF Leave, Goto, Unstarted, Plain, Waiting, Flags, Events, Typed,
     Counters, Places, Callers, vars, flags, world, calls, history
<1>34. ASSUME NEW k \in Children, SignalEnd(k) PROVE Unstarted'
  BY <1>34, Roles DEF SignalEnd, Signal, Goto, Unstarted, Plain, Waiting, Flags, Events,
     Typed, Counters, Places, Callers, vars, flags, world, calls, history
<1>35. ASSUME NEW k \in Children, Finish(k) PROVE Unstarted'
  BY <1>35, Roles DEF Finish, LeaveRun, Goto, Unstarted, Plain, Waiting, Flags, Events,
     Typed, Counters, Places, Callers, vars, flags, world, calls, history
<1>36. ASSUME NEW k \in Children, WaitForStop(k) PROVE Unstarted'
  BY <1>36, Roles DEF WaitForStop, Blocked, Passes, LeaveRun, Goto, Unstarted, Plain,
     Waiting, Flags, Events, Typed, Counters, Places, Callers, vars, flags, world, calls,
     history
<1>37. CASE UNCHANGED vars
  BY <1>37, Roles DEF Unstarted, Plain, Waiting, Flags, Events, Typed, Counters, Places,
     Callers, vars, flags, world, calls, history
<1> QED BY <1>1, <1>2, <1>3, <1>4, <1>5, <1>6, <1>7, <1>8, <1>9, <1>10, <1>11, <1>12,
   <1>13, <1>14, <1>15, <1>16, <1>17, <1>18, <1>19, <1>20, <1>21, <1>22, <1>23, <1>24,
   <1>25, <1>26, <1>27, <1>28, <1>29, <1>30, <1>31, <1>32, <1>33, <1>34, <1>35, <1>36,
   <1>37 DEF Next, Calls, OwnerStep, PointerStep, StopStep, WaitStep, RunStep, RunChoice,
   CallStop, CallJoin

\* Who comes back from Wait finds CallRun over.
LEMMA OverStep ==
  ASSUME MaxStarts <= 1, ~TimeOuts, ~Spurious, RunStyle \subseteq {"poll", "wait"},
         Typed, Answers, Alone, Plain, Unstarted, Over, [Next]_vars
  PROVE  Over'
<1>1. CASE CallStart
  BY <1>1, Roles DEF CallStart, Call, OwnerMay, Goto, Home, Over, AllDone, Plain,
     Unstarted, Waiting, Alone, Answers, Starts, Flags, Events, Typed, Counters, Places,
     Callers, vars, flags, world, calls, history
<1>2. CASE OwnerMay("stop") /\ Call(Owner, "stop", "stopTest")
  BY <1>2, Roles DEF Call, OwnerMay, Goto, Home, Over, AllDone, Plain, Unstarted, Waiting,
     Alone, Answers, Starts, Flags, Events, Typed, Counters, Places, Callers, vars, flags,
     world, calls, history
<1>3. ASSUME PeerMay, NEW p \in Peers, Call(p, "stop", "stopTest")
      PROVE  Over'
  BY <1>3, Roles DEF Call, PeerMay, Goto, Home, Over, AllDone, Plain, Unstarted, Waiting,
     Alone, Answers, Starts, Flags, Events, Typed, Counters, Places, Callers, vars, flags,
     world, calls, history
<1>4. ASSUME "stop" \in RunStyle, NEW k \in Children, Call(k, "stop", "stopTest")
      PROVE  Over'
  BY <1>4, Roles DEF Call, Goto, Home, Over, AllDone, Plain, Unstarted, Waiting, Alone,
     Answers, Starts, Flags, Events, Typed, Counters, Places, Callers, vars, flags, world,
     calls, history
<1>5. CASE OwnerMay("join") /\ Call(Owner, "join", "selfTest")
  BY <1>5, Roles DEF Call, OwnerMay, Goto, Home, Over, AllDone, Plain, Unstarted, Waiting,
     Alone, Answers, Starts, Flags, Events, Typed, Counters, Places, Callers, vars, flags,
     world, calls, history
<1>6. ASSUME PeerMay, NEW p \in Peers, Call(p, "join", "selfTest")
      PROVE  Over'
  BY <1>6, Roles DEF Call, PeerMay, Goto, Home, Over, AllDone, Plain, Unstarted, Waiting,
     Alone, Answers, Starts, Flags, Events, Typed, Counters, Places, Callers, vars, flags,
     world, calls, history
<1>7. ASSUME "join" \in RunStyle, NEW k \in Children, Call(k, "join", "selfTest")
      PROVE  Over'
  BY <1>7, Roles DEF Call, Goto, Home, Over, AllDone, Plain, Unstarted, Waiting, Alone,
     Answers, Starts, Flags, Events, Typed, Counters, Places, Callers, vars, flags, world,
     calls, history
<1>8. CASE CallDestroy
  BY <1>8, Roles DEF CallDestroy, Call, OwnerMay, Goto, Home, Over, AllDone, Plain,
     Unstarted, Waiting, Alone, Answers, Starts, Flags, Events, Typed, Counters, Places,
     Callers, vars, flags, world, calls, history
<1>9. CASE StartTest
  BY <1>9, Roles DEF StartTest, Return, Goto, Home, Over, AllDone, Plain, Unstarted,
     Waiting, Alone, Answers, Starts, Flags, Events, Typed, Counters, Places, Callers,
     vars, flags, world, calls, history
<1>10. CASE ClearFlags
  BY <1>10, Roles DEF ClearFlags, Goto, Over, AllDone, Plain, Unstarted, Waiting, Alone,
     Answers, Starts, Flags, Events, Typed, Counters, Places, Callers, vars, flags, world,
     calls, history
<1>11. CASE Create
  BY <1>11, Roles DEF Create, Over, AllDone, Plain, Unstarted, Waiting, Alone,
     Answers, Starts, Flags, Events, Typed, Counters, Places, Callers, vars, flags, world,
     calls, history
<1>12. CASE Detach
  BY <1>12, Roles DEF Detach, Goto, Over, AllDone, Plain, Unstarted, Waiting,
     Alone, Answers, Starts, Flags, Events, Typed, Counters, Places, Callers, vars, flags,
     world, calls, history
<1>13. CASE AwaitStart
  BY <1>13, Roles DEF AwaitStart, Return, Goto, Home, Over, AllDone, Plain, Unstarted,
     Waiting, Alone, Answers, Starts, Flags, Events, Typed, Counters, Places, Callers,
     vars, flags, world, calls, history
<1>14. CASE DestroyTest
  BY <1>14, Roles DEF DestroyTest, Goto, Over, AllDone, Plain, Unstarted, Waiting, Alone,
     Answers, Starts, Flags, Events, Typed, Counters, Places, Callers, vars, flags, world,
     calls, history
<1>15. CASE Free
  BY <1>15, Roles DEF Free, Goto, Over, AllDone, Plain, Unstarted, Waiting, Alone,
     Answers, Starts, Flags, Events, Typed, Counters, Places, Callers, vars, flags, world,
     calls, history
<1>16. ASSUME NEW a \in Actors, ReadOld(a) PROVE Over'
  BY <1>16, Roles DEF ReadOld, AfterReset, Home, Goto, Over, AllDone, Plain, Unstarted,
     Waiting, Alone, Answers, Starts, Flags, Events, Typed, Counters, Places, Callers,
     vars, flags, world, calls, history
<1>17. ASSUME NEW a \in Actors, StoreNew(a) PROVE Over'
  BY <1>17, Roles DEF StoreNew, AfterReset, Home, Goto, Over, AllDone, Plain, Unstarted,
     Waiting, Alone, Answers, Starts, Flags, Events, Typed, Counters, Places, Callers,
     vars, flags, world, calls, history
<1>18. ASSUME NEW a \in Actors, DeleteOld(a) PROVE Over'
  BY <1>18, Roles DEF DeleteOld, Goto, Over, AllDone, Plain, Unstarted, Waiting,
     Alone, Answers, Starts, Flags, Events, Typed, Counters, Places, Callers, vars, flags,
     world, calls, history
<1>19. ASSUME NEW a \in Actors, SelfTest(a) PROVE Over'
  BY <1>19, Roles DEF SelfTest, GoOn, Goto, Over, AllDone, Plain, Unstarted, Waiting,
     Alone, Answers, Starts, Flags, Events, Typed, Counters, Places, Callers, vars, flags,
     world, calls, history
<1>20. ASSUME NEW a \in Actors, SelfId(a) PROVE Over'
  BY <1>20, Roles DEF SelfId, GoOn, Return, Goto, Home, Over, AllDone, Plain, Unstarted,
     Waiting, Alone, Answers, Starts, Flags, Events, Typed, Counters, Places, Callers,
     vars, flags, world, calls, history
<1>21. ASSUME NEW a \in Actors, StopTest(a) PROVE Over'
  BY <1>21, Roles DEF StopTest, Goto, Over, AllDone, Plain, Unstarted, Waiting, Alone,
     Answers, Starts, Flags, Events, Typed, Counters, Places, Callers, vars, flags, world,
     calls, history
<1>22. ASSUME NEW a \in Actors, Ask(a) PROVE Over'
  BY <1>22, Roles DEF Ask, Goto, Over, AllDone, Plain, Unstarted, Waiting, Alone, Answers,
     Starts, Flags, Events, Typed, Counters, Places, Callers, vars, flags, world, calls,
     history
<1>23. ASSUME NEW a \in Actors, AskEvent(a) PROVE Over'
  BY <1>23, Roles DEF AskEvent, Goto, Signal, Over, AllDone, Plain, Unstarted, Waiting,
     Alone, Answers, Starts, Flags, Events, Typed, Counters, Places, Callers, vars, flags,
     world, calls, history
<1>24. ASSUME NEW a \in Actors, JoinTest(a) PROVE Over'
  BY <1>24, Roles DEF JoinTest, Return, Goto, Home, Over, AllDone, Plain, Unstarted,
     Waiting, Alone, Answers, Starts, Flags, Events, Typed, Counters, Places, Callers,
     vars, flags, world, calls, history
<1>25. ASSUME NEW a \in Actors, Await(a) PROVE Over'
  BY <1>25, Roles DEF Await, Blocked, Passes, Goto, Over, AllDone, Plain, Unstarted,
     Waiting, Alone, Answers, Starts, Flags, Events, Typed, Counters, Places, Callers,
     vars, flags, world, calls, history
<1>26. ASSUME NEW a \in Actors, AwaitReturns(a) PROVE Over'
  BY <1>26, Roles DEF AwaitReturns, Passes, Woken, Waited, Return, Goto, Home, Over,
     AllDone, Plain, Unstarted, Waiting, Alone, Answers, Starts, Flags, Events, Typed,
     Counters, Places, Callers, vars, flags, world, calls, history
<1>27. ASSUME NEW a \in Actors, AwaitTimesOut(a) PROVE Over'
  BY <1>27, Roles DEF AwaitTimesOut, Unblocked, Waited, Return, Goto, Home, Over, AllDone,
     Plain, Unstarted, Waiting, Alone, Answers, Starts, Flags, Events, Typed, Counters,
     Places, Callers, vars, flags, world, calls, history
<1>28. ASSUME NEW a \in Actors, SpuriousWakeup(a) PROVE Over'
  BY <1>28, Roles DEF SpuriousWakeup, Unblocked, Over, AllDone, Plain, Unstarted, Waiting,
     Alone, Answers, Starts, Flags, Events, Typed, Counters, Places, Callers, vars, flags,
     world, calls, history
<1>29. ASSUME NEW k \in Children, Begin(k) PROVE Over'
  BY <1>29, Roles DEF Begin, Reset, Goto, Over, AllDone, Plain, Unstarted, Waiting, Alone,
     Answers, Starts, Flags, Events, Typed, Counters, Places, Callers, vars, flags, world,
     calls, history
<1>30. ASSUME NEW k \in Children, Starting(k) PROVE Over'
  BY <1>30, Roles DEF Starting, Goto, Over, AllDone, Plain, Unstarted, Waiting, Alone,
     Answers, Starts, Flags, Events, Typed, Counters, Places, Callers, vars, flags, world,
     calls, history
<1>31. ASSUME NEW k \in Children, Poll(k) PROVE Over'
  BY <1>31, Roles DEF Poll, LeaveRun, Goto, Over, AllDone, Plain, Unstarted, Waiting,
     Alone, Answers, Starts, Flags, Events, Typed, Counters, Places, Callers, vars, flags,
     world, calls, history
<1>32. ASSUME NEW k \in Children, WaitForStopReturns(k) PROVE Over'
  BY <1>32, Roles DEF WaitForStopReturns, Woken, LeaveRun, Goto, Over, AllDone, Plain,
     Unstarted, Waiting, Alone, Answers, Starts, Flags, Events, Typed, Counters, Places,
     Callers, vars, flags, world, calls, history
<1>33. ASSUME NEW k \in Children, Leave(k) PROVE Over'
  BY <1>33, Roles DEF Leave, Goto, Over, AllDone, Plain, Unstarted, Waiting, Alone,
     Answers, Starts, Flags, Events, Typed, Counters, Places, Callers, vars, flags, world,
     calls, history
<1>34. ASSUME NEW k \in Children, SignalEnd(k) PROVE Over'
  BY <1>34, Roles DEF SignalEnd, Signal, Goto, Over, AllDone, Plain, Unstarted, Waiting,
     Alone, Answers, Starts, Flags, Events, Typed, Counters, Places, Callers, vars, flags,
     world, calls, history
<1>35. ASSUME NEW k \in Children, Finish(k) PROVE Over'
  BY <1>35, Roles DEF Finish, LeaveRun, Goto, Over, AllDone, Plain, Unstarted, Waiting,
     Alone, Answers, Starts, Flags, Events, Typed, Counters, Places, Callers, vars, flags,
     world, calls, history
<1>36. ASSUME NEW k \in Children, WaitForStop(k) PROVE Over'
  BY <1>36, Roles DEF WaitForStop, Blocked, Passes, LeaveRun, Goto, Over, AllDone, Plain,
     Unstarted, Waiting, Alone, Answers, Starts, Flags, Events, Typed, Counters, Places,
     Callers, vars, flags, world, calls, history
<1>37. CASE UNCHANGED vars
  BY <1>37, Roles DEF Over, AllDone, Plain, Unstarted, Waiting, Alone, Answers, Starts,
     Flags, Events, Typed, Counters, Places, Callers, vars, flags, world, calls, history
<1> QED BY <1>1, <1>2, <1>3, <1>4, <1>5, <1>6, <1>7, <1>8, <1>9, <1>10, <1>11, <1>12,
   <1>13, <1>14, <1>15, <1>16, <1>17, <1>18, <1>19, <1>20, <1>21, <1>22, <1>23, <1>24,
   <1>25, <1>26, <1>27, <1>28, <1>29, <1>30, <1>31, <1>32, <1>33, <1>34, <1>35, <1>36,
   <1>37 DEF Next, Calls, OwnerStep, PointerStep, StopStep, WaitStep, RunStep, RunChoice,
   CallStop, CallJoin

\* Who asked waits until CallRun is over.
LEMMA WatchedStep ==
  ASSUME MaxStarts <= 1, ~TimeOuts, ~Spurious, RunStyle \subseteq {"poll", "wait"},
         Typed, OwnerCall, Inside, Asked, Plain, Unstarted, Over, Watched, [Next]_vars
  PROVE  Watched'
<1>1. CASE CallStart
  BY <1>1, Roles DEF CallStart, Call, OwnerMay, Goto, Home, Watched, Requested, AllDone,
     Asker, Asked, Plain, Unstarted, Waiting, Flags, Events, Typed, Counters,
     Places, Callers, vars, flags, world, calls, history
<1>2. CASE OwnerMay("stop") /\ Call(Owner, "stop", "stopTest")
  BY <1>2, Roles DEF Call, OwnerMay, Goto, Home, Watched, Requested, AllDone, Asker,
     Asked, Plain, Unstarted, Waiting, Flags, Events, Typed, Counters, Places,
     Callers, vars, flags, world, calls, history
<1>3. ASSUME PeerMay, NEW p \in Peers, Call(p, "stop", "stopTest")
      PROVE  Watched'
  BY <1>3, Roles DEF Call, PeerMay, Goto, Home, Watched, Requested, AllDone, Asker,
     Asked, Plain, Unstarted, Waiting, Flags, Events, Typed, Counters, Places,
     Callers, vars, flags, world, calls, history
<1>4. ASSUME "stop" \in RunStyle, NEW k \in Children, Call(k, "stop", "stopTest")
      PROVE  Watched'
  BY <1>4, Roles DEF Call, Goto, Home, Watched, Requested, AllDone, Asker, Asked, Plain,
     Unstarted, Waiting, Flags, Events, Typed, Counters, Places, Callers, vars, flags,
     world, calls, history
<1>5. CASE OwnerMay("join") /\ Call(Owner, "join", "selfTest")
  BY <1>5, Roles DEF Call, OwnerMay, Goto, Home, Watched, Requested, AllDone, Asker,
     Asked, Plain, Unstarted, Waiting, Flags, Events, Typed, Counters, Places,
     Callers, vars, flags, world, calls, history
<1>6. ASSUME PeerMay, NEW p \in Peers, Call(p, "join", "selfTest")
      PROVE  Watched'
  BY <1>6, Roles DEF Call, PeerMay, Goto, Home, Watched, Requested, AllDone, Asker,
     Asked, Plain, Unstarted, Waiting, Flags, Events, Typed, Counters, Places,
     Callers, vars, flags, world, calls, history
<1>7. ASSUME "join" \in RunStyle, NEW k \in Children, Call(k, "join", "selfTest")
      PROVE  Watched'
  BY <1>7, Roles DEF Call, Goto, Home, Watched, Requested, AllDone, Asker, Asked, Plain,
     Unstarted, Waiting, Flags, Events, Typed, Counters, Places, Callers, vars, flags,
     world, calls, history
<1>8. CASE CallDestroy
  BY <1>8, Roles DEF CallDestroy, Call, OwnerMay, Goto, Home, Watched, Requested, AllDone,
     Asker, Asked, Plain, Unstarted, Waiting, Flags, Events, Typed, Counters,
     Places, Callers, vars, flags, world, calls, history
<1>9. CASE StartTest
  BY <1>9, Roles DEF StartTest, Return, Goto, Home, Watched, Requested, AllDone, Asker,
     Asked, Plain, Unstarted, Waiting, Flags, Events, Typed, Counters, Places,
     Callers, vars, flags, world, calls, history
<1>10. CASE ClearFlags
  BY <1>10, Roles DEF ClearFlags, Goto, Watched, Requested, AllDone, Asker, Asked, Plain,
     Unstarted, Waiting, Flags, Events, Typed, Counters, Places, Callers, vars, flags,
     world, calls, history
<1>11. CASE Create
  BY <1>11, Roles DEF Create, Watched, Requested, AllDone, Asker, Asked, Plain, Unstarted,
     Waiting, Flags, Events, Typed, Counters, Places, Callers, vars, flags, world, calls,
     history
<1>12. CASE Detach
  BY <1>12, Roles DEF Detach, Goto, Watched, Requested, AllDone, Asker, Asked, Plain,
     Unstarted, Waiting, Flags, Events, Typed, Counters, Places, Callers, vars, flags,
     world, calls, history
<1>13. CASE AwaitStart
  BY <1>13, Roles DEF AwaitStart, Return, Goto, Home, Watched, Requested, AllDone, Asker,
     Asked, Plain, Unstarted, Waiting, Flags, Events, Typed, Counters, Places,
     Callers, vars, flags, world, calls, history
<1>14. CASE DestroyTest
  BY <1>14, Roles DEF DestroyTest, Goto, Watched, Requested, AllDone, Asker, Asked, Plain,
     Unstarted, Waiting, Flags, Events, Typed, Counters, Places, Callers, vars, flags,
     world, calls, history
<1>15. CASE Free
  BY <1>15, Roles DEF Free, Goto, Watched, Requested, AllDone, Asker,
     Asked, Plain, Unstarted, Waiting, Flags, Events, Typed, Counters, Places,
     Callers, vars, flags, world, calls, history
<1>16. ASSUME NEW a \in Actors, ReadOld(a) PROVE Watched'
  BY <1>16, Roles DEF ReadOld, AfterReset, Home, Goto, Watched, Requested, AllDone, Asker,
     Asked, Plain, Unstarted, Waiting, Flags, Events, Typed, Counters, Places, Callers,
     vars, flags, world, calls, history
<1>17. ASSUME NEW a \in Actors, StoreNew(a) PROVE Watched'
  BY <1>17, Roles DEF StoreNew, AfterReset, Home, Goto, Watched, Requested, AllDone,
     Asker, Asked, Plain, Unstarted, Waiting, Flags, Events, Typed, Counters, Places,
     Callers, vars, flags, world, calls, history
<1>18. ASSUME NEW a \in Actors, DeleteOld(a) PROVE Watched'
  BY <1>18, Roles DEF DeleteOld, Goto, Watched, Requested, AllDone, Asker, Asked,
     Plain, Unstarted, Waiting, Flags, Events, Typed, Counters, Places, Callers, vars,
     flags, world, calls, history
<1>19. ASSUME NEW a \in Actors, SelfTest(a) PROVE Watched'
  BY <1>19, Roles DEF SelfTest, GoOn, Goto, Watched, Requested, AllDone, Asker, Asked,
     Plain, Unstarted, Waiting, Flags, Events, Typed, Counters, Places, Callers, vars,
     flags, world, calls, history
<1>20. ASSUME NEW a \in Actors, SelfId(a) PROVE Watched'
  BY <1>20, Roles, Myself DEF GoOn, Return, Goto, Home, Watched, Requested, AllDone,
     Asker, Asked, Plain, Unstarted, Waiting, Flags, Events, Typed, Counters, Places,
     Callers, vars, flags, world, calls, history
<1>21. ASSUME NEW a \in Actors, StopTest(a) PROVE Watched'
  BY <1>21, Roles DEF StopTest, Goto, Watched, Requested, AllDone, Asker, Asked, Plain,
     Unstarted, Waiting, Flags, Events, Typed, Counters, Places, Callers, vars, flags,
     world, calls, history
<1>22. ASSUME NEW a \in Actors, Ask(a) PROVE Watched'
  <2>1. a \in Controllers /\ call[a] \in {"stop", "destroy"}
    BY <1>22, Roles DEF Ask, Plain, Inside, Calling, StopPath
  <2>2. pc'[a] \in {"askEvent", "selfTest"} /\ call' = call
    BY <1>22, Roles DEF Ask, Goto, calls, Typed, Places
  <2>3. Asker(a)'
    BY <2>1, <2>2 DEF Asker
  <2> QED BY <2>1, <2>3 DEF Watched
<1>23. ASSUME NEW a \in Actors, AskEvent(a) PROVE Watched'
  <2>1. a \in Controllers /\ call[a] \in {"stop", "destroy"}
    BY <1>23, Roles DEF AskEvent, Plain, Inside, Calling, StopPath
  <2>2. pc'[a] \in {"askEvent", "selfTest"} /\ call' = call
    BY <1>23, Roles DEF AskEvent, Goto, calls, Typed, Places
  <2>3. Asker(a)'
    BY <2>1, <2>2 DEF Asker
  <2> QED BY <2>1, <2>3 DEF Watched
<1>24. ASSUME NEW a \in Actors, JoinTest(a) PROVE Watched'
  BY <1>24, Roles DEF JoinTest, Return, Goto, Home, Watched, Requested, AllDone, Asker,
     Asked, Plain, Unstarted, Waiting, Flags, Events, Typed, Counters, Places,
     Callers, vars, flags, world, calls, history
<1>25. ASSUME NEW a \in Actors, Await(a) PROVE Watched'
  BY <1>25, Roles DEF Await, Blocked, Passes, Goto, Watched, Requested, AllDone, Asker,
     Asked, Plain, Unstarted, Waiting, Flags, Events, Typed, Counters, Places,
     Callers, vars, flags, world, calls, history
<1>26. ASSUME NEW a \in Actors, AwaitReturns(a) PROVE Watched'
  <2>1. a \in Controllers
    BY <1>26, Roles DEF AwaitReturns, Plain, Calling, WaitPath
  <2>2. AllDone
    BY <1>26, <2>1 DEF AwaitReturns, Passes, Woken, Over
  <2>3. created' = created /\ \A k \in 1..created : pc'[k] = pc[k]
    <3>1. created' = created /\ created \in 0..MaxStarts
      BY <1>26 DEF AwaitReturns, world, Typed, Counters
    <3>2. \A k \in Children : pc'[k] = pc[k]
      BY <1>26, <2>1, Roles DEF AwaitReturns, Waited, Return, Goto, Home, Typed, Places
    <3> QED BY <3>1, <3>2, Roles
  <2> QED BY <2>2, <2>3 DEF Watched, AllDone
<1>27. ASSUME NEW a \in Actors, AwaitTimesOut(a) PROVE Watched'
  BY <1>27, Roles DEF AwaitTimesOut, Unblocked, Waited, Return, Goto, Home, Watched,
     Requested, AllDone, Asker, Asked, Plain, Unstarted, Waiting, Flags, Events,
     Typed, Counters, Places, Callers, vars, flags, world, calls, history
<1>28. ASSUME NEW a \in Actors, SpuriousWakeup(a) PROVE Watched'
  BY <1>28, Roles DEF SpuriousWakeup, Unblocked, Watched, Requested, AllDone, Asker,
     Asked, Plain, Unstarted, Waiting, Flags, Events, Typed, Counters, Places,
     Callers, vars, flags, world, calls, history
<1>29. ASSUME NEW k \in Children, Begin(k) PROVE Watched'
  BY <1>29, Roles DEF Begin, Reset, Goto, Watched, Requested, AllDone, Asker, Asked,
     Plain, Unstarted, Waiting, Flags, Events, Typed, Counters, Places, Callers, vars,
     flags, world, calls, history
<1>30. ASSUME NEW k \in Children, Starting(k) PROVE Watched'
  BY <1>30, Roles DEF Starting, Goto, Watched, Requested, AllDone, Asker, Asked, Plain,
     Unstarted, Waiting, Flags, Events, Typed, Counters, Places, Callers, vars, flags,
     world, calls, history
<1>31. ASSUME NEW k \in Children, Poll(k) PROVE Watched'
  BY <1>31, Roles DEF Poll, LeaveRun, Goto, Watched, Requested, AllDone, Asker, Asked,
     Plain, Unstarted, Waiting, Flags, Events, Typed, Counters, Places, Callers, vars,
     flags, world, calls, history
<1>32. ASSUME NEW k \in Children, WaitForStopReturns(k) PROVE Watched'
  BY <1>32, Roles DEF WaitForStopReturns, Woken, LeaveRun, Goto, Watched, Requested,
     AllDone, Asker, Asked, Plain, Unstarted, Waiting, Flags, Events, Typed,
     Counters, Places, Callers, vars, flags, world, calls, history
<1>33. ASSUME NEW k \in Children, Leave(k) PROVE Watched'
  BY <1>33, Roles DEF Leave, Goto, Watched, Requested, AllDone, Asker, Asked, Plain,
     Unstarted, Waiting, Flags, Events, Typed, Counters, Places, Callers, vars, flags,
     world, calls, history
<1>34. ASSUME NEW k \in Children, SignalEnd(k) PROVE Watched'
  BY <1>34, Roles DEF SignalEnd, Signal, Goto, Watched, Requested, AllDone, Asker, Asked,
     Plain, Unstarted, Waiting, Flags, Events, Typed, Counters, Places, Callers, vars,
     flags, world, calls, history
<1>35. ASSUME NEW k \in Children, Finish(k) PROVE Watched'
  BY <1>35, Roles DEF Finish, LeaveRun, Goto, Watched, Requested, AllDone, Asker, Asked,
     Plain, Unstarted, Waiting, Flags, Events, Typed, Counters, Places, Callers, vars,
     flags, world, calls, history
<1>36. ASSUME NEW k \in Children, WaitForStop(k) PROVE Watched'
  BY <1>36, Roles DEF WaitForStop, Blocked, Passes, LeaveRun, Goto, Watched, Requested,
     AllDone, Asker, Asked, Plain, Unstarted, Waiting, Flags, Events, Typed,
     Counters, Places, Callers, vars, flags, world, calls, history
<1>37. CASE UNCHANGED vars
  BY <1>37, Roles DEF Watched, Requested, AllDone, Asker, Asked, Plain, Unstarted,
     Waiting, Flags, Events, Typed, Counters, Places, Callers, vars, flags, world, calls,
     history
<1> QED BY <1>1, <1>2, <1>3, <1>4, <1>5, <1>6, <1>7, <1>8, <1>9, <1>10, <1>11, <1>12,
   <1>13, <1>14, <1>15, <1>16, <1>17, <1>18, <1>19, <1>20, <1>21, <1>22, <1>23, <1>24,
   <1>25, <1>26, <1>27, <1>28, <1>29, <1>30, <1>31, <1>32, <1>33, <1>34, <1>35, <1>36,
   <1>37 DEF Next, Calls, OwnerStep, PointerStep, StopStep, WaitStep, RunStep, RunChoice,
   CallStop, CallJoin

\* An owner that destroys the object while no run is going on finds CallRun over.
LEMMA NoneLeft ==
  ASSUME MaxStarts <= 1, Typed, Begun, OneChild, Watched, Destroying,
         ~ThreadIsRunning, call[Owner] = "destroy", seen[Owner] = created, ~Asker(Owner)
  PROVE  AllDone
<1>1. \A a \in Controllers : ~Asker(a)
  BY Roles DEF Destroying, Asker
<1>2. Ended(Owner)
  BY Roles, NoneRuns
<1>3. \A k \in 1..created : pc[k] \in {"signal", "done"}
  BY <1>2 DEF Ended, Past
<1>4. \A k \in 1..created : pc[k] # "signal"
  BY <1>1 DEF Watched, Requested
<1> QED BY <1>3, <1>4 DEF AllDone

\* The object goes when CallRun is over.
LEMMA DestroyingStep ==
  ASSUME MaxStarts <= 1, ~TimeOuts, ~Spurious, RunStyle \subseteq {"poll", "wait"},
         Typed, OwnerCall, Begun, OneChild, Plain, Over, Watched, Destroying, [Next]_vars
  PROVE  Destroying'
<1>1. CASE CallStart
  BY <1>1, Roles DEF CallStart, Call, OwnerMay, Goto, Home, Destroying, AllDone, Typed,
     Counters, Places, Callers, vars, flags, world, calls, history
<1>2. CASE OwnerMay("stop") /\ Call(Owner, "stop", "stopTest")
  BY <1>2, Roles DEF Call, OwnerMay, Goto, Home, Destroying, AllDone, Typed, Counters,
     Places, Callers, vars, flags, world, calls, history
<1>3. ASSUME PeerMay, NEW p \in Peers, Call(p, "stop", "stopTest")
      PROVE  Destroying'
  BY <1>3, Roles DEF Call, PeerMay, Goto, Home, Destroying, AllDone, Typed, Counters,
     Places, Callers, vars, flags, world, calls, history
<1>4. ASSUME "stop" \in RunStyle, NEW k \in Children, Call(k, "stop", "stopTest")
      PROVE  Destroying'
  BY <1>4, Roles DEF Call, Goto, Home, Destroying, AllDone, Typed, Counters, Places,
     Callers, vars, flags, world, calls, history
<1>5. CASE OwnerMay("join") /\ Call(Owner, "join", "selfTest")
  BY <1>5, Roles DEF Call, OwnerMay, Goto, Home, Destroying, AllDone, Typed, Counters,
     Places, Callers, vars, flags, world, calls, history
<1>6. ASSUME PeerMay, NEW p \in Peers, Call(p, "join", "selfTest")
      PROVE  Destroying'
  BY <1>6, Roles DEF Call, PeerMay, Goto, Home, Destroying, AllDone, Typed, Counters,
     Places, Callers, vars, flags, world, calls, history
<1>7. ASSUME "join" \in RunStyle, NEW k \in Children, Call(k, "join", "selfTest")
      PROVE  Destroying'
  BY <1>7, Roles DEF Call, Goto, Home, Destroying, AllDone, Typed, Counters, Places,
     Callers, vars, flags, world, calls, history
<1>8. CASE CallDestroy
  BY <1>8, Roles DEF CallDestroy, Call, OwnerMay, Goto, Home, Destroying, AllDone, Typed,
     Counters, Places, Callers, vars, flags, world, calls, history
<1>9. CASE StartTest
  BY <1>9, Roles DEF StartTest, Return, Goto, Home, Destroying, AllDone, Typed, Counters,
     Places, Callers, vars, flags, world, calls, history
<1>10. CASE ClearFlags
  BY <1>10, Roles DEF ClearFlags, Goto, Destroying, AllDone, Typed, Counters, Places,
     Callers, vars, flags, world, calls, history
<1>11. CASE Create
  BY <1>11, Roles DEF Create, Destroying, AllDone, Typed, Counters, Places,
     Callers, vars, flags, world, calls, history
<1>12. CASE Detach
  BY <1>12, Roles DEF Detach, Goto, Destroying, AllDone, Typed, Counters, Places,
     Callers, vars, flags, world, calls, history
<1>13. CASE AwaitStart
  BY <1>13, Roles DEF AwaitStart, Return, Goto, Home, Destroying, AllDone, Typed,
     Counters, Places, Callers, vars, flags, world, calls, history
<1>14. CASE DestroyTest
  <2>1. UNCHANGED <<created, call, alive>>
    BY <1>14 DEF DestroyTest, calls, world
  <2>2. \A b \in Actors : b # Owner => pc'[b] = pc[b]
    BY <1>14, Roles DEF DestroyTest, Goto, Typed, Places
  <2>3. /\ created \in 0..MaxStarts /\ Owner \in Actors
        /\ pc[Owner] \notin {"idle", "gone"} /\ pc'[Owner] # "gone"
    BY <1>14, Roles DEF DestroyTest, Goto, Typed, Counters, Places
  <2>4. Owner \notin Children
    BY <1>14, Roles DEF DestroyTest, Plain, Calling, StopPath
  <2>5. ASSUME call[Owner] = "destroy", pc'[Owner] \in {"reset", "store", "delete", "free"}
        PROVE AllDone'
    <3>1. \A k \in 1..created : k \in Children /\ pc'[k] = pc[k]
      BY <2>2, <2>3, <2>4, Roles
    <3>2. CASE Owner = Owner
      <4>1. ~ThreadIsRunning /\ ~Asker(Owner) /\ seen[Owner] = created
        BY <1>14, <2>5, <3>2, Roles DEF DestroyTest, Goto, Asker, OwnerCall, StopPath,
           Typed, Places
      <4>2. AllDone
        BY <2>5, <4>1, NoneLeft
      <4> QED BY <2>1, <3>1, <4>2 DEF AllDone
    <3>3. CASE Owner # Owner
      BY <2>1, <2>2, <2>5, <3>1, <3>3, Roles DEF Destroying, AllDone
    <3> QED BY <3>2, <3>3
  <2>6. call[Owner] = "destroy" => \A p \in Peers : pc'[p] = "idle"
    BY <2>2, <2>3, Roles DEF Destroying
  <2>7. pc'[Owner] = "gone" => pc[Owner] = "gone"
    BY <2>2, <2>3, Roles
  <2>8. pc[Owner] = "gone" => pc'[Owner] = "gone"
    BY <2>2, <2>3, Roles
  <2>9. ASSUME call[Owner] = "destroy", pc[Owner] = "gone" PROVE AllDone'
    <3>1. \A k \in 1..created : pc'[k] = pc[k]
      BY <2>2, <2>3, <2>4, Roles
    <3> QED BY <2>1, <2>9, <3>1 DEF Destroying, AllDone
  <2> QED BY <2>1, <2>5, <2>6, <2>7, <2>8, <2>9 DEF Destroying
<1>15. CASE Free
  <2>1. call[Owner] = "destroy" /\ AllDone /\ (\A p \in Peers : pc[p] = "idle")
    BY <1>15 DEF Free, OwnerCall, Destroying
  <2>2. UNCHANGED <<created, call>> /\ pc' = [pc EXCEPT ![Owner] = "gone"]
    BY <1>15 DEF Free, Goto, calls
  <2>3. created \in 0..MaxStarts /\ \A a \in Actors : a # Owner => pc'[a] = pc[a]
    BY <2>2, Roles DEF Typed, Counters, Places
  <2>4. \A k \in 1..created : pc'[k] = pc[k]
    BY <2>3, Roles
  <2>5. pc'[Owner] = "gone"
    BY <2>2, Roles DEF Typed, Places
  <2>6. AllDone'
    BY <2>1, <2>2, <2>4 DEF AllDone
  <2> QED BY <2>1, <2>2, <2>3, <2>5, <2>6, Roles DEF Destroying
<1>16. ASSUME NEW a \in Actors, ReadOld(a) PROVE Destroying'
  BY <1>16, Roles DEF ReadOld, AfterReset, Home, Goto, Destroying, AllDone, Typed,
     Counters, Places, Callers, vars, flags, world, calls, history
<1>17. ASSUME NEW a \in Actors, StoreNew(a) PROVE Destroying'
  BY <1>17, Roles DEF StoreNew, AfterReset, Home, Goto, Destroying, AllDone, Typed,
     Counters, Places, Callers, vars, flags, world, calls, history
<1>18. ASSUME NEW a \in Actors, DeleteOld(a) PROVE Destroying'
  BY <1>18, Roles DEF DeleteOld, Goto, Destroying, AllDone, Typed, Counters, Places,
     Callers, vars, flags, world, calls, history
<1>19. ASSUME NEW a \in Actors, SelfTest(a) PROVE Destroying'
  BY <1>19, Roles DEF SelfTest, GoOn, Goto, Destroying, AllDone, Typed, Counters, Places,
     Callers, vars, flags, world, calls, history
<1>20. ASSUME NEW a \in Actors, SelfId(a) PROVE Destroying'
  BY <1>20, Roles DEF SelfId, GoOn, Return, Goto, Home, Destroying, AllDone, Typed,
     Counters, Places, Callers, vars, flags, world, calls, history
<1>21. ASSUME NEW a \in Actors, StopTest(a) PROVE Destroying'
  <2>1. UNCHANGED <<created, call, alive>>
    BY <1>21 DEF StopTest, calls, world
  <2>2. \A b \in Actors : b # a => pc'[b] = pc[b]
    BY <1>21, Roles DEF StopTest, Goto, Typed, Places
  <2>3. /\ created \in 0..MaxStarts /\ a \in Actors
        /\ pc[a] \notin {"idle", "gone"} /\ pc'[a] # "gone"
    BY <1>21, Roles DEF StopTest, Goto, Typed, Counters, Places
  <2>4. a \notin Children
    BY <1>21, Roles DEF StopTest, Plain, Calling, StopPath
  <2>5. ASSUME call[Owner] = "destroy", pc'[Owner] \in {"reset", "store", "delete", "free"}
        PROVE AllDone'
    <3>1. \A k \in 1..created : k \in Children /\ pc'[k] = pc[k]
      BY <2>2, <2>3, <2>4, Roles
    <3>2. CASE a = Owner
      <4>1. ~ThreadIsRunning /\ ~Asker(Owner) /\ seen[Owner] = created
        BY <1>21, <2>5, <3>2, Roles DEF StopTest, Goto, Asker, OwnerCall, StopPath, Typed,
           Places
      <4>2. AllDone
        BY <2>5, <4>1, NoneLeft
      <4> QED BY <2>1, <3>1, <4>2 DEF AllDone
    <3>3. CASE a # Owner
      BY <2>1, <2>2, <2>5, <3>1, <3>3, Roles DEF Destroying, AllDone
    <3> QED BY <3>2, <3>3
  <2>6. call[Owner] = "destroy" => \A p \in Peers : pc'[p] = "idle"
    BY <2>2, <2>3, Roles DEF Destroying
  <2>7. pc'[Owner] = "gone" => pc[Owner] = "gone"
    BY <2>2, <2>3, Roles
  <2>8. pc[Owner] = "gone" => pc'[Owner] = "gone"
    BY <2>2, <2>3, Roles
  <2>9. ASSUME call[Owner] = "destroy", pc[Owner] = "gone" PROVE AllDone'
    <3>1. \A k \in 1..created : pc'[k] = pc[k]
      BY <2>2, <2>3, <2>4, Roles
    <3> QED BY <2>1, <2>9, <3>1 DEF Destroying, AllDone
  <2> QED BY <2>1, <2>5, <2>6, <2>7, <2>8, <2>9 DEF Destroying
<1>22. ASSUME NEW a \in Actors, Ask(a) PROVE Destroying'
  BY <1>22, Roles DEF Ask, Goto, Destroying, AllDone, Typed, Counters, Places, Callers,
     vars, flags, world, calls, history
<1>23. ASSUME NEW a \in Actors, AskEvent(a) PROVE Destroying'
  BY <1>23, Roles DEF AskEvent, Goto, Signal, Destroying, AllDone, Typed, Counters,
     Places, Callers, vars, flags, world, calls, history
<1>24. ASSUME NEW a \in Actors, JoinTest(a) PROVE Destroying'
  BY <1>24, Roles DEF JoinTest, Return, Goto, Home, Destroying, AllDone, Typed, Counters,
     Places, Callers, vars, flags, world, calls, history
<1>25. ASSUME NEW a \in Actors, Await(a) PROVE Destroying'
  BY <1>25, Roles DEF Await, Blocked, Passes, Goto, Destroying, AllDone, Typed, Counters,
     Places, Callers, vars, flags, world, calls, history
<1>26. ASSUME NEW a \in Actors, AwaitReturns(a) PROVE Destroying'
  <2>1. a \in Controllers
    BY <1>26, Roles DEF AwaitReturns, Plain, Calling, WaitPath
  <2>2. AllDone
    BY <1>26, <2>1 DEF AwaitReturns, Passes, Woken, Over
  <2>3. created' = created /\ \A k \in 1..created : pc'[k] = pc[k]
    <3>1. created' = created /\ created \in 0..MaxStarts
      BY <1>26 DEF AwaitReturns, world, Typed, Counters
    <3>2. \A k \in Children : pc'[k] = pc[k]
      BY <1>26, <2>1, Roles DEF AwaitReturns, Waited, Return, Goto, Home, Typed, Places
    <3> QED BY <3>1, <3>2, Roles
  <2>4. AllDone'
    BY <2>2, <2>3 DEF AllDone
  <2>5. UNCHANGED <<call, alive>>
    BY <1>26 DEF AwaitReturns, Waited, Return, world
  <2>6. \A b \in Actors : b # a => pc'[b] = pc[b]
    BY <1>26, Roles DEF AwaitReturns, Waited, Return, Goto, Home, Typed, Places
  <2>7. a \in Peers => pc[a] # "idle"
    BY <1>26 DEF AwaitReturns
  <2>8. pc[a] # "gone"
    BY <1>26 DEF AwaitReturns
  <2> QED BY <2>1, <2>4, <2>5, <2>6, <2>7, <2>8, Roles DEF Destroying
<1>27. ASSUME NEW a \in Actors, AwaitTimesOut(a) PROVE Destroying'
  BY <1>27, Roles DEF AwaitTimesOut, Unblocked, Waited, Return, Goto, Home, Destroying,
     AllDone, Typed, Counters, Places, Callers, vars, flags, world, calls, history
<1>28. ASSUME NEW a \in Actors, SpuriousWakeup(a) PROVE Destroying'
  BY <1>28, Roles DEF SpuriousWakeup, Unblocked, Destroying, AllDone, Typed, Counters,
     Places, Callers, vars, flags, world, calls, history
<1>29. ASSUME NEW k \in Children, Begin(k) PROVE Destroying'
  BY <1>29, Roles DEF Begin, Reset, Goto, Destroying, AllDone, Typed, Counters, Places,
     Callers, vars, flags, world, calls, history
<1>30. ASSUME NEW k \in Children, Starting(k) PROVE Destroying'
  BY <1>30, Roles DEF Starting, Goto, Destroying, AllDone, Typed, Counters, Places,
     Callers, vars, flags, world, calls, history
<1>31. ASSUME NEW k \in Children, Poll(k) PROVE Destroying'
  BY <1>31, Roles DEF Poll, LeaveRun, Goto, Destroying, AllDone, Typed, Counters, Places,
     Callers, vars, flags, world, calls, history
<1>32. ASSUME NEW k \in Children, WaitForStopReturns(k) PROVE Destroying'
  BY <1>32, Roles DEF WaitForStopReturns, Woken, LeaveRun, Goto, Destroying, AllDone,
     Typed, Counters, Places, Callers, vars, flags, world, calls, history
<1>33. ASSUME NEW k \in Children, Leave(k) PROVE Destroying'
  BY <1>33, Roles DEF Leave, Goto, Destroying, AllDone, Typed, Counters, Places, Callers,
     vars, flags, world, calls, history
<1>34. ASSUME NEW k \in Children, SignalEnd(k) PROVE Destroying'
  BY <1>34, Roles DEF SignalEnd, Signal, Goto, Destroying, AllDone, Typed, Counters,
     Places, Callers, vars, flags, world, calls, history
<1>35. ASSUME NEW k \in Children, Finish(k) PROVE Destroying'
  BY <1>35, Roles DEF Finish, LeaveRun, Goto, Destroying, AllDone, Typed, Counters,
     Places, Callers, vars, flags, world, calls, history
<1>36. ASSUME NEW k \in Children, WaitForStop(k) PROVE Destroying'
  BY <1>36, Roles DEF WaitForStop, Blocked, Passes, LeaveRun, Goto, Destroying, AllDone,
     Typed, Counters, Places, Callers, vars, flags, world, calls, history
<1>37. CASE UNCHANGED vars
  BY <1>37, Roles DEF Destroying, AllDone, Typed, Counters, Places, Callers, vars, flags,
     world, calls, history
<1> QED BY <1>1, <1>2, <1>3, <1>4, <1>5, <1>6, <1>7, <1>8, <1>9, <1>10, <1>11, <1>12,
   <1>13, <1>14, <1>15, <1>16, <1>17, <1>18, <1>19, <1>20, <1>21, <1>22, <1>23, <1>24,
   <1>25, <1>26, <1>27, <1>28, <1>29, <1>30, <1>31, <1>32, <1>33, <1>34, <1>35, <1>36,
   <1>37 DEF Next, Calls, OwnerStep, PointerStep, StopStep, WaitStep, RunStep, RunChoice,
   CallStop, CallJoin

\* Nobody waits and nothing is freed at first.
LEMMA FreeInit == Init => FreeInv
<1> SUFFICES ASSUME Init PROVE FreeInv
  OBVIOUS
<1>1. AloneInv
  BY AloneInit
<1>2. created = 0 /\ alive /\ ~ThreadIsRunning /\ ~misled
  BY DEF Init
<1>3. ~StopWasAskedEvent.signaled /\ ~IsEnded.signaled
  BY DEF Init, NewEvent
<1>4. /\ \A a \in Controllers : pc[a] = "idle" /\ call[a] = "none"
      /\ \A k \in Children : pc[k] = "none"
  BY Roles DEF Init
<1>5. Plain /\ Unstarted
  BY <1>2, <1>3, <1>4 DEF Plain, Calling, StopPath, WaitPath, Unstarted, Waiting
<1>6. Over /\ Watched
  BY <1>2, <1>3, <1>4 DEF Over, Watched
<1>7. Destroying
  BY <1>2, <1>4, Roles DEF Destroying
<1> QED BY <1>1, <1>5, <1>6, <1>7 DEF FreeInv

\* Every step keeps the invariant on which the destructor relies.
LEMMA FreeStep ==
  ASSUME Handshake, MaxStarts <= 1, ~TimeOuts, ~Spurious, RunStyle \subseteq {"poll", "wait"}
  PROVE  FreeInv /\ [Next]_vars => FreeInv'
<1> SUFFICES ASSUME FreeInv, [Next]_vars PROVE FreeInv'
  OBVIOUS
<1>1. AloneInv'
  BY AloneInvStep DEF FreeInv
<1>2. Plain'
  BY PlainStep DEF FreeInv, AloneInv, HandInv
<1>3. Unstarted'
  BY UnstartedStep DEF FreeInv, AloneInv, HandInv
<1>4. Over'
  BY OverStep DEF FreeInv, AloneInv, HandInv
<1>5. Watched'
  BY WatchedStep DEF FreeInv, AloneInv, HandInv
<1>6. Destroying'
  BY DestroyingStep DEF FreeInv, AloneInv, HandInv
<1> QED BY <1>1, <1>2, <1>3, <1>4, <1>5, <1>6 DEF FreeInv

\* The destructor of an object started at most once waits for CallRun, whoever else stops
\* or joins it, when Run ends only as it is asked to, through StopPending or WaitForStop,
\* and no Wait of IsEnded comes back before its signal. Without any one of these
\* conditions, a Run that joins its own thread apart, CallRun may outlive the object.
THEOREM NeverUsedAfterFree ==
  ASSUME Handshake, MaxStarts <= 1, ~TimeOuts, ~Spurious, RunStyle \subseteq {"poll", "wait"}
  PROVE  Spec => []NoUseAfterFree
<1>1. FreeInv => NoUseAfterFree
  BY DEF FreeInv, Destroying, AllDone, NoUseAfterFree
<1>2. FreeInv /\ [Next]_vars => FreeInv'
  BY FreeStep
<1> QED BY <1>1, <1>2, FreeInit, PTL DEF Spec

=================================================================================
