------------------------ MODULE SharedMemSegmentProofs ------------------------
(* For any number of processes and segments and whatever patience of a writer:   *)
(* write access is only given where the creator granted it, and without a crash  *)
(* no segment stays behind.                                                      *)
EXTENDS SharedMemSegment, TLAPS

Creating == {"create", "find", "stat", "rmid", "again"}
Preparing == {"read only", "initialized"}
Joining == {"lookup", "wait", "check"}
PCs == Creating \cup Preparing \cup Joining \cup {"idle", "attach", "open", "close", "detach"}
Makes == {"create", "share"}
Uses == {"read", "write"}
Quiet == Creating \cup {"idle", "lookup", "close", "detach"}
Kinds == Makes \cup Uses \cup {"none"}

TypeOK ==
  /\ life \in [Segments -> {"unborn", "live", "marked", "gone"}]
  /\ flags \in [Segments -> SUBSET {"ReadOnly", "Initialized"}]
  /\ creator \in [Segments -> Objects \cup {None}]
  /\ granted \in [Segments -> BOOLEAN]
  /\ named \in Segments \cup {None}
  /\ pc \in [Objects -> PCs]
  /\ call \in [Objects -> Kinds]
  /\ iSegMem \in [Objects -> Segments \cup {None}]
  /\ SegAddress \in [Objects -> Segments \cup {None, Failed}]
  /\ found \in [Objects -> Segments \cup {None}]
  /\ crashed \in BOOLEAN

\* A segment nobody asked for yet is nowhere.
Fresh ==
  \A s \in Segments : life[s] = "unborn" =>
    /\ flags[s] = {} /\ named # s
    /\ \A o \in Objects : iSegMem[o] # s /\ SegAddress[o] # s

\* The flags of a segment that is ready are those its creator wanted.
Flagged ==
  \A s \in Segments : "Initialized" \in flags[s] /\ ~granted[s] => "ReadOnly" \in flags[s]

\* Where an object is says what it was called for.
CallOK(o) ==
  /\ pc[o] \in Creating \cup Preparing => call[o] \in Makes
  /\ pc[o] \in Joining => call[o] \in Uses

\* An object that is making a segment prepares its own, in the order of the stores.
MakerOK(o) ==
  call[o] \in Makes /\ pc[o] \in Preparing \cup {"attach"} =>
    /\ iSegMem[o] \in Segments
    /\ granted[iSegMem[o]] <=> call[o] = "share"
    /\ pc[o] \in Preparing => SegAddress[o] \in {iSegMem[o], Failed}
    /\ pc[o] = "initialized" => /\ SegAddress[o] = iSegMem[o]
                                /\ call[o] = "share" \/ "ReadOnly" \in flags[SegAddress[o]]

\* A writer looks at the flag ReadOnly of a segment that is ready.
WriterOK(o) ==
  /\ pc[o] = "wait" => SegAddress[o] \in Segments \cup {Failed}
  /\ pc[o] = "check" => SegAddress[o] \in Segments /\ "Initialized" \in flags[SegAddress[o]]
  /\ pc[o] = "open" /\ call[o] = "write" /\ SegAddress[o] \in Segments => granted[SegAddress[o]]

ObjectOK(o) == CallOK(o) /\ MakerOK(o) /\ WriterOK(o)

\* What the creator of a segment that is not marked keeps of it.
Holds(o, s) ==
  /\ o \in Objects /\ iSegMem[o] = s /\ call[o] \in Makes
  /\ pc[o] \in Preparing \cup {"attach", "open", "close"}
  /\ pc[o] # "attach" => SegAddress[o] = s
Kept == ~crashed => \A s \in Segments : life[s] = "live" => Holds(creator[s], s)

IInv ==
  /\ TypeOK /\ Fresh /\ Flagged /\ Kept
  /\ \A o \in Objects : ObjectOK(o)

\* What a step of o leaves to the others.
Frame(o) ==
  /\ \A p \in Objects \ {o} : /\ pc'[p] = pc[p] /\ call'[p] = call[p]
                              /\ iSegMem'[p] = iSegMem[p] /\ SegAddress'[p] = SegAddress[p]
  /\ \A s \in Segments : flags[s] \subseteq flags'[s]
  /\ \A s \in Segments : life[s] # "unborn" => /\ life'[s] # "unborn"
                                               /\ creator'[s] = creator[s]
                                               /\ granted'[s] = granted[s]
  /\ \A s \in Segments : life'[s] = "live" => \/ life[s] = "live"
                                              \/ life[s] = "unborn" /\ creator'[s] = o
  /\ crashed => crashed'
-------------------------------------------------------------------------------
\* The program starts with no segment and no call.
LEMMA InitOK == Init => IInv
<1> SUFFICES ASSUME Init PROVE IInv
  OBVIOUS
<1>1. TypeOK
  BY SegmentAssumption DEF Init, TypeOK, PCs, Creating, Kinds
<1>2. Fresh /\ Flagged /\ Kept
  BY SegmentAssumption DEF Init, Fresh, Flagged, Kept
<1>3. \A o \in Objects : ObjectOK(o)
  BY DEF Init, ObjectOK, CallOK, MakerOK, WriterOK, Creating, Preparing, Joining, Makes,
     Uses
<1> QED BY <1>1, <1>2, <1>3 DEF IInv

\* A step of o leaves what the other objects know true.
LEMMA OthersOK ==
  ASSUME IInv, TypeOK', NEW o \in Objects, Frame(o), NEW p \in Objects \ {o}
  PROVE  ObjectOK(p)'
<1>1. /\ pc'[p] = pc[p] /\ call'[p] = call[p]
      /\ iSegMem'[p] = iSegMem[p] /\ SegAddress'[p] = SegAddress[p]
  BY DEF Frame
<1>2. /\ iSegMem[p] \in Segments => granted'[iSegMem[p]] = granted[iSegMem[p]]
      /\ SegAddress[p] \in Segments => granted'[SegAddress[p]] = granted[SegAddress[p]]
  BY DEF Frame, IInv, Fresh
<1>3. SegAddress[p] \in Segments => flags[SegAddress[p]] \subseteq flags'[SegAddress[p]]
  BY DEF Frame
<1>4. CallOK(p)'
  BY <1>1 DEF IInv, ObjectOK, CallOK
<1>5. MakerOK(p)'
  BY <1>1, <1>2, <1>3 DEF IInv, ObjectOK, MakerOK
<1>6. WriterOK(p)'
  BY <1>1, <1>2, <1>3, SegmentAssumption DEF IInv, ObjectOK, WriterOK
<1> QED BY <1>4, <1>5, <1>6 DEF ObjectOK

\* A call begins with a kind of its own.
LEMMA CallsTypes ==
  ASSUME TypeOK, NEW o \in Objects, NEW entry \in PCs, NEW kinds \in SUBSET Kinds,
         Calls(o, entry, kinds)
  PROVE  TypeOK'
<1>1. PICK k \in kinds : call' = [call EXCEPT ![o] = k]
  BY DEF Calls
<1>2. call' \in [Objects -> Kinds]
  BY <1>1 DEF TypeOK
<1>3. pc' \in [Objects -> PCs]
  BY DEF Calls, TypeOK
<1> QED BY <1>2, <1>3 DEF Calls, TypeOK, kernel, object

\* A change of place keeps the types of the place and of the call.
LEMMA GotoTypes ==
  ASSUME TypeOK, NEW o \in Objects, NEW from, NEW to \in PCs, Goto(o, from, to)
  PROVE  pc' \in [Objects -> PCs] /\ call' \in [Objects -> Kinds]
<1>1. "none" \in Kinds
  BY DEF Kinds
<1> QED BY <1>1 DEF Goto, TypeOK

\* Creation keeps the types, whether it succeeds or not.
LEMMA CreateTypes ==
  ASSUME TypeOK, NEW o \in Objects, NEW from, NEW otherwise \in PCs, Create(o, from, otherwise)
  PROVE  TypeOK'
<1>1. "attach" \in PCs
  BY DEF PCs
<1>2. pc' \in [Objects -> PCs] /\ call' \in [Objects -> Kinds]
  BY <1>1, GotoTypes DEF Create
<1>3. CASE UNCHANGED <<kernel, object, crashed>>
  BY <1>2, <1>3 DEF TypeOK, kernel, object
<1>4. CASE ~UNCHANGED <<kernel, object, crashed>>
  <2>1. PICK s \in Segments :
          /\ life' = [life EXCEPT ![s] = "live"] /\ named' = s
          /\ creator' = [creator EXCEPT ![s] = o]
          /\ granted' = [granted EXCEPT ![s] = call[o] = "share"]
          /\ iSegMem' = [iSegMem EXCEPT ![o] = s]
    BY <1>4 DEF Create
  <2>2. UNCHANGED <<flags, SegAddress, found, tries, crashed>>
    BY <1>4 DEF Create
  <2>3. granted' \in [Segments -> BOOLEAN]
    BY <2>1 DEF TypeOK
  <2> QED BY <1>2, <2>1, <2>2, <2>3 DEF TypeOK
<1> QED BY <1>3, <1>4

\* Where an object looks at no flag, little has to hold of it.
LEMMA QuietOK ==
  ASSUME NEW o \in Objects, pc'[o] \in Quiet,
         pc'[o] \in Creating => call'[o] \in Makes, pc'[o] = "lookup" => call'[o] \in Uses
  PROVE  ObjectOK(o)'
<1>1. CallOK(o)'
  BY DEF CallOK, Quiet, Creating, Preparing, Joining
<1>2. MakerOK(o)'
  BY DEF MakerOK, Quiet, Creating, Preparing
<1>3. WriterOK(o)'
  BY DEF WriterOK, Quiet, Creating
<1> QED BY <1>1, <1>2, <1>3 DEF ObjectOK

\* Every step keeps the types.
LEMMA StepTypes ==
  ASSUME TypeOK, NEW o \in Objects, Step(o)
  PROVE  TypeOK'
<1>1. CASE CallCreate(o)
  <2>1. "create" \in PCs /\ Makes \in SUBSET Kinds
    BY DEF PCs, Creating, Kinds
  <2>2. Calls(o, "create", Makes)
    BY <1>1 DEF CallCreate, Makes
  <2> QED BY <2>1, <2>2, CallsTypes
<1>2. CASE CreateFirst(o)
  <2>1. "find" \in PCs
    BY DEF PCs, Creating
  <2> QED BY <1>2, <2>1, CreateTypes DEF CreateFirst
<1>3. CASE RemoveFind(o)
  <2>1. pc' \in [Objects -> PCs] /\ call' \in [Objects -> Kinds]
    BY <1>3, GotoTypes DEF RemoveFind, PCs, Creating
  <2>2. found' \in [Objects -> Segments \cup {None}]
    BY <1>3 DEF RemoveFind, TypeOK
  <2> QED BY <1>3, <2>1, <2>2 DEF RemoveFind, TypeOK, kernel
<1>4. CASE RemoveStat(o)
  <2>1. pc' \in [Objects -> PCs] /\ call' \in [Objects -> Kinds]
    BY <1>4, GotoTypes DEF RemoveStat, PCs, Creating
  <2>2. found' \in [Objects -> Segments \cup {None}]
    BY <1>4 DEF RemoveStat, TypeOK
  <2> QED BY <1>4, <2>1, <2>2 DEF RemoveStat, TypeOK, kernel
<1>5. CASE RemoveIt(o)
  BY <1>5, SegmentAssumption DEF RemoveIt, Goto, Exists, Remove, TypeOK, kernel, object,
     Creating, Preparing, Joining, PCs, Makes, Uses, Kinds
<1>6. CASE CreateAgain(o)
  <2>1. "idle" \in PCs
    BY DEF PCs, Creating
  <2> QED BY <1>6, <2>1, CreateTypes DEF CreateAgain
<1>7. CASE Attach(o)
  BY <1>7, SegmentAssumption DEF Attach, Goto, Exists, TypeOK, kernel, object, Creating,
     Preparing, Joining, PCs, Makes, Uses, Kinds
<1>8. CASE SetReadOnly(o)
  BY <1>8, SegmentAssumption DEF SetReadOnly, Goto, TypeOK, kernel, object, Creating,
     Preparing, Joining, PCs, Makes, Uses, Kinds
<1>9. CASE SetInitialized(o)
  BY <1>9, SegmentAssumption DEF SetInitialized, Goto, TypeOK, kernel, object, Creating,
     Preparing, Joining, PCs, Makes, Uses, Kinds
<1>10. CASE CallOpen(o)
  <2>1. "lookup" \in PCs /\ Uses \in SUBSET Kinds
    BY DEF PCs, Joining, Kinds
  <2>2. Calls(o, "lookup", Uses)
    BY <1>10 DEF CallOpen, Uses
  <2> QED BY <2>1, <2>2, CallsTypes
<1>11. CASE Lookup(o)
  BY <1>11, SegmentAssumption DEF Lookup, Goto, TypeOK, kernel, object, Creating,
     Preparing, Joining, PCs, Makes, Uses, Kinds
<1>12. CASE WaitInitialized(o)
  BY <1>12, SegmentAssumption DEF WaitInitialized, Goto, TypeOK, kernel, object, Creating,
     Preparing, Joining, PCs, Makes, Uses, Kinds
<1>13. CASE CheckReadOnly(o)
  BY <1>13, SegmentAssumption DEF CheckReadOnly, Goto, TypeOK, kernel, object, Creating,
     Preparing, Joining, PCs, Makes, Uses, Kinds
<1>14. CASE CallClose(o)
  BY <1>14, SegmentAssumption DEF CallClose, Goto, TypeOK, kernel, object, Creating,
     Preparing, Joining, PCs, Makes, Uses, Kinds
<1>15. CASE CloseRemove(o)
  BY <1>15, SegmentAssumption DEF CloseRemove, Goto, Exists, Remove, TypeOK, kernel,
     object, Creating, Preparing, Joining, PCs, Makes, Uses, Kinds
<1>16. CASE CloseDetach(o)
  BY <1>16, SegmentAssumption DEF CloseDetach, Goto, Detach, TypeOK, kernel, object,
     Creating, Preparing, Joining, PCs, Makes, Uses, Kinds
<1>17. CASE Crash(o)
  BY <1>17, SegmentAssumption DEF Crash, Goto, Detach, TypeOK, kernel, object, Creating,
     Preparing, Joining, PCs, Makes, Uses, Kinds
<1> QED BY <1>1, <1>2, <1>3, <1>4, <1>5, <1>6, <1>7, <1>8, <1>9, <1>10, <1>11, <1>12,
<1>13, <1>14, <1>15, <1>16, <1>17 DEF Step

\* No step of o touches another object, unsets a flag or changes whose a segment is.
LEMMA StepFrame ==
  ASSUME TypeOK, NEW o \in Objects, Step(o)
  PROVE  Frame(o)
<1>1. CASE CallCreate(o)
  BY <1>1, SegmentAssumption DEF CallCreate, Calls, TypeOK, kernel, object, Frame
<1>2. CASE CreateFirst(o)
  BY <1>2, SegmentAssumption DEF CreateFirst, Create, Goto, TypeOK, kernel, object, Frame
<1>3. CASE RemoveFind(o)
  BY <1>3, SegmentAssumption DEF RemoveFind, Goto, TypeOK, kernel, object, Frame
<1>4. CASE RemoveStat(o)
  BY <1>4, SegmentAssumption DEF RemoveStat, Goto, TypeOK, kernel, object, Frame
<1>5. CASE RemoveIt(o)
  BY <1>5, SegmentAssumption DEF RemoveIt, Goto, Exists, Remove, TypeOK, kernel, object,
     Frame
<1>6. CASE CreateAgain(o)
  BY <1>6, SegmentAssumption DEF CreateAgain, Create, Goto, TypeOK, kernel, object, Frame
<1>7. CASE Attach(o)
  BY <1>7, SegmentAssumption DEF Attach, Goto, Exists, TypeOK, kernel, object, Frame
<1>8. CASE SetReadOnly(o)
  BY <1>8, SegmentAssumption DEF SetReadOnly, Goto, TypeOK, kernel, object, Frame
<1>9. CASE SetInitialized(o)
  BY <1>9, SegmentAssumption DEF SetInitialized, Goto, TypeOK, kernel, object, Frame
<1>10. CASE CallOpen(o)
  BY <1>10, SegmentAssumption DEF CallOpen, Calls, TypeOK, kernel, object, Frame
<1>11. CASE Lookup(o)
  BY <1>11, SegmentAssumption DEF Lookup, Goto, TypeOK, kernel, object, Frame
<1>12. CASE WaitInitialized(o)
  BY <1>12, SegmentAssumption DEF WaitInitialized, Goto, TypeOK, kernel, object, Frame
<1>13. CASE CheckReadOnly(o)
  BY <1>13, SegmentAssumption DEF CheckReadOnly, Goto, TypeOK, kernel, object, Frame
<1>14. CASE CallClose(o)
  BY <1>14, SegmentAssumption DEF CallClose, Goto, TypeOK, kernel, object, Frame
<1>15. CASE CloseRemove(o)
  BY <1>15, SegmentAssumption DEF CloseRemove, Goto, Exists, Remove, TypeOK, kernel,
     object, Frame
<1>16. CASE CloseDetach(o)
  BY <1>16, SegmentAssumption DEF CloseDetach, Goto, Detach, TypeOK, kernel, object, Frame
<1>17. CASE Crash(o)
  BY <1>17, SegmentAssumption DEF Crash, Goto, Detach, TypeOK, kernel, object, Frame
<1> QED BY <1>1, <1>2, <1>3, <1>4, <1>5, <1>6, <1>7, <1>8, <1>9, <1>10, <1>11, <1>12,
<1>13, <1>14, <1>15, <1>16, <1>17 DEF Step

\* Every step keeps the segments of tomorrow out of reach.
LEMMA StepFresh ==
  ASSUME IInv, NEW o \in Objects, Step(o)
  PROVE  Fresh'
<1>1. CASE CallCreate(o)
  BY <1>1, SegmentAssumption DEF CallCreate, Calls, IInv, TypeOK, Fresh, kernel, object
<1>2. CASE CreateFirst(o)
  BY <1>2, SegmentAssumption DEF CreateFirst, Create, Goto, IInv, TypeOK, Fresh, kernel,
     object
<1>3. CASE RemoveFind(o)
  BY <1>3, SegmentAssumption DEF RemoveFind, Goto, IInv, TypeOK, Fresh, kernel, object
<1>4. CASE RemoveStat(o)
  BY <1>4, SegmentAssumption DEF RemoveStat, Goto, IInv, TypeOK, Fresh, kernel, object
<1>5. CASE RemoveIt(o)
  BY <1>5, SegmentAssumption DEF RemoveIt, Goto, Exists, Remove, IInv, TypeOK, Fresh,
     kernel, object
<1>6. CASE CreateAgain(o)
  BY <1>6, SegmentAssumption DEF CreateAgain, Create, Goto, IInv, TypeOK, Fresh, kernel,
     object
<1>7. CASE Attach(o)
  BY <1>7, SegmentAssumption DEF Attach, Goto, Exists, IInv, TypeOK, Fresh, kernel, object
<1>8. CASE SetReadOnly(o)
  BY <1>8, SegmentAssumption DEF SetReadOnly, Goto, IInv, TypeOK, Fresh, kernel, object
<1>9. CASE SetInitialized(o)
  BY <1>9, SegmentAssumption DEF SetInitialized, Goto, IInv, TypeOK, Fresh, kernel, object
<1>10. CASE CallOpen(o)
  BY <1>10, SegmentAssumption DEF CallOpen, Calls, IInv, TypeOK, Fresh, kernel, object
<1>11. CASE Lookup(o)
  BY <1>11, SegmentAssumption DEF Lookup, Goto, IInv, TypeOK, Fresh, kernel, object
<1>12. CASE WaitInitialized(o)
  BY <1>12, SegmentAssumption DEF WaitInitialized, Goto, IInv, TypeOK, Fresh, kernel, object
<1>13. CASE CheckReadOnly(o)
  BY <1>13, SegmentAssumption DEF CheckReadOnly, Goto, IInv, TypeOK, Fresh, kernel, object
<1>14. CASE CallClose(o)
  BY <1>14, SegmentAssumption DEF CallClose, Goto, IInv, TypeOK, Fresh, kernel, object
<1>15. CASE CloseRemove(o)
  BY <1>15, SegmentAssumption DEF CloseRemove, Goto, Exists, Remove, IInv, TypeOK, Fresh,
     kernel, object
<1>16. CASE CloseDetach(o)
  BY <1>16, SegmentAssumption DEF CloseDetach, Goto, Detach, IInv, TypeOK, Fresh, kernel,
     object
<1>17. CASE Crash(o)
  BY <1>17, SegmentAssumption DEF Crash, Goto, Detach, IInv, TypeOK, Fresh, kernel, object
<1> QED BY <1>1, <1>2, <1>3, <1>4, <1>5, <1>6, <1>7, <1>8, <1>9, <1>10, <1>11, <1>12,
<1>13, <1>14, <1>15, <1>16, <1>17 DEF Step

\* Every step keeps the flags of a ready segment those its creator wanted.
LEMMA StepFlagged ==
  ASSUME IInv, NEW o \in Objects, Step(o)
  PROVE  Flagged'
<1>1. CASE CallCreate(o)
  BY <1>1, SegmentAssumption DEF CallCreate, Calls, IInv, TypeOK, Fresh, Flagged, kernel,
     object
<1>2. CASE CreateFirst(o)
  BY <1>2, SegmentAssumption DEF CreateFirst, Create, Goto, IInv, TypeOK, Fresh, Flagged,
     kernel, object
<1>3. CASE RemoveFind(o)
  BY <1>3, SegmentAssumption DEF RemoveFind, Goto, IInv, TypeOK, Fresh, Flagged, kernel,
     object
<1>4. CASE RemoveStat(o)
  BY <1>4, SegmentAssumption DEF RemoveStat, Goto, IInv, TypeOK, Fresh, Flagged, kernel,
     object
<1>5. CASE RemoveIt(o)
  BY <1>5, SegmentAssumption DEF RemoveIt, Goto, Exists, Remove, IInv, TypeOK, Fresh,
     Flagged, kernel, object
<1>6. CASE CreateAgain(o)
  BY <1>6, SegmentAssumption DEF CreateAgain, Create, Goto, IInv, TypeOK, Fresh, Flagged,
     kernel, object
<1>7. CASE Attach(o)
  BY <1>7, SegmentAssumption DEF Attach, Goto, Exists, IInv, TypeOK, Fresh, Flagged,
     kernel, object
<1>8. CASE SetReadOnly(o)
  BY <1>8, SegmentAssumption DEF SetReadOnly, Goto, IInv, TypeOK, Fresh, Flagged, kernel,
     object
<1>9. CASE SetInitialized(o)
  <2>1. /\ SegAddress[o] \in Segments
        /\ ~granted[SegAddress[o]] => "ReadOnly" \in flags[SegAddress[o]]
    BY <1>9 DEF SetInitialized, Goto, IInv, ObjectOK, CallOK, MakerOK, Creating, Preparing
  <2>2. granted' = granted /\ flags' = [flags EXCEPT ![SegAddress[o]] = @ \cup {"Initialized"}]
    BY <1>9 DEF SetInitialized
  <2> QED BY <2>1, <2>2 DEF IInv, TypeOK, Flagged
<1>10. CASE CallOpen(o)
  BY <1>10, SegmentAssumption DEF CallOpen, Calls, IInv, TypeOK, Fresh, Flagged, kernel,
     object
<1>11. CASE Lookup(o)
  BY <1>11, SegmentAssumption DEF Lookup, Goto, IInv, TypeOK, Fresh, Flagged, kernel, object
<1>12. CASE WaitInitialized(o)
  BY <1>12, SegmentAssumption DEF WaitInitialized, Goto, IInv, TypeOK, Fresh, Flagged,
     kernel, object
<1>13. CASE CheckReadOnly(o)
  BY <1>13, SegmentAssumption DEF CheckReadOnly, Goto, IInv, TypeOK, Fresh, Flagged,
     kernel, object
<1>14. CASE CallClose(o)
  BY <1>14, SegmentAssumption DEF CallClose, Goto, IInv, TypeOK, Fresh, Flagged, kernel,
     object
<1>15. CASE CloseRemove(o)
  BY <1>15, SegmentAssumption DEF CloseRemove, Goto, Exists, Remove, IInv, TypeOK, Fresh,
     Flagged, kernel, object
<1>16. CASE CloseDetach(o)
  BY <1>16, SegmentAssumption DEF CloseDetach, Goto, Detach, IInv, TypeOK, Fresh, Flagged,
     kernel, object
<1>17. CASE Crash(o)
  BY <1>17, SegmentAssumption DEF Crash, Goto, Detach, IInv, TypeOK, Fresh, Flagged,
     kernel, object
<1> QED BY <1>1, <1>2, <1>3, <1>4, <1>5, <1>6, <1>7, <1>8, <1>9, <1>10, <1>11, <1>12,
<1>13, <1>14, <1>15, <1>16, <1>17 DEF Step

\* A creator that got a segment has its own; one that did not goes on quietly.
LEMMA CreateMover ==
  ASSUME IInv, NEW o \in Objects, NEW from \in Creating, NEW otherwise \in {"find", "idle"},
         Create(o, from, otherwise)
  PROVE  ObjectOK(o)'
<1>1. call[o] \in Makes /\ from # "idle"
  BY DEF Create, Goto, IInv, ObjectOK, CallOK, Creating
<1>2. CASE Goto(o, from, otherwise)
  <2>1. pc'[o] = otherwise /\ (otherwise = "find" => call'[o] = call[o])
    BY <1>2 DEF Goto, IInv, TypeOK
  <2> QED BY <1>1, <2>1, QuietOK DEF Quiet, Creating
<1>3. CASE ~Goto(o, from, otherwise)
  <2>1. PICK s \in Segments : /\ granted' = [granted EXCEPT ![s] = call[o] = "share"]
                              /\ iSegMem' = [iSegMem EXCEPT ![o] = s]
    BY <1>3 DEF Create
  <2>2. pc'[o] = "attach" /\ call'[o] = call[o]
    BY <1>3 DEF Create, Goto, IInv, TypeOK
  <2>3. iSegMem'[o] = s /\ granted'[s] = (call[o] = "share")
    BY <2>1 DEF IInv, TypeOK
  <2>4. MakerOK(o)'
    BY <2>2, <2>3 DEF MakerOK, Preparing
  <2>5. CallOK(o)' /\ WriterOK(o)'
    BY <2>2 DEF CallOK, WriterOK, Creating, Preparing, Joining
  <2> QED BY <2>4, <2>5 DEF ObjectOK
<1> QED BY <1>2, <1>3

\* After shmat the object has the segment it asked for or a failed address.
LEMMA AttachMover ==
  ASSUME IInv, NEW o \in Objects, Attach(o)
  PROVE  ObjectOK(o)'
<1>1. /\ pc[o] = "attach" /\ call'[o] = call[o]
      /\ pc'[o] = CASE call[o] \in Makes -> "read only"
                    [] call[o] = "write" -> "wait"
                    [] OTHER -> "open"
  BY DEF Attach, Goto, IInv, TypeOK, Makes
<1>2. /\ SegAddress'[o] \in {iSegMem[o], Failed} /\ SegAddress'[o] \in Segments \cup {Failed}
      /\ iSegMem' = iSegMem /\ granted' = granted
  BY DEF Attach, Exists, IInv, TypeOK, kernel
<1>3. CallOK(o)'
  BY <1>1 DEF CallOK, Creating, Preparing, Joining, Makes, Uses
<1>4. MakerOK(o)'
  BY <1>1, <1>2 DEF IInv, ObjectOK, MakerOK, Preparing, Makes
<1>5. WriterOK(o)'
  BY <1>1, <1>2 DEF WriterOK, Makes
<1> QED BY <1>3, <1>4, <1>5 DEF ObjectOK

\* The two stores of the flags, in their order.
LEMMA InitMover ==
  ASSUME IInv, NEW o \in Objects, SetReadOnly(o) \/ SetInitialized(o)
  PROVE  ObjectOK(o)'
<1>1. call[o] \in Makes /\ call'[o] = call[o]
  BY DEF SetReadOnly, SetInitialized, Goto, IInv, TypeOK, ObjectOK, CallOK, Preparing
<1>2. iSegMem' = iSegMem /\ granted' = granted /\ SegAddress' = SegAddress
  BY DEF SetReadOnly, SetInitialized, kernel, object
<1>3. CASE SetReadOnly(o)
  <2>1. pc[o] = "read only" /\ pc'[o] = "initialized"
    BY <1>3 DEF SetReadOnly, Goto, IInv, TypeOK
  <2>2. SegAddress[o] = iSegMem[o] /\ iSegMem[o] \in Segments
    BY <1>1, <1>3, <2>1 DEF SetReadOnly, IInv, ObjectOK, MakerOK, Preparing
  <2>3. call[o] = "share" \/ "ReadOnly" \in flags'[SegAddress[o]]
    BY <1>3, <2>2 DEF SetReadOnly, IInv, TypeOK
  <2>4. MakerOK(o)'
    BY <1>1, <1>2, <2>1, <2>2, <2>3 DEF IInv, ObjectOK, MakerOK, Preparing
  <2>5. CallOK(o)' /\ WriterOK(o)'
    BY <1>1, <2>1 DEF CallOK, WriterOK, Creating, Preparing, Joining
  <2> QED BY <2>4, <2>5 DEF ObjectOK
<1>4. CASE SetInitialized(o)
  <2>1. pc'[o] = "open"
    BY <1>4 DEF SetInitialized, Goto, IInv, TypeOK
  <2>2. CallOK(o)' /\ MakerOK(o)' /\ WriterOK(o)'
    BY <1>1, <2>1 DEF CallOK, MakerOK, WriterOK, Creating, Preparing, Joining, Makes
  <2> QED BY <2>2 DEF ObjectOK
<1> QED BY <1>3, <1>4

\* An Open for writing goes on with a segment that is ready, and ends with one it may write.
LEMMA OpenMover ==
  ASSUME IInv, NEW o \in Objects, Lookup(o) \/ WaitInitialized(o) \/ CheckReadOnly(o)
  PROVE  ObjectOK(o)'
<1>1. call[o] \in Uses /\ (pc'[o] # "idle" => call'[o] = call[o])
  BY DEF Lookup, WaitInitialized, CheckReadOnly, Goto, IInv, TypeOK, ObjectOK, CallOK,
     Joining
<1>2. CASE Lookup(o)
  <2>1. pc'[o] \in {"idle", "attach"}
    BY <1>2 DEF Lookup, Goto, IInv, TypeOK
  <2>2. CallOK(o)' /\ MakerOK(o)' /\ WriterOK(o)'
    BY <1>1, <2>1 DEF CallOK, MakerOK, WriterOK, Creating, Preparing, Joining, Makes, Uses
  <2> QED BY <2>2 DEF ObjectOK
<1>3. CASE WaitInitialized(o)
  <2>1. /\ pc[o] = "wait" /\ pc'[o] \in {"wait", "check", "close"}
        /\ pc'[o] = "check" => "Initialized" \in flags[SegAddress[o]]
    BY <1>3 DEF WaitInitialized, Goto, IInv, TypeOK
  <2>2. SegAddress[o] \in Segments /\ SegAddress' = SegAddress /\ flags' = flags
    BY <1>3, <2>1 DEF WaitInitialized, kernel, IInv, ObjectOK, WriterOK
  <2>3. CallOK(o)' /\ MakerOK(o)'
    BY <1>1, <2>1 DEF CallOK, MakerOK, Creating, Preparing, Joining
  <2>4. WriterOK(o)'
    BY <2>1, <2>2 DEF WriterOK
  <2> QED BY <2>3, <2>4 DEF ObjectOK
<1>4. CASE CheckReadOnly(o)
  <2>1. /\ pc[o] = "check" /\ pc'[o] \in {"open", "close"}
        /\ pc'[o] = "open" => "ReadOnly" \notin flags[SegAddress[o]]
    BY <1>4 DEF CheckReadOnly, Goto, IInv, TypeOK
  <2>2. SegAddress' = SegAddress /\ granted' = granted
    BY <1>4 DEF CheckReadOnly, kernel, object
  <2>3. pc'[o] = "open" => granted[SegAddress[o]]
    BY <2>1 DEF IInv, ObjectOK, WriterOK, Flagged
  <2>4. WriterOK(o)'
    BY <2>1, <2>2, <2>3 DEF WriterOK
  <2>5. CallOK(o)' /\ MakerOK(o)'
    BY <2>1 DEF CallOK, MakerOK, Creating, Preparing, Joining
  <2> QED BY <2>4, <2>5 DEF ObjectOK
<1> QED BY <1>2, <1>3, <1>4

\* Every step leaves what it concerns true of its own object.
LEMMA StepMover ==
  ASSUME IInv, NEW o \in Objects, Step(o)
  PROVE  ObjectOK(o)'
<1>1. CASE CallCreate(o)
  <2>1. pc'[o] \in {"create"}
    BY <1>1 DEF CallCreate, Calls, IInv, TypeOK
  <2>2. call'[o] \in Makes
    BY <1>1 DEF CallCreate, Calls, IInv, TypeOK, Makes, Uses
  <2> QED BY <2>1, <2>2, QuietOK DEF Quiet, Creating
<1>2. CASE CreateFirst(o)
  BY <1>2, CreateMover DEF CreateFirst, Creating
<1>3. CASE RemoveFind(o)
  <2>1. pc'[o] \in {"idle", "stat"}
    BY <1>3 DEF RemoveFind, Goto, IInv, TypeOK
  <2>2. pc'[o] # "idle" => call'[o] \in Makes
    BY <1>3, <2>1 DEF RemoveFind, Goto, IInv, TypeOK, ObjectOK, CallOK, Creating
  <2> QED BY <2>1, <2>2, QuietOK DEF Quiet, Creating
<1>4. CASE RemoveStat(o)
  <2>1. pc'[o] \in {"idle", "rmid"}
    BY <1>4 DEF RemoveStat, Goto, IInv, TypeOK
  <2>2. pc'[o] # "idle" => call'[o] \in Makes
    BY <1>4, <2>1 DEF RemoveStat, Goto, IInv, TypeOK, ObjectOK, CallOK, Creating
  <2> QED BY <2>1, <2>2, QuietOK DEF Quiet, Creating
<1>5. CASE RemoveIt(o)
  <2>1. pc'[o] \in {"idle", "again"}
    BY <1>5 DEF RemoveIt, Goto, Exists, Remove, IInv, TypeOK
  <2>2. pc'[o] # "idle" => call'[o] \in Makes
    BY <1>5, <2>1 DEF RemoveIt, Goto, Exists, Remove, IInv, TypeOK, ObjectOK, CallOK,
       Creating
  <2> QED BY <2>1, <2>2, QuietOK DEF Quiet, Creating
<1>6. CASE CreateAgain(o)
  BY <1>6, CreateMover DEF CreateAgain, Creating
<1>7. CASE Attach(o)
  BY <1>7, AttachMover
<1>8. CASE SetReadOnly(o)
  BY <1>8, InitMover
<1>9. CASE SetInitialized(o)
  BY <1>9, InitMover
<1>10. CASE CallOpen(o)
  <2>1. pc'[o] \in {"lookup"}
    BY <1>10 DEF CallOpen, Calls, IInv, TypeOK
  <2>2. call'[o] \in Uses
    BY <1>10 DEF CallOpen, Calls, IInv, TypeOK, Makes, Uses
  <2> QED BY <2>1, <2>2, QuietOK DEF Quiet, Creating
<1>11. CASE Lookup(o)
  BY <1>11, OpenMover
<1>12. CASE WaitInitialized(o)
  BY <1>12, OpenMover
<1>13. CASE CheckReadOnly(o)
  BY <1>13, OpenMover
<1>14. CASE CallClose(o)
  <2>1. pc'[o] \in {"close"}
    BY <1>14 DEF CallClose, Goto, IInv, TypeOK
  <2> QED BY <2>1, QuietOK DEF Quiet, Creating
<1>15. CASE CloseRemove(o)
  <2>1. pc'[o] \in {"detach"}
    BY <1>15 DEF CloseRemove, Goto, Exists, Remove, IInv, TypeOK
  <2> QED BY <2>1, QuietOK DEF Quiet, Creating
<1>16. CASE CloseDetach(o)
  <2>1. pc'[o] \in {"idle"}
    BY <1>16 DEF CloseDetach, Goto, Detach, IInv, TypeOK
  <2> QED BY <2>1, QuietOK DEF Quiet, Creating
<1>17. CASE Crash(o)
  <2>1. pc'[o] \in {"idle"}
    BY <1>17 DEF Crash, Goto, Detach, IInv, TypeOK
  <2> QED BY <2>1, QuietOK DEF Quiet, Creating
<1> QED BY <1>1, <1>2, <1>3, <1>4, <1>5, <1>6, <1>7, <1>8, <1>9, <1>10, <1>11, <1>12,
<1>13, <1>14, <1>15, <1>16, <1>17 DEF Step

\* A step of o leaves the segments of other creators in their hands.
LEMMA OthersKept ==
  ASSUME IInv, NEW o \in Objects, Frame(o), NEW s \in Segments,
         ~crashed', life'[s] = "live", NEW p, p = creator'[s], p # o
  PROVE  Holds(p, s)'
<1>1. ~crashed /\ life[s] = "live" /\ creator[s] = p
  BY DEF Frame, IInv, TypeOK
<1>2. Holds(p, s)
  BY <1>1 DEF IInv, Kept
<1>3. /\ p \in Objects /\ pc'[p] = pc[p] /\ call'[p] = call[p]
      /\ iSegMem'[p] = iSegMem[p] /\ SegAddress'[p] = SegAddress[p]
  BY <1>1, <1>2 DEF Frame, Holds
<1> QED BY <1>1, <1>2, <1>3 DEF Holds

\* A new segment is in the hands of its creator.
LEMMA CreateKept ==
  ASSUME IInv, NEW o \in Objects, NEW from \in Creating, NEW otherwise, Create(o, from, otherwise),
         NEW s \in Segments, ~crashed', life'[s] = "live", creator'[s] = o
  PROVE  Holds(o, s)'
<1>1. pc[o] = from /\ crashed' = crashed
  BY DEF Create, Goto
<1>2. ~(life[s] = "live" /\ creator[s] = o)
  BY <1>1 DEF IInv, Kept, Holds, Creating, Preparing
<1>3. ~UNCHANGED <<kernel, object, crashed>>
  BY <1>2 DEF kernel
<1>4. PICK t \in Segments : /\ life' = [life EXCEPT ![t] = "live"]
                            /\ creator' = [creator EXCEPT ![t] = o]
                            /\ iSegMem' = [iSegMem EXCEPT ![o] = t]
  BY <1>3 DEF Create
<1>5. t = s
  BY <1>2, <1>4 DEF IInv, TypeOK
<1>6. iSegMem'[o] = s
  BY <1>4, <1>5 DEF IInv, TypeOK
<1>7. pc'[o] = "attach" /\ call'[o] = call[o]
  BY <1>3 DEF Create, Goto, IInv, TypeOK
<1>8. call[o] \in Makes
  BY <1>1 DEF IInv, ObjectOK, CallOK
<1> QED BY <1>6, <1>7, <1>8 DEF Holds

\* A step of o leaves its own segment in its hands until it is marked.
LEMMA OwnKept ==
  ASSUME IInv, NEW o \in Objects, Step(o), NEW s \in Segments,
         ~crashed', life'[s] = "live", creator'[s] = o
  PROVE  Holds(o, s)'
<1>1. CASE CallCreate(o)
  BY <1>1, SegmentAssumption DEF CallCreate, Calls, IInv, TypeOK, Kept, Holds, Creating,
     Preparing, Makes, kernel, object
<1>2. CASE CreateFirst(o)
  BY <1>2, CreateKept DEF CreateFirst, Creating
<1>3. CASE RemoveFind(o)
  BY <1>3, SegmentAssumption DEF RemoveFind, Goto, IInv, TypeOK, Kept, Holds, Creating,
     Preparing, Makes, kernel, object
<1>4. CASE RemoveStat(o)
  BY <1>4, SegmentAssumption DEF RemoveStat, Goto, IInv, TypeOK, Kept, Holds, Creating,
     Preparing, Makes, kernel, object
<1>5. CASE RemoveIt(o)
  <2>1. life[s] = "live" /\ creator[s] = o /\ ~crashed
    BY <1>5 DEF RemoveIt, Remove, IInv, TypeOK
  <2>2. Holds(o, s)
    BY <2>1 DEF IInv, Kept
  <2> QED BY <1>5, <2>2 DEF RemoveIt, Goto, Holds, Preparing
<1>6. CASE CreateAgain(o)
  BY <1>6, CreateKept DEF CreateAgain, Creating
<1>7. CASE Attach(o)
  <2>1. Holds(o, s) /\ life[s] = "live"
    BY <1>7 DEF Attach, Goto, IInv, Kept, kernel
  <2>2. SegAddress'[o] = s /\ iSegMem' = iSegMem
    BY <1>7, <2>1, SegmentAssumption DEF Attach, Exists, Holds, IInv, TypeOK
  <2>3. pc'[o] = "read only" /\ call'[o] = call[o]
    BY <1>7, <2>1 DEF Attach, Goto, Holds, Makes, IInv, TypeOK
  <2> QED BY <2>1, <2>2, <2>3 DEF Holds, Preparing
<1>8. CASE SetReadOnly(o)
  BY <1>8, SegmentAssumption DEF SetReadOnly, Goto, IInv, TypeOK, Kept, Holds, Creating,
     Preparing, Makes, kernel, object
<1>9. CASE SetInitialized(o)
  BY <1>9, SegmentAssumption DEF SetInitialized, Goto, IInv, TypeOK, Kept, Holds, Creating,
     Preparing, Makes, kernel, object
<1>10. CASE CallOpen(o)
  BY <1>10, SegmentAssumption DEF CallOpen, Calls, IInv, TypeOK, Kept, Holds, Creating,
     Preparing, Makes, kernel, object
<1>11. CASE Lookup(o)
  BY <1>11, SegmentAssumption DEF Lookup, Goto, IInv, TypeOK, Kept, Holds, Creating,
     Preparing, Makes, kernel, object
<1>12. CASE WaitInitialized(o)
  BY <1>12, SegmentAssumption DEF WaitInitialized, Goto, IInv, TypeOK, Kept, Holds,
     Creating, Preparing, Makes, kernel, object
<1>13. CASE CheckReadOnly(o)
  BY <1>13, SegmentAssumption DEF CheckReadOnly, Goto, IInv, TypeOK, Kept, Holds, Creating,
     Preparing, Makes, kernel, object
<1>14. CASE CallClose(o)
  BY <1>14, SegmentAssumption DEF CallClose, Goto, IInv, TypeOK, Kept, Holds, Creating,
     Preparing, Makes, kernel, object
<1>15. CASE CloseRemove(o)
  <2>1. life[s] = "live" /\ creator[s] = o /\ ~crashed
    BY <1>15 DEF CloseRemove, Remove, IInv, TypeOK
  <2>2. Holds(o, s)
    BY <2>1 DEF IInv, Kept
  <2>3. iSegMem[o] = s /\ Exists(s)
    BY <2>1, <2>2, SegmentAssumption DEF Holds, Exists
  <2>4. life'[s] # "live"
    BY <1>15, <2>3 DEF CloseRemove, Remove, IInv, TypeOK
  <2> QED BY <2>4
<1>16. CASE CloseDetach(o)
  BY <1>16, SegmentAssumption DEF CloseDetach, Goto, Detach, IInv, TypeOK, Kept, Holds,
     Creating, Preparing, Makes, kernel, object
<1>17. CASE Crash(o)
  BY <1>17, SegmentAssumption DEF Crash, Goto, Detach, IInv, TypeOK, Kept, Holds, Creating,
     Preparing, Makes, kernel, object
<1> QED BY <1>1, <1>2, <1>3, <1>4, <1>5, <1>6, <1>7, <1>8, <1>9, <1>10, <1>11, <1>12,
<1>13, <1>14, <1>15, <1>16, <1>17 DEF Step

\* Every step keeps the inductive invariant.
LEMMA StepOK ==
  ASSUME IInv, NEW o \in Objects, Step(o)
  PROVE  IInv'
<1>1. TypeOK' /\ Frame(o)
  BY StepTypes, StepFrame DEF IInv
<1>2. Fresh' /\ Flagged'
  BY StepFresh, StepFlagged
<1>3. Kept'
  <2> SUFFICES ASSUME ~crashed', NEW s \in Segments, life'[s] = "live"
               PROVE  Holds(creator[s], s)'
    BY DEF Kept
  <2>1. CASE creator'[s] = o
    <3>1. Holds(o, s)'
      BY <2>1, OwnKept
    <3> QED BY <2>1, <3>1 DEF Holds
  <2>2. CASE creator'[s] # o
    <3>1. PICK p : p = creator'[s]
      OBVIOUS
    <3>2. Holds(p, s)'
      BY <1>1, <2>2, <3>1, OthersKept
    <3> QED BY <3>1, <3>2 DEF Holds
  <2> QED BY <2>1, <2>2
<1>4. \A p \in Objects : ObjectOK(p)'
  BY <1>1, OthersOK, StepMover
<1> QED BY <1>1, <1>2, <1>3, <1>4 DEF IInv

(* The type of the variables and the inductive invariant of the segment, for    *)
(* every number of processes and segments.                                      *)
THEOREM Invariance == Spec => []IInv
<1>1. IInv /\ [Next]_vars => IInv'
  <2> SUFFICES ASSUME IInv, [Next]_vars PROVE IInv'
    OBVIOUS
  <2>1. CASE Next
    BY <2>1, StepOK DEF Next
  <2>2. CASE UNCHANGED vars
    BY <2>2 DEF vars, kernel, object, IInv, TypeOK, Fresh, Flagged, Kept, Holds, ObjectOK,
       CallOK,
       MakerOK, WriterOK
  <2> QED BY <2>1, <2>2
<1> QED BY <1>1, InitOK, PTL DEF Spec

(* Write access: no interleaving of the stores of the flags, of the looks at     *)
(* them, of removals and of crashes gives it where the creator did not.          *)
THEOREM AccessIsAlwaysGranted == Spec => []AccessIsGranted
<1>1. IInv => AccessIsGranted
  BY DEF IInv, ObjectOK, WriterOK, AccessIsGranted
<1> QED BY <1>1, Invariance, PTL

(* Without a crash a segment that is not marked for removal has its creator to   *)
(* mark it.                                                                      *)
THEOREM NoSegmentStaysBehind == Spec => []NoOrphanSegment
<1>1. IInv => NoOrphanSegment
  BY DEF IInv, Kept, Holds, NoOrphanSegment
<1> QED BY <1>1, Invariance, PTL
===============================================================================
