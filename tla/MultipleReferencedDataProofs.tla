---------------------- MODULE MultipleReferencedDataProofs ----------------------
(***************************************************************************)
(* Proofs about MultipleReferencedData for any number of threads and       *)
(* handles. The inductive invariant says which handles the count accounts  *)
(* for: those at rest, and those pinned by a call, and that no two calls   *)
(* share a handle. From this follows what ReleaseData relies on: a thread  *)
(* that finds the count at 0 under the mutex is alone with the object.     *)
(***************************************************************************)
EXTENDS MultipleReferencedData, FiniteSetTheorems, TLAPS

(* A call still owes the object the reference of its target: AddRef has    *)
(* counted it, RemoveRef and ReleaseData have not yet given it up.         *)
Owes(t) ==
  \/ op[t] = "AddRef" /\ pc[t] = "unlock"
  \/ op[t] \in {"RemoveRef", "ReleaseData"} /\ pc[t] \in {"lock", "read", "write"}

Pins(t, h) ==
  /\ ~Idle(t) /\ h # NoHandle
  /\ h = source[t] \/ (h = target[t] /\ Owes(t))

(* A call made through no counted handle. *)
Keeper(t) ==
  /\ ~Idle(t) /\ source[t] = NoHandle
  /\ op[t] \notin {"RemoveRef", "ReleaseData"} \/ target[t] = NoHandle

Shape ==
  \A t \in Threads : ~Idle(t) =>
    /\ op[t] = "AddRef" => target[t] # NoHandle /\ target[t] # source[t]
    /\ op[t] \in {"RemoveRef", "ReleaseData", "Init"} => source[t] = NoHandle
    /\ op[t] \in {"IsStillUseful", "Init"} => target[t] = NoHandle
    /\ op[t] = "RemoveRef" => target[t] # NoHandle
    /\ pc[t] \in {"test", "unlockLast", "delete"} => op[t] = "ReleaseData"
    /\ pc[t] = "write" => op[t] # "IsStillUseful"

MutexHeld ==
  /\ mutex = FreeMutex \/ \E t \in Threads : mutex = [owner |-> t, depth |-> 1]
  /\ \A t \in Threads : pc[t] \in Inside <=> mutex.owner = t

CountRead ==
  \A t \in Threads : pc[t] = "write" /\ op[t] # "Init" => tmp[t] = NbCurrentRef

Accounted ==
  /\ held \subseteq counted
  /\ \A t \in Threads, h \in Handles : Pins(t, h) => h \in counted
  /\ \A h \in counted : h \in held \/ \E t \in Threads : Pins(t, h)

Apart ==
  \A t \in Threads : ~Idle(t) =>
    /\ source[t] \notin held /\ target[t] \notin held
    /\ \A u \in Threads \ {t} : ~Idle(u) =>
         {source[t], target[t]} \cap {source[u], target[u]} \subseteq {NoHandle}

Alone(t) == held = {} /\ \A u \in Threads \ {t} : Idle(u)

KeeperAlone == \A t \in Threads : Keeper(t) => Alone(t)

LastAlone ==
  \A t \in Threads : pc[t] \in {"unlockLast", "delete"} => counted = {} /\ Alone(t)

Gone == ~alive => held = {} /\ \A t \in Threads : Idle(t)

Kept ==
  alive /\ counted = {} /\ ~kept
    => \E t \in Threads : pc[t] \in {"test", "unlockLast", "delete"}

IInv ==
  /\ TypeOK /\ CountIsExact /\ Shape /\ MutexHeld /\ CountRead
  /\ Accounted /\ Apart /\ KeeperAlone /\ LastAlone /\ Gone /\ Kept

-------------------------------------------------------------------------------
(* The constructor establishes the invariant. *)
LEMMA IInvInit == Init => IInv
<1> SUFFICES ASSUME Init PROVE IInv
  OBVIOUS
<1> USE DEF Init, Idle
<1>1. TypeOK
  BY NoThreadAssumption DEF TypeOK, MutexType, FreeMutex, Ops
<1>2. CountIsExact
  BY FS_EmptySet DEF CountIsExact
<1>3. Shape /\ CountRead /\ Apart /\ KeeperAlone /\ LastAlone /\ Gone /\ Kept
  BY DEF Shape, CountRead, Apart, KeeperAlone, Keeper, LastAlone, Gone, Kept
<1>4. MutexHeld
  BY NoThreadAssumption DEF MutexHeld, FreeMutex, Inside
<1>5. Accounted
  BY DEF Accounted, Pins
<1> QED
  BY <1>1, <1>2, <1>3, <1>4, <1>5 DEF IInv

(* Every call starts by leaving held, through a handle at rest or by the   *)
(* keeper of an unreferenced object.                                       *)
LEMMA CallKeeps ==
  ASSUME NEW t \in Threads, NEW what \in Ops,
         NEW g \in Handles \cup {NoHandle}, NEW h \in Handles \cup {NoHandle},
         IInv, Call(t, what, g, h),
         g # NoHandle => g \in held,
         what = "AddRef" => h # NoHandle /\ h # g /\ h \notin held /\ ~InUse(h),
         what # "AddRef" /\ h # NoHandle => h \in held,
         what \in {"RemoveRef", "ReleaseData", "Init"} => g = NoHandle,
         what \in {"IsStillUseful", "Init"} => h = NoHandle,
         what = "RemoveRef" => h # NoHandle,
         g = NoHandle /\ (what \notin {"RemoveRef", "ReleaseData"} \/ h = NoHandle)
           => Unreferenced
  PROVE  IInv'
<1> USE DEF IInv, Call, Goto, Idle, object
<1>1. TypeOK'
  BY DEF TypeOK
<1>2. CountIsExact'
  BY DEF CountIsExact
<1>3. \A u \in Threads : u # t =>
        pc'[u] = pc[u] /\ op'[u] = op[u] /\ source'[u] = source[u] /\ target'[u] = target[u]
  BY DEF TypeOK
<1>4. pc'[t] = "lock" /\ op'[t] = what /\ source'[t] = g /\ target'[t] = h
  BY DEF TypeOK
<1>5. held' = held \ {g, h}
  OBVIOUS
<1>6. Shape'
  BY <1>3, <1>4 DEF Shape
<1>7. MutexHeld'
  BY <1>3, <1>4 DEF MutexHeld, Inside
<1>8. CountRead'
  BY <1>3, <1>4 DEF CountRead
<1>9. \A u \in Threads, k \in Handles : u # t => (Pins(u, k)' <=> Pins(u, k))
  BY <1>3 DEF Pins, Owes
<1>10. \A k \in Handles : Pins(t, k)' <=> k = g \/ (k = h /\ what \in {"RemoveRef", "ReleaseData"})
  BY <1>4, HandlesAssumption DEF Pins, Owes
<1>11. \A k \in Handles : ~Pins(t, k)
  BY DEF Pins
<1>12. Accounted'
  <2>1. held' \subseteq counted'
    BY <1>5 DEF Accounted
  <2>2. ASSUME NEW u \in Threads, NEW k \in Handles, Pins(u, k)' PROVE k \in counted'
    BY <1>9, <1>10, <2>2, HandlesAssumption DEF Accounted, Ops
  <2>3. ASSUME NEW k \in counted' PROVE k \in held' \/ \E u \in Threads : Pins(u, k)'
    <3>1. k \in Handles /\ k \in counted
      BY DEF TypeOK
    <3>2. CASE k \in held
      <4>1. CASE k \notin {g, h}
        BY <3>2, <4>1, <1>5
      <4>2. ASSUME k \in {g, h} PROVE Pins(t, k)'
        <5>1. k = h /\ k # g => what # "AddRef" /\ h # NoHandle
          BY <3>1, <3>2, HandlesAssumption
        <5>2. k = h /\ k # g => what \in {"RemoveRef", "ReleaseData"}
          BY <5>1 DEF Ops
        <5> QED BY <3>1, <4>2, <5>2, <1>10
      <4> QED BY <4>1, <4>2
    <3>3. CASE k \notin held
      BY <3>1, <3>3, <1>9, <1>11 DEF Accounted
    <3> QED BY <3>2, <3>3
  <2> QED BY <2>1, <2>2, <2>3 DEF Accounted
<1>13. Apart'
  <2>1. ASSUME NEW u \in Threads, u # t, ~Idle(u)
        PROVE  {source[u], target[u]} \cap {g, h} \subseteq {NoHandle}
    <3>1. g # NoHandle => g \notin {source[u], target[u]}
      BY <2>1 DEF Apart
    <3>2. h # NoHandle => h \notin {source[u], target[u]}
      BY <2>1 DEF Apart, InUse
    <3> QED BY <3>1, <3>2
  <2>2. ASSUME NEW u \in Threads, u # t, ~Idle(u)
        PROVE  source'[u] \notin held' /\ target'[u] \notin held'
    BY <2>2, <1>3, <1>5 DEF Apart
  <2>3. source'[t] \notin held' /\ target'[t] \notin held'
    BY <1>4, <1>5
  <2>4. ASSUME NEW u \in Threads, NEW v \in Threads \ {u}, Idle(u)' = FALSE, Idle(v)' = FALSE
        PROVE  {source'[u], target'[u]} \cap {source'[v], target'[v]} \subseteq {NoHandle}
    <3>1. CASE u = t
      BY <3>1, <2>4, <2>1, <1>3, <1>4
    <3>2. CASE v = t
      BY <3>2, <2>4, <2>1, <1>3, <1>4
    <3>3. CASE u # t /\ v # t
      BY <3>3, <2>4, <1>3 DEF Apart
    <3> QED BY <3>1, <3>2, <3>3
  <2> QED BY <2>2, <2>3, <2>4, <1>3 DEF Apart
<1>14. ASSUME NEW u \in Threads, u # t, ~Idle(u) PROVE ~Keeper(u) /\ ~Unreferenced
  <2>1. ~Unreferenced
    BY <1>14 DEF Unreferenced
  <2>2. held # {}
    BY <2>1
  <2> QED BY <1>14, <2>1, <2>2 DEF KeeperAlone, Alone
<1>15. KeeperAlone'
  <2>1. ASSUME NEW u \in Threads, Keeper(u)' PROVE u = t
    BY <2>1, <1>3, <1>14 DEF Keeper
  <2>2. ASSUME Keeper(t)' PROVE Alone(t)'
    <3>1. Unreferenced
      BY <2>2, <1>4 DEF Keeper
    <3> QED BY <3>1, <1>3, <1>5 DEF Unreferenced, Alone
  <2> QED BY <2>1, <2>2 DEF KeeperAlone
<1>16. LastAlone'
  <2>1. ASSUME NEW u \in Threads, pc'[u] \in {"unlockLast", "delete"} PROVE FALSE
    <3>1. u # t /\ ~Idle(u) /\ pc[u] \in {"unlockLast", "delete"}
      BY <2>1, <1>3, <1>4
    <3>2. held = {}
      BY <3>1 DEF LastAlone, Alone
    <3> QED BY <3>1, <3>2, <1>14
  <2> QED BY <2>1 DEF LastAlone
<1>17. alive
  BY DEF Gone, Unreferenced
<1>18. Gone'
  BY <1>17 DEF Gone
<1>19. Kept'
  <2>1. SUFFICES ASSUME counted = {}, ~kept
                 PROVE  \E u \in Threads : pc'[u] \in {"test", "unlockLast", "delete"}
    BY DEF Kept
  <2>2. PICK u \in Threads : pc[u] \in {"test", "unlockLast", "delete"}
    BY <2>1, <1>17 DEF Kept
  <2> QED BY <2>2, <1>3
<1> QED
  BY <1>1, <1>2, <1>6, <1>7, <1>8, <1>12, <1>13, <1>15, <1>16, <1>18, <1>19

(* What a step inside the locked part leaves alone, and what it may rely   *)
(* on: no other thread is inside.                                          *)
LEMMA Inside_Only ==
  ASSUME IInv, NEW t \in Threads, pc[t] \in Inside
  PROVE  /\ mutex = [owner |-> t, depth |-> 1]
         /\ \A u \in Threads : u # t => pc[u] \notin Inside
         /\ ~Idle(t) /\ alive
BY NoThreadAssumption DEF IInv, MutexHeld, FreeMutex, Inside, Idle, Gone

(* A step that moves t along without touching the handles or the count     *)
(* keeps what the invariant says of them, as long as t owes the same       *)
(* reference after it as before.                                           *)
LEMMA Quiet ==
  ASSUME IInv, NEW t \in Threads, NEW label \in {"read", "write", "test", "unlock", "unlockLast", "delete"},
         ~Idle(t), Goto(t, label),
         UNCHANGED <<NbCurrentRef, alive, held, locals, counted, kept>>,
         \A h \in Handles : Pins(t, h)' <=> Pins(t, h)
  PROVE  CountIsExact' /\ Accounted' /\ Apart' /\ KeeperAlone' /\ Gone'
<1> USE DEF IInv, Goto, locals, Idle
<1>1. /\ pc'[t] = label
      /\ \A u \in Threads : u # t => pc'[u] = pc[u]
  BY DEF TypeOK
<1>2. \A u \in Threads : Idle(u)' <=> Idle(u)
  BY <1>1
<1>3. CountIsExact'
  BY DEF CountIsExact
<1>4. \A u \in Threads, h \in Handles : Pins(u, h)' <=> Pins(u, h)
  BY <1>1 DEF Pins, Owes
<1>5. Accounted'
  <2>1. counted \subseteq Handles
    BY DEF TypeOK
  <2> QED BY <2>1, <1>4 DEF Accounted
<1>6. Apart'
  BY <1>2 DEF Apart
<1>7. KeeperAlone'
  BY <1>2 DEF KeeperAlone, Keeper, Alone
<1>8. Gone'
  BY <1>2 DEF Gone
<1> QED BY <1>3, <1>5, <1>6, <1>7, <1>8

(* Taking the mutex. *)
LEMMA LockKeeps ==
  ASSUME IInv, NEW t \in Threads, Lock(t)
  PROVE  IInv'
<1> USE DEF IInv, Lock, Goto, locals, Idle
<1>1. /\ pc'[t] \in {"read", "write"} /\ (pc'[t] = "write" <=> op[t] = "Init")
      /\ \A u \in Threads : u # t => pc'[u] = pc[u]
  BY DEF TypeOK
<1>2. mutex = FreeMutex
  BY NoThreadAssumption DEF MutexHeld, TryLock, Inside
<1>3. mutex' = [owner |-> t, depth |-> 1]
  BY <1>2 DEF Locked, FreeMutex
<1>4. TypeOK'
  BY <1>3 DEF TypeOK, MutexType, Inside
<1>5. \A h \in Handles : Pins(t, h)' <=> Pins(t, h)
  BY <1>1 DEF Pins, Owes
<1>6. CountIsExact' /\ Accounted' /\ Apart' /\ KeeperAlone' /\ Gone'
  BY <1>5, Quiet
<1>7. Shape'
  BY <1>1 DEF Shape
<1>8. MutexHeld'
  <2>1. \A u \in Threads : pc[u] \notin Inside
    BY <1>2, NoThreadAssumption DEF MutexHeld, FreeMutex
  <2> QED BY <2>1, <1>1, <1>3 DEF MutexHeld, Inside
<1>9. CountRead'
  BY <1>1 DEF CountRead
<1>10. LastAlone'
  BY <1>1 DEF LastAlone, Alone
<1>11. Kept'
  BY <1>1 DEF Kept
<1> QED BY <1>4, <1>6, <1>7, <1>8, <1>9, <1>10, <1>11

(* Reading the count under the mutex. *)
LEMMA ReadKeeps ==
  ASSUME IInv, NEW t \in Threads, Read(t)
  PROVE  IInv'
<1> USE DEF IInv, Read, Goto, locals, object, Idle
<1>1. /\ pc'[t] \in {"unlock", "write"} /\ (pc'[t] = "unlock" <=> op[t] = "IsStillUseful")
      /\ \A u \in Threads : u # t => pc'[u] = pc[u] /\ tmp'[u] = tmp[u]
      /\ tmp'[t] = NbCurrentRef
  BY DEF TypeOK
<1>2. TypeOK'
  BY DEF TypeOK, Inside
<1>3. \A h \in Handles : Pins(t, h)' <=> Pins(t, h)
  BY <1>1 DEF Pins, Owes
<1>4. CountIsExact' /\ Accounted' /\ Apart' /\ KeeperAlone' /\ Gone'
  BY <1>3, Quiet
<1>5. Shape'
  BY <1>1 DEF Shape
<1>6. MutexHeld'
  BY <1>1 DEF MutexHeld, Inside
<1>7. CountRead'
  BY <1>1 DEF CountRead
<1>8. LastAlone'
  BY <1>1 DEF LastAlone, Alone
<1>9. Kept'
  BY <1>1 DEF Kept
<1> QED BY <1>2, <1>4, <1>5, <1>6, <1>7, <1>8, <1>9

(* The keeper of an object finds nothing counted. *)
LEMMA KeeperFindsNothing ==
  ASSUME IInv, NEW t \in Threads, Keeper(t), pc[t] # "unlock"
  PROVE  counted = {}
<1> USE DEF IInv, Idle
<1>1. Alone(t)
  BY DEF KeeperAlone
<1>2. \A h \in Handles : ~Pins(t, h)
  BY DEF Keeper, Pins, Owes
<1>3. \A u \in Threads, h \in Handles : ~Pins(u, h)
  BY <1>1, <1>2 DEF Alone, Pins
<1> QED BY <1>1, <1>3 DEF Accounted, Alone, TypeOK

(* Nothing but t's own call can pin its target, and it is not at rest. *)
LEMMA TargetIsMine ==
  ASSUME IInv, NEW t \in Threads, ~Idle(t), target[t] # NoHandle
  PROVE  /\ target[t] \in Handles /\ target[t] \notin held
         /\ \A u \in Threads : u # t => ~Pins(u, target[t])
<1> USE DEF IInv
<1>1. target[t] \in Handles /\ target[t] \notin held
  BY DEF Apart, TypeOK
<1>2. ASSUME NEW u \in Threads, u # t, Pins(u, target[t]) PROVE FALSE
  <2>1. ~Idle(u) /\ target[t] \in {source[u], target[u]}
    BY <1>2 DEF Pins
  <2>2. {source[t], target[t]} \cap {source[u], target[u]} \subseteq {NoHandle}
    BY <1>2, <2>1 DEF Apart
  <2> QED BY <2>1, <2>2
<1> QED BY <1>1, <1>2

(* The count changed under the mutex by the one call that holds it. *)
LEMMA WriteKeeps ==
  ASSUME IInv, NEW t \in Threads, Write(t)
  PROVE  IInv'
<1> USE DEF IInv, Write, Goto, locals, Idle
<1> DEFINE h == target[t]
<1>0. pc[t] = "write" /\ pc[t] \in Inside /\ ~Idle(t) /\ op[t] \in Ops
  BY DEF TypeOK, Inside
<1>1. /\ pc'[t] = IF op[t] = "ReleaseData" THEN "test" ELSE "unlock"
      /\ \A u \in Threads : u # t => pc'[u] = pc[u]
  BY DEF TypeOK
<1>2. counted \subseteq Handles /\ IsFiniteSet(counted) /\ Cardinality(counted) = NbCurrentRef
  BY HandlesAssumption, FS_Subset DEF TypeOK, CountIsExact
<1>3. op[t] # "IsStillUseful"
  BY <1>0 DEF Shape
<1>4. op[t] # "Init" => tmp[t] = NbCurrentRef
  BY <1>0 DEF CountRead
<1>5. /\ CountIsExact' /\ Accounted' /\ Kept'
      /\ counted' \subseteq Handles /\ kept' \in BOOLEAN
  <2>1. CASE op[t] = "AddRef"
    <3>1. h # NoHandle /\ h # source[t]
      BY <1>0, <2>1 DEF Shape
    <3>2. h \in Handles /\ h \notin held /\ \A u \in Threads : u # t => ~Pins(u, h)
      BY <1>0, <3>1, TargetIsMine
    <3>3. ~Pins(t, h)
      BY <1>0, <2>1, <3>1 DEF Pins, Owes
    <3>4. h \notin counted
      BY <3>2, <3>3 DEF Accounted
    <3>5. counted' = counted \cup {h} /\ NbCurrentRef' = NbCurrentRef + 1 /\ kept' = FALSE
      BY <1>4, <2>1 DEF NewCount
    <3>6. CountIsExact'
      BY <1>2, <3>4, <3>5, FS_AddElement DEF CountIsExact
    <3>7. \A u \in Threads, k \in Handles : Pins(u, k)' <=> (Pins(u, k) \/ (u = t /\ k = h))
      BY <1>0, <1>1, <2>1, <3>1 DEF Pins, Owes
    <3>8. Accounted'
      BY <1>2, <3>2, <3>5, <3>7 DEF Accounted
    <3>9. Kept'
      BY <3>5 DEF Kept
    <3> QED BY <1>2, <3>2, <3>5, <3>6, <3>8, <3>9
  <2>2. CASE op[t] \in {"RemoveRef", "ReleaseData"} /\ h # NoHandle
    <3>1. h \in Handles /\ h \notin held /\ \A u \in Threads : u # t => ~Pins(u, h)
      BY <1>0, <2>2, TargetIsMine
    <3>2. Pins(t, h)
      BY <1>0, <2>2 DEF Pins, Owes
    <3>3. h \in counted
      BY <3>1, <3>2 DEF Accounted
    <3>4. Cardinality(counted \ {h}) = NbCurrentRef - 1 /\ Cardinality(counted \ {h}) \in Nat
      BY <1>2, <3>3, FS_RemoveElement, FS_CardinalityType
    <3>5. NbCurrentRef > 0 /\ NbCurrentRef \in Nat
      BY <3>4 DEF TypeOK
    <3>6. NbCurrentRef' = NbCurrentRef - 1
      BY <1>4, <2>2, <3>5 DEF NewCount
    <3>7. counted' = counted \ {h}
      BY <2>2
    <3>8. CountIsExact'
      BY <3>4, <3>6, <3>7 DEF CountIsExact
    <3>9. source[t] = NoHandle
      BY <1>0, <2>2 DEF Shape
    <3>10. \A k \in Handles : Pins(t, k) => k = h
      BY <3>9 DEF Pins
    <3>11. \A k \in Handles : ~Pins(t, k)'
      BY <1>0, <1>1, <2>2, <3>9 DEF Pins, Owes
    <3>12. \A u \in Threads, k \in Handles : u # t => (Pins(u, k)' <=> Pins(u, k))
      BY <1>1 DEF Pins, Owes
    <3>13. Accounted'
      <4>1. held' \subseteq counted'
        BY <3>1, <3>7 DEF Accounted
      <4>2. ASSUME NEW u \in Threads, NEW k \in Handles, Pins(u, k)' PROVE k \in counted'
        BY <4>2, <3>1, <3>7, <3>11, <3>12 DEF Accounted
      <4>3. ASSUME NEW k \in counted' PROVE k \in held' \/ \E u \in Threads : Pins(u, k)'
        <5>1. k \in counted /\ k # h /\ k \in Handles
          BY <3>7, <1>2
        <5> QED BY <5>1, <3>10, <3>12 DEF Accounted
      <4> QED BY <4>1, <4>2, <4>3 DEF Accounted
    <3>14. Kept'
      BY <1>1, <2>2 DEF Kept
    <3> QED BY <1>2, <3>7, <3>8, <3>13, <3>14 DEF TypeOK
  <2>3. CASE op[t] = "Init" \/ (op[t] = "ReleaseData" /\ h = NoHandle)
    <3>1. source[t] = NoHandle /\ h = NoHandle
      BY <1>0, <2>3 DEF Shape
    <3>2. Keeper(t)
      BY <1>0, <2>3, <3>1 DEF Keeper
    <3>3. counted = {}
      BY <1>0, <3>2, KeeperFindsNothing
    <3>4. NbCurrentRef = 0
      BY <1>2, <3>3, FS_EmptySet
    <3>5. counted' = {} /\ NbCurrentRef' = 0
      BY <1>4, <2>3, <3>3, <3>4 DEF NewCount
    <3>6. CountIsExact'
      BY <3>5, FS_EmptySet DEF CountIsExact
    <3>7. Alone(t)
      BY <3>2 DEF KeeperAlone
    <3>8. \A u \in Threads, k \in Handles : ~Pins(u, k)'
      BY <1>1, <2>3, <3>1, <3>7 DEF Alone, Pins, Owes
    <3>9. Accounted'
      BY <3>5, <3>7, <3>8 DEF Accounted, Alone
    <3>10. Kept'
      BY <1>1, <2>3 DEF Kept
    <3> QED BY <2>3, <3>5, <3>6, <3>9, <3>10 DEF TypeOK
  <2>4. op[t] = "RemoveRef" => h # NoHandle
    BY <1>0 DEF Shape
  <2>5. \/ op[t] = "AddRef" \/ (op[t] \in {"RemoveRef", "ReleaseData"} /\ h # NoHandle)
        \/ op[t] = "Init" \/ (op[t] = "ReleaseData" /\ h = NoHandle)
    BY <1>0, <1>3, <2>4 DEF Ops
  <2> HIDE DEF IInv, Write, Goto, locals, Idle, h
  <2> QED BY <2>1, <2>2, <2>3, <2>5
<1>6. TypeOK'
  <2>1. NbCurrentRef' \in Nat
    BY <1>0, <1>4 DEF NewCount, TypeOK
  <2> QED BY <1>5, <2>1 DEF TypeOK, Inside
<1>7. Shape'
  BY <1>1 DEF Shape
<1>8. MutexHeld'
  BY <1>0, <1>1 DEF MutexHeld, Inside
<1>9. CountRead'
  <2>1. \A u \in Threads : u # t => pc[u] \notin Inside
    BY <1>0, Inside_Only
  <2> QED BY <1>1, <2>1 DEF CountRead, Inside
<1>10. \A u \in Threads : Idle(u)' <=> Idle(u)
  BY <1>0, <1>1
<1>11. Apart'
  BY <1>10 DEF Apart
<1>12. KeeperAlone'
  BY <1>10 DEF KeeperAlone, Keeper, Alone
<1>13. LastAlone'
  BY <1>0, <1>1 DEF LastAlone, Alone
<1>14. Gone'
  BY <1>10 DEF Gone
<1> QED BY <1>5, <1>6, <1>7, <1>8, <1>9, <1>11, <1>12, <1>13, <1>14

(* ReleaseData finds the count at 0 only when it is alone with the object. *)
LEMMA TestKeeps ==
  ASSUME IInv, NEW t \in Threads, Test(t)
  PROVE  IInv'
<1> USE DEF IInv, Test, Goto, locals, object, Idle
<1>0. /\ pc[t] = "test" /\ pc[t] \in Inside /\ ~Idle(t)
      /\ op[t] = "ReleaseData" /\ source[t] = NoHandle
  BY DEF Shape, Inside
<1>1. /\ pc'[t] = IF NbCurrentRef > 0 THEN "unlock" ELSE "unlockLast"
      /\ \A u \in Threads : u # t => pc'[u] = pc[u]
  BY DEF TypeOK
<1>2. TypeOK'
  BY DEF TypeOK, Inside
<1>3. \A h \in Handles : Pins(t, h)' <=> Pins(t, h)
  BY <1>0, <1>1 DEF Pins, Owes
<1>4. CountIsExact' /\ Accounted' /\ Apart' /\ KeeperAlone' /\ Gone'
  BY <1>0, <1>3, Quiet
<1>5. Shape'
  BY <1>0, <1>1 DEF Shape
<1>6. MutexHeld'
  BY <1>0, <1>1 DEF MutexHeld, Inside
<1>7. CountRead'
  BY <1>1 DEF CountRead
<1>8. NbCurrentRef > 0 <=> counted # {}
  BY HandlesAssumption, FS_EmptySet, FS_Subset, FS_CardinalityType DEF CountIsExact, TypeOK
<1>9. counted = {} => Alone(t)
  <2>1. SUFFICES ASSUME counted = {}, NEW u \in Threads, u # t, ~Idle(u) PROVE FALSE
    BY DEF Alone, Accounted
  <2>2. pc[u] \notin Inside
    BY <1>0, <2>1, Inside_Only
  <2>3. pc[u] \notin {"unlockLast", "delete"}
    BY <1>0, <2>1 DEF LastAlone, Alone
  <2>4. pc[u] = "lock"
    BY <2>1, <2>2, <2>3 DEF TypeOK
  <2>5. \A h \in Handles : ~Pins(u, h)
    BY <2>1 DEF Accounted
  <2>6. source[u] = NoHandle
    BY <2>1, <2>5 DEF Pins, TypeOK
  <2>7. op[u] \in {"RemoveRef", "ReleaseData"} => target[u] = NoHandle
    BY <2>1, <2>4, <2>5 DEF Pins, Owes, TypeOK
  <2>8. Keeper(u)
    BY <2>1, <2>6, <2>7 DEF Keeper
  <2> QED BY <1>0, <2>1, <2>8 DEF KeeperAlone, Alone
<1>10. LastAlone'
  BY <1>0, <1>1, <1>8, <1>9 DEF LastAlone, Alone
<1>11. Kept'
  BY <1>1, <1>8 DEF Kept
<1> QED BY <1>2, <1>4, <1>5, <1>6, <1>7, <1>10, <1>11

(* The call ends, and its handles are at rest. *)
LEMMA UnlockKeeps ==
  ASSUME IInv, NEW t \in Threads, Unlock(t)
  PROVE  IInv'
<1> USE DEF IInv, Unlock, Goto, locals, Idle
<1>0. /\ pc[t] = "unlock" /\ pc[t] \in Inside /\ ~Idle(t) /\ alive
      /\ mutex = [owner |-> t, depth |-> 1]
  BY Inside_Only DEF Inside
<1>1. /\ pc'[t] = "idle"
      /\ \A u \in Threads : u # t => pc'[u] = pc[u]
  BY DEF TypeOK
<1>2. mutex' = FreeMutex
  BY <1>0 DEF Unlocked
<1>3. \A h \in Handles : h \in held' <=> h \in held \/ Pins(t, h)
  BY <1>0, HandlesAssumption DEF Pins, Owes, Shape, TypeOK
<1>4. held' \subseteq Handles
  BY <1>0 DEF Shape, TypeOK
<1>5. TypeOK'
  BY <1>2, <1>4 DEF TypeOK, MutexType, FreeMutex
<1>6. CountIsExact'
  BY DEF CountIsExact
<1>7. Shape'
  BY <1>1 DEF Shape
<1>8. MutexHeld'
  BY <1>0, <1>1, <1>2, NoThreadAssumption DEF MutexHeld, FreeMutex, Inside
<1>9. CountRead'
  BY <1>1 DEF CountRead
<1>10. /\ \A h \in Handles : ~Pins(t, h)'
       /\ \A u \in Threads, h \in Handles : u # t => (Pins(u, h)' <=> Pins(u, h))
  BY <1>1 DEF Pins, Owes
<1>11. Accounted'
  BY <1>3, <1>4, <1>10 DEF Accounted, TypeOK
<1>12. Apart'
  <2>1. ASSUME NEW u \in Threads, u # t, ~Idle(u)
        PROVE  source[u] \notin held' /\ target[u] \notin held'
    <3>1. {source[t], target[t]} \cap {source[u], target[u]} \subseteq {NoHandle}
      BY <1>0, <2>1 DEF Apart
    <3>2. op[t] = "AddRef" => target[t] # NoHandle
      BY <1>0 DEF Shape
    <3>3. source[u] \notin held /\ target[u] \notin held
      BY <2>1 DEF Apart
    <3> QED BY <3>1, <3>2, <3>3
  <2> QED BY <1>1, <2>1 DEF Apart
<1>13. KeeperAlone'
  BY <1>0, <1>1 DEF KeeperAlone, Keeper, Alone
<1>14. LastAlone'
  BY <1>0, <1>1 DEF LastAlone, Alone
<1>15. Gone'
  BY <1>0 DEF Gone
<1>16. Kept'
  BY <1>0, <1>1 DEF Kept
<1> QED BY <1>5, <1>6, <1>7, <1>8, <1>9, <1>11, <1>12, <1>13, <1>14, <1>15, <1>16

(* The last owner gives the mutex back before it deletes the object. *)
LEMMA UnlockLastKeeps ==
  ASSUME IInv, NEW t \in Threads, UnlockLast(t)
  PROVE  IInv'
<1> USE DEF IInv, UnlockLast, Goto, locals, Idle
<1>0. /\ pc[t] = "unlockLast" /\ pc[t] \in Inside /\ ~Idle(t)
      /\ mutex = [owner |-> t, depth |-> 1]
  BY Inside_Only DEF Inside
<1>1. /\ pc'[t] = "delete"
      /\ \A u \in Threads : u # t => pc'[u] = pc[u]
  BY DEF TypeOK
<1>2. mutex' = FreeMutex
  BY <1>0 DEF Unlocked
<1>3. TypeOK'
  BY <1>2 DEF TypeOK, MutexType, FreeMutex
<1>4. \A h \in Handles : Pins(t, h)' <=> Pins(t, h)
  BY <1>0, <1>1 DEF Pins, Owes
<1>5. CountIsExact' /\ Accounted' /\ Apart' /\ KeeperAlone' /\ Gone'
  BY <1>0, <1>4, Quiet
<1>6. Shape'
  BY <1>0, <1>1 DEF Shape
<1>7. MutexHeld'
  BY <1>0, <1>1, <1>2, NoThreadAssumption DEF MutexHeld, FreeMutex, Inside
<1>8. CountRead'
  BY <1>1 DEF CountRead
<1>9. LastAlone'
  BY <1>0, <1>1 DEF LastAlone, Alone
<1>10. Kept'
  BY <1>1 DEF Kept
<1> QED BY <1>3, <1>5, <1>6, <1>7, <1>8, <1>9, <1>10

(* The object goes. *)
LEMMA DeleteKeeps ==
  ASSUME IInv, NEW t \in Threads, Delete(t)
  PROVE  IInv'
<1> USE DEF IInv, Delete, Goto, locals, Idle
<1>1. /\ pc'[t] = "idle"
      /\ \A u \in Threads : u # t => pc'[u] = pc[u]
  BY DEF TypeOK
<1>2. counted = {} /\ held = {} /\ \A u \in Threads : u # t => Idle(u)
  BY DEF LastAlone, Alone
<1>3. \A u \in Threads : Idle(u)'
  BY <1>1, <1>2
<1>4. TypeOK'
  BY DEF TypeOK
<1>5. CountIsExact'
  BY DEF CountIsExact
<1>6. Shape' /\ CountRead' /\ Apart' /\ KeeperAlone' /\ LastAlone' /\ Gone' /\ Kept'
  BY <1>2, <1>3 DEF Shape, CountRead, Apart, KeeperAlone, Keeper, LastAlone, Gone, Kept
<1>7. MutexHeld'
  BY <1>1 DEF MutexHeld, Inside
<1>8. Accounted'
  BY <1>2, <1>3 DEF Accounted, Pins
<1> QED BY <1>4, <1>5, <1>6, <1>7, <1>8

-------------------------------------------------------------------------------
(* Every step keeps the invariant. *)
LEMMA IInvStep == IInv /\ [Next]_vars => IInv'
<1> SUFFICES ASSUME IInv, [Next]_vars PROVE IInv'
  OBVIOUS
<1>1. ASSUME NEW t \in Threads, CallAddRef(t) PROVE IInv'
  <2>1. PICK g \in Handles \cup {NoHandle}, h \in Handles :
          Through(g) /\ h \notin held /\ ~InUse(h) /\ Call(t, "AddRef", g, h)
    BY <1>1 DEF CallAddRef
  <2>2. h # NoHandle /\ (g \in held \/ (g = NoHandle /\ Unreferenced)) /\ h # g
    BY <2>1, HandlesAssumption DEF Through, Unreferenced
  <2>3. h \in Handles \cup {NoHandle} /\ "AddRef" \in Ops
    BY DEF Ops
  <2>4. /\ g # NoHandle => g \in held
        /\ g = NoHandle => Unreferenced
    BY <2>2, HandlesAssumption DEF IInv, TypeOK
  <2> QED BY <2>1, <2>2, <2>3, <2>4, CallKeeps
<1>2. ASSUME NEW t \in Threads, CallIsStillUseful(t) PROVE IInv'
  <2>1. PICK g \in Handles \cup {NoHandle} : Through(g) /\ Call(t, "IsStillUseful", g, NoHandle)
    BY <1>2 DEF CallIsStillUseful
  <2>2. NoHandle \notin held
    BY HandlesAssumption DEF IInv, TypeOK
  <2> QED BY <2>1, <2>2, CallKeeps DEF Ops, Through
<1>3. ASSUME NEW t \in Threads, CallRelease(t) PROVE IInv'
  <2>1. PICK h \in Handles \cup {NoHandle} : Through(h) /\ Call(t, "ReleaseData", NoHandle, h)
    BY <1>3 DEF CallRelease
  <2>2. NoHandle \notin held
    BY HandlesAssumption DEF IInv, TypeOK
  <2> QED BY <2>1, <2>2, CallKeeps DEF Ops, Through
<1>4. ASSUME NEW t \in Threads, CallRemoveRef(t) PROVE IInv'
  <2>1. PICK h \in held : Call(t, "RemoveRef", NoHandle, h)
    BY <1>4 DEF CallRemoveRef
  <2>2. h \in Handles /\ h # NoHandle
    BY HandlesAssumption DEF IInv, TypeOK
  <2> QED BY <2>1, <2>2, CallKeeps DEF Ops
<1>5. ASSUME NEW t \in Threads, CallInit(t) PROVE IInv'
  BY <1>5, CallKeeps DEF Ops, CallInit
<1>6. CASE UNCHANGED vars
  BY <1>6 DEF vars, object, locals, IInv, TypeOK, CountIsExact, Shape, MutexHeld, CountRead,
     Accounted, Apart, KeeperAlone, LastAlone, Gone, Kept, Pins, Owes, Keeper, Alone, Idle
<1> QED
  BY <1>1, <1>2, <1>3, <1>4, <1>5, <1>6, LockKeeps, ReadKeeps, WriteKeeps, TestKeeps,
     UnlockKeeps, UnlockLastKeeps, DeleteKeeps DEF Next, Step

(* The invariant of the specification, for any finite set of handles and   *)
(* any set of threads.                                                     *)
THEOREM Invariance == Spec => []IInv
BY IInvInit, IInvStep, PTL DEF Spec

(* No variable leaves its type: the count never goes below zero.           *)
THEOREM TypeCorrect == Spec => []TypeOK
BY Invariance, PTL DEF IInv

(* No AddRef, RemoveRef or ReleaseData is lost among any number of         *)
(* threads (MultipleReferencedData.cpp 21-55).                             *)
THEOREM CountCorrect == Spec => []CountIsExact
BY Invariance, PTL DEF IInv

(* ReleaseData deletes the object behind its last owner only: no thread    *)
(* reaches it afterwards, and none waits for its mutex (.cpp 26-38).       *)
THEOREM DeleteCorrect == Spec => []NoUseAfterDelete
<1>1. IInv => NoUseAfterDelete
  BY DEF IInv, NoUseAfterDelete, Gone, LastAlone, Alone, Idle
<1> QED BY <1>1, Invariance, PTL

(* An object given up by ReleaseData is deleted once its calls are over    *)
(* (.cpp 26).                                                              *)
THEOREM LeakCorrect == Spec => []NoLeak
<1>1. IInv => NoLeak
  <2>1. SUFFICES ASSUME IInv, Unreferenced PROVE kept
    BY DEF NoLeak
  <2>2. counted = {}
    BY <2>1 DEF IInv, Accounted, Unreferenced, Pins, TypeOK
  <2> QED BY <2>1, <2>2 DEF IInv, Kept, Unreferenced, Idle, TypeOK
<1> QED BY <1>1, Invariance, PTL

=================================================================================
