-------------------------- MODULE MessageQueueProofs --------------------------
(***************************************************************************)
(* Proofs about MessageQueue: its invariants, for any number of threads,   *)
(* cells and messages, and that it implements the Mailbox.                 *)
(*                                                                         *)
(* The argument is that the fields of the list are a function of the       *)
(* auxiliary chain and of where the one thread that holds the mutex is in  *)
(* its critical section.                                                   *)
(***************************************************************************)
EXTENDS MessageQueue, Integers, TLAPS

(* Where the holder of the mutex is, "idle" when there is none. *)
HolderAt == IF mutex.owner = NoThread THEN "idle" ELSE pc[mutex.owner]

(* What NumberOfElements still has to catch up with. *)
Lag(l) == IF l \in {"tail", "count"} THEN -1 ELSE IF l = "uncount" THEN 1 ELSE 0

Last == IF chain = <<>> THEN NULL ELSE chain[Len(chain)]

LockInv ==
  /\ \A t \in Threads : pc[t] \in Holding => mutex = [owner |-> t, depth |-> 1]
  /\ \A t \in Threads : mutex.owner = t => pc[t] \in Holding
  /\ mutex.owner = NoThread => mutex = FreeMutex
  /\ \A t \in Threads : LockCount[t] = IF pc[t] \in Holding THEN 1 ELSE 0

CallInv ==
  \A t \in Threads :
    /\ pc[t] \in {"alloc", "link", "tail", "count"} => op[t] = "send"
    /\ pc[t] \in {"check", "extract", "uncount", "release", "retry"} =>
         op[t] \in Receives /\ result[t] = NoMsg
    /\ pc[t] = "lock" /\ op[t] # "send" => result[t] = NoMsg
    /\ pc[t] = "retry" => op[t] # "get"
    /\ pc[t] \in {"lock", "alloc"} /\ op[t] = "send" => arg[t] \in Msgs

ChainInv ==
  /\ \A i, j \in 1..Len(chain) : chain[i] = chain[j] => i = j
  /\ \A i \in 1..Len(chain) :
       chain[i] \notin free /\ ElementContainer[chain[i]] \in Msgs

HandInv ==
  \A t \in Threads :
    /\ InHand(t) =>
         /\ tmp[t] \in Cells \ free
         /\ ElementContainer[tmp[t]] \in Msgs
         /\ \A i \in 1..Len(chain) : chain[i] # tmp[t]
    /\ pc[t] = "link" => NextElement[tmp[t]] = NULL
    /\ pc[t] = "tail" => chain # <<>> /\ tmp[t] = Last
    /\ pc[t] = "extract" => chain # <<>>

CoverInv ==
  \A c \in Cells :
    \/ c \in free
    \/ \E i \in 1..Len(chain) : chain[i] = c
    \/ \E t \in Threads : InHand(t) /\ tmp[t] = c

LinkInv ==
  /\ head = IF chain = <<>> THEN NULL ELSE chain[1]
  /\ chain # <<>> => NextElement[Last] = NULL
  /\ \A i \in 1..(Len(chain) - 1) : NextElement[chain[i]] = chain[i + 1]
  /\ HolderAt # "tail" => tail = Last

CountInv == NumberOfElements = Len(chain) + Lag(HolderAt)

IInv ==
  /\ TypeOK /\ LockInv /\ CallInv
  /\ ChainInv /\ HandInv /\ CoverInv
  /\ LinkInv /\ CountInv

-------------------------------------------------------------------------------
(* A thread inside its critical section is the holder, and the only one    *)
(* inside.                                                                 *)
LEMMA Holder ==
  ASSUME IInv, NEW t \in Threads, pc[t] \in Holding
  PROVE  /\ mutex.owner = t /\ HolderAt = pc[t]
         /\ \A u \in Threads \ {t} : pc[u] \notin Holding
<1>1. mutex = [owner |-> t, depth |-> 1]
  BY DEF IInv, LockInv
<1>2. \A u \in Threads \ {t} : pc[u] \notin Holding
  BY <1>1 DEF IInv, LockInv
<1> QED BY <1>1, <1>2, NoThreadAssumption DEF HolderAt

(* Every step of SendMessage, GetMessage and WaitAndGetMessage preserves    *)
(* the invariant.                                                          *)
THEOREM IInvStep == IInv /\ [Next]_vars => IInv'
<1> SUFFICES ASSUME IInv, [Next]_vars PROVE IInv'
  OBVIOUS
<1> USE DEF IInv
<1>1. ASSUME NEW t \in Threads, NEW m \in Msgs, SendMessage(t, m) PROVE IInv'
  <2> USE <1>1 DEF SendMessage, Goto, listVars, threadVars
  <2>1. TypeOK'
    BY DEF TypeOK, Labels, Holding, Values
  <2>2. LockInv'
    BY DEF TypeOK, LockInv, Holding
  <2>3. CallInv'
    BY DEF TypeOK, CallInv
  <2>4. ChainInv'
    BY DEF ChainInv
  <2>5. HandInv'
    BY DEF TypeOK, HandInv, InHand, Last
  <2>6. CoverInv'
    BY DEF TypeOK, CoverInv, InHand
  <2>7. LinkInv'
    BY DEF TypeOK, LockInv, LinkInv, HolderAt, Holding, Last
  <2>8. CountInv'
    BY DEF TypeOK, LockInv, CountInv, HolderAt, Holding, Lag
  <2> QED BY <2>1, <2>2, <2>3, <2>4, <2>5, <2>6, <2>7, <2>8
<1>2. ASSUME NEW t \in Threads, NEW kind \in Receives, Receive(t, kind) PROVE IInv'
  <2> USE <1>2 DEF Receive, Goto, listVars, threadVars
  <2>1. TypeOK'
    BY DEF TypeOK, Labels, Holding, Receives, Values
  <2>2. LockInv'
    BY DEF TypeOK, LockInv, Holding, Receives
  <2>3. CallInv'
    BY DEF TypeOK, CallInv, Receives
  <2>4. ChainInv'
    BY DEF ChainInv, Receives
  <2>5. HandInv'
    BY DEF TypeOK, HandInv, InHand, Last, Receives
  <2>6. CoverInv'
    BY DEF TypeOK, CoverInv, InHand, Receives
  <2>7. LinkInv'
    BY DEF TypeOK, LockInv, LinkInv, HolderAt, Holding, Last, Receives
  <2>8. CountInv'
    BY DEF TypeOK, LockInv, CountInv, HolderAt, Holding, Lag, Receives
  <2> QED BY <2>1, <2>2, <2>3, <2>4, <2>5, <2>6, <2>7, <2>8
<1>3. ASSUME NEW t \in Threads, LockAcquire(t) PROVE IInv'
  <2> USE <1>3 DEF LockAcquire, Goto, listVars, threadVars
  <2>1. TypeOK'
    BY DEF TypeOK, Labels, Holding, MutexType, Locked
  <2>2. LockInv'
    BY NoThreadAssumption DEF TypeOK, LockInv, Holding, TryLock, Locked, FreeMutex
  <2>3. CallInv'
    BY DEF TypeOK, CallInv, Receives
  <2>4. ChainInv'
    BY DEF ChainInv
  <2>5. HandInv'
    BY DEF TypeOK, HandInv, InHand, Last
  <2>6. CoverInv'
    BY DEF TypeOK, CoverInv, InHand
  <2>7. LinkInv'
    BY NoThreadAssumption DEF TypeOK, LockInv, LinkInv, HolderAt, Holding, Last, TryLock, Locked, FreeMutex
  <2>8. CountInv'
    BY NoThreadAssumption DEF TypeOK, LockInv, CountInv, HolderAt, Holding, Lag, TryLock, Locked, FreeMutex
  <2> QED BY <2>1, <2>2, <2>3, <2>4, <2>5, <2>6, <2>7, <2>8
<1>4. ASSUME NEW t \in Threads, LockRelease(t) PROVE IInv'
  <2> USE <1>4 DEF LockRelease, Goto, listVars, threadVars
  <2>1. TypeOK'
    BY DEF TypeOK, Labels, Holding, MutexType, Unlocked, FreeMutex, LockInv, Values, Pointers
  <2>2. LockInv'
    BY NoThreadAssumption DEF TypeOK, LockInv, Holding, Unlocked, FreeMutex
  <2>3. CallInv'
    BY DEF TypeOK, CallInv, Receives
  <2>4. ChainInv'
    BY DEF ChainInv
  <2>5. HandInv'
    BY DEF TypeOK, HandInv, InHand, Last
  <2>6. CoverInv'
    BY DEF TypeOK, CoverInv, InHand, LockInv, Holding
  <2>7. LinkInv'
    BY NoThreadAssumption DEF TypeOK, LockInv, LinkInv, HolderAt, Holding, Last, Unlocked, FreeMutex
  <2>8. CountInv'
    BY NoThreadAssumption DEF TypeOK, LockInv, CountInv, HolderAt, Holding, Lag, Unlocked, FreeMutex
  <2> QED BY <2>1, <2>2, <2>3, <2>4, <2>5, <2>6, <2>7, <2>8
<1>5. ASSUME NEW t \in Threads, Retry(t) PROVE IInv'
  <2> USE <1>5 DEF Retry, Goto, listVars, threadVars
  <2>1. TypeOK'
    BY DEF TypeOK, Labels, Holding
  <2>2. LockInv'
    BY DEF TypeOK, LockInv, Holding
  <2>3. CallInv'
    BY DEF TypeOK, CallInv, Receives
  <2>4. ChainInv'
    BY DEF ChainInv
  <2>5. HandInv'
    BY DEF TypeOK, HandInv, InHand, Last
  <2>6. CoverInv'
    BY DEF TypeOK, CoverInv, InHand
  <2>7. LinkInv'
    BY DEF TypeOK, LockInv, LinkInv, HolderAt, Holding, Last
  <2>8. CountInv'
    BY DEF TypeOK, LockInv, CountInv, HolderAt, Holding, Lag
  <2> QED BY <2>1, <2>2, <2>3, <2>4, <2>5, <2>6, <2>7, <2>8
<1>6. ASSUME NEW t \in Threads, TimeOut(t) PROVE IInv'
  <2> USE <1>6 DEF TimeOut, Goto, listVars, threadVars
  <2>1. TypeOK'
    BY DEF TypeOK, Labels, Holding
  <2>2. LockInv'
    BY DEF TypeOK, LockInv, Holding
  <2>3. CallInv'
    BY DEF TypeOK, CallInv, Receives
  <2>4. ChainInv'
    BY DEF ChainInv
  <2>5. HandInv'
    BY DEF TypeOK, HandInv, InHand, Last
  <2>6. CoverInv'
    BY DEF TypeOK, CoverInv, InHand
  <2>7. LinkInv'
    BY DEF TypeOK, LockInv, LinkInv, HolderAt, Holding, Last
  <2>8. CountInv'
    BY DEF TypeOK, LockInv, CountInv, HolderAt, Holding, Lag
  <2> QED BY <2>1, <2>2, <2>3, <2>4, <2>5, <2>6, <2>7, <2>8
<1>7. ASSUME NEW t \in Threads, Allocate(t) PROVE IInv'
  <2> USE <1>7 DEF Allocate, Goto, listVars, threadVars
  <2>1. TypeOK'
    BY DEF TypeOK, Labels, Holding, Values, Pointers
  <2>2. LockInv'
    BY DEF TypeOK, LockInv, Holding
  <2>3. CallInv'
    BY DEF TypeOK, CallInv
  <2>4. ChainInv'
    BY DEF ChainInv, CallInv, TypeOK
  <2>5. HandInv'
    BY DEF TypeOK, HandInv, InHand, Last, CallInv, ChainInv, LockInv, Holding
  <2>6. CoverInv'
    <3> PICK c \in free : /\ free' = free \ {c}
                         /\ tmp' = [tmp EXCEPT ![t] = c]
      BY DEF Allocate
    <3>1. InHand(t)' /\ tmp'[t] = c
      BY DEF TypeOK, InHand
    <3>2. \A u \in Threads : InHand(u) => InHand(u)' /\ tmp'[u] = tmp[u]
      BY DEF TypeOK, InHand
    <3> QED BY <3>1, <3>2 DEF CoverInv
  <2>7. LinkInv'
    BY NoThreadAssumption DEF TypeOK, LockInv, LinkInv, HolderAt, Holding, Last, ChainInv
  <2>8. CountInv'
    BY DEF TypeOK, LockInv, CountInv, HolderAt, Holding, Lag
  <2> QED BY <2>1, <2>2, <2>3, <2>4, <2>5, <2>6, <2>7, <2>8
<1>8. ASSUME NEW t \in Threads, AllocateFails(t) PROVE IInv'
  <2> USE <1>8 DEF AllocateFails, Goto, listVars, threadVars
  <2>1. TypeOK'
    BY DEF TypeOK, Labels, Holding
  <2>2. LockInv'
    BY DEF TypeOK, LockInv, Holding
  <2>3. CallInv'
    BY DEF TypeOK, CallInv
  <2>4. ChainInv'
    BY DEF ChainInv
  <2>5. HandInv'
    BY DEF TypeOK, HandInv, InHand, Last
  <2>6. CoverInv'
    BY DEF TypeOK, CoverInv, InHand
  <2>7. LinkInv'
    BY DEF TypeOK, LockInv, LinkInv, HolderAt, Holding, Last
  <2>8. CountInv'
    BY DEF TypeOK, LockInv, CountInv, HolderAt, Holding, Lag
  <2> QED BY <2>1, <2>2, <2>3, <2>4, <2>5, <2>6, <2>7, <2>8
<1>9. ASSUME NEW t \in Threads, Link(t) PROVE IInv'
  <2> USE <1>9 DEF Link, Goto, listVars, threadVars
  <2>a. tmp[t] \in Cells /\ tmp[t] \notin free /\ chain \in Seq(Cells)
    BY DEF HandInv, InHand, TypeOK
  <2>b. /\ chain' \in Seq(Cells) /\ Len(chain') = Len(chain) + 1
        /\ \A i \in 1..Len(chain) : chain'[i] = chain[i]
        /\ chain'[Len(chain')] = tmp[t]
    BY <2>a
  <2>c. HolderAt = "link" /\ \A u \in Threads \ {t} : pc[u] \notin Holding
    BY Holder DEF Holding
  <2>1. TypeOK'
    BY <2>a, <2>b DEF TypeOK, Labels, Holding, Pointers
  <2>2. LockInv'
    BY DEF TypeOK, LockInv, Holding
  <2>3. CallInv'
    BY DEF TypeOK, CallInv
  <2>4. ChainInv'
    BY <2>a, <2>b DEF ChainInv, HandInv, InHand
  <2>5. HandInv'
    BY DEF TypeOK, HandInv, InHand, Last, ChainInv, LockInv, Holding
  <2>6. CoverInv'
    <3>1. \A u \in Threads : InHand(u) => u = t
      BY <2>c DEF InHand, Holding
    <3>2. \A i \in 1..Len(chain') : i \in 1..Len(chain) \/ i = Len(chain')
      BY <2>a, <2>b
    <3>3. \A i \in 1..Len(chain) : i \in 1..Len(chain')
      BY <2>a, <2>b
    <3>4. Len(chain') \in 1..Len(chain')
      BY <2>a, <2>b
    <3> QED BY <2>b, <3>1, <3>3, <3>4 DEF CoverInv
  <2>7. LinkInv'
    BY CellsAssumption, NoThreadAssumption DEF TypeOK, LockInv, LinkInv, HolderAt, Holding, Last, HandInv, InHand, ChainInv
  <2>8. CountInv'
    BY NoThreadAssumption DEF TypeOK, LockInv, CountInv, HolderAt, Holding, Lag
  <2> QED BY <2>1, <2>2, <2>3, <2>4, <2>5, <2>6, <2>7, <2>8
<1>10. ASSUME NEW t \in Threads, SetTail(t) PROVE IInv'
  <2> USE <1>10 DEF SetTail, Goto, listVars, threadVars
  <2>1. TypeOK'
    BY DEF TypeOK, Labels, Holding, HandInv, InHand
  <2>2. LockInv'
    BY DEF TypeOK, LockInv, Holding
  <2>3. CallInv'
    BY DEF TypeOK, CallInv
  <2>4. ChainInv'
    BY DEF ChainInv
  <2>5. HandInv'
    BY DEF TypeOK, HandInv, InHand, Last
  <2>6. CoverInv'
    BY DEF TypeOK, CoverInv, InHand
  <2>7. LinkInv'
    BY NoThreadAssumption DEF TypeOK, LockInv, LinkInv, HolderAt, Holding, Last, HandInv
  <2>8. CountInv'
    BY DEF TypeOK, LockInv, CountInv, HolderAt, Holding, Lag
  <2> QED BY <2>1, <2>2, <2>3, <2>4, <2>5, <2>6, <2>7, <2>8
<1>11. ASSUME NEW t \in Threads, CountUp(t) PROVE IInv'
  <2> USE <1>11 DEF CountUp, Goto, listVars, threadVars
  <2>1. TypeOK'
    BY DEF TypeOK, Labels, Holding
  <2>2. LockInv'
    BY DEF TypeOK, LockInv, Holding
  <2>3. CallInv'
    BY DEF TypeOK, CallInv
  <2>4. ChainInv'
    BY DEF ChainInv
  <2>5. HandInv'
    BY DEF TypeOK, HandInv, InHand, Last
  <2>6. CoverInv'
    BY DEF TypeOK, CoverInv, InHand
  <2>7. LinkInv'
    BY DEF TypeOK, LockInv, LinkInv, HolderAt, Holding, Last
  <2>8. CountInv'
    BY NoThreadAssumption DEF TypeOK, LockInv, CountInv, HolderAt, Holding, Lag
  <2> QED BY <2>1, <2>2, <2>3, <2>4, <2>5, <2>6, <2>7, <2>8
<1>12. ASSUME NEW t \in Threads, Check(t) PROVE IInv'
  <2> USE <1>12 DEF Check, Goto, listVars, threadVars
  <2>1. TypeOK'
    BY DEF TypeOK, Labels, Holding
  <2>2. LockInv'
    BY DEF TypeOK, LockInv, Holding
  <2>3. CallInv'
    BY DEF TypeOK, CallInv, Receives
  <2>4. ChainInv'
    BY DEF ChainInv
  <2>5. HandInv'
    <3>1. pc'[t] = "extract" => chain # <<>>
      <4>1. HolderAt = "check"
        BY Holder DEF Holding
      <4> QED BY <4>1 DEF TypeOK, CountInv, Lag
    <3> QED BY <3>1 DEF TypeOK, HandInv, InHand, Last
  <2>6. CoverInv'
    BY DEF TypeOK, CoverInv, InHand
  <2>7. LinkInv'
    BY DEF TypeOK, LockInv, LinkInv, HolderAt, Holding, Last
  <2>8. CountInv'
    BY DEF TypeOK, LockInv, CountInv, HolderAt, Holding, Lag
  <2> QED BY <2>1, <2>2, <2>3, <2>4, <2>5, <2>6, <2>7, <2>8
<1>13. ASSUME NEW t \in Threads, Unlink(t) PROVE IInv'
  <2> USE <1>13 DEF Unlink, Goto, listVars, threadVars
  <2>a. chain \in Seq(Cells) /\ chain # <<>> /\ Len(chain) \in Nat \ {0}
    BY DEF HandInv, TypeOK
  <2>b. /\ chain' \in Seq(Cells) /\ Len(chain') = Len(chain) - 1
        /\ \A i \in 1..Len(chain') : chain'[i] = chain[i + 1]
    BY <2>a
  <2>c. HolderAt = "extract" /\ \A u \in Threads \ {t} : pc[u] \notin Holding
    BY Holder DEF Holding
  <2>d. /\ head = chain[1] /\ tail = chain[Len(chain)] /\ NextElement[tail] = NULL
        /\ head \in Cells /\ tail \in Cells
    BY <2>a, <2>c DEF LinkInv, Last
  <2>g. Len(chain) > 1 => NextElement[chain[1]] = chain[1 + 1]
    BY <2>a DEF LinkInv
  <2>h. head = tail <=> Len(chain) = 1
    <3>1. 1 \in 1..Len(chain) /\ Len(chain) \in 1..Len(chain)
      BY <2>a
    <3>2. \A i, j \in 1..Len(chain) : chain[i] = chain[j] => i = j
      BY DEF ChainInv
    <3> QED BY ONLY <2>d, <3>1, <3>2
  <2>e. \A i \in 1..Len(chain') : i + 1 \in 1..Len(chain) /\ i + 1 # 1
    BY <2>a, <2>b
  <2>f. HolderAt' = "uncount"
    BY Holder, NoThreadAssumption DEF HolderAt, TypeOK, Holding
  <2>1. TypeOK'
    BY <2>a, <2>b, <2>d DEF TypeOK, Labels, Holding, Pointers
  <2>2. LockInv'
    BY DEF TypeOK, LockInv, Holding
  <2>3. CallInv'
    BY DEF TypeOK, CallInv
  <2>4. ChainInv'
    BY <2>a, <2>b, <2>e DEF ChainInv
  <2>5. HandInv'
    <3>1. /\ tmp'[t] = chain[1] /\ chain[1] \in Cells \ free
          /\ ElementContainer[chain[1]] \in Msgs
          /\ \A i \in 1..Len(chain') : chain'[i] # chain[1]
      BY <2>a, <2>b, <2>d, <2>e DEF ChainInv, TypeOK
    <3>2. \A u \in Threads \ {t} : pc'[u] = pc[u]
      BY DEF TypeOK
    <3>3. pc'[t] = "uncount"
      BY DEF TypeOK
    <3> QED BY <2>c, <3>1, <3>2, <3>3 DEF HandInv, InHand, Holding
  <2>6. CoverInv'
    <3> SUFFICES ASSUME NEW c \in Cells, c \notin free, ~(InHand(t)' /\ tmp'[t] = c)
                 PROVE  \E i \in 1..Len(chain') : chain'[i] = c
      BY DEF CoverInv
    <3>1. c # chain[1]
      BY <2>d DEF InHand, TypeOK
    <3>2. PICK j \in 1..Len(chain) : chain[j] = c
      BY <2>c DEF CoverInv, InHand, Holding
    <3>3. j - 1 \in 1..Len(chain') /\ chain'[j - 1] = c
      BY <2>a, <2>b, <3>1, <3>2
    <3> QED BY <3>3
  <2>7. LinkInv'
    <3>1. CASE Len(chain) = 1
      <4>1. chain' = <<>> /\ head' = NULL /\ tail' = NULL
        BY <2>a, <2>b, <2>h, <3>1
      <4> QED BY <4>1 DEF LinkInv, Last
    <3>2. CASE Len(chain) > 1
      <4>1. chain' # <<>> /\ head' = chain'[1] /\ tail' = tail
        <5>1. head # tail /\ 1 \in 1..Len(chain') /\ chain' # <<>>
          <6>1. Len(chain') >= 1 /\ Len(chain') \in Nat
            BY ONLY <2>a, <2>b, <3>2
          <6> QED BY ONLY <2>h, <3>2, <6>1
        <5>2. head' = chain[1 + 1] /\ tail' = tail
          BY <2>d, <2>g, <3>2, <5>1
        <5> QED BY <2>b, <5>1, <5>2
      <4>2. Last' = tail
        BY <2>a, <2>b, <2>d, <3>2, <4>1 DEF Last
      <4>3. \A i \in 1..(Len(chain') - 1) : NextElement[chain'[i]] = chain'[i + 1]
        BY <2>a, <2>b DEF LinkInv
      <4>4. NextElement' = NextElement
        OBVIOUS
      <4>5. head' = IF chain' = <<>> THEN NULL ELSE chain'[1]
        BY ONLY <4>1
      <4>6. chain' # <<>> => NextElement'[Last'] = NULL
        BY ONLY <2>d, <4>1, <4>2, <4>4
      <4>7. tail' = Last'
        BY ONLY <4>1, <4>2
      <4>8. \A i \in 1..(Len(chain') - 1) : NextElement'[chain'[i]] = chain'[i + 1]
        BY <4>3, <4>4
      <4> QED BY <4>5, <4>6, <4>7, <4>8, Zenon DEF LinkInv
    <3>3. \A n \in Nat \ {0} : n = 1 \/ n > 1
      OBVIOUS
    <3> QED BY <2>a, <3>1, <3>2, <3>3, Zenon
  <2>8. CountInv'
    BY <2>a, <2>b, <2>c, <2>f DEF CountInv, Lag, TypeOK
  <2> QED BY <2>1, <2>2, <2>3, <2>4, <2>5, <2>6, <2>7, <2>8
<1>14. ASSUME NEW t \in Threads, CountDown(t) PROVE IInv'
  <2> USE <1>14 DEF CountDown, Goto, listVars, threadVars
  <2>1. TypeOK'
    <3>1. HolderAt = "uncount"
      BY Holder DEF Holding
    <3>2. NumberOfElements' \in Nat
      BY <3>1 DEF CountInv, Lag, TypeOK
    <3> QED BY <3>2 DEF TypeOK, Labels, Holding
  <2>2. LockInv'
    BY DEF TypeOK, LockInv, Holding
  <2>3. CallInv'
    BY DEF TypeOK, CallInv
  <2>4. ChainInv'
    BY DEF ChainInv
  <2>5. HandInv'
    BY DEF TypeOK, HandInv, InHand, Last
  <2>6. CoverInv'
    BY DEF TypeOK, CoverInv, InHand
  <2>7. LinkInv'
    BY DEF TypeOK, LockInv, LinkInv, HolderAt, Holding, Last
  <2>8. CountInv'
    BY NoThreadAssumption DEF TypeOK, LockInv, CountInv, HolderAt, Holding, Lag
  <2> QED BY <2>1, <2>2, <2>3, <2>4, <2>5, <2>6, <2>7, <2>8
<1>15. ASSUME NEW t \in Threads, ReleaseElement(t) PROVE IInv'
  <2> USE <1>15 DEF ReleaseElement, Goto, listVars, threadVars
  <2>a. /\ tmp[t] \in Cells /\ ElementContainer[tmp[t]] \in Msgs
        /\ \A i \in 1..Len(chain) : chain[i] # tmp[t]
    BY DEF HandInv, InHand
  <2>1. TypeOK'
    BY <2>a DEF TypeOK, Labels, Holding, Values, Pointers
  <2>2. LockInv'
    BY DEF TypeOK, LockInv, Holding
  <2>3. CallInv'
    BY DEF TypeOK, CallInv
  <2>4. ChainInv'
    <3>1. \A i \in 1..Len(chain) : chain[i] \in Cells
      BY DEF TypeOK
    <3> QED BY <2>a, <3>1 DEF ChainInv, TypeOK
  <2>5. HandInv'
    BY DEF TypeOK, HandInv, InHand, Last, LockInv, Holding
  <2>6. CoverInv'
    BY DEF TypeOK, CoverInv, InHand
  <2>7. LinkInv'
    BY NoThreadAssumption DEF TypeOK, LockInv, LinkInv, HolderAt, Holding, Last, HandInv, InHand, ChainInv
  <2>8. CountInv'
    BY DEF TypeOK, LockInv, CountInv, HolderAt, Holding, Lag
  <2> QED BY <2>1, <2>2, <2>3, <2>4, <2>5, <2>6, <2>7, <2>8
<1>16. CASE UNCHANGED vars
  BY <1>16 DEF vars, listVars, threadVars, TypeOK, LockInv, CallInv, ChainInv, HandInv, CoverInv, InHand, LinkInv, CountInv, HolderAt, Lag, Last
<1> QED BY <1>1, <1>2, <1>3, <1>4, <1>5, <1>6, <1>7, <1>8, <1>9, <1>10, <1>11, <1>12, <1>13, <1>14, <1>15, <1>16 DEF Next, Proceed
-------------------------------------------------------------------------------
(* The list, the locks and the calls start in order. *)
LEMMA IInvInit == Init => IInv
<1> SUFFICES ASSUME Init PROVE IInv
  OBVIOUS
<1>1. chain = <<>> /\ Len(chain) = 0 /\ chain \in Seq(Cells)
  BY DEF Init
<1>2. TypeOK
  BY <1>1 DEF Init, TypeOK, MutexType, FreeMutex, Pointers, Values, Labels, Receives
<1>3. LockInv /\ CallInv
  BY NoThreadAssumption DEF Init, LockInv, CallInv, Holding, FreeMutex
<1>4. ChainInv /\ HandInv /\ CoverInv
  BY <1>1 DEF Init, ChainInv, HandInv, CoverInv, InHand
<1>5. LinkInv /\ CountInv
  BY <1>1 DEF Init, LinkInv, CountInv, HolderAt, Lag, Last, FreeMutex
<1> QED BY <1>2, <1>3, <1>4, <1>5 DEF IInv

(* The inductive invariant holds in every reachable state. *)
THEOREM Invariance == Spec => []IInv
BY IInvInit, IInvStep, PTL DEF Spec

-------------------------------------------------------------------------------
(* The properties that the runs check on small instances, for any number   *)
(* of threads, cells and messages.                                         *)

(* Every variable keeps its type; NumberOfElements, an unsigned int, is    *)
(* never decremented at zero.                                              *)
THEOREM TypeCorrect == Spec => []TypeOK
<1>1. IInv => TypeOK
  BY DEF IInv
<1> QED BY <1>1, Invariance, PTL

(* SmartLocker keeps two threads from being inside the list at once. *)
THEOREM MutexCorrect == Spec => []MutualExclusion
<1>1. IInv => MutualExclusion
  BY DEF IInv, LockInv, MutualExclusion
<1> QED BY <1>1, Invariance, PTL

(* SimpleList::ExtractFirst is never called on an empty list. *)
THEOREM NeverExtractsCorrect == Spec => []NeverExtractsFromEmpty
<1>1. ASSUME IInv, NEW t \in Threads, pc[t] = "extract"
      PROVE  head # NULL /\ NumberOfElements # 0
  <2>1. chain # <<>> /\ chain \in Seq(Cells) /\ HolderAt = "extract"
    BY <1>1, Holder DEF IInv, HandInv, TypeOK, Holding
  <2>2. head # NULL
    BY <1>1, <2>1, CellsAssumption DEF IInv, LinkInv
  <2>3. NumberOfElements = Len(chain)
    BY <1>1, <2>1 DEF IInv, CountInv, Lag
  <2> QED BY <2>1, <2>2, <2>3
<1>2. IInv => NeverExtractsFromEmpty
  BY <1>1 DEF NeverExtractsFromEmpty
<1> QED BY <1>2, Invariance, PTL

(* Between two critical sections the cells form one list. *)
THEOREM WellFormedCorrect == Spec => []ListIsWellFormed
<1>1. ASSUME IInv, mutex.owner = NoThread
      PROVE  HolderAt = "idle" /\ chain \in Seq(Cells)
  BY <1>1 DEF HolderAt, IInv, TypeOK
<1>2. IInv => ListIsWellFormed
  <2> SUFFICES ASSUME IInv, mutex.owner = NoThread
               PROVE  ListIsWellFormed
    BY DEF ListIsWellFormed
  <2>1. NumberOfElements = Len(chain)
    BY <1>1 DEF IInv, CountInv, Lag
  <2>2. tail = Last
    BY <1>1 DEF IInv, LinkInv
  <2>3. CASE chain = <<>>
    BY <2>1, <2>2, <2>3 DEF IInv, LinkInv, Last, ListIsWellFormed
  <2>4. CASE chain # <<>>
    BY <2>1, <2>2, <2>4 DEF IInv, LinkInv, Last, ListIsWellFormed
  <2> QED BY <2>3, <2>4
<1> QED BY <1>2, Invariance, PTL

(* No cell is leaked, linked twice, or used after its delete. *)
THEOREM CellsCorrect == Spec => []CellsAccountedFor
<1>1. IInv => CellsAccountedFor
  BY DEF IInv, ChainInv, HandInv, CoverInv, CellsAccountedFor
<1> QED BY <1>1, Invariance, PTL
-------------------------------------------------------------------------------
(* The refinement.  A step of the queue moves the answer of the thread     *)
(* that takes it and of no other; it changes the box only by linking a     *)
(* cell at the end or unlinking the first one.                             *)

(* A step that leaves the list's cells alone leaves the box alone. *)
LEMMA BoxUnchanged ==
  ASSUME chain' = chain,
         \A i \in 1..Len(chain) : ElementContainer'[chain[i]] = ElementContainer[chain[i]]
  PROVE  boxBar' = boxBar
BY DEF boxBar

(* If no thread's answer changes, the answers do not. *)
LEMMA AnswersUnchanged ==
  ASSUME \A u \in Threads : Answer(u)' = Answer(u)
  PROVE  answerBar' = answerBar
BY DEF answerBar

(* If one thread's answer changes, it is that component that changes. *)
LEMMA OneAnswer ==
  ASSUME NEW t \in Threads, NEW v, Answer(t)' = v,
         \A u \in Threads \ {t} : Answer(u)' = Answer(u)
  PROVE  answerBar' = [answerBar EXCEPT ![t] = v]
BY DEF answerBar

(* The other threads' answers are disturbed neither by a change of t's own *)
(* variables nor by a change of a cell that none of them holds.            *)
LEMMA OtherAnswers ==
  ASSUME NEW t \in Threads, NEW u \in Threads \ {t},
         pc'[u] = pc[u], op'[u] = op[u], tmp'[u] = tmp[u], result'[u] = result[u],
         \/ ElementContainer' = ElementContainer
         \/ pc[u] \notin Holding
  PROVE  Answer(u)' = Answer(u)
BY DEF Answer, Holding

(* The empty list is the empty mailbox. *)
THEOREM InitRefines == Init => Box!Init
<1> SUFFICES ASSUME Init PROVE Box!Init
  OBVIOUS
<1>1. boxBar = <<>>
  BY DEF Init, boxBar
<1>2. answerBar = [t \in Threads |-> NoMsg]
  BY DEF Init, answerBar, Answer
<1> QED BY <1>1, <1>2 DEF Box!Init

(* Each step of the queue is one of the mailbox's or changes nothing of it. *)
THEOREM StepRefines == IInv /\ IInv' /\ [Next]_vars => [Box!Next]_(Box!mailboxVars)
<1> SUFFICES ASSUME IInv, IInv', [Next]_vars
             PROVE  Box!Next \/ (boxBar' = boxBar /\ answerBar' = answerBar)
  BY DEF Box!mailboxVars
<1> DEFINE Stutter == boxBar' = boxBar /\ answerBar' = answerBar
<1>1. ASSUME NEW t \in Threads, NEW m \in Msgs, SendMessage(t, m) PROVE Stutter
  <2> USE <1>1 DEF SendMessage, Goto, listVars
  <2>1. boxBar' = boxBar
    BY BoxUnchanged
  <2>2. Answer(t)' = Answer(t)
    BY DEF IInv, TypeOK, Answer
  <2>3. \A u \in Threads \ {t} : Answer(u)' = Answer(u)
    BY OtherAnswers DEF IInv, TypeOK
  <2> QED BY <2>1, <2>2, <2>3, AnswersUnchanged
<1>2. ASSUME NEW t \in Threads, NEW kind \in Receives, Receive(t, kind)
      PROVE  Box!Ask(t)
  <2> USE <1>2 DEF Receive, Goto, listVars
  <2>1. boxBar' = boxBar
    BY BoxUnchanged
  <2>2. Answer(t) = result[t] /\ result[t] \in Msgs \cup {NoMsg}
    BY DEF IInv, TypeOK, Answer, Values
  <2>3. Answer(t)' = "pending"
    BY DEF IInv, TypeOK, Answer, Receives
  <2>4. \A u \in Threads \ {t} : Answer(u)' = Answer(u)
    BY OtherAnswers DEF IInv, TypeOK
  <2>5. answerBar' = [answerBar EXCEPT ![t] = "pending"]
    BY <2>3, <2>4, OneAnswer
  <2> QED BY <2>1, <2>2, <2>5 DEF Box!Ask, answerBar
<1>3. ASSUME NEW t \in Threads, LockAcquire(t) PROVE Stutter
  <2> USE <1>3 DEF LockAcquire, Goto, listVars
  <2>1. boxBar' = boxBar
    BY BoxUnchanged
  <2>2. Answer(t)' = Answer(t)
    BY DEF IInv, TypeOK, Answer
  <2>3. \A u \in Threads \ {t} : Answer(u)' = Answer(u)
    BY OtherAnswers DEF IInv, TypeOK
  <2> QED BY <2>1, <2>2, <2>3, AnswersUnchanged
<1>4. ASSUME NEW t \in Threads, LockRelease(t) PROVE Stutter \/ Box!GiveUp(t)
  <2> USE <1>4 DEF LockRelease, Goto, listVars
  <2>1. boxBar' = boxBar
    BY BoxUnchanged
  <2>2. \A u \in Threads \ {t} : Answer(u)' = Answer(u)
    BY OtherAnswers DEF IInv, TypeOK
  <2>3. CASE op[t] = "get" /\ result[t] = NoMsg
    <3>1. Answer(t) = "missed" /\ Answer(t)' = NoMsg
      BY <2>3 DEF IInv, TypeOK, Answer
    <3>2. answerBar' = [answerBar EXCEPT ![t] = NoMsg]
      BY <2>2, <3>1, OneAnswer
    <3> QED BY <2>1, <3>1, <3>2 DEF Box!GiveUp, answerBar
  <2>4. CASE ~(op[t] = "get" /\ result[t] = NoMsg)
    <3>1. Answer(t)' = Answer(t)
      BY <2>4 DEF IInv, TypeOK, Answer, Receives
    <3> QED BY <2>1, <2>2, <3>1, AnswersUnchanged
  <2> QED BY <2>3, <2>4
<1>5. ASSUME NEW t \in Threads, Retry(t) PROVE Box!Ask(t)
  <2> USE <1>5 DEF Retry, Goto, listVars
  <2>1. boxBar' = boxBar
    BY BoxUnchanged
  <2>2. Answer(t) = "missed" /\ Answer(t)' = "pending"
    BY DEF IInv, TypeOK, CallInv, Answer, Receives
  <2>3. \A u \in Threads \ {t} : Answer(u)' = Answer(u)
    BY OtherAnswers DEF IInv, TypeOK
  <2>4. answerBar' = [answerBar EXCEPT ![t] = "pending"]
    BY <2>2, <2>3, OneAnswer
  <2> QED BY <2>1, <2>2, <2>4 DEF Box!Ask, answerBar
<1>6. ASSUME NEW t \in Threads, TimeOut(t) PROVE Box!GiveUp(t)
  <2> USE <1>6 DEF TimeOut, Goto, listVars
  <2>1. boxBar' = boxBar
    BY BoxUnchanged
  <2>2. Answer(t) = "missed" /\ Answer(t)' = NoMsg
    BY DEF IInv, TypeOK, CallInv, Answer, Receives
  <2>3. \A u \in Threads \ {t} : Answer(u)' = Answer(u)
    BY OtherAnswers DEF IInv, TypeOK
  <2>4. answerBar' = [answerBar EXCEPT ![t] = NoMsg]
    BY <2>2, <2>3, OneAnswer
  <2> QED BY <2>1, <2>2, <2>4 DEF Box!GiveUp, answerBar
<1>7. ASSUME NEW t \in Threads, Allocate(t) PROVE Stutter
  <2> USE <1>7 DEF Allocate, Goto, listVars
  <2>1. PICK c \in free : ElementContainer' = [ElementContainer EXCEPT ![c] = arg[t]]
    OBVIOUS
  <2>2. boxBar' = boxBar
    BY <2>1, BoxUnchanged DEF IInv, ChainInv, TypeOK
  <2>3. op[t] = "send" /\ Answer(t)' = Answer(t)
    BY DEF IInv, TypeOK, CallInv, Answer
  <2>4. \A u \in Threads \ {t} : pc[u] \notin Holding
    BY Holder DEF Holding
  <2>5. \A u \in Threads \ {t} : Answer(u)' = Answer(u)
    BY <2>4, OtherAnswers DEF IInv, TypeOK
  <2> QED BY <2>2, <2>3, <2>5, AnswersUnchanged
<1>8. ASSUME NEW t \in Threads, AllocateFails(t) \/ SetTail(t) \/ CountUp(t)
      PROVE  Stutter
  <2> USE <1>8 DEF AllocateFails, SetTail, CountUp, Goto, listVars
  <2>1. boxBar' = boxBar
    BY BoxUnchanged
  <2>2. op[t] = "send" /\ Answer(t)' = Answer(t)
    BY DEF IInv, TypeOK, CallInv, Answer
  <2>3. \A u \in Threads \ {t} : Answer(u)' = Answer(u)
    BY OtherAnswers DEF IInv, TypeOK
  <2> QED BY <2>1, <2>2, <2>3, AnswersUnchanged
<1>9. ASSUME NEW t \in Threads, Link(t)
      PROVE  \E m \in Msgs : Box!Put(m)
  <2> USE <1>9 DEF Link, Goto
  <2> DEFINE m == ElementContainer[tmp[t]]
  <2>1. m \in Msgs /\ tmp[t] \in Cells /\ chain \in Seq(Cells)
    BY DEF IInv, HandInv, InHand, TypeOK
  <2>2. /\ Len(chain') = Len(chain) + 1 /\ Len(chain) \in Nat
        /\ \A i \in 1..Len(chain) : chain'[i] = chain[i]
        /\ chain'[Len(chain) + 1] = tmp[t]
    BY <2>1
  <2>3. boxBar' = Append(boxBar, m)
    BY <2>2 DEF boxBar
  <2>4. op[t] = "send" /\ Answer(t)' = Answer(t)
    BY DEF IInv, TypeOK, CallInv, Answer
  <2>5. \A u \in Threads \ {t} : Answer(u)' = Answer(u)
    BY OtherAnswers DEF IInv, TypeOK
  <2>6. answerBar' = answerBar
    BY <2>4, <2>5, AnswersUnchanged
  <2> QED BY <2>1, <2>3, <2>6 DEF Box!Put
<1>10. ASSUME NEW t \in Threads, Check(t) PROVE Stutter \/ Box!Miss(t)
  <2> USE <1>10 DEF Check, Goto, listVars
  <2>1. boxBar' = boxBar
    BY BoxUnchanged
  <2>2. \A u \in Threads \ {t} : Answer(u)' = Answer(u)
    BY OtherAnswers DEF IInv, TypeOK
  <2>3. op[t] # "send" /\ result[t] = NoMsg /\ Answer(t) = "pending"
    BY DEF IInv, CallInv, Receives, Answer
  <2>4. CASE NumberOfElements # 0
    <3>1. Answer(t)' = Answer(t)
      BY <2>3, <2>4 DEF IInv, TypeOK, Answer
    <3> QED BY <2>1, <2>2, <3>1, AnswersUnchanged
  <2>5. CASE NumberOfElements = 0
    <3>1. HolderAt = "check"
      BY Holder DEF Holding
    <3>2. Len(chain) = 0
      BY <2>5, <3>1 DEF IInv, CountInv, Lag, TypeOK
    <3>3. boxBar = <<>>
      BY <3>2 DEF boxBar
    <3>4. Answer(t)' = "missed"
      BY <2>3, <2>5 DEF IInv, TypeOK, Answer
    <3>5. answerBar' = [answerBar EXCEPT ![t] = "missed"]
      BY <2>2, <3>4, OneAnswer
    <3> QED BY <2>1, <2>3, <3>3, <3>5 DEF Box!Miss, answerBar
  <2> QED BY <2>4, <2>5
<1>11. ASSUME NEW t \in Threads, Unlink(t) PROVE Box!Take(t)
  <2> USE <1>11 DEF Unlink, Goto
  <2>1. chain \in Seq(Cells) /\ chain # <<>> /\ head = chain[1]
    BY DEF IInv, HandInv, TypeOK, LinkInv
  <2>2. /\ Len(chain) \in Nat /\ Len(chain) >= 1 /\ Len(chain') = Len(chain) - 1
        /\ \A i \in 1..Len(chain') : chain'[i] = chain[i + 1]
    BY <2>1
  <2>3. boxBar # <<>> /\ boxBar' = Tail(boxBar) /\ Head(boxBar) = ElementContainer[head]
    BY <2>1, <2>2 DEF boxBar
  <2>4. op[t] # "send" /\ Answer(t) = "pending"
    BY DEF IInv, CallInv, Receives, Answer
  <2>5. Answer(t)' = ElementContainer[head]
    BY <2>4 DEF IInv, TypeOK, Answer
  <2>6. \A u \in Threads \ {t} : Answer(u)' = Answer(u)
    BY OtherAnswers DEF IInv, TypeOK
  <2>7. answerBar' = [answerBar EXCEPT ![t] = ElementContainer[head]]
    BY <2>5, <2>6, OneAnswer
  <2> QED BY <2>3, <2>4, <2>7 DEF Box!Take, answerBar
<1>12. ASSUME NEW t \in Threads, CountDown(t) PROVE Stutter
  <2> USE <1>12 DEF CountDown, Goto
  <2>1. boxBar' = boxBar
    BY BoxUnchanged
  <2>2. Answer(t)' = Answer(t)
    BY DEF IInv, TypeOK, CallInv, Answer
  <2>3. \A u \in Threads \ {t} : Answer(u)' = Answer(u)
    BY OtherAnswers DEF IInv, TypeOK
  <2> QED BY <2>1, <2>2, <2>3, AnswersUnchanged
<1>13. ASSUME NEW t \in Threads, ReleaseElement(t) PROVE Stutter
  <2> USE <1>13 DEF ReleaseElement, Goto
  <2>1. boxBar' = boxBar
    BY BoxUnchanged DEF IInv, HandInv, InHand, TypeOK
  <2>2. op[t] # "send" /\ ElementContainer[tmp[t]] # NoMsg
    BY MsgsAssumption DEF IInv, CallInv, Receives, HandInv, InHand
  <2>3. Answer(t)' = Answer(t)
    BY <2>2 DEF IInv, TypeOK, Answer
  <2>4. \A u \in Threads \ {t} : pc[u] \notin Holding
    BY Holder DEF Holding
  <2>5. \A u \in Threads \ {t} : Answer(u)' = Answer(u)
    BY <2>4, OtherAnswers DEF IInv, TypeOK
  <2> QED BY <2>1, <2>3, <2>5, AnswersUnchanged
<1>14. CASE UNCHANGED vars
  <2>1. boxBar' = boxBar
    BY <1>14, BoxUnchanged DEF vars, listVars
  <2>2. answerBar' = answerBar
    BY <1>14, AnswersUnchanged DEF vars, listVars, threadVars, Answer
  <2> QED BY <2>1, <2>2
<1> QED
  BY <1>1, <1>2, <1>3, <1>4, <1>5, <1>6, <1>7, <1>8, <1>9, <1>10, <1>11,
     <1>12, <1>13, <1>14 DEF Next, Proceed, Box!Next

(* The locked list is a first-in first-out mailbox, for any number of      *)
(* threads, cells and messages.                                            *)
THEOREM RefinementCorrect == Spec => ImplementsMailbox
BY InitRefines, StepRefines, Invariance, PTL DEF Spec, ImplementsMailbox, Box!Spec

===============================================================================
