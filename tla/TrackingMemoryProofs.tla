------------------------- MODULE TrackingMemoryProofs -------------------------
(* For any number of threads and any finite number of blocks: the list of tracked  *)
(* blocks is the heap's, and nothing malloc did not return is freed unless a       *)
(* tracked block outlived the last client or malloc failed for one.                *)
EXTENDS TrackingMemory, FiniteSetTheorems, SequenceTheorems, TLAPS

\* MemoryList is SimpleList's twin: what comes in and goes out does the same to its
\* links.  Here a cell holds itself, and the cells that are not allocated are the
\* blocks that are not tracked.  The lists with mutexes that ListProofs is also about
\* are none here.
L == INSTANCE ListProofs
  WITH Cells <- Blocks, Null <- NULL, Values <- Blocks, Uses <- {}, Careful <- TRUE,
       head <- ml.Head, tail <- ml.Tail, NumberOfElements <- ml.Number,
       PreviousElement <- ml.Previous, CurrentElement <- ml.Current,
       RemoveCurrentHasOccured <- ml.Removed,
       NextElement <- ml.Next, ElementContainer <- [b \in Blocks |-> b],
       free <- Blocks \ Tracked, broken <- FALSE,
       Threads <- {}, NoThread <- NULL, Lists <- {}, Elements <- {}, Assigns <- {},
       MaxCalls <- 0, Timed <- {}, mutex <- {}, contents <- {}, pc <- {}, calls <- {},
       to <- {}, from <- {}, copying <- {}, LockCount <- {}, next <- {},
       expired <- FALSE, snapshot <- {}

Ptr == Blocks \cup {NULL}
Lists == [Head : Ptr, Tail : Ptr, Next : [Blocks -> Ptr], Number : Nat,
          Previous : Ptr, Current : Ptr, Removed : BOOLEAN]
Ops == {"idle", "new", "delete", "construct", "destroy", "dump", "hung"}

Typed ==
  /\ ml \in Lists /\ heap \in [Blocks -> {"none", "plain", "cell"}]
  /\ call \in [Threads -> [op : Ops, arg : Ptr \cup {Wild}]]
  /\ held \subseteq Blocks \cup {Wild}
  /\ clients \in Nat /\ objects \in Nat
  /\ outlived \in BOOLEAN /\ starved \in BOOLEAN /\ aborted \in BOOLEAN

\* The tracked blocks are the cells of one list, and no other block has a link.
Linked(s) == L!Shape(s) /\ \A b \in Blocks \ Tracked : ml.Next[b] = NULL

\* A pointer the program has, or is deleting, is to memory it was given and has not
\* deleted; or it is the one that a failed allocation left.
Good(p) == IF p = Wild THEN starved ELSE p \in Blocks /\ heap[p] # "none"
Deletes(t, p) == call[t].op = "delete" /\ call[t].arg = p
Owned ==
  /\ \A p \in held : Good(p)
  /\ \A t \in Threads : call[t].op = "delete" => Good(call[t].arg)
  /\ \A t \in Threads, b \in Blocks : Deletes(t, b) => b \notin held
  /\ \A t, u \in Threads, b \in Blocks : Deletes(t, b) /\ Deletes(u, b) => t = u

\* The clients are the objects and those whose destructor has not left yet.
Destroying == {t \in Threads : call[t].op = "destroy"}
Counted == IsFiniteSet(Destroying) /\ clients = objects + Cardinality(Destroying)

\* Without clients there is a tracked block only if it outlived them, and the
\* program has been aborted only for one of the two reasons.
Blamed ==
  /\ clients = 0 /\ Tracked # {} => outlived
  /\ aborted => outlived \/ starved

IInv == Typed /\ (\E s : Linked(s)) /\ Owned /\ Counted /\ Blamed

-------------------------------------------------------------------------------
(* What ListProofs says, of this list.                                             *)

\* What that module assumes of its constants.
LEMMA Same ==
  /\ L!IsFiniteSet(Blocks) /\ NULL \notin Blocks /\ TRUE \in BOOLEAN
  /\ NULL \notin {} /\ {} \subseteq {} \X {} /\ 0 \in Nat
BY TrackingAssumption DEF L!IsFiniteSet, IsFiniteSet

\* The walk from Head on is the chain there is.
LEMMA WalkIs == ASSUME NEW s, L!IsChain(s) PROVE Cells = s
<1>1. L!Cardinality(Blocks) = Cardinality(Blocks)
  BY DEF L!Cardinality, Cardinality
<1>2. L!Walk = Walk
  BY <1>1 DEF L!Walk, Walk, L!Pointers
<1>3. L!Chain = Cells
  BY <1>1, <1>2 DEF L!Chain, Cells
<1>4. L!Chain = s
  BY L!ChainIs, Same
<1> QED BY <1>3, <1>4

\* A list of the right types is one there.
LEMMA FieldsAre == ASSUME Typed PROVE L!Fields
<1>1. ml \in Lists
  BY DEF Typed
<1>2. Blocks \ Tracked \subseteq Blocks /\ [b \in Blocks |-> b] \in [Blocks -> Blocks]
  OBVIOUS
<1> QED BY <1>1, <1>2 DEF L!Fields, L!Pointers, Lists, Ptr

\* The cells of the chain, one by one.
LEMMA LinkedFacts ==
  ASSUME NEW s, Linked(s)
  PROVE  /\ L!Shape(s) /\ s \in Seq(Blocks) /\ Len(s) \in Nat /\ NULL \notin Blocks
         /\ \A i \in 1 .. Len(s) : s[i] \in Tracked /\ s[i] # NULL /\ L!At(s, i) = s[i]
         /\ \A i : i \notin 1 .. Len(s) => L!At(s, i) = NULL
         /\ \A i, j \in 1 .. Len(s) : s[i] = s[j] => i = j
         /\ \A b \in Tracked : \E i \in 1 .. Len(s) : s[i] = b
         /\ ml.Head = L!At(s, 1) /\ ml.Tail = L!At(s, Len(s)) /\ ml.Number = Len(s)
         /\ ml.Head = NULL <=> Len(s) = 0
         /\ \A i \in 1 .. Len(s) : ml.Next[s[i]] = L!At(s, i + 1)
         /\ \A i : L!At(s, i) \in Ptr
<1>1. L!Shape(s)
  BY DEF Linked
<1>2. /\ s \in L!Seq(Blocks) /\ Len(s) \in Nat /\ NULL \notin Blocks
      /\ \A i \in 1 .. Len(s) :
            s[i] \in Blocks /\ s[i] # NULL /\ s[i] \notin Blocks \ Tracked /\ L!At(s, i) = s[i]
      /\ \A i : i \notin 1 .. Len(s) => L!At(s, i) = NULL
      /\ ml.Head = NULL <=> Len(s) = 0
      /\ \A i : L!At(s, i) \in L!Pointers
  BY <1>1, Same, L!ShapeFacts
<1>3. \A b \in Tracked : \E i \in 1 .. Len(s) : s[i] = b
  BY <1>1 DEF L!Shape, L!Fits, Tracked
<1>4. /\ \A i, j \in 1 .. Len(s) : s[i] = s[j] => i = j
      /\ ml.Head = L!At(s, 1) /\ ml.Tail = L!At(s, Len(s)) /\ ml.Number = Len(s)
      /\ \A i \in 1 .. Len(s) : ml.Next[s[i]] = L!At(s, i + 1)
  BY <1>1 DEF L!Shape, L!Fits, L!IsChain
<1>5. s \in Seq(Blocks)
  BY <1>2
<1> QED BY <1>1, <1>2, <1>3, <1>4, <1>5 DEF Ptr, L!Pointers

\* A step that leaves the links and the tracked blocks alone leaves the chain.
LEMMA KeptLinks ==
  ASSUME NEW s, Linked(s), ml'.Head = ml.Head, ml'.Tail = ml.Tail, ml'.Next = ml.Next,
         ml'.Number = ml.Number, Tracked' = Tracked
  PROVE  Linked(s)'
<1>1. L!Shape(s)'
  BY DEF Linked, L!Shape, L!IsChain, L!Fits, L!At
<1> QED BY <1>1 DEF Linked

-------------------------------------------------------------------------------
(* What the calls do to the list.                                                  *)

\* Add puts the new cell in behind the last.
LEMMA AddPuts ==
  ASSUME Typed, NEW s, Linked(s), NEW b \in Blocks \ Tracked, ml' = AddTail(ml, b),
         Tracked' = Tracked \cup {b}
  PROVE  /\ ml' \in Lists
         /\ \E t : Linked(t)'
<1>1. /\ L!Shape(s) /\ s \in Seq(Blocks) /\ Len(s) \in Nat /\ NULL \notin Blocks
      /\ \A i : i \notin 1 .. Len(s) => L!At(s, i) = NULL
      /\ ml.Head = L!At(s, 1) /\ ml.Tail = L!At(s, Len(s)) /\ ml.Number = Len(s)
      /\ ml.Head = NULL <=> Len(s) = 0
  BY LinkedFacts
<1>2. ml \in Lists /\ b \in Blocks /\ b \in Ptr /\ NULL \in Ptr /\ b # NULL
  BY <1>1 DEF Typed, Ptr
<1>3. /\ ml' \in Lists /\ ml'.Number = ml.Number + 1 /\ ml'.Tail = b
      /\ ml'.Head = IF ml.Head = NULL THEN b ELSE ml.Head
      /\ ml'.Previous = ml.Previous /\ ml'.Current = ml.Current /\ ml'.Removed = ml.Removed
      /\ ml'.Next = [x \in Blocks |-> IF x = b THEN NULL ELSE
                                        IF x = ml.Tail THEN b ELSE ml.Next[x]]
  <2>1. CASE ml.Head = NULL
    <3>1. ml.Tail = NULL
      BY <1>1, <2>1
    <3>2. ml' = [ml EXCEPT !.Head = b, !.Tail = b, !.Next = [@ EXCEPT ![b] = NULL],
                           !.Number = @ + 1]
      BY <2>1, <1>2 DEF AddTail, Lists
    <3>3. [ml.Next EXCEPT ![b] = NULL]
            = [x \in Blocks |-> IF x = b THEN NULL ELSE IF x = ml.Tail THEN b ELSE ml.Next[x]]
      BY <1>1, <1>2, <3>1 DEF Lists
    <3>4. [ml.Next EXCEPT ![b] = NULL] \in [Blocks -> Ptr]
      BY <1>2 DEF Lists
    <3> DEFINE next == [ml.Next EXCEPT ![b] = NULL]
    <3>5. ml' = [ml EXCEPT !.Head = b, !.Tail = b, !.Next = next, !.Number = ml.Number + 1]
      BY <1>2, <3>2 DEF Lists
    <3>6. ml.Number + 1 \in Nat
      BY <1>2 DEF Lists
    <3> HIDE DEF next
    <3>7. ml' \in Lists
      BY <1>2, <3>4, <3>5, <3>6 DEF Lists, next
    <3>8. /\ ml'.Head = b /\ ml'.Tail = b /\ ml'.Next = next /\ ml'.Number = ml.Number + 1
          /\ ml'.Previous = ml.Previous /\ ml'.Current = ml.Current /\ ml'.Removed = ml.Removed
      BY <1>2, <3>5 DEF Lists
    <3> QED BY <2>1, <3>3, <3>7, <3>8 DEF next
  <2>2. CASE ml.Head # NULL
    <3> DEFINE next == [x \in Blocks |-> IF x = b THEN NULL ELSE
                                           IF x = ml.Tail THEN b ELSE ml.Next[x]]
    <3>1. [n \in Blocks |-> CASE n = b -> NULL [] n # b /\ n = ml.Tail -> b
                              [] OTHER -> ml.Next[n]] = next
      OBVIOUS
    <3>2. next \in [Blocks -> Ptr]
      BY <1>2 DEF Lists
    <3> HIDE DEF next
    <3>3. ml' = [[ml EXCEPT !.Next = next] EXCEPT !.Tail = b, !.Number = @ + 1]
      BY <2>2, <3>1 DEF AddTail
    <3>4. ml' = [ml EXCEPT !.Next = next, !.Tail = b, !.Number = ml.Number + 1]
      BY <1>2, <3>3 DEF Lists
    <3>5. ml.Number + 1 \in Nat
      BY <1>2 DEF Lists
    <3>6. ml' \in Lists
      BY <1>2, <3>2, <3>4, <3>5 DEF Lists
    <3>7. /\ ml'.Head = ml.Head /\ ml'.Tail = b /\ ml'.Next = next /\ ml'.Number = ml.Number + 1
          /\ ml'.Previous = ml.Previous /\ ml'.Current = ml.Current /\ ml'.Removed = ml.Removed
      BY <1>2, <3>4 DEF Lists
    <3> QED BY <2>2, <3>6, <3>7 DEF next
  <2> QED BY <2>1, <2>2
<1>4. L!Link(b, b, L!At(s, Len(s)), L!At(s, Len(s) + 1))
  <2>1. L!At(s, Len(s) + 1) = NULL
    BY <1>1
  <2>2. [x \in Blocks |-> x] = [[x \in Blocks |-> x] EXCEPT ![b] = b]
    OBVIOUS
  <2>3. (Blocks \ Tracked)' = (Blocks \ Tracked) \ {b}
    OBVIOUS
  <2> QED BY <1>1, <1>3, <2>1, <2>2, <2>3 DEF L!Link
<1>5. L!PutsIn(s, Len(s), b, b)
  BY <1>1, <1>3, <1>4 DEF L!PutsIn
<1> DEFINE t == L!InsertAt(s, Len(s) + 1, b)
<1>6. t \in L!Seq(Blocks) /\ L!Inserted(t, s, Len(s), b)
  <2>1. \A i \in 0 .. Len(s), c \in Blocks :
          /\ L!InsertAt(s, i + 1, c) \in L!Seq(Blocks)
          /\ L!Inserted(L!InsertAt(s, i + 1, c), s, i, c)
    BY <1>1, Same, L!InsertAtIs
  <2>2. Len(s) \in 0 .. Len(s)
    BY <1>1
  <2> QED BY <1>2, <2>1, <2>2
<1> HIDE DEF t
<1>7. L!Fields /\ Len(s) \in 0 .. Len(s)
  BY <1>1, FieldsAre
<1>8. L!IsChain(t)'
  BY <1>1, <1>2, <1>5, <1>6, <1>7, Same, L!PutKeepsChain
<1>9. L!Fits(t)'
  BY <1>1, <1>2, <1>5, <1>6, <1>7, Same, L!PutKeepsFit
<1>10. ASSUME NEW x \in Blocks \ Tracked' PROVE ml'.Next[x] = NULL
  <2>1. x \notin Tracked /\ x # b /\ ml.Next[x] = NULL
    BY DEF Linked
  <2>2. x # ml.Tail
    <3>1. CASE Len(s) = 0
      BY <1>1, <3>1
    <3>2. CASE Len(s) # 0
      BY <1>1, <2>1, <3>2, LinkedFacts
    <3> QED BY <3>1, <3>2
  <2> QED BY <1>3, <2>1, <2>2
<1> QED BY <1>3, <1>8, <1>9, <1>10 DEF Linked, L!Shape

\* The loop of Remove stops on a tracked block, with the one before it, and on no
\* other pointer.
LEMMA SeekFinds ==
  ASSUME Typed, NEW s, Linked(s), NEW p \in Blocks \cup {Wild}
  PROVE  LET k == Seek(ml, p)
         IN /\ k \in Lists /\ k.Head = ml.Head /\ k.Tail = ml.Tail /\ k.Next = ml.Next
            /\ k.Number = ml.Number
            /\ p \notin Tracked => k.Current = NULL
            /\ p \in Tracked => /\ k.Current = p
                                /\ \E i \in 1 .. Len(s) : s[i] = p /\ k.Previous = L!At(s, i - 1)
<1>1. /\ Len(s) \in Nat /\ NULL \notin Blocks
      /\ \A i \in 1 .. Len(s) : s[i] \in Tracked /\ s[i] # NULL /\ L!At(s, i) = s[i]
      /\ \A i : i \notin 1 .. Len(s) => L!At(s, i) = NULL
      /\ \A i, j \in 1 .. Len(s) : s[i] = s[j] => i = j
      /\ \A b \in Tracked : \E i \in 1 .. Len(s) : s[i] = b
      /\ ml.Head = L!At(s, 1)
      /\ \A i \in 1 .. Len(s) : ml.Next[s[i]] = L!At(s, i + 1)
  BY LinkedFacts
<1>2. ml \in Lists /\ p # NULL /\ Tracked \subseteq Blocks
  BY <1>1, TrackingAssumption DEF Typed, Tracked
<1> DEFINE links == {n \in Blocks : ml.Next[n] = p}
           found == p # NULL /\ (p = ml.Head \/ links # {})
           prev == CASE ~found -> ml.Tail [] found /\ p = ml.Head -> NULL
                     [] OTHER -> CHOOSE n \in links : TRUE
<1>3. Seek(ml, p) = [First(ml) EXCEPT !.Current = IF found THEN p ELSE NULL, !.Previous = prev]
  BY DEF Seek
<1>4. \A n \in links : \E j \in 1 .. Len(s) : n = s[j] /\ j + 1 \in 1 .. Len(s) /\ s[j + 1] = p
  <2> SUFFICES ASSUME NEW n \in links
               PROVE  \E j \in 1 .. Len(s) : n = s[j] /\ j + 1 \in 1 .. Len(s) /\ s[j + 1] = p
    OBVIOUS
  <2>1. n \in Tracked
    BY <1>2 DEF Linked
  <2>2. PICK j \in 1 .. Len(s) : s[j] = n
    BY <1>1, <2>1
  <2>3. L!At(s, j + 1) = p
    BY <1>1, <2>2
  <2>4. j + 1 \in 1 .. Len(s)
    BY <1>1, <1>2, <2>3
  <2> QED BY <1>1, <2>2, <2>3, <2>4
<1>5. ASSUME NEW i \in 1 .. Len(s), s[i] = p
      PROVE  found /\ prev = L!At(s, i - 1)
  <2>1. CASE i = 1
    <3>1. ml.Head = p /\ L!At(s, i - 1) = NULL
      BY <1>1, <1>5, <2>1
    <3> QED BY <1>2, <3>1
  <2>2. CASE i # 1
    <3>1. i - 1 \in 1 .. Len(s) /\ (i - 1) + 1 = i
      BY <1>1, <2>2
    <3>2. s[i - 1] \in links
      BY <1>1, <1>2, <1>5, <3>1
    <3>3. \A n \in links : n = s[i - 1]
      <4> SUFFICES ASSUME NEW n \in links PROVE n = s[i - 1]
        OBVIOUS
      <4>1. PICK j \in 1 .. Len(s) : n = s[j] /\ j + 1 \in 1 .. Len(s) /\ s[j + 1] = p
        BY <1>4
      <4>2. j + 1 = i
        BY <1>1, <1>5, <4>1
      <4> QED BY <4>1, <4>2
    <3>4. p # ml.Head
      <4>1. 1 \in 1 .. Len(s)
        BY <3>1
      <4> QED BY <1>1, <1>5, <2>2, <4>1
    <3> HIDE DEF links
    <3>5. (CHOOSE n \in links : TRUE) = s[i - 1]
      BY <3>2, <3>3
    <3> QED BY <1>1, <1>2, <3>1, <3>2, <3>4, <3>5
  <2> QED BY <2>1, <2>2
<1>6. p \notin Tracked => ~found
  <2>1. p \notin Tracked => p # ml.Head
    <3>1. 1 \in 1 .. Len(s) \/ ml.Head = NULL
      BY <1>1
    <3> QED BY <1>1, <1>2, <3>1
  <2>2. p \notin Tracked => links = {}
    BY <1>1, <1>4
  <2> HIDE DEF links
  <2> QED BY <2>1, <2>2
<1>7. p \in Tracked => \E i \in 1 .. Len(s) : s[i] = p /\ found /\ prev = L!At(s, i - 1)
  BY <1>1, <1>5
<1>8. prev \in Ptr /\ (found => p \in Ptr)
  <2>1. CASE p \in Tracked
    BY <1>2, <1>7, <2>1, LinkedFacts DEF Ptr
  <2>2. CASE p \notin Tracked
    BY <1>2, <1>6, <2>2 DEF Lists
  <2> QED BY <2>1, <2>2
<1> HIDE DEF links, found, prev
<1>9. /\ Seek(ml, p) \in Lists /\ Seek(ml, p).Head = ml.Head /\ Seek(ml, p).Tail = ml.Tail
      /\ Seek(ml, p).Next = ml.Next /\ Seek(ml, p).Number = ml.Number
      /\ Seek(ml, p).Current = (IF found THEN p ELSE NULL) /\ Seek(ml, p).Previous = prev
  <2> HIDE DEF Ptr
  <2>1. NULL \in Ptr
    BY DEF Ptr
  <2> QED BY <1>2, <1>3, <1>8, <2>1 DEF Lists, First
<1> QED BY <1>6, <1>7, <1>9

\* Remove takes a tracked block out, and leaves the links as they are without it.
LEMMA RemoveTakes ==
  ASSUME Typed, NEW s, Linked(s), NEW p \in Tracked, ml' = RemoveElement(ml, p).list,
         Tracked' = Tracked \ {p}
  PROVE  /\ ml' \in Lists
         /\ \E t : Linked(t)'
<1> DEFINE k == Seek(ml, p)
<1>1. p \in Blocks /\ p \in Blocks \cup {Wild} /\ NULL \notin Blocks /\ ml \in Lists
  BY TrackingAssumption DEF Tracked, Typed
<1>2. /\ k \in Lists /\ k.Head = ml.Head /\ k.Tail = ml.Tail /\ k.Next = ml.Next
      /\ k.Number = ml.Number /\ k.Current = p
      /\ \E i \in 1 .. Len(s) : s[i] = p /\ k.Previous = L!At(s, i - 1)
  BY <1>1, SeekFinds
<1>3. PICK i \in 1 .. Len(s) : s[i] = p /\ k.Previous = L!At(s, i - 1)
  BY <1>2
<1>4. ml' = RemoveCurrent(k)
  BY <1>1, <1>2 DEF RemoveElement
<1> HIDE DEF k
<1>5. /\ L!Shape(s) /\ s \in Seq(Blocks) /\ Len(s) \in Nat
      /\ \A j \in 1 .. Len(s) : s[j] \in Tracked /\ L!At(s, j) = s[j]
      /\ \A j : j \notin 1 .. Len(s) => L!At(s, j) = NULL
      /\ \A j, l \in 1 .. Len(s) : s[j] = s[l] => j = l
      /\ ml.Head = L!At(s, 1) /\ ml.Tail = L!At(s, Len(s)) /\ ml.Number = Len(s)
      /\ ml.Next[s[i]] = L!At(s, i + 1)
      /\ \A j : L!At(s, j) \in Ptr
  BY LinkedFacts
<1>6. (ml.Head = p <=> i = 1) /\ (ml.Tail = p <=> i = Len(s))
  <2>1. 1 \in 1 .. Len(s) /\ Len(s) \in 1 .. Len(s)
    BY <1>5
  <2> QED BY <1>3, <1>5, <2>1
<1> DEFINE after == IF i = 1 THEN ml.Next ELSE [ml.Next EXCEPT ![L!At(s, i - 1)] = L!At(s, i + 1)]
           next == [after EXCEPT ![p] = NULL]
           cut == IF i = 1 THEN [k EXCEPT !.Head = L!At(s, i + 1)] ELSE [k EXCEPT !.Next = after]
<1>7. ml' = [cut EXCEPT !.Next = next, !.Current = L!At(s, i + 1),
                        !.Tail = IF i = Len(s) THEN L!At(s, i - 1) ELSE ml.Tail,
                        !.Number = ml.Number - 1, !.Removed = TRUE]
  <2> DEFINE c == IF k.Head = k.Current THEN [k EXCEPT !.Head = k.Next[k.Current]]
                  ELSE [k EXCEPT !.Next = [@ EXCEPT ![k.Previous] = k.Next[k.Current]]]
  <2>1. c = cut
    BY <1>2, <1>3, <1>5, <1>6 DEF Lists
  <2>2. cut.Next = after /\ cut.Tail = ml.Tail /\ cut.Number = ml.Number
    BY <1>2 DEF Lists
  <2>3. ml' = [c EXCEPT !.Next = [@ EXCEPT ![k.Current] = NULL], !.Current = k.Next[k.Current],
                        !.Tail = IF @ = k.Current THEN k.Previous ELSE @,
                        !.Number = @ - 1, !.Removed = TRUE]
    BY <1>4 DEF RemoveCurrent
  <2>4. k.Current = p /\ k.Next[k.Current] = L!At(s, i + 1) /\ k.Previous = L!At(s, i - 1)
    BY <1>2, <1>3, <1>5
  <2> HIDE DEF after, cut, c
  <2> QED BY <1>6, <2>1, <2>2, <2>3, <2>4
<1>8. after \in [Blocks -> Ptr] /\ next \in [Blocks -> Ptr]
  BY <1>1, <1>5 DEF Lists, Ptr
<1>9. \A c \in Blocks : c # p =>
        next[c] = IF c = L!At(s, i - 1) THEN L!At(s, i + 1) ELSE ml.Next[c]
  <2>1. CASE i = 1
    <3>1. L!At(s, i - 1) = NULL
      BY <1>5, <2>1
    <3> QED BY <1>1, <2>1, <3>1 DEF Lists
  <2>2. CASE i # 1
    BY <1>1, <2>2 DEF Lists
  <2> QED BY <2>1, <2>2
<1> HIDE DEF after, next
<1>10. ml.Number - 1 \in Nat
  BY <1>5
<1>11. /\ ml' \in Lists /\ ml'.Next = next /\ ml'.Number = ml.Number - 1
       /\ ml'.Head = IF i = 1 THEN L!At(s, i + 1) ELSE ml.Head
       /\ ml'.Tail = IF i = Len(s) THEN L!At(s, i - 1) ELSE ml.Tail
  <2>1. L!At(s, i + 1) \in Ptr /\ L!At(s, i - 1) \in Ptr
    BY <1>5
  <2>2. cut \in Lists /\ cut.Head = IF i = 1 THEN L!At(s, i + 1) ELSE ml.Head
    BY <1>2, <1>8, <2>1 DEF Lists
  <2> HIDE DEF cut
  <2> QED BY <1>1, <1>7, <1>8, <1>10, <2>1, <2>2 DEF Lists
<1>12. L!TakesOut(s, i)
  <2>1. i = 1 => i + 1 = 2
    OBVIOUS
  <2>2. (Blocks \ Tracked)' = (Blocks \ Tracked) \cup {s[i]}
    BY <1>1, <1>3
  <2>3. L!Pointers = Ptr
    BY DEF L!Pointers, Ptr
  <2> QED BY <1>3, <1>8, <1>9, <1>11, <2>1, <2>2, <2>3 DEF L!TakesOut
<1> DEFINE t == L!RemoveAt(s, i)
<1>13. t \in L!Seq(Blocks) /\ L!Removed(t, s, i)
  BY <1>5, Same, L!RemoveAtIs
<1> HIDE DEF t
<1>14. L!Fields
  BY FieldsAre
<1>15. L!IsChain(t)'
  BY <1>5, <1>12, <1>13, <1>14, Same, L!TakeKeepsChain
<1>16. L!Fits(t)'
  BY <1>5, <1>12, <1>13, <1>14, Same, L!TakeKeepsFit
<1>17. ASSUME NEW x \in Blocks \ Tracked' PROVE ml'.Next[x] = NULL
  <2>1. CASE x = p
    BY <1>1, <1>8, <1>11, <2>1 DEF next
  <2>2. CASE x # p
    <3>1. x \in Blocks \ Tracked /\ ml.Next[x] = NULL
      BY <2>2 DEF Linked
    <3>2. x # L!At(s, i - 1)
      <4>1. CASE i - 1 \in 1 .. Len(s)
        BY <1>5, <3>1, <4>1
      <4>2. CASE i - 1 \notin 1 .. Len(s)
        BY <1>1, <1>5, <3>1, <4>2
      <4> QED BY <4>1, <4>2
    <3> QED BY <1>9, <1>11, <2>2, <3>1, <3>2
  <2> QED BY <2>1, <2>2
<1> QED BY <1>11, <1>15, <1>16, <1>17 DEF Linked, L!Shape

-------------------------------------------------------------------------------
(* Every step keeps the invariant.                                                 *)

Calls == [op : Ops, arg : Ptr \cup {Wild}]

\* A thread that is not, or no longer, deleting: the other pointers stay good, and
\* a pointer that comes in is good and nobody's.
LEMMA OwnedKept ==
  ASSUME Typed, Owned, NEW t \in Threads, NEW x \in Calls, x.op # "delete",
         call' = [call EXCEPT ![t] = x],
         \A p : Good(p) /\ (p = Wild \/ ~Deletes(t, p)) => Good(p)',
         \A p \in held' : p \in held \/ (Good(p)' /\ \A u \in Threads : p = Wild \/ ~Deletes(u, p))
  PROVE  Owned'
<1>1. call \in [Threads -> Calls] /\ held \subseteq Blocks \cup {Wild}
  BY DEF Typed, Calls
<1>2. \A u \in Threads : \A p : Deletes(u, p)' => u # t /\ Deletes(u, p)
  BY <1>1 DEF Deletes
<1>3. ASSUME NEW p \in held' PROVE Good(p)'
  <2>1. CASE p \in held
    <3>1. Good(p) /\ (p = Wild \/ ~Deletes(t, p))
      BY <1>1, <2>1 DEF Owned
    <3> QED BY <3>1
  <2>2. CASE p \notin held
    BY <2>2
  <2> QED BY <2>1, <2>2
<1>4. ASSUME NEW u \in Threads, (call[u].op = "delete")' PROVE Good(call[u].arg)'
  <2> DEFINE p == call[u].arg
  <2>1. u # t /\ call'[u] = call[u] /\ Deletes(u, p) /\ Good(p)
    BY <1>1, <1>4 DEF Deletes, Owned
  <2>2. p \in Blocks => ~Deletes(t, p)
    BY <2>1 DEF Owned
  <2>3. p = Wild \/ p \in Blocks
    BY <2>1 DEF Good
  <2> HIDE DEF p
  <2>4. Good(p)'
    <3>1. p = Wild \/ ~Deletes(t, p)
      BY <2>2, <2>3
    <3>2. \A q : Good(q) /\ (q = Wild \/ ~Deletes(t, q)) => Good(q)'
      OBVIOUS
    <3>3. Good(call[u].arg)'
      BY <2>1, <3>1, <3>2 DEF p, Good
    <3> QED BY <2>1, <3>3 DEF p, Good
  <2> QED BY <2>1, <2>4 DEF p
<1>5. ASSUME NEW u \in Threads, NEW b \in Blocks, Deletes(u, b)' PROVE b \notin held'
  <2>1. b # Wild /\ b \notin held /\ Deletes(u, b)
    BY <1>2, <1>5, TrackingAssumption DEF Owned
  <2> QED BY <2>1
<1>6. ASSUME NEW u \in Threads, NEW v \in Threads, NEW b \in Blocks,
             Deletes(u, b)', Deletes(v, b)'
      PROVE  u = v
  BY <1>2, <1>6 DEF Owned
<1> QED BY <1>3, <1>4, <1>5, <1>6 DEF Owned

\* Who is destroying changes with the call of one thread.
LEMMA DestroyingIs ==
  ASSUME Typed, NEW t \in Threads, NEW x \in Calls, call' = [call EXCEPT ![t] = x]
  PROVE  Destroying' = IF x.op = "destroy" THEN Destroying \cup {t} ELSE Destroying \ {t}
BY DEF Typed, Calls, Destroying

\* A call that is no destruction counts the clients with the objects.
LEMMA CountedKept ==
  ASSUME Typed, Counted, NEW t \in Threads, NEW x \in Calls, call' = [call EXCEPT ![t] = x],
         x.op # "destroy", call[t].op # "destroy",
         NEW n \in {0, 1}, clients' = clients + n, objects' = objects + n
  PROVE  Counted'
<1>1. Destroying' = Destroying
  BY DestroyingIs DEF Destroying
<1>2. Cardinality(Destroying) \in Nat /\ clients \in Nat /\ objects \in Nat
  BY FS_CardinalityType DEF Counted, Typed
<1>3. Cardinality(Destroying)' = Cardinality(Destroying)
  BY <1>1
<1> QED BY <1>1, <1>2, <1>3 DEF Counted

\* A call of new, a construction: nothing but the call changes.
LEMMA QuietCallKeeps ==
  ASSUME IInv, NEW t \in Threads, NEW op \in {"new", "construct"}, Call(t, op, NULL),
         UNCHANGED <<clients, objects, ml, heap, held, outlived, starved, aborted>>
  PROVE  IInv'
<1> DEFINE x == [op |-> op, arg |-> NULL]
<1>1. /\ Typed /\ Owned /\ Counted /\ Blamed /\ \E s : Linked(s)
      /\ x \in Calls /\ x.op # "delete" /\ x.op # "destroy" /\ call[t].op # "destroy"
      /\ call' = [call EXCEPT ![t] = x] /\ Tracked' = Tracked
  BY DEF IInv, Call, Idle, Calls, Ops, Ptr, Tracked
<1> HIDE DEF x
<1>2. Typed'
  BY <1>1 DEF Typed, Calls
<1>3. \E s : Linked(s)'
  BY <1>1, KeptLinks
<1>4. Owned'
  BY <1>1, OwnedKept DEF Good
<1>5. Counted'
  <2>1. clients' = clients + 0 /\ objects' = objects + 0
    BY <1>1 DEF Typed
  <2> QED BY <1>1, <2>1, CountedKept
<1>6. Blamed'
  BY <1>1 DEF Blamed
<1> QED BY <1>2, <1>3, <1>4, <1>5, <1>6 DEF IInv

\* A call of delete: the pointer is the thread's now, and the program's no more.
LEMMA CallDeleteKeeps ==
  ASSUME IInv, NEW t \in Threads, NEW p \in held, CallDelete(t, p)
  PROVE  IInv'
<1> DEFINE x == [op |-> "delete", arg |-> p]
<1>1. /\ Typed /\ Owned /\ Counted /\ Blamed /\ \E s : Linked(s)
      /\ p \in Blocks \cup {Wild} /\ x \in Calls /\ x.op = "delete" /\ x.arg = p
      /\ call[t] = Idle /\ call[t].op # "destroy" /\ call[t].op # "delete"
      /\ call' = [call EXCEPT ![t] = x] /\ Tracked' = Tracked /\ held' = held \ {p}
      /\ UNCHANGED <<clients, objects, ml, heap, outlived, starved, aborted>>
  BY DEF IInv, CallDelete, Call, Idle, Calls, Ops, Ptr, Tracked, Typed
<1> HIDE DEF x
<1>2. Typed'
  BY <1>1 DEF Typed, Calls
<1>3. \E s : Linked(s)'
  BY <1>1, KeptLinks
<1>4. Owned'
  <2>1. \A u \in Threads : call'[u] = IF u = t THEN x ELSE call[u]
    BY <1>1 DEF Typed
  <2>2. \A q : Good(q)' <=> Good(q)
    BY <1>1 DEF Good
  <2>3. \A u \in Threads : \A q : Deletes(u, q)' <=> IF u = t THEN q = p ELSE Deletes(u, q)
    BY <1>1, <2>1 DEF Deletes
  <2>4. \A q \in held' : Good(q)'
    BY <1>1, <2>2 DEF Owned
  <2>5. ASSUME NEW u \in Threads, call'[u].op = "delete" PROVE Good(call[u].arg)'
    <3>1. Good(call'[u].arg)
      BY <1>1, <2>1, <2>5 DEF Owned
    <3> QED BY <1>1, <3>1 DEF Good
  <2>6. \A u \in Threads, b \in Blocks : Deletes(u, b)' => b \notin held'
    BY <1>1, <2>3 DEF Owned
  <2>7. \A u, v \in Threads, b \in Blocks : Deletes(u, b)' /\ Deletes(v, b)' => u = v
    BY <1>1, <2>3 DEF Owned
  <2> QED BY <2>4, <2>5, <2>6, <2>7 DEF Owned
<1>5. Counted'
  <2>1. clients' = clients + 0 /\ objects' = objects + 0
    BY <1>1 DEF Typed
  <2>2. x.op # "destroy"
    BY <1>1
  <2> QED BY <1>1, <2>1, <2>2, CountedKept
<1>6. Blamed'
  BY <1>1 DEF Blamed
<1> QED BY <1>2, <1>3, <1>4, <1>5, <1>6 DEF IInv

\* A destruction begins: an object less, a thread more that destroys one.
LEMMA DestroyKeeps ==
  ASSUME IInv, NEW t \in Threads, Destroy(t)
  PROVE  IInv'
<1> DEFINE x == [op |-> "destroy", arg |-> NULL]
<1>1. /\ Typed /\ Owned /\ Counted /\ Blamed /\ \E s : Linked(s)
      /\ x \in Calls /\ x.op = "destroy" /\ x.op # "delete"
      /\ call[t].op # "destroy" /\ objects > 0 /\ objects' = objects - 1
      /\ call' = [call EXCEPT ![t] = x] /\ Tracked' = Tracked
      /\ UNCHANGED <<clients, ml, heap, held, outlived, starved, aborted>>
  BY DEF IInv, Destroy, Call, Idle, Calls, Ops, Ptr, Tracked
<1> HIDE DEF x
<1>2. Typed'
  <2>1. objects' \in Nat
    BY <1>1 DEF Typed
  <2> QED BY <1>1, <2>1 DEF Typed, Calls
<1>3. \E s : Linked(s)'
  BY <1>1, KeptLinks
<1>4. Owned'
  BY <1>1, OwnedKept DEF Good
<1>5. Counted'
  <2>1. Destroying' = Destroying \cup {t} /\ t \notin Destroying
    BY <1>1, DestroyingIs DEF Destroying
  <2>2. /\ IsFiniteSet(Destroying \cup {t})
        /\ Cardinality(Destroying \cup {t}) = Cardinality(Destroying) + 1
    BY <1>1, <2>1, FS_AddElement DEF Counted
  <2>3. Cardinality(Destroying) \in Nat /\ objects \in Nat
    BY <1>1, FS_CardinalityType DEF Counted, Typed
  <2>4. Cardinality(Destroying)' = Cardinality(Destroying) + 1 /\ IsFiniteSet(Destroying)'
    BY <2>1, <2>2
  <2> QED BY <1>1, <2>3, <2>4 DEF Counted
<1>6. Blamed'
  BY <1>1 DEF Blamed
<1> QED BY <1>2, <1>3, <1>4, <1>5, <1>6 DEF IInv

\* operator new gives a block that nobody has, tracked when there is a client.
LEMMA AddMemoryBlockKeeps ==
  ASSUME IInv, NEW t \in Threads, AddMemoryBlock(t)
  PROVE  IInv'
<1>1. /\ Typed /\ Owned /\ Counted /\ Blamed /\ \E s : Linked(s)
      /\ Idle \in Calls /\ Idle.op # "delete" /\ Idle.op # "destroy"
      /\ call[t].op = "new" /\ call' = [call EXCEPT ![t] = Idle]
      /\ UNCHANGED <<clients, objects, outlived, aborted>>
  BY DEF IInv, AddMemoryBlock, Enters, Return, Idle, Calls, Ops, Ptr
<1>2. Counted'
  <2>1. clients' = clients + 0 /\ objects' = objects + 0 /\ call[t].op # "destroy"
    BY <1>1 DEF Typed
  <2> QED BY <1>1, <2>1, CountedKept
<1>3. CASE /\ held' = (IF clients # 0 THEN held \cup {Wild} ELSE held)
           /\ starved' = (starved \/ clients # 0)
           /\ UNCHANGED <<ml, heap>>
  <2>1. Tracked' = Tracked /\ starved' \in BOOLEAN
    BY <1>3 DEF Tracked
  <2>2. Typed'
    <3>1. held' \subseteq Blocks \cup {Wild}
      BY <1>1, <1>3 DEF Typed
    <3> QED BY <1>1, <1>3, <2>1, <3>1 DEF Typed, Calls
  <2>3. \E s : Linked(s)'
    BY <1>1, <1>3, <2>1, KeptLinks
  <2>4. Owned'
    <3>1. \A p : Good(p) => Good(p)'
      BY <1>3 DEF Good
    <3>2. \A p \in held' : p \in held \/ (p = Wild /\ starved')
      BY <1>3
    <3>3. starved' => Good(Wild)'
      BY DEF Good
    <3> QED BY <1>1, <3>1, <3>2, <3>3, OwnedKept
  <2>5. Blamed'
    BY <1>1, <1>3, <2>1 DEF Blamed
  <2> QED BY <1>2, <2>2, <2>3, <2>4, <2>5 DEF IInv
<1>4. ASSUME NEW b \in Blocks, heap[b] = "none", held' = held \cup {b},
             heap' = [heap EXCEPT ![b] = IF clients # 0 THEN "cell" ELSE "plain"],
             ml' = (IF clients # 0 THEN AddTail(ml, b) ELSE ml),
             UNCHANGED starved
      PROVE  IInv'
  <2>1. b \in Blocks \ Tracked /\ b # Wild
    BY <1>4, TrackingAssumption DEF Tracked
  <2>2. Tracked' = IF clients # 0 THEN Tracked \cup {b} ELSE Tracked
    BY <1>1, <1>4 DEF Tracked, Typed
  <2>3. heap' \in [Blocks -> {"none", "plain", "cell"}] /\ held' \subseteq Blocks \cup {Wild}
    BY <1>1, <1>4 DEF Typed
  <2>4. ml' \in Lists /\ \E s : Linked(s)'
    <3>1. PICK s : Linked(s)
      BY <1>1
    <3>2. CASE clients # 0
      BY <1>1, <1>4, <2>1, <2>2, <3>1, <3>2, AddPuts
    <3>3. CASE clients = 0
      BY <1>1, <1>4, <2>2, <3>1, <3>3, KeptLinks DEF Typed
    <3> QED BY <3>2, <3>3
  <2>5. Typed'
    BY <1>1, <1>4, <2>3, <2>4 DEF Typed, Calls
  <2>6. Owned'
    <3>1. \A p : Good(p) => Good(p)'
      BY <1>1, <1>4 DEF Good, Typed
    <3>2. Good(b)'
      BY <1>1, <1>4, <2>1 DEF Good, Typed
    <3>3. \A u \in Threads : ~Deletes(u, b)
      BY <1>1, <1>4, <2>1 DEF Owned, Deletes, Good
    <3> QED BY <1>1, <1>4, <3>1, <3>2, <3>3, OwnedKept
  <2>7. Blamed'
    BY <1>1, <1>4, <2>2 DEF Blamed
  <2> QED BY <1>2, <2>4, <2>5, <2>6, <2>7 DEF IInv
<1> QED BY <1>3, <1>4 DEF AddMemoryBlock

\* What free is given by a thread that owns it: a plain block, unless malloc has
\* failed or it is a tracked one.
LEMMA FreeIs ==
  ASSUME NEW p, Good(p), heap \in [Blocks -> {"none", "plain", "cell"}], Free(p)
  PROVE  \/ /\ p \in Blocks /\ heap[p] = "plain"
            /\ heap' = [heap EXCEPT ![p] = "none"] /\ UNCHANGED aborted
         \/ aborted' /\ UNCHANGED heap /\ (starved \/ p \in Tracked)
BY DEF Free, Good, Tracked

\* A block that its owner has freed, tracked or plain, is good for nobody any more,
\* and nobody else has it.
LEMMA FreedKeeps ==
  ASSUME Typed, Owned, NEW t \in Threads, NEW p \in Blocks, Deletes(t, p),
         heap' = [heap EXCEPT ![p] = "none"],
         call' = [call EXCEPT ![t] = Idle], UNCHANGED <<held, starved>>
  PROVE  /\ heap' \in [Blocks -> {"none", "plain", "cell"}] /\ Tracked' = Tracked \ {p}
         /\ Owned'
<1>1. heap' \in [Blocks -> {"none", "plain", "cell"}] /\ Tracked' = Tracked \ {p}
  BY DEF Typed, Tracked
<1>2. Idle \in Calls /\ Idle.op # "delete"
  BY DEF Idle, Calls, Ops, Ptr
<1>3. \A q : Good(q) /\ (q = Wild \/ ~Deletes(t, q)) => Good(q)'
  BY DEF Good, Typed
<1> QED BY <1>1, <1>2, <1>3, OwnedKept

\* operator delete frees the block, wherever the list and malloc have it.
LEMMA RemoveMemoryBlockKeeps ==
  ASSUME IInv, NEW t \in Threads, RemoveMemoryBlock(t)
  PROVE  IInv'
<1> DEFINE p == call[t].arg
<1>1. /\ Typed /\ Owned /\ Counted /\ Blamed /\ \E s : Linked(s)
      /\ Idle \in Calls /\ Idle.op # "delete" /\ Idle.op # "destroy"
      /\ call[t].op = "delete" /\ call[t].op # "destroy" /\ call' = [call EXCEPT ![t] = Idle]
      /\ UNCHANGED <<clients, objects, held, outlived, starved>>
      /\ Deletes(t, p) /\ Good(p) /\ p \in Blocks \cup {Wild}
  BY DEF IInv, RemoveMemoryBlock, Enters, Return, Idle, Calls, Ops, Ptr, Owned, Deletes, Good
<1>2. IF clients = 0 THEN Free(p) /\ UNCHANGED ml
      ELSE /\ ml' = RemoveElement(ml, p).list
           /\ IF RemoveElement(ml, p).found
              THEN heap' = [heap EXCEPT ![p] = "none"] /\ UNCHANGED aborted
              ELSE Free(p)
  BY DEF RemoveMemoryBlock
<1> HIDE DEF p
<1>3. PICK s : Linked(s)
  BY <1>1
<1>4. Counted'
  <2>1. clients' = clients + 0 /\ objects' = objects + 0
    BY <1>1 DEF Typed
  <2> QED BY <1>1, <2>1, CountedKept
<1>5. CASE clients # 0 /\ p \in Tracked
  <2>1. p \in Blocks
    BY <1>5 DEF Tracked
  <2>2. RemoveElement(ml, p).found
    <3>1. Seek(ml, p).Current = p /\ p # NULL
      BY <1>1, <1>3, <1>5, <2>1, SeekFinds, TrackingAssumption
    <3> QED BY <3>1 DEF RemoveElement
  <2>3. /\ ml' = RemoveElement(ml, p).list
        /\ heap' = [heap EXCEPT ![p] = "none"] /\ UNCHANGED aborted
    BY <1>2, <1>5, <2>2
  <2>4. heap' \in [Blocks -> {"none", "plain", "cell"}] /\ Tracked' = Tracked \ {p} /\ Owned'
    BY <1>1, <2>1, <2>3, FreedKeeps
  <2>5. ml' \in Lists /\ \E r : Linked(r)'
    BY <1>1, <1>3, <1>5, <2>3, <2>4, RemoveTakes
  <2>6. Typed'
    BY <1>1, <2>3, <2>4, <2>5 DEF Typed, Calls
  <2>7. Blamed'
    BY <1>1, <1>5, <2>3 DEF Blamed
  <2> QED BY <1>4, <2>4, <2>5, <2>6, <2>7 DEF IInv
<1>6. CASE clients = 0 \/ p \notin Tracked
  <2>1. /\ ml' \in Lists /\ ml'.Head = ml.Head /\ ml'.Tail = ml.Tail /\ ml'.Next = ml.Next
        /\ ml'.Number = ml.Number /\ Free(p)
    <3>1. CASE clients = 0
      BY <1>1, <1>2, <3>1 DEF Typed
    <3>2. CASE clients # 0
      <4>1. p \notin Tracked
        BY <1>6, <3>2
      <4>2. LET k == Seek(ml, p)
            IN /\ k \in Lists /\ k.Head = ml.Head /\ k.Tail = ml.Tail /\ k.Next = ml.Next
               /\ k.Number = ml.Number /\ k.Current = NULL
        BY <1>1, <1>3, <4>1, SeekFinds
      <4>3. RemoveElement(ml, p) = [list |-> Seek(ml, p), found |-> FALSE]
        BY <4>2 DEF RemoveElement
      <4> QED BY <1>2, <3>2, <4>2, <4>3
    <3> QED BY <3>1, <3>2
  <2>2. CASE /\ p \in Blocks /\ heap[p] = "plain"
             /\ heap' = [heap EXCEPT ![p] = "none"] /\ UNCHANGED aborted
    <3>1. heap' \in [Blocks -> {"none", "plain", "cell"}] /\ Tracked' = Tracked \ {p} /\ Owned'
      BY <1>1, <2>2, FreedKeeps
    <3>2. Tracked' = Tracked
      BY <2>2, <3>1 DEF Tracked
    <3>3. \E r : Linked(r)'
      BY <1>3, <2>1, <3>2, KeptLinks
    <3>4. Typed'
      BY <1>1, <2>1, <2>2, <3>1 DEF Typed, Calls
    <3>5. Blamed'
      BY <1>1, <2>2, <3>2 DEF Blamed
    <3> QED BY <1>4, <3>1, <3>3, <3>4, <3>5 DEF IInv
  <2>3. CASE aborted' /\ UNCHANGED heap /\ (starved \/ p \in Tracked)
    <3>1. Tracked' = Tracked
      BY <2>3 DEF Tracked
    <3>2. \E r : Linked(r)'
      BY <1>3, <2>1, <3>1, KeptLinks
    <3>3. aborted' = TRUE
      BY <1>2, <1>6, <2>1, <2>3 DEF Free
    <3>4. Typed'
      BY <1>1, <2>1, <2>3, <3>3 DEF Typed, Calls
    <3>5. Owned'
      BY <1>1, <2>3, OwnedKept DEF Good
    <3>6. Blamed'
      <4>1. starved \/ outlived
        BY <1>1, <1>6, <2>3 DEF Blamed
      <4> QED BY <1>1, <3>1, <4>1 DEF Blamed
    <3> QED BY <1>4, <3>2, <3>4, <3>5, <3>6 DEF IInv
  <2>4. heap \in [Blocks -> {"none", "plain", "cell"}]
    BY <1>1 DEF Typed
  <2> QED BY <1>1, <2>1, <2>2, <2>3, <2>4, FreeIs
<1> QED BY <1>5, <1>6

\* A client more.
LEMMA TrackMemoryLeaksKeeps ==
  ASSUME IInv, NEW t \in Threads, TrackMemoryLeaks(t)
  PROVE  IInv'
<1>1. /\ Typed /\ Owned /\ Counted /\ Blamed /\ \E s : Linked(s)
      /\ Idle \in Calls /\ Idle.op # "delete" /\ Idle.op # "destroy"
      /\ call[t].op # "destroy" /\ call' = [call EXCEPT ![t] = Idle] /\ Tracked' = Tracked
      /\ clients' = clients + 1 /\ objects' = objects + 1
      /\ UNCHANGED <<ml, heap, held, outlived, starved, aborted>>
  BY DEF IInv, TrackMemoryLeaks, Enters, Return, Idle, Calls, Ops, Ptr, Tracked
<1>2. Typed' /\ clients' # 0
  BY <1>1 DEF Typed, Calls
<1>3. \E s : Linked(s)'
  BY <1>1, KeptLinks
<1>4. Owned'
  BY <1>1, OwnedKept DEF Good
<1>5. Counted'
  BY <1>1, CountedKept
<1>6. Blamed'
  BY <1>1, <1>2 DEF Blamed
<1> QED BY <1>2, <1>3, <1>4, <1>5, <1>6 DEF IInv

\* A client less: there was one, the object whose destructor this is.
LEMMA LeaveKeeps ==
  ASSUME IInv, NEW t \in Threads, Leave(t)
  PROVE  IInv'
<1> DEFINE x == [op |-> "dump", arg |-> call[t].arg]
<1>1. /\ Typed /\ Owned /\ Counted /\ Blamed /\ \E s : Linked(s)
      /\ call[t].op = "destroy" /\ clients' = clients - 1
      /\ outlived' = (outlived \/ (clients = 1 /\ Tracked # {})) /\ Tracked' = Tracked
      /\ UNCHANGED <<objects, ml, heap, held, starved, aborted>>
  BY DEF IInv, Leave, Enters, Tracked
<1>2. x \in Calls /\ x.op # "delete" /\ x.op # "destroy" /\ call' = [call EXCEPT ![t] = x]
  <2>1. call[t] \in Calls
    BY <1>1 DEF Typed, Calls
  <2>2. [call[t] EXCEPT !.op = "dump"] = x
    BY <2>1 DEF Calls
  <2>3. call' = [call EXCEPT ![t] = [@ EXCEPT !.op = "dump"]]
    BY DEF Leave
  <2> QED BY <2>1, <2>2, <2>3 DEF Calls, Ops
<1> HIDE DEF x
<1>3. Destroying' = Destroying \ {t} /\ t \in Destroying
  BY <1>1, <1>2, DestroyingIs DEF Destroying
<1>4. /\ IsFiniteSet(Destroying \ {t}) /\ Cardinality(Destroying) \in Nat
      /\ Cardinality(Destroying \ {t}) \in Nat
      /\ Cardinality(Destroying \ {t}) = Cardinality(Destroying) - 1
  BY <1>1, <1>3, FS_RemoveElement, FS_CardinalityType DEF Counted
<1>5. Counted' /\ clients' \in Nat
  <2>1. Cardinality(Destroying)' = Cardinality(Destroying) - 1 /\ IsFiniteSet(Destroying)'
    BY <1>3, <1>4
  <2>2. objects \in Nat /\ clients = objects + Cardinality(Destroying)
    BY <1>1 DEF Typed, Counted
  <2>3. clients' = objects' + Cardinality(Destroying)' /\ clients' \in Nat
    BY <1>1, <1>4, <2>1, <2>2
  <2> QED BY <2>1, <2>3 DEF Counted
<1>6. Typed'
  <2>1. outlived' \in BOOLEAN
    BY <1>1
  <2> QED BY <1>1, <1>2, <1>5, <2>1 DEF Typed, Calls
<1>7. \E s : Linked(s)'
  BY <1>1, KeptLinks
<1>8. Owned'
  BY <1>1, <1>2, OwnedKept DEF Good
<1>9. Blamed'
  <2>1. clients' = 0 => clients = 1
    BY <1>1 DEF Typed
  <2> QED BY <1>1, <2>1 DEF Blamed
<1> QED BY <1>5, <1>6, <1>7, <1>8, <1>9 DEF IInv

\* DumpUnfreed moves the cursor to the first block that is left, and hangs.
LEMMA DumpUnfreedKeeps ==
  ASSUME IInv, NEW t \in Threads, DumpUnfreed(t)
  PROVE  IInv'
<1>1. /\ Typed /\ Owned /\ Counted /\ Blamed /\ \E s : Linked(s)
      /\ call[t].op # "destroy" /\ Tracked' = Tracked
      /\ UNCHANGED <<clients, objects, heap, held, outlived, starved, aborted>>
  BY DEF IInv, DumpUnfreed, Enters, Tracked
<1>2. ml \in Lists /\ ml.Head \in Ptr
  BY <1>1 DEF Typed, Lists
<1>3. PICK x \in Calls : /\ x.op # "delete" /\ x.op # "destroy"
                         /\ call' = [call EXCEPT ![t] = x]
  <2>1. Idle \in Calls /\ Idle.op # "delete" /\ Idle.op # "destroy"
    BY DEF Idle, Calls, Ops, Ptr
  <2> DEFINE y == [op |-> "hung", arg |-> ml.Head]
  <2>2. y \in Calls /\ y.op # "delete" /\ y.op # "destroy"
    BY <1>2 DEF Calls, Ops
  <2>3. call' = [call EXCEPT ![t] = Idle] \/ call' = [call EXCEPT ![t] = y]
    BY DEF DumpUnfreed, Return
  <2> HIDE DEF y
  <2> QED BY <2>1, <2>2, <2>3
<1>4. /\ ml' \in Lists /\ ml'.Head = ml.Head /\ ml'.Tail = ml.Tail /\ ml'.Next = ml.Next
      /\ ml'.Number = ml.Number
  <2>1. ml' = ml \/ ml' = [ml EXCEPT !.Previous = NULL, !.Current = ml.Head, !.Removed = FALSE]
    BY DEF DumpUnfreed, First
  <2>2. NULL \in Ptr
    BY DEF Ptr
  <2> HIDE DEF Ptr
  <2> QED BY <1>2, <2>1, <2>2 DEF Lists
<1>5. Typed'
  BY <1>1, <1>3, <1>4 DEF Typed, Calls
<1>6. \E s : Linked(s)'
  BY <1>1, <1>4, KeptLinks
<1>7. Owned'
  BY <1>1, <1>3, OwnedKept DEF Good
<1>8. Counted'
  <2>1. clients' = clients + 0 /\ objects' = objects + 0
    BY <1>1 DEF Typed
  <2> QED BY <1>1, <1>3, <2>1, CountedKept
<1>9. Blamed'
  BY <1>1 DEF Blamed
<1> QED BY <1>5, <1>6, <1>7, <1>8, <1>9 DEF IInv

\* No block is given, nobody has a pointer, there is no client.
LEMMA InitInv == Init => IInv
<1> SUFFICES ASSUME Init PROVE IInv
  OBVIOUS
<1>1. Tracked = {} /\ Destroying = {}
  BY DEF Init, Tracked, Destroying, Idle
<1>2. Typed
  BY DEF Init, Typed, Lists, EmptyList, Idle, Ops, Ptr
<1>3. Linked(<<>>)
  <2>1. ml.Head = NULL /\ ml.Tail = NULL /\ ml.Number = 0 /\ \A b \in Blocks : ml.Next[b] = NULL
    BY DEF Init, EmptyList
  <2>2. <<>> \in L!Seq(Blocks) /\ Len(<<>>) = 0 /\ \A i : i \notin 1 .. 0
    OBVIOUS
  <2> QED BY <1>1, <2>1, <2>2 DEF Linked, L!Shape, L!IsChain, L!Fits, L!At
<1>4. Owned
  BY DEF Init, Owned, Deletes, Idle
<1>5. Counted
  BY <1>1, FS_EmptySet DEF Init, Counted
<1>6. Blamed
  BY <1>1 DEF Init, Blamed
<1> QED BY <1>2, <1>3, <1>4, <1>5, <1>6 DEF IInv

\* Each step is one of those, or changes nothing.
LEMMA StepKeeps == ASSUME IInv, [Next]_vars PROVE IInv'
<1>1. CASE UNCHANGED vars
  <2>1. /\ Typed' /\ Owned' /\ Counted' /\ Blamed' /\ Tracked' = Tracked
    BY <1>1 DEF vars, IInv, Typed, Owned, Deletes, Good, Counted, Destroying, Blamed, Tracked
  <2>2. \E s : Linked(s)'
    BY <1>1, <2>1, KeptLinks DEF vars, IInv
  <2> QED BY <2>1, <2>2 DEF IInv
<1>2. ASSUME NEW t \in Threads, CallNew(t) PROVE IInv'
  BY <1>2, QuietCallKeeps DEF CallNew
<1>3. ASSUME NEW t \in Threads, Construct(t) PROVE IInv'
  BY <1>3, QuietCallKeeps DEF Construct
<1>4. ASSUME NEW t \in Threads, Body(t) PROVE IInv'
  BY <1>4, AddMemoryBlockKeeps, RemoveMemoryBlockKeeps, TrackMemoryLeaksKeeps, LeaveKeeps,
     DumpUnfreedKeeps DEF Body
<1> QED BY <1>1, <1>2, <1>3, <1>4, CallDeleteKeeps, DestroyKeeps DEF Next

-------------------------------------------------------------------------------
(* The theorems.                                                                   *)

\* In every state the tracked blocks are the cells of one list, the pointers of the
\* program are to memory it was given, and the clients are counted.
THEOREM TrackingInvariance == Spec => []IInv
<1>1. Init => IInv
  BY InitInv
<1>2. IInv /\ [Next]_vars => IInv'
  BY StepKeeps
<1> QED BY <1>1, <1>2, PTL DEF Spec

\* The invariant says that the list is the heap's.
LEMMA InvMeansHeap == IInv => ListIsHeap
<1> SUFFICES ASSUME IInv PROVE ListIsHeap
  OBVIOUS
<1>1. PICK s : Linked(s)
  BY DEF IInv
<1>2. /\ L!Shape(s) /\ s \in Seq(Blocks) /\ Len(s) \in Nat
      /\ \A i \in 1 .. Len(s) : s[i] \in Tracked /\ L!At(s, i) = s[i]
      /\ \A i : i \notin 1 .. Len(s) => L!At(s, i) = NULL
      /\ \A b \in Tracked : \E i \in 1 .. Len(s) : s[i] = b
      /\ ml.Tail = L!At(s, Len(s)) /\ ml.Number = Len(s)
      /\ \A i \in 1 .. Len(s) : ml.Next[s[i]] = L!At(s, i + 1)
  BY <1>1, LinkedFacts
<1>3. Cells = s
  BY <1>2, WalkIs DEF L!Shape
<1>4. Range(s) = Tracked
  <2>1. DOMAIN s = 1 .. Len(s)
    BY <1>2
  <2> QED BY <1>2, <2>1 DEF Range
<1>5. CASE Len(s) = 0
  <2>1. s = <<>> /\ ml.Tail = NULL
    BY <1>2, <1>5, EmptySeq
  <2> QED BY <1>2, <1>3, <1>4, <2>1 DEF ListIsHeap
<1>6. CASE Len(s) # 0
  <2>1. Len(s) \in 1 .. Len(s) /\ Len(s) + 1 \notin 1 .. Len(s) /\ s # <<>> /\ Last(s) = s[Len(s)]
    BY <1>2, <1>6 DEF Last
  <2>2. ml.Tail = Last(s) /\ ml.Next[Last(s)] = NULL
    BY <1>2, <2>1
  <2> QED BY <1>2, <1>3, <1>4, <2>1, <2>2 DEF ListIsHeap
<1> QED BY <1>2, <1>5, <1>6

\* The list of MemoryList is, from Head to Tail, the tracked blocks: none twice, none
\* freed and none forgotten, whatever the threads and the clients do.
THEOREM ListIsAlwaysHeap == Spec => []ListIsHeap
BY TrackingInvariance, InvMeansHeap, PTL

\* free is never given an address that malloc did not return, unless a tracked block
\* outlived the last client or a tracked allocation failed.
THEOREM FreesAreAlwaysValid == Spec => []FreesAreValid
<1>1. IInv => FreesAreValid
  BY DEF IInv, Blamed, FreesAreValid
<1> QED BY <1>1, TrackingInvariance, PTL
===============================================================================
