------------------------------- MODULE ListProofs -------------------------------
(* The theorems of the two lists, each about its own module.                        *)
(*                                                                                  *)
(* SimpleList, for any number of cells and any values: the list of a careful caller *)
(* stays one list with the cursor in it, no pointer that is followed is null or     *)
(* deleted, and the cells implement the sequence with a position.                   *)
(*                                                                                  *)
(* MutexedSimpleList, for any number of threads and lists, whoever assigns what to  *)
(* what: the locks of two lists held at once keep every list to one thread, and all *)
(* are given back; and a copy of a list is exact.                                   *)
EXTENDS SimpleList, MutexedSimpleList, Integers, SequenceTheorems, FiniteSetTheorems,
        WellFoundedInduction, TLAPS

-------------------------------------------------------------------------------
(* SimpleList.                                                                      *)

N == Cardinality(Cells)

\* What is at place i of s, when there is such a place.
At(s, i) == IF i \in 1 .. Len(s) THEN s[i] ELSE Null

\* s is the chain of cells from head on.
IsChain(s) ==
  /\ s \in Seq(Cells)
  /\ \A i, j \in 1 .. Len(s) : s[i] = s[j] => i = j
  /\ head = At(s, 1)
  /\ \A i \in 1 .. Len(s) : NextElement[s[i]] = At(s, i + 1)

\* The last cell and the count are those of s, and the other cells are free.
Fits(s) ==
  /\ tail = At(s, Len(s))
  /\ NumberOfElements = Len(s)
  /\ \A c \in Cells : c \in free <=> \A i \in 1 .. Len(s) : s[i] # c

\* The cursor is at place i of s, with the cell before it, or at the end of s.
CursorAt(s, i) ==
  /\ i \in 1 .. Len(s) + 1
  /\ CurrentElement = At(s, i)
  /\ i # Len(s) + 1 => PreviousElement = At(s, i - 1)

Fields ==
  /\ free \subseteq Cells
  /\ NextElement \in [Cells -> Pointers] /\ ElementContainer \in [Cells -> Values]
  /\ PreviousElement \in Pointers /\ CurrentElement \in Pointers
  /\ RemoveCurrentHasOccured \in BOOLEAN

Shape(s) == IsChain(s) /\ Fits(s)
Here(s, k) == broken = FALSE /\ Fields /\ Shape(s) /\ CursorAt(s, k)

IInv == \E s, k : Here(s, k)

-------------------------------------------------------------------------------
(* The walk along the links, for which the library's induction theorems have no      *)
(* instance here: induction comes as a fact about sets of numbers.                   *)

\* A set of numbers with 0 and, with every number, the next, has them all.
LEMMA SetInduction ==
  ASSUME NEW S, 0 \in S, \A n \in Nat : n \in S => n + 1 \in S
  PROVE  Nat \subseteq S
<1> DEFINE R == OpToRel(<, Nat)
<1> SUFFICES ASSUME NEW e \in Nat, e \notin S PROVE FALSE
  OBVIOUS
<1> HIDE DEF R
<1>1. \E x \in Nat \ S : \A y \in Nat \ S : <<y, x>> \notin R
  <2>1. IsWellFoundedOn(R, Nat)
    BY NatLessThanWellFounded DEF R
  <2>2. Nat \ S \subseteq Nat /\ Nat \ S # {}
    OBVIOUS
  <2> QED BY <2>1, <2>2, WFMin
<1>2. PICK m \in Nat \ S : \A y \in Nat \ S : <<y, m>> \notin R
  BY <1>1
<1>3. m \in Nat /\ m # 0 /\ m - 1 \in Nat /\ (m - 1) + 1 = m
  OBVIOUS
<1>4. m - 1 \in S
  <2> SUFFICES ASSUME m - 1 \notin S PROVE FALSE
    OBVIOUS
  <2>1. <<m - 1, m>> \notin {ss \in Nat \X Nat : ss[1] < ss[2]}
    BY <1>2, <1>3 DEF R, OpToRel
  <2> QED BY <1>3, <2>1
<1>5. m \in S
  BY <1>3, <1>4
<1> QED BY <1>5

\* The body of Walk, and its first n values.
Step(g, n, c) == IF n = 0 \/ c = Null THEN <<>> ELSE <<c>> \o g[n - 1][NextElement[c]]
Walks(g, n) == g = [m \in 0 .. n |-> [c \in Pointers |-> Step(g, m, c)]]

\* There is a function that walks as far as any number says.
LEMMA WalkExists == ASSUME NEW n \in Nat PROVE \E g : Walks(g, n)
<1> DEFINE S == {m \in Nat : \E g : Walks(g, m)}
<1>1. 0 \in S
  <2> DEFINE g == [m \in 0 .. 0 |-> [c \in Pointers |-> <<>>]]
  <2>1. \A m \in 0 .. 0, c \in Pointers : Step(g, m, c) = <<>>
    BY DEF Step
  <2>2. Walks(g, 0)
    BY <2>1 DEF Walks
  <2> QED BY <2>2
<1>2. ASSUME NEW m \in Nat, m \in S PROVE m + 1 \in S
  <2>1. PICK g : Walks(g, m)
    BY <1>2
  <2> DEFINE h == [k \in 0 .. m + 1 |-> IF k <= m THEN g[k] ELSE [c \in Pointers |-> Step(g, m + 1, c)]]
  <2>2. \A k \in 0 .. m : h[k] = g[k]
    OBVIOUS
  <2>3. \A k \in 0 .. m + 1, c \in Pointers : Step(h, k, c) = Step(g, k, c)
    <3> SUFFICES ASSUME NEW k \in 0 .. m + 1, NEW c \in Pointers, k # 0
                 PROVE  h[k - 1] = g[k - 1]
      BY DEF Step
    <3> QED BY <2>2
  <2>4. \A k \in 0 .. m + 1 : h[k] = [c \in Pointers |-> Step(g, k, c)]
    <3> SUFFICES ASSUME NEW k \in 0 .. m + 1 PROVE h[k] = [c \in Pointers |-> Step(g, k, c)]
      OBVIOUS
    <3>1. CASE k <= m
      BY <2>1, <3>1 DEF Walks
    <3>2. CASE k = m + 1
      BY <3>2
    <3> QED BY <3>1, <3>2
  <2>5. \A k \in 0 .. m + 1 :
           [c \in Pointers |-> Step(g, k, c)] = [c \in Pointers |-> Step(h, k, c)]
    BY <2>3
  <2>6. h = [k \in 0 .. m + 1 |-> h[k]]
    OBVIOUS
  <2> HIDE DEF h
  <2>7. Walks(h, m + 1)
    BY <2>4, <2>5, <2>6 DEF Walks
  <2> QED BY <2>7
<1> HIDE DEF S
<1>3. Nat \subseteq S
  BY <1>1, <1>2, SetInduction
<1> QED BY <1>3 DEF S

\* What Walk returns, from its definition.
LEMMA WalkIs ==
  ASSUME N \in Nat
  PROVE  \A n \in 0 .. N, c \in Pointers : Walk[n][c] = Step(Walk, n, c)
<1>1. PICK g : Walks(g, N)
  BY WalkExists
<1>2. Walk = CHOOSE f : Walks(f, N)
  BY DEF Walk, Walks, Step, N
<1>3. Walks(Walk, N)
  BY <1>1, <1>2
<1> QED BY <1>3 DEF Walks

\* Memory has room for a finite number of cells.
LEMMA CellsFinite == N \in Nat /\ IsFiniteSet(Cells) /\ Null \notin Cells
BY NullAssumption, FS_CardinalityType DEF N

\* A chain has no more cells than there are.
LEMMA ChainFits == ASSUME NEW s, IsChain(s) PROVE Len(s) \in 0 .. N
<1>1. s \in [1 .. Len(s) -> Cells] /\ Len(s) \in Nat
  BY LenProperties DEF IsChain, At
<1>2. s \in Injection(1 .. Len(s), Cells)
  BY <1>1 DEF IsChain, Injection, IsInjective
<1>3. Cardinality(1 .. Len(s)) <= N
  BY <1>2, CellsFinite, FS_Injection DEF N
<1>4. Cardinality(1 .. Len(s)) = Len(s)
  <2>1. 1 \in Int /\ Len(s) \in Int
    BY <1>1
  <2>2. Cardinality(1 .. Len(s)) = IF 1 > Len(s) THEN 0 ELSE Len(s) - 1 + 1
    BY <2>1, FS_Interval
  <2> QED BY <1>1, <2>2
<1> QED BY <1>1, <1>3, <1>4, CellsFinite

\* Chain is the chain there is.
LEMMA ChainIs == ASSUME NEW s, IsChain(s) PROVE Chain = s
<1> DEFINE rest(i) == SubSeq(s, i, Len(s))
           S == {n \in Nat : n <= N => \A i \in 1 .. Len(s) : n >= Len(s) - i + 1 => Walk[n][s[i]] = rest(i)}
<1>1. /\ Len(s) \in 0 .. N /\ N \in Nat /\ Null \notin Cells /\ s \in Seq(Cells)
      /\ \A i \in 1 .. Len(s) : s[i] \in Cells /\ s[i] \in Pointers /\ s[i] # Null
  BY ChainFits, CellsFinite, ElementOfSeq DEF IsChain, Pointers
<1>2. \A n \in 0 .. N, c \in Pointers : Walk[n][c] = Step(Walk, n, c)
  BY <1>1, WalkIs
<1>3. \A n \in 0 .. N : Walk[n][Null] = <<>>
  BY <1>2 DEF Step, Pointers
<1>4. \A i \in 1 .. Len(s) : rest(i) = <<s[i]>> \o rest(i + 1)
  BY <1>1, SubSeqRecursiveFirst
<1>5. rest(Len(s) + 1) = <<>>
  BY <1>1, SubSeqEmpty
<1> HIDE DEF rest
<1>6. 0 \in S
  BY <1>1
<1>7. ASSUME NEW n \in Nat, n \in S PROVE n + 1 \in S
  <2> SUFFICES ASSUME n + 1 <= N, NEW i \in 1 .. Len(s), n + 1 >= Len(s) - i + 1
               PROVE  Walk[n + 1][s[i]] = rest(i)
    OBVIOUS
  <2>1. Walk[n + 1][s[i]] = <<s[i]>> \o Walk[n][NextElement[s[i]]]
    <3>1. n + 1 \in 0 .. N /\ n + 1 # 0 /\ (n + 1) - 1 = n /\ s[i] \in Pointers /\ s[i] # Null
      BY <1>1
    <3>2. Walk[n + 1][s[i]] = Step(Walk, n + 1, s[i])
      BY <1>2, <3>1
    <3> QED BY <3>1, <3>2 DEF Step
  <2>2. CASE i = Len(s)
    <3>1. i + 1 \notin 1 .. Len(s) /\ n \in 0 .. N
      BY <1>1, <2>2
    <3>2. NextElement[s[i]] = Null /\ Walk[n][Null] = <<>> /\ rest(i + 1) = <<>>
      BY <1>3, <1>5, <2>2, <3>1 DEF IsChain, At
    <3> QED BY <1>4, <2>1, <3>2
  <2>3. CASE i # Len(s)
    <3>1. i + 1 \in 1 .. Len(s) /\ n <= N /\ n >= Len(s) - (i + 1) + 1
      BY <1>1, <2>3
    <3>2. NextElement[s[i]] = s[i + 1]
      BY <3>1 DEF IsChain, At
    <3>3. Walk[n][s[i + 1]] = rest(i + 1)
      BY <1>7, <3>1
    <3> QED BY <1>4, <2>1, <3>2, <3>3
  <2> QED BY <2>2, <2>3
<1> HIDE DEF S
<1>8. N \in S
  BY <1>1, <1>6, <1>7, SetInduction
<1>9. CASE Len(s) = 0
  <2>1. Chain = <<>>
    BY <1>1, <1>3, <1>9 DEF Chain, IsChain, At, N
  <2> QED BY <1>1, <1>9, <2>1, EmptySeq
<1>10. CASE Len(s) # 0
  <2>1. Walk[N][s[1]] = rest(1)
    BY <1>1, <1>8, <1>10 DEF S
  <2>2. rest(1) = s
    BY <1>1, SubSeqFull DEF rest
  <2> QED BY <1>10, <2>1, <2>2 DEF Chain, IsChain, At, N
<1> QED BY <1>9, <1>10

-------------------------------------------------------------------------------
(* Sequences with one element more and one less.                                     *)

\* t is s with c put in behind place i.
Inserted(t, s, i, c) ==
  /\ Len(t) = Len(s) + 1
  /\ \A j \in 1 .. i : t[j] = s[j]
  /\ t[i + 1] = c
  /\ \A j \in i + 1 .. Len(s) : t[j + 1] = s[j]

\* t is s without place i.
Removed(t, s, i) ==
  /\ Len(t) = Len(s) - 1
  /\ \A j \in 1 .. i - 1 : t[j] = s[j]
  /\ \A j \in i + 1 .. Len(s) : t[j - 1] = s[j]

\* InsertAt puts an element in, and the sequence stays one.
LEMMA InsertAtIs ==
  ASSUME NEW S, NEW s \in Seq(S), NEW i \in 0 .. Len(s), NEW c \in S
  PROVE  InsertAt(s, i + 1, c) \in Seq(S) /\ Inserted(InsertAt(s, i + 1, c), s, i, c)
<1> DEFINE a == SubSeq(s, 1, (i + 1) - 1)
           z == SubSeq(s, i + 1, Len(s))
<1>1. Len(s) \in Nat /\ i \in Nat /\ \A j \in 1 .. Len(s) : s[j] \in S
  BY LenProperties, ElementOfSeq
<1>2. a \in Seq(S) /\ Len(a) = i /\ \A j \in 1 .. i : a[j] = s[j]
  <2>1. (i + 1) - 1 = i /\ \A j \in 1 .. i : s[j] \in S
    BY <1>1
  <2>2. /\ SubSeq(s, 1, i) \in Seq(S)
        /\ Len(SubSeq(s, 1, i)) = IF 1 <= i THEN i - 1 + 1 ELSE 0
        /\ \A j \in 1 .. i - 1 + 1 : SubSeq(s, 1, i)[j] = s[1 + j - 1]
    BY <1>1, <2>1, SubSeqProperties
  <2> QED BY <1>1, <2>1, <2>2
<1>3. z \in Seq(S) /\ Len(z) = Len(s) - i /\ \A j \in 1 .. Len(s) - i : z[j] = s[i + j]
  <2>1. \A j \in i + 1 .. Len(s) : s[j] \in S
    BY <1>1
  <2>2. /\ z \in Seq(S)
        /\ Len(z) = IF i + 1 <= Len(s) THEN Len(s) - (i + 1) + 1 ELSE 0
        /\ \A j \in 1 .. Len(s) - (i + 1) + 1 : z[j] = s[(i + 1) + j - 1]
    BY <1>1, <2>1, SubSeqProperties
  <2> QED BY <1>1, <2>2
<1>4. <<c>> \in Seq(S) /\ Len(<<c>>) = 1 /\ <<c>>[1] = c
  OBVIOUS
<1> HIDE DEF a, z
<1>5. /\ a \o <<c>> \in Seq(S) /\ Len(a \o <<c>>) = i + 1
      /\ \A j \in 1 .. i + 1 : (a \o <<c>>)[j] = IF j <= i THEN a[j] ELSE <<c>>[j - i]
  <2>1. /\ a \o <<c>> \in Seq(S) /\ Len(a \o <<c>>) = Len(a) + Len(<<c>>)
        /\ \A j \in 1 .. Len(a) + Len(<<c>>) :
             (a \o <<c>>)[j] = IF j <= Len(a) THEN a[j] ELSE <<c>>[j - Len(a)]
    BY <1>2, <1>4, ConcatProperties
  <2>2. Len(a) = i /\ Len(<<c>>) = 1
    BY <1>2, <1>4
  <2> QED BY <2>1, <2>2
<1>6. /\ (a \o <<c>>) \o z \in Seq(S) /\ Len((a \o <<c>>) \o z) = Len(s) + 1
      /\ \A j \in 1 .. Len(s) + 1 :
           ((a \o <<c>>) \o z)[j] = IF j <= i + 1 THEN (a \o <<c>>)[j] ELSE z[j - (i + 1)]
  <2> DEFINE b == a \o <<c>>
  <2>1. b \in Seq(S) /\ Len(b) = i + 1
    BY <1>5
  <2> HIDE DEF b
  <2>2. /\ b \o z \in Seq(S) /\ Len(b \o z) = Len(b) + Len(z)
        /\ \A j \in 1 .. Len(b) + Len(z) :
             (b \o z)[j] = IF j <= Len(b) THEN b[j] ELSE z[j - Len(b)]
    BY <1>3, <2>1, ConcatProperties
  <2>3. Len(b) + Len(z) = Len(s) + 1
    BY <1>1, <1>3, <2>1
  <2>4. /\ b \o z \in Seq(S) /\ Len(b \o z) = Len(s) + 1
        /\ \A j \in 1 .. Len(s) + 1 : (b \o z)[j] = IF j <= i + 1 THEN b[j] ELSE z[j - (i + 1)]
    BY <2>1, <2>2, <2>3
  <2> QED BY <2>4 DEF b
<1> DEFINE t == (a \o <<c>>) \o z
<1>7. \A j \in 1 .. i : t[j] = s[j]
  BY <1>1, <1>2, <1>5, <1>6
<1>8. t[i + 1] = c
  <2>1. t[i + 1] = (a \o <<c>>)[i + 1]
    <3>1. i + 1 \in 1 .. Len(s) + 1 /\ i + 1 <= i + 1
      BY <1>1
    <3> QED BY <1>6, <3>1
  <2>2. (a \o <<c>>)[i + 1] = <<c>>[(i + 1) - i] /\ (i + 1) - i = 1
    BY <1>1, <1>5
  <2> QED BY <1>4, <2>1, <2>2
<1>9. \A j \in i + 1 .. Len(s) : t[j + 1] = s[j]
  <2> SUFFICES ASSUME NEW j \in i + 1 .. Len(s) PROVE t[j + 1] = s[j]
    OBVIOUS
  <2>1. t[j + 1] = z[j - i]
    BY <1>1, <1>6
  <2>2. j - i \in 1 .. Len(s) - i /\ i + (j - i) = j
    BY <1>1
  <2> QED BY <1>3, <2>1, <2>2
<1>10. t = InsertAt(s, i + 1, c)
  BY DEF InsertAt, a, z
<1> QED BY <1>6, <1>7, <1>8, <1>9, <1>10 DEF Inserted

\* RemoveAt takes an element out, and the sequence stays one.
LEMMA RemoveAtIs ==
  ASSUME NEW S, NEW s \in Seq(S), NEW i \in 1 .. Len(s)
  PROVE  RemoveAt(s, i) \in Seq(S) /\ Removed(RemoveAt(s, i), s, i)
<1> DEFINE a == SubSeq(s, 1, i - 1)
           z == SubSeq(s, i + 1, Len(s))
<1>1. Len(s) \in Nat /\ i \in Nat /\ \A j \in 1 .. Len(s) : s[j] \in S
  BY LenProperties, ElementOfSeq
<1>2. a \in Seq(S) /\ Len(a) = i - 1 /\ \A j \in 1 .. i - 1 : a[j] = s[j]
  <2>1. \A j \in 1 .. i - 1 : s[j] \in S
    BY <1>1
  <2>2. /\ a \in Seq(S)
        /\ Len(a) = IF 1 <= i - 1 THEN (i - 1) - 1 + 1 ELSE 0
        /\ \A j \in 1 .. (i - 1) - 1 + 1 : a[j] = s[1 + j - 1]
    BY <1>1, <2>1, SubSeqProperties
  <2> QED BY <1>1, <2>2
<1>3. z \in Seq(S) /\ Len(z) = Len(s) - i /\ \A j \in 1 .. Len(s) - i : z[j] = s[i + j]
  <2>1. \A j \in i + 1 .. Len(s) : s[j] \in S
    BY <1>1
  <2>2. /\ z \in Seq(S)
        /\ Len(z) = IF i + 1 <= Len(s) THEN Len(s) - (i + 1) + 1 ELSE 0
        /\ \A j \in 1 .. Len(s) - (i + 1) + 1 : z[j] = s[(i + 1) + j - 1]
    BY <1>1, <2>1, SubSeqProperties
  <2> QED BY <1>1, <2>2
<1> HIDE DEF a, z
<1>4. /\ a \o z \in Seq(S) /\ Len(a \o z) = Len(s) - 1
      /\ \A j \in 1 .. Len(s) - 1 : (a \o z)[j] = IF j <= i - 1 THEN a[j] ELSE z[j - (i - 1)]
  <2>1. /\ a \o z \in Seq(S) /\ Len(a \o z) = Len(a) + Len(z)
        /\ \A j \in 1 .. Len(a) + Len(z) :
             (a \o z)[j] = IF j <= Len(a) THEN a[j] ELSE z[j - Len(a)]
    BY <1>2, <1>3, ConcatProperties
  <2>2. Len(a) + Len(z) = Len(s) - 1
    BY <1>1, <1>2, <1>3
  <2> QED BY <1>2, <2>1, <2>2
<1> DEFINE t == a \o z
<1>5. \A j \in 1 .. i - 1 : t[j] = s[j]
  BY <1>1, <1>2, <1>4
<1>6. \A j \in i + 1 .. Len(s) : t[j - 1] = s[j]
  <2> SUFFICES ASSUME NEW j \in i + 1 .. Len(s) PROVE t[j - 1] = s[j]
    OBVIOUS
  <2>1. t[j - 1] = z[(j - 1) - (i - 1)]
    <3>1. j - 1 \in 1 .. Len(s) - 1 /\ ~(j - 1 <= i - 1)
      BY <1>1
    <3> QED BY <1>4, <3>1
  <2>2. (j - 1) - (i - 1) = j - i /\ j - i \in 1 .. Len(s) - i /\ i + (j - i) = j
    BY <1>1
  <2> QED BY <1>3, <2>1, <2>2
<1>7. t = RemoveAt(s, i)
  BY DEF RemoveAt, a, z
<1> QED BY <1>4, <1>5, <1>6, <1>7 DEF Removed

-------------------------------------------------------------------------------
(* What putting a cell in and taking one out do to the chain.                        *)

\* Cell c, holding v, comes in behind place i of s.
PutsIn(s, i, c, v) ==
  /\ Link(c, v, At(s, i), At(s, i + 1))
  /\ head' = IF i = 0 THEN c ELSE head
  /\ tail' = IF i = Len(s) THEN c ELSE tail

\* The cell at place i of s goes out.
TakesOut(s, i) ==
  /\ head' = IF i = 1 THEN At(s, 2) ELSE head
  /\ tail' = IF i = Len(s) THEN At(s, i - 1) ELSE tail
  /\ NextElement' \in [Cells -> Pointers]
  /\ \A c \in Cells : c # s[i] =>
       NextElement'[c] = IF c = At(s, i - 1) THEN At(s, i + 1) ELSE NextElement[c]
  /\ free' = free \cup {s[i]}
  /\ NumberOfElements' = NumberOfElements - 1

\* The linked cells are allocated, and a list is empty when it has no head.
LEMMA ShapeFacts ==
  ASSUME NEW s, Shape(s)
  PROVE  /\ s \in Seq(Cells) /\ Len(s) \in Nat /\ Null \notin Cells
         /\ \A i \in 1 .. Len(s) :
               s[i] \in Cells /\ s[i] # Null /\ s[i] \notin free /\ At(s, i) = s[i]
         /\ \A i : i \notin 1 .. Len(s) => At(s, i) = Null
         /\ head = Null <=> Len(s) = 0
         /\ \A i : At(s, i) \in Pointers
<1>1. s \in Seq(Cells) /\ Len(s) \in Nat /\ Null \notin Cells
  BY LenProperties, CellsFinite DEF Shape, IsChain
<1>2. \A i \in 1 .. Len(s) : s[i] \in Cells /\ s[i] # Null /\ At(s, i) = s[i]
  BY <1>1, ElementOfSeq DEF At
<1>3. \A i \in 1 .. Len(s) : s[i] \notin free
  BY <1>2 DEF Shape, Fits
<1>4. head = Null <=> Len(s) = 0
  BY <1>1, <1>2 DEF Shape, IsChain, At
<1>5. \A i : At(s, i) \in Pointers
  BY <1>2 DEF At, Pointers
<1> QED BY <1>1, <1>2, <1>3, <1>4, <1>5 DEF At

\* Where every place of t comes from.
LEMMA InsertedAt ==
  ASSUME NEW s, NEW t, Len(s) \in Nat, NEW i \in 0 .. Len(s), NEW c, Inserted(t, s, i, c)
  PROVE  /\ \A j \in 1 .. i : j \in 1 .. Len(s) /\ j \in 1 .. Len(t) /\ t[j] = s[j]
         /\ \A j \in i + 2 .. Len(s) + 1 :
               j - 1 \in 1 .. Len(s) /\ j \in 1 .. Len(t) /\ t[j] = s[j - 1]
         /\ i + 1 \in 1 .. Len(t) /\ t[i + 1] = c
         /\ \A j \in 1 .. Len(t) : j \in 1 .. i \/ j = i + 1 \/ j \in i + 2 .. Len(s) + 1
<1>1. Len(t) = Len(s) + 1 /\ t[i + 1] = c
  BY DEF Inserted
<1>2. \A j \in i + 1 .. Len(s) : t[j + 1] = s[j]
  BY DEF Inserted
<1>3. ASSUME NEW j \in i + 2 .. Len(s) + 1 PROVE j - 1 \in 1 .. Len(s) /\ t[j] = s[j - 1]
  <2>1. j - 1 \in i + 1 .. Len(s) /\ (j - 1) + 1 = j
    OBVIOUS
  <2> QED BY <1>2, <2>1
<1>4. \A j \in 1 .. i : j \in 1 .. Len(s) /\ j \in 1 .. Len(t)
  BY <1>1
<1>5. \A j \in i + 2 .. Len(s) + 1 : j \in 1 .. Len(t)
  BY <1>1
<1>6. i + 1 \in 1 .. Len(t)
  BY <1>1
<1>7. \A j \in 1 .. Len(t) : j \in 1 .. i \/ j = i + 1 \/ j \in i + 2 .. Len(s) + 1
  BY <1>1
<1>8. \A j \in 1 .. i : t[j] = s[j]
  BY DEF Inserted
<1> QED BY <1>1, <1>3, <1>4, <1>5, <1>6, <1>7, <1>8, Zenon

\* The links after a cell came in are those of the longer chain...
LEMMA PutKeepsChain ==
  ASSUME Fields, NEW s, Shape(s), NEW i \in 0 .. Len(s), NEW c \in free, NEW v \in Values,
         PutsIn(s, i, c, v), NEW t \in Seq(Cells), Inserted(t, s, i, c)
  PROVE  IsChain(t)'
<1>1. /\ Len(s) \in Nat /\ c \in Cells /\ c # Null /\ Null \notin Cells
      /\ \A j \in 1 .. Len(s) : s[j] \in Cells /\ s[j] # c /\ s[j] # Null /\ At(s, j) = s[j]
      /\ \A j : j \notin 1 .. Len(s) => At(s, j) = Null
  BY ShapeFacts DEF Fields
<1>2. Len(t) = Len(s) + 1
  BY DEF Inserted
<1>3. /\ \A j \in 1 .. i : j \in 1 .. Len(s) /\ j \in 1 .. Len(t) /\ t[j] = s[j]
      /\ \A j \in i + 2 .. Len(s) + 1 :
            j - 1 \in 1 .. Len(s) /\ j \in 1 .. Len(t) /\ t[j] = s[j - 1]
      /\ i + 1 \in 1 .. Len(t) /\ t[i + 1] = c
      /\ \A j \in 1 .. Len(t) : j \in 1 .. i \/ j = i + 1 \/ j \in i + 2 .. Len(s) + 1
  BY <1>1, InsertedAt
<1>4. \A j, k \in 1 .. Len(s) : s[j] = s[k] => j = k
  BY DEF Shape, IsChain
<1>5. \A j, k \in 1 .. Len(t) : t[j] = t[k] => j = k
  <2> DEFINE old(j) == IF j <= i THEN j ELSE j - 1
  <2>1. \A j \in 1 .. Len(t) : j # i + 1 => old(j) \in 1 .. Len(s) /\ t[j] = s[old(j)]
    BY <1>1, <1>3
  <2>2. \A j, k \in 1 .. Len(t) : j # i + 1 /\ k # i + 1 /\ old(j) = old(k) => j = k
    BY <1>1, <1>2
  <2>3. \A j \in 1 .. Len(t) : j # i + 1 => t[j] # t[i + 1]
    <3> HIDE DEF old
    <3> QED BY <1>1, <1>3, <2>1
  <2> HIDE DEF old
  <2>4. \A j, k \in 1 .. Len(t) : j # i + 1 /\ k # i + 1 /\ t[j] = t[k] => j = k
    BY <1>4, <2>1, <2>2
  <2>5. \A j, k \in 1 .. Len(t) : t[j] = t[k] => (j # i + 1 /\ k # i + 1) \/ j = k
    BY <2>3
  <2> QED BY <2>4, <2>5
<1>6. head' = At(t, 1)
  <2>1. CASE i = 0
    BY <1>3, <2>1 DEF PutsIn, At
  <2>2. CASE i # 0
    <3>1. 1 \in 1 .. i /\ 1 \in 1 .. Len(t) /\ t[1] = s[1] /\ At(s, 1) = s[1]
      BY <1>1, <1>3, <2>2
    <3> QED BY <2>2, <3>1 DEF PutsIn, At, Shape, IsChain
  <2> QED BY <2>1, <2>2
<1>7. /\ \A j \in 1 .. i : At(t, j) = s[j]
      /\ \A j \in i + 2 .. Len(s) + 2 : At(t, j) = At(s, j - 1)
      /\ At(t, i + 1) = c
  <2>1. \A j \in i + 2 .. Len(s) + 1 : At(t, j) = At(s, j - 1)
    BY <1>1, <1>3 DEF At
  <2>2. At(t, Len(s) + 2) = Null /\ At(s, (Len(s) + 2) - 1) = Null
    BY <1>1, <1>2 DEF At
  <2>3. \A j \in i + 2 .. Len(s) + 2 : j \in i + 2 .. Len(s) + 1 \/ j = Len(s) + 2
    BY <1>1
  <2> QED BY <1>3, <2>1, <2>2, <2>3 DEF At
<1>8. \A x \in Cells :
         NextElement'[x] = IF x = c THEN At(s, i + 1) ELSE IF x = At(s, i) THEN c ELSE NextElement[x]
  BY DEF PutsIn, Link
<1>9. \A j \in 1 .. Len(s) : NextElement[s[j]] = At(s, j + 1)
  BY DEF Shape, IsChain
<1>10. ASSUME NEW j \in 1 .. Len(t) PROVE NextElement'[t[j]] = At(t, j + 1)
  <2>1. CASE j \in 1 .. i
    <3>1. /\ t[j] = s[j] /\ s[j] \in Cells /\ s[j] # c /\ j \in 1 .. Len(s)
          /\ NextElement[s[j]] = At(s, j + 1)
      BY <1>1, <1>3, <1>9, <2>1
    <3>2. CASE j = i
      BY <1>1, <1>7, <1>8, <3>1, <3>2
    <3>3. CASE j # i
      <4>1. j + 1 \in 1 .. i /\ i \in 1 .. Len(s) /\ At(s, i) = s[i] /\ s[j] # s[i]
        BY <1>1, <1>4, <2>1, <3>1, <3>3
      <4>2. At(t, j + 1) = At(s, j + 1)
        BY <1>1, <1>3, <1>7, <4>1
      <4> QED BY <1>8, <3>1, <4>1, <4>2
    <3> QED BY <3>2, <3>3
  <2>2. CASE j = i + 1
    <3>1. At(t, i + 2) = At(s, (i + 2) - 1) /\ (i + 2) - 1 = i + 1 /\ (i + 1) + 1 = i + 2
      BY <1>1, <1>7
    <3> QED BY <1>1, <1>3, <1>8, <2>2, <3>1
  <2>3. CASE j \in i + 2 .. Len(s) + 1
    <3>1. t[j] = s[j - 1] /\ j - 1 \in 1 .. Len(s) /\ (j - 1) + 1 = j
      BY <1>3, <2>3
    <3>2. s[j - 1] \in Cells /\ s[j - 1] # c /\ NextElement[s[j - 1]] = At(s, j)
      BY <1>1, <1>9, <3>1
    <3>3. s[j - 1] # At(s, i)
      BY <1>1, <1>4, <2>3, <3>1
    <3>4. At(t, j + 1) = At(s, (j + 1) - 1) /\ (j + 1) - 1 = j
      BY <1>1, <1>7, <2>3
    <3> QED BY <1>8, <3>1, <3>2, <3>3, <3>4
  <2> QED BY <1>3, <2>1, <2>2, <2>3
<1> QED BY <1>5, <1>6, <1>10 DEF IsChain, At

\* ...and so are tail, the count and the free cells.
LEMMA PutKeepsFit ==
  ASSUME Fields, NEW s, Shape(s), NEW i \in 0 .. Len(s), NEW c \in free, NEW v \in Values,
         PutsIn(s, i, c, v), NEW t \in Seq(Cells), Inserted(t, s, i, c)
  PROVE  Fits(t)'
<1>1. /\ Len(s) \in Nat /\ c \in Cells
      /\ \A j \in 1 .. Len(s) : s[j] # c /\ At(s, j) = s[j]
  BY ShapeFacts DEF Fields
<1>2. Len(t) = Len(s) + 1
  BY DEF Inserted
<1>3. /\ \A j \in 1 .. i : j \in 1 .. Len(s) /\ j \in 1 .. Len(t) /\ t[j] = s[j]
      /\ \A j \in i + 2 .. Len(s) + 1 :
            j - 1 \in 1 .. Len(s) /\ j \in 1 .. Len(t) /\ t[j] = s[j - 1]
      /\ i + 1 \in 1 .. Len(t) /\ t[i + 1] = c
      /\ \A j \in 1 .. Len(t) : j \in 1 .. i \/ j = i + 1 \/ j \in i + 2 .. Len(s) + 1
  BY <1>1, InsertedAt
<1>4. tail' = At(t, Len(t))
  <2>1. CASE i = Len(s)
    BY <1>2, <1>3, <2>1 DEF PutsIn, At
  <2>2. CASE i # Len(s)
    <3>1. Len(t) \in i + 2 .. Len(s) + 1 /\ Len(t) - 1 = Len(s) /\ Len(s) \in 1 .. Len(s)
      BY <1>1, <1>2, <2>2
    <3>2. At(t, Len(t)) = s[Len(s)] /\ At(s, Len(s)) = s[Len(s)]
      BY <1>1, <1>3, <3>1 DEF At
    <3> QED BY <2>2, <3>2 DEF PutsIn, Shape, Fits
  <2> QED BY <2>1, <2>2
<1>5. NumberOfElements' = Len(t)
  BY <1>2 DEF PutsIn, Link, Shape, Fits
<1>6. ASSUME NEW x \in Cells PROVE x \in free' <=> \A j \in 1 .. Len(t) : t[j] # x
  <2>1. x \in free' <=> x # c /\ \A j \in 1 .. Len(s) : s[j] # x
    BY DEF PutsIn, Link, Shape, Fits
  <2>2. ASSUME x # c, \A j \in 1 .. Len(s) : s[j] # x PROVE \A j \in 1 .. Len(t) : t[j] # x
    BY <1>3, <2>2
  <2>3. ASSUME \A j \in 1 .. Len(t) : t[j] # x PROVE x # c /\ \A j \in 1 .. Len(s) : s[j] # x
    <3> SUFFICES ASSUME NEW j \in 1 .. Len(s), s[j] = x PROVE FALSE
      BY <1>3, <2>3
    <3>1. CASE j <= i
      BY <1>3, <2>3, <3>1
    <3>2. CASE j > i
      <4>1. j + 1 \in i + 2 .. Len(s) + 1 /\ (j + 1) - 1 = j
        BY <3>2
      <4> QED BY <1>3, <2>3, <4>1
    <3> QED BY <1>1, <3>1, <3>2
  <2> QED BY <2>1, <2>2, <2>3
<1> QED BY <1>4, <1>5, <1>6 DEF Fits, At

\* Where every place of t comes from.
LEMMA RemovedAt ==
  ASSUME NEW s, NEW t, Len(s) \in Nat, NEW i \in 1 .. Len(s), Removed(t, s, i)
  PROVE  /\ \A j \in 1 .. i - 1 : j \in 1 .. Len(s) /\ j \in 1 .. Len(t) /\ t[j] = s[j]
         /\ \A j \in i .. Len(s) - 1 :
               j + 1 \in 1 .. Len(s) /\ j \in 1 .. Len(t) /\ t[j] = s[j + 1]
         /\ \A j \in 1 .. Len(t) : j \in 1 .. i - 1 \/ j \in i .. Len(s) - 1
<1>1. Len(t) = Len(s) - 1
  BY DEF Removed
<1>2. \A j \in i + 1 .. Len(s) : t[j - 1] = s[j]
  BY DEF Removed
<1>3. ASSUME NEW j \in i .. Len(s) - 1 PROVE j + 1 \in 1 .. Len(s) /\ t[j] = s[j + 1]
  <2>1. j + 1 \in i + 1 .. Len(s) /\ (j + 1) - 1 = j
    OBVIOUS
  <2>2. t[(j + 1) - 1] = s[j + 1]
    BY <1>2, <2>1
  <2> QED BY <2>1, <2>2
<1>4. \A j \in 1 .. i - 1 : t[j] = s[j]
  BY DEF Removed
<1> QED BY <1>1, <1>3, <1>4

\* The links after a cell went out are those of the shorter chain...
LEMMA TakeKeepsChain ==
  ASSUME Fields, NEW s, Shape(s), NEW i \in 1 .. Len(s), TakesOut(s, i),
         NEW t \in Seq(Cells), Removed(t, s, i)
  PROVE  IsChain(t)'
<1>1. /\ Len(s) \in Nat /\ Null \notin Cells
      /\ \A j \in 1 .. Len(s) : s[j] \in Cells /\ s[j] # Null /\ At(s, j) = s[j]
      /\ \A j : j \notin 1 .. Len(s) => At(s, j) = Null
  BY ShapeFacts
<1>2. Len(t) = Len(s) - 1
  BY DEF Removed
<1>3. /\ \A j \in 1 .. i - 1 : j \in 1 .. Len(s) /\ j \in 1 .. Len(t) /\ t[j] = s[j]
      /\ \A j \in i .. Len(s) - 1 :
            j + 1 \in 1 .. Len(s) /\ j \in 1 .. Len(t) /\ t[j] = s[j + 1]
      /\ \A j \in 1 .. Len(t) : j \in 1 .. i - 1 \/ j \in i .. Len(s) - 1
  BY <1>1, RemovedAt
<1>4. \A j, k \in 1 .. Len(s) : s[j] = s[k] => j = k
  BY DEF Shape, IsChain
<1>5. \A j, k \in 1 .. Len(t) : t[j] = t[k] => j = k
  <2> DEFINE old(j) == IF j < i THEN j ELSE j + 1
  <2>1. \A j \in 1 .. Len(t) : old(j) \in 1 .. Len(s) /\ t[j] = s[old(j)]
    BY <1>1, <1>3
  <2>2. \A j, k \in 1 .. Len(t) : old(j) = old(k) => j = k
    BY <1>1, <1>2
  <2> HIDE DEF old
  <2> QED BY <1>4, <2>1, <2>2
<1>6. /\ \A j \in 1 .. i - 1 : At(t, j) = s[j]
      /\ \A j \in i .. Len(s) : At(t, j) = At(s, j + 1)
  <2>1. \A j \in i .. Len(s) - 1 : At(t, j) = At(s, j + 1)
    BY <1>1, <1>3 DEF At
  <2>2. At(t, Len(s)) = Null /\ At(s, Len(s) + 1) = Null
    BY <1>1, <1>2 DEF At
  <2>3. \A j \in i .. Len(s) : j \in i .. Len(s) - 1 \/ j = Len(s)
    BY <1>1
  <2> QED BY <1>3, <2>1, <2>2, <2>3 DEF At
<1>7. head' = At(t, 1)
  <2>1. CASE i = 1
    <3>1. At(t, 1) = At(s, 1 + 1) /\ 1 + 1 = 2
      BY <1>1, <1>6, <2>1
    <3> QED BY <2>1, <3>1 DEF TakesOut
  <2>2. CASE i # 1
    <3>1. At(t, 1) = s[1] /\ At(s, 1) = s[1]
      BY <1>1, <1>6, <2>2
    <3> QED BY <2>2, <3>1 DEF TakesOut, Shape, IsChain
  <2> QED BY <2>1, <2>2
<1>8. \A c \in Cells : c # s[i] =>
        NextElement'[c] = IF c = At(s, i - 1) THEN At(s, i + 1) ELSE NextElement[c]
  BY DEF TakesOut
<1>9. \A j \in 1 .. Len(s) : NextElement[s[j]] = At(s, j + 1)
  BY DEF Shape, IsChain
<1>10. ASSUME NEW j \in 1 .. Len(t) PROVE NextElement'[t[j]] = At(t, j + 1)
  <2>1. CASE j \in 1 .. i - 1
    <3>1. /\ t[j] = s[j] /\ s[j] \in Cells /\ s[j] # s[i] /\ j \in 1 .. Len(s)
          /\ NextElement[s[j]] = At(s, j + 1)
      BY <1>1, <1>3, <1>4, <1>9, <2>1
    <3>2. CASE j = i - 1
      <4>1. At(s, i - 1) = s[j] /\ j + 1 = i /\ i \in i .. Len(s)
        BY <1>1, <3>1, <3>2
      <4>2. At(t, i) = At(s, i + 1)
        BY <1>6, <4>1
      <4> QED BY <1>8, <3>1, <4>1, <4>2
    <3>3. CASE j # i - 1
      <4>1. j + 1 \in 1 .. i - 1 /\ j + 1 \in 1 .. Len(s) /\ i - 1 \in 1 .. Len(s)
        BY <1>1, <2>1, <3>3
      <4>2. s[j] # At(s, i - 1)
        BY <1>1, <1>4, <3>1, <3>3, <4>1
      <4>3. At(t, j + 1) = At(s, j + 1)
        BY <1>1, <1>6, <4>1
      <4> QED BY <1>8, <3>1, <4>2, <4>3
    <3> QED BY <3>2, <3>3
  <2>2. CASE j \in i .. Len(s) - 1
    <3>1. t[j] = s[j + 1] /\ j + 1 \in 1 .. Len(s) /\ j + 1 # i /\ j + 1 \in i .. Len(s)
      BY <1>1, <1>3, <2>2
    <3>2. s[j + 1] \in Cells /\ s[j + 1] # s[i] /\ NextElement[s[j + 1]] = At(s, (j + 1) + 1)
      BY <1>1, <1>4, <1>9, <3>1
    <3>3. s[j + 1] # At(s, i - 1)
      <4>1. CASE i - 1 \in 1 .. Len(s)
        <5>1. At(s, i - 1) = s[i - 1] /\ j + 1 # i - 1
          BY <1>1, <2>2, <4>1
        <5> QED BY <1>4, <3>1, <4>1, <5>1
      <4>2. CASE i - 1 \notin 1 .. Len(s)
        BY <1>1, <3>1, <4>2
      <4> QED BY <4>1, <4>2
    <3>4. At(t, j + 1) = At(s, (j + 1) + 1)
      BY <1>6, <3>1
    <3> QED BY <1>8, <3>1, <3>2, <3>3, <3>4
  <2> QED BY <1>3, <2>1, <2>2
<1> QED BY <1>5, <1>7, <1>10 DEF IsChain, At

\* ...and so are tail, the count and the free cells.
LEMMA TakeKeepsFit ==
  ASSUME Fields, NEW s, Shape(s), NEW i \in 1 .. Len(s), TakesOut(s, i),
         NEW t \in Seq(Cells), Removed(t, s, i)
  PROVE  Fits(t)'
<1>1. /\ Len(s) \in Nat
      /\ \A j \in 1 .. Len(s) : s[j] \in Cells /\ At(s, j) = s[j]
      /\ \A j : j \notin 1 .. Len(s) => At(s, j) = Null
  BY ShapeFacts
<1>2. Len(t) = Len(s) - 1
  BY DEF Removed
<1>3. /\ \A j \in 1 .. i - 1 : j \in 1 .. Len(s) /\ j \in 1 .. Len(t) /\ t[j] = s[j]
      /\ \A j \in i .. Len(s) - 1 :
            j + 1 \in 1 .. Len(s) /\ j \in 1 .. Len(t) /\ t[j] = s[j + 1]
      /\ \A j \in 1 .. Len(t) : j \in 1 .. i - 1 \/ j \in i .. Len(s) - 1
  BY <1>1, RemovedAt
<1>4. \A j, k \in 1 .. Len(s) : s[j] = s[k] => j = k
  BY DEF Shape, IsChain
<1>5. tail' = At(t, Len(t))
  <2>1. CASE i = Len(s)
    <3>1. CASE i = 1
      <4>1. Len(t) = 0 /\ i - 1 = 0 /\ 0 \notin 1 .. Len(s) /\ 0 \notin 1 .. Len(t)
        BY <1>1, <1>2, <2>1, <3>1
      <4>2. tail' = Null
        BY <1>1, <2>1, <4>1 DEF TakesOut
      <4> QED BY <4>1, <4>2 DEF At
    <3>2. CASE i # 1
      <4>1. /\ Len(t) = i - 1 /\ i - 1 \in 1 .. i - 1 /\ i - 1 \in 1 .. Len(s)
            /\ i - 1 \in 1 .. Len(t)
        BY <1>1, <1>2, <2>1, <3>2
      <4>2. At(t, Len(t)) = At(s, i - 1)
        BY <1>1, <1>3, <4>1 DEF At
      <4> QED BY <2>1, <4>2 DEF TakesOut
    <3> QED BY <3>1, <3>2
  <2>2. CASE i # Len(s)
    <3>1. Len(t) \in i .. Len(s) - 1 /\ Len(t) + 1 = Len(s) /\ Len(s) \in 1 .. Len(s)
      BY <1>1, <1>2, <2>2
    <3>2. At(t, Len(t)) = s[Len(s)] /\ At(s, Len(s)) = s[Len(s)]
      BY <1>1, <1>3, <3>1 DEF At
    <3> QED BY <2>2, <3>2 DEF TakesOut, Shape, Fits
  <2> QED BY <2>1, <2>2
<1>6. NumberOfElements' = Len(t)
  BY <1>2 DEF TakesOut, Shape, Fits
<1>7. ASSUME NEW x \in Cells PROVE x \in free' <=> \A j \in 1 .. Len(t) : t[j] # x
  <2>1. x \in free' <=> x = s[i] \/ \A j \in 1 .. Len(s) : s[j] # x
    BY DEF TakesOut, Shape, Fits
  <2>2. ASSUME x = s[i] PROVE \A j \in 1 .. Len(t) : t[j] # x
    <3>1. \A j \in 1 .. i - 1 : j # i
      BY <1>1
    <3>2. \A j \in i .. Len(s) - 1 : j + 1 # i
      BY <1>1
    <3> QED BY <1>3, <1>4, <2>2, <3>1, <3>2
  <2>3. ASSUME \A j \in 1 .. Len(s) : s[j] # x PROVE \A j \in 1 .. Len(t) : t[j] # x
    BY <1>3, <2>3
  <2>4. ASSUME \A j \in 1 .. Len(t) : t[j] # x, x # s[i] PROVE \A j \in 1 .. Len(s) : s[j] # x
    <3> SUFFICES ASSUME NEW j \in 1 .. Len(s), s[j] = x PROVE FALSE
      OBVIOUS
    <3>1. CASE j < i
      <4>1. j \in 1 .. i - 1
        BY <3>1
      <4> QED BY <1>3, <2>4, <4>1
    <3>2. CASE j > i
      <4>1. j - 1 \in i .. Len(s) - 1 /\ (j - 1) + 1 = j
        BY <1>1, <3>2
      <4> QED BY <1>3, <2>4, <4>1
    <3> QED BY <1>1, <2>4, <3>1, <3>2
  <2> QED BY <2>1, <2>2, <2>3, <2>4
<1> QED BY <1>5, <1>6, <1>7 DEF Fits, At

-------------------------------------------------------------------------------
(* The places of the chain, and the cursor, after a cell came in or went out.        *)

\* The places behind the new one move by one.
LEMMA AtInserted ==
  ASSUME NEW s, NEW t, Len(s) \in Nat, NEW i \in 0 .. Len(s), NEW c, Inserted(t, s, i, c)
  PROVE  /\ \A j \in 0 .. i : At(t, j) = At(s, j)
         /\ At(t, i + 1) = c
         /\ \A j \in i + 1 .. Len(s) + 1 : At(t, j + 1) = At(s, j)
<1>1. /\ \A j \in 1 .. i : j \in 1 .. Len(s) /\ j \in 1 .. Len(t) /\ t[j] = s[j]
      /\ \A j \in i + 2 .. Len(s) + 1 :
            j - 1 \in 1 .. Len(s) /\ j \in 1 .. Len(t) /\ t[j] = s[j - 1]
      /\ i + 1 \in 1 .. Len(t) /\ t[i + 1] = c
  BY InsertedAt
<1>2. Len(t) = Len(s) + 1
  BY DEF Inserted
<1>3. ASSUME NEW j \in 0 .. i PROVE At(t, j) = At(s, j)
  <2>1. CASE j = 0
    BY <2>1 DEF At
  <2>2. CASE j # 0
    BY <1>1, <2>2 DEF At
  <2> QED BY <2>1, <2>2
<1>4. ASSUME NEW j \in i + 1 .. Len(s) + 1 PROVE At(t, j + 1) = At(s, j)
  <2>1. CASE j = Len(s) + 1
    BY <1>2, <2>1 DEF At
  <2>2. CASE j # Len(s) + 1
    <3>1. j + 1 \in i + 2 .. Len(s) + 1 /\ (j + 1) - 1 = j
      BY <2>2
    <3>2. j \in 1 .. Len(s) /\ j + 1 \in 1 .. Len(t) /\ t[j + 1] = s[j]
      BY <1>1, <3>1
    <3> QED BY <3>2 DEF At
  <2> QED BY <2>1, <2>2
<1> QED BY <1>1, <1>3, <1>4 DEF At

\* The places behind the old one move by one.
LEMMA AtRemoved ==
  ASSUME NEW s, NEW t, Len(s) \in Nat, NEW i \in 1 .. Len(s), Removed(t, s, i)
  PROVE  /\ \A j \in 0 .. i - 1 : At(t, j) = At(s, j)
         /\ \A j \in i .. Len(s) : At(t, j) = At(s, j + 1)
<1>1. /\ \A j \in 1 .. i - 1 : j \in 1 .. Len(s) /\ j \in 1 .. Len(t) /\ t[j] = s[j]
      /\ \A j \in i .. Len(s) - 1 :
            j + 1 \in 1 .. Len(s) /\ j \in 1 .. Len(t) /\ t[j] = s[j + 1]
  BY RemovedAt
<1>2. Len(t) = Len(s) - 1
  BY DEF Removed
<1>3. ASSUME NEW j \in 0 .. i - 1 PROVE At(t, j) = At(s, j)
  <2>1. CASE j = 0
    BY <2>1 DEF At
  <2>2. CASE j # 0
    BY <1>1, <2>2 DEF At
  <2> QED BY <2>1, <2>2
<1>4. ASSUME NEW j \in i .. Len(s) PROVE At(t, j) = At(s, j + 1)
  <2>1. CASE j = Len(s)
    BY <1>2, <2>1 DEF At
  <2>2. CASE j # Len(s)
    <3>1. j \in i .. Len(s) - 1
      BY <2>2
    <3> QED BY <1>1, <3>1 DEF At
  <2> QED BY <2>1, <2>2
<1> QED BY <1>3, <1>4

\* Putting a cell in behind place i, with the cursor at k.
LEMMA Putting ==
  ASSUME Fields, NEW s, Shape(s), NEW i \in 0 .. Len(s), NEW c \in free, NEW v \in Values,
         PutsIn(s, i, c, v), NEW k, CursorAt(s, k), CurrentElement' = CurrentElement,
         \/ PreviousElement' = PreviousElement /\ (k # i + 1 \/ k = Len(s) + 1)
         \/ PreviousElement' = c /\ k = i + 1
  PROVE  LET t == InsertAt(s, i + 1, c)
         IN Shape(t)' /\ CursorAt(t, IF k <= i THEN k ELSE k + 1)'
<1> DEFINE t == InsertAt(s, i + 1, c)
           n == IF k <= i THEN k ELSE k + 1
<1>1. /\ Len(s) \in Nat /\ s \in Seq(Cells) /\ c \in Cells
  BY ShapeFacts DEF Fields
<1>2. t \in Seq(Cells) /\ Inserted(t, s, i, c)
  BY <1>1, InsertAtIs
<1> HIDE DEF t
<1>3. Shape(t)'
  BY <1>2, PutKeepsChain, PutKeepsFit DEF Shape
<1>4. Len(t) = Len(s) + 1
  BY <1>2 DEF Inserted
<1>5. /\ \A j \in 0 .. i : At(t, j) = At(s, j)
      /\ At(t, i + 1) = c
      /\ \A j \in i + 1 .. Len(s) + 1 : At(t, j + 1) = At(s, j)
  BY <1>1, <1>2, AtInserted
<1>6. /\ k \in 1 .. Len(s) + 1 /\ CurrentElement = At(s, k)
      /\ (k # Len(s) + 1 => PreviousElement = At(s, k - 1))
  BY DEF CursorAt
<1>7. CurrentElement' = At(t, n) /\ n \in 1 .. Len(t) + 1
  BY <1>1, <1>4, <1>5, <1>6
<1>8. ASSUME n # Len(t) + 1 PROVE PreviousElement' = At(t, n - 1)
  <2>1. k # Len(s) + 1
    BY <1>1, <1>4, <1>6, <1>8
  <2>2. CASE k <= i
    <3>1. k - 1 \in 0 .. i /\ k # i + 1
      BY <1>1, <1>6, <2>2
    <3> QED BY <1>5, <1>6, <2>1, <2>2, <3>1
  <2>3. CASE k = i + 1
    <3>1. n - 1 = i + 1
      BY <1>1, <2>3
    <3> QED BY <1>5, <2>1, <2>3, <3>1
  <2>4. CASE k > i + 1
    <3>1. k - 1 \in i + 1 .. Len(s) + 1 /\ n - 1 = (k - 1) + 1 /\ k # i + 1
      BY <1>1, <1>6, <2>4
    <3>2. At(t, (k - 1) + 1) = At(s, k - 1)
      BY <1>5, <3>1
    <3> QED BY <1>6, <2>1, <3>1, <3>2
  <2> QED BY <1>1, <1>6, <2>2, <2>3, <2>4
<1>9. CursorAt(t, n)'
  BY <1>7, <1>8 DEF CursorAt, At
<1> QED BY <1>3, <1>9 DEF t

\* Taking the cell at place i out, with the cursor moved there.
LEMMA Taking ==
  ASSUME Fields, NEW s, Shape(s), NEW i \in 1 .. Len(s), TakesOut(s, i),
         CurrentElement' = At(s, i + 1), PreviousElement' = At(s, i - 1)
  PROVE  LET t == RemoveAt(s, i) IN Shape(t)' /\ CursorAt(t, i)'
<1> DEFINE t == RemoveAt(s, i)
<1>1. Len(s) \in Nat /\ s \in Seq(Cells)
  BY ShapeFacts
<1>2. t \in Seq(Cells) /\ Removed(t, s, i)
  BY <1>1, RemoveAtIs
<1> HIDE DEF t
<1>3. Shape(t)'
  BY <1>2, TakeKeepsChain, TakeKeepsFit DEF Shape
<1>4. Len(t) = Len(s) - 1
  BY <1>2 DEF Removed
<1>5. /\ \A j \in 0 .. i - 1 : At(t, j) = At(s, j)
      /\ \A j \in i .. Len(s) : At(t, j) = At(s, j + 1)
  BY <1>1, <1>2, AtRemoved
<1>6. At(t, i) = At(s, i + 1) /\ At(t, i - 1) = At(s, i - 1) /\ i \in 1 .. Len(t) + 1
  BY <1>1, <1>4, <1>5
<1> QED BY <1>3, <1>6 DEF CursorAt, At, t

\* Taking the first cell out, with the cursor at k behind the second one.
LEMMA TakingFirst ==
  ASSUME Fields, NEW s, Shape(s), 1 \in 1 .. Len(s), TakesOut(s, 1), NEW k, CursorAt(s, k),
         CurrentElement' = CurrentElement, PreviousElement' = PreviousElement,
         k > 2 \/ k = Len(s) + 1
  PROVE  LET t == RemoveAt(s, 1) IN Shape(t)' /\ CursorAt(t, k - 1)'
<1> DEFINE t == RemoveAt(s, 1)
<1>1. Len(s) \in Nat /\ s \in Seq(Cells)
  BY ShapeFacts
<1>2. t \in Seq(Cells) /\ Removed(t, s, 1)
  BY <1>1, RemoveAtIs
<1> HIDE DEF t
<1>3. Shape(t)'
  BY <1>2, TakeKeepsChain, TakeKeepsFit DEF Shape
<1>4. Len(t) = Len(s) - 1
  BY <1>2 DEF Removed
<1>5. \A j \in 1 .. Len(s) : At(t, j) = At(s, j + 1)
  BY <1>1, <1>2, AtRemoved
<1>6. /\ k \in 1 .. Len(s) + 1 /\ CurrentElement = At(s, k)
      /\ (k # Len(s) + 1 => PreviousElement = At(s, k - 1))
  BY DEF CursorAt
<1>7. k - 1 \in 1 .. Len(t) + 1 /\ CurrentElement' = At(t, k - 1)
  <2>1. k - 1 \in 1 .. Len(s) /\ (k - 1) + 1 = k
    BY <1>1, <1>6
  <2>2. At(t, k - 1) = At(s, (k - 1) + 1)
    BY <1>5, <2>1
  <2> QED BY <1>1, <1>4, <1>6, <2>1, <2>2
<1>8. ASSUME k - 1 # Len(t) + 1 PROVE PreviousElement' = At(t, (k - 1) - 1)
  <2>1. k # Len(s) + 1 /\ (k - 1) - 1 \in 1 .. Len(s) /\ ((k - 1) - 1) + 1 = k - 1
    BY <1>1, <1>4, <1>6, <1>8
  <2>2. At(t, (k - 1) - 1) = At(s, ((k - 1) - 1) + 1)
    BY <1>5, <2>1
  <2> QED BY <1>6, <2>1, <2>2
<1> QED BY <1>3, <1>7, <1>8 DEF CursorAt, At, t

\* Building the list anew.
LEMMA Rebuilding ==
  ASSUME Fields, NEW s, Shape(s), NEW chain \in Seq(Cells), NEW values, Rebuilt(chain, values),
         \A j, k \in 1 .. Len(chain) : chain[j] = chain[k] => j = k
  PROVE  Shape(chain)' /\ CursorAt(chain, Len(chain) + 1)'
<1>1. /\ Len(s) \in Nat /\ Len(chain) \in Nat /\ Chain = s
      /\ DOMAIN s = 1 .. Len(s) /\ DOMAIN chain = 1 .. Len(chain)
      /\ \A j \in 1 .. Len(s) : s[j] \in Cells
      /\ \A j \in 1 .. Len(chain) : chain[j] \in Cells
  BY ShapeFacts, ChainIs, LenProperties, ElementOfSeq DEF Shape
<1>2. chain = <<>> <=> Len(chain) = 0
  BY EmptySeq
<1>3. head' = At(chain, 1) /\ tail' = At(chain, Len(chain))
  BY <1>1, <1>2 DEF Rebuilt, At, Last
<1>4. ASSUME NEW x \in Cells PROVE x \in free' <=> \A j \in 1 .. Len(chain) : chain[j] # x
  <2>1. x \in free' <=> (x \in free \/ x \in ToSet(s)) /\ x \notin ToSet(chain)
    BY <1>1 DEF Rebuilt
  <2>2. x \in free \/ x \in ToSet(s)
    BY <1>1 DEF Shape, Fits, ToSet
  <2>3. x \notin ToSet(chain) <=> \A j \in 1 .. Len(chain) : chain[j] # x
    BY <1>1 DEF ToSet
  <2> QED BY <2>1, <2>2, <2>3
<1>5. ASSUME NEW i \in 1 .. Len(chain) PROVE NextElement'[chain[i]] = At(chain, i + 1)
  <2>1. chain[i] \in ToSet(chain) /\ chain[i] \in Cells
    BY <1>1 DEF ToSet
  <2> DEFINE place(c) == CHOOSE j \in DOMAIN chain : chain[j] = c
             successor(c) == IF c \notin ToSet(chain) THEN NextElement[c]
                        ELSE IF place(c) = Len(chain) THEN Null ELSE chain[place(c) + 1]
  <2>2. place(chain[i]) = i
    <3>1. i \in DOMAIN chain /\ chain[i] = chain[i]
      BY <1>1
    <3>2. place(chain[i]) \in 1 .. Len(chain) /\ chain[place(chain[i])] = chain[i]
      BY <1>1, <3>1
    <3> HIDE DEF place
    <3> QED BY <3>2
  <2>3. NextElement' = [c \in Cells |-> successor(c)]
    BY DEF Rebuilt
  <2> HIDE DEF place
  <2>4. NextElement'[chain[i]] = successor(chain[i])
    <3> HIDE DEF successor
    <3> QED BY <2>1, <2>3
  <2>5. NextElement'[chain[i]] = IF i = Len(chain) THEN Null ELSE chain[i + 1]
    <3>1. successor(chain[i]) = IF place(chain[i]) = Len(chain) THEN Null ELSE chain[place(chain[i]) + 1]
      BY <2>1
    <3> HIDE DEF successor
    <3> QED BY <2>2, <2>4, <3>1
  <2>6. i + 1 \in 1 .. Len(chain) <=> i # Len(chain)
    <3>1. Len(chain) \in Nat
      BY <1>1
    <3> QED BY <3>1
  <2> QED BY <2>5, <2>6 DEF At
<1>6. IsChain(chain)'
  BY <1>3, <1>5 DEF IsChain, At
<1>7. Fits(chain)'
  BY <1>3, <1>4 DEF Fits, At, Rebuilt
<1>8. CursorAt(chain, Len(chain) + 1)'
  <2>1. Len(chain) + 1 \in 1 .. Len(chain) + 1 /\ Len(chain) + 1 \notin 1 .. Len(chain)
    BY <1>1
  <2> QED BY <2>1 DEF CursorAt, At, Rebuilt
<1> QED BY <1>6, <1>7, <1>8 DEF Shape

-------------------------------------------------------------------------------
(* The three things a call does: it puts a cell in, takes one out or moves the        *)
(* cursor.                                                                           *)

\* Cell c comes in behind place i and the cursor, at place k, stays on its element.
Grows(s, k, i, c, v) ==
  /\ PutsIn(s, i, c, v)
  /\ UNCHANGED <<CurrentElement, RemoveCurrentHasOccured>>
  /\ \/ PreviousElement' = PreviousElement /\ (k # i + 1 \/ k = Len(s) + 1)
     \/ PreviousElement' = c /\ k = i + 1

\* The cell at place i goes out and the cursor comes there.
Shrinks(s, i) ==
  /\ TakesOut(s, i)
  /\ CurrentElement' = At(s, i + 1) /\ PreviousElement' = At(s, i - 1)
  /\ RemoveCurrentHasOccured' = TRUE
  /\ UNCHANGED <<ElementContainer, broken>>

\* The cursor goes to place k.
Moves(s, k) ==
  /\ CursorAt(s, k)'
  /\ PreviousElement' \in Pointers /\ RemoveCurrentHasOccured' \in BOOLEAN
  /\ UNCHANGED <<ends, cells, broken>>

\* What the invariant says of the chain s and the cursor at place k, in one place.
LEMMA HereFacts ==
  ASSUME NEW s, NEW k, Here(s, k)
  PROVE  /\ s \in Seq(Cells) /\ Len(s) \in Nat /\ Null \notin Cells /\ Chain = s
         /\ DOMAIN s = 1 .. Len(s)
         /\ \A i \in 1 .. Len(s) :
               s[i] \in Cells /\ s[i] # Null /\ s[i] \notin free /\ At(s, i) = s[i]
         /\ \A i : i \notin 1 .. Len(s) => At(s, i) = Null
         /\ head = At(s, 1) /\ tail = At(s, Len(s))
         /\ \A i : At(s, i) \in Pointers
         /\ \A i, j \in 1 .. Len(s) : s[i] = s[j] => i = j
         /\ \A i \in 1 .. Len(s) : NextElement[s[i]] = At(s, i + 1)
         /\ k \in 1 .. Len(s) + 1 /\ CurrentElement = At(s, k)
         /\ k # Len(s) + 1 =>
               PreviousElement = At(s, k - 1) /\ CurrentElement = s[k] /\ k \in 1 .. Len(s)
         /\ k = Len(s) + 1 <=> CurrentElement = Null
<1>1. Fields /\ Shape(s) /\ CursorAt(s, k) /\ IsChain(s) /\ Fits(s)
  BY DEF Here, Shape
<1>2. /\ s \in Seq(Cells) /\ Len(s) \in Nat /\ Null \notin Cells /\ DOMAIN s = 1 .. Len(s)
      /\ \A i \in 1 .. Len(s) :
            s[i] \in Cells /\ s[i] # Null /\ s[i] \notin free /\ At(s, i) = s[i]
      /\ \A i : i \notin 1 .. Len(s) => At(s, i) = Null
      /\ \A i : At(s, i) \in Pointers
  BY <1>1, ShapeFacts, LenProperties
<1>3. Chain = s
  BY <1>1, ChainIs
<1>4. /\ k \in 1 .. Len(s) + 1 /\ CurrentElement = At(s, k)
      /\ (k # Len(s) + 1 => PreviousElement = At(s, k - 1))
  BY <1>1 DEF CursorAt
<1>5. k # Len(s) + 1 => CurrentElement = s[k] /\ k \in 1 .. Len(s)
  BY <1>2, <1>4
<1>6. k = Len(s) + 1 <=> CurrentElement = Null
  <2>1. k = Len(s) + 1 => k \notin 1 .. Len(s)
    BY <1>2
  <2> QED BY <1>2, <1>4, <1>5, <2>1
<1> QED BY <1>1, <1>2, <1>3, <1>4, <1>5, <1>6 DEF IsChain, Fits

\* A cell that comes in leaves a list, with the cursor on the same element...
LEMMA GrowsKeeps ==
  ASSUME NEW s, NEW k, Here(s, k), NEW i \in 0 .. Len(s), NEW c \in free, NEW v \in Values,
         Grows(s, k, i, c, v)
  PROVE  Here(InsertAt(s, i + 1, c), IF k <= i THEN k ELSE k + 1)'
<1> DEFINE t == InsertAt(s, i + 1, c)
           n == IF k <= i THEN k ELSE k + 1
<1>1. Fields /\ Shape(s) /\ CursorAt(s, k) /\ broken = FALSE
  BY DEF Here
<1>2. Shape(t)' /\ CursorAt(t, n)'
  BY <1>1, Putting DEF Grows
<1>3. c \in Cells /\ At(s, i + 1) \in Pointers
  BY <1>1, ShapeFacts DEF Fields
<1>4. Link(c, v, At(s, i), At(s, i + 1))
  BY DEF Grows, PutsIn
<1>5. NextElement' \in [Cells -> Pointers]
  <2>1. \A x \in Cells :
           (IF x = c THEN At(s, i + 1) ELSE IF x = At(s, i) THEN c ELSE NextElement[x]) \in Pointers
    BY <1>1, <1>3 DEF Fields, Pointers
  <2> QED BY <1>4, <2>1 DEF Link
<1>6. ElementContainer' \in [Cells -> Values] /\ free' \subseteq Cells /\ broken' = FALSE
  BY <1>1, <1>4 DEF Link, Fields
<1>7. /\ PreviousElement' \in Pointers /\ CurrentElement' \in Pointers
      /\ RemoveCurrentHasOccured' \in BOOLEAN
  BY <1>1, <1>3 DEF Grows, Fields, Pointers
<1> HIDE DEF t, n
<1>8. Here(t, n)'
  BY <1>2, <1>5, <1>6, <1>7 DEF Here, Fields, Pointers
<1> QED BY <1>8 DEF t, n

\* ...a cell that goes out leaves a list, with the cursor on the element behind it...
LEMMA ShrinksKeeps ==
  ASSUME NEW s, NEW k, Here(s, k), NEW i \in 1 .. Len(s), Shrinks(s, i)
  PROVE  Here(RemoveAt(s, i), i)'
<1> DEFINE t == RemoveAt(s, i)
<1>1. Fields /\ Shape(s) /\ CursorAt(s, k) /\ broken = FALSE
  BY DEF Here
<1>2. Shape(t)' /\ CursorAt(t, i)'
  BY <1>1, Taking DEF Shrinks
<1>3. s[i] \in Cells /\ At(s, i + 1) \in Pointers /\ At(s, i - 1) \in Pointers
  BY <1>1, ShapeFacts
<1> HIDE DEF t
<1>4. Fields' /\ broken' = FALSE
  BY <1>1, <1>3 DEF Shrinks, TakesOut, Fields, Pointers
<1>5. Here(t, i)'
  BY <1>2, <1>4 DEF Here
<1> QED BY <1>5 DEF t

\* ...and a cursor that moves leaves the list.
LEMMA MovesKeeps ==
  ASSUME NEW s, NEW k, Here(s, k), NEW n, Moves(s, n)
  PROVE  Here(s, n)'
<1>1. Shape(s)'
  BY DEF Here, Shape, IsChain, Fits, At, Moves, ends, cells
<1>2. Fields'
  <2>1. CurrentElement' \in Pointers
    <3>1. CurrentElement' = At(s, n)
      BY DEF Moves, CursorAt, At
    <3>2. At(s, n) \in Pointers
      BY HereFacts
    <3> QED BY <3>1, <3>2
  <2> QED BY <2>1 DEF Here, Fields, Moves, ends, cells, Pointers
<1> QED BY <1>1, <1>2 DEF Here, Moves

-------------------------------------------------------------------------------
(* What each call does.                                                              *)

\* Add puts a cell in behind the last.
LEMMA AddDoes ==
  ASSUME NEW s, NEW k, Here(s, k), NEW c \in free, NEW v \in Values, AddCell(c, v)
  PROVE  Grows(s, k, Len(s), c, v)
<1>1. /\ Len(s) \in Nat /\ head = At(s, 1) /\ tail = At(s, Len(s)) /\ Null \notin Cells
      /\ \A j \in 1 .. Len(s) :
            s[j] \in Cells /\ s[j] # Null /\ s[j] \notin free /\ At(s, j) = s[j]
      /\ \A j : j \notin 1 .. Len(s) => At(s, j) = Null
      /\ k \in 1 .. Len(s) + 1
  BY HereFacts
<1>2. At(s, Len(s) + 1) = Null
  BY <1>1
<1>3. CASE Len(s) = 0
  <2>1. head = Null /\ At(s, Len(s)) = Null
    BY <1>1, <1>3
  <2>2. Link(c, v, Null, Null) /\ head' = c /\ tail' = c /\ UNCHANGED cursor
    BY <2>1 DEF AddCell
  <2> QED BY <1>1, <1>2, <1>3, <2>1, <2>2 DEF Grows, PutsIn, cursor
<1>4. CASE Len(s) # 0
  <2>1. head # Null /\ Valid(tail)
    BY <1>1, <1>4 DEF Valid
  <2>2. Link(c, v, tail, Null) /\ tail' = c /\ UNCHANGED <<head, cursor>>
    BY <2>1 DEF AddCell
  <2> QED BY <1>1, <1>2, <1>4, <2>2 DEF Grows, PutsIn, cursor
<1> QED BY <1>3, <1>4

\* AddHead puts one in front, where no element is current that is the first.
LEMMA AddHeadDoes ==
  ASSUME NEW s, NEW k, Here(s, k), ~CursorOnFirst, NEW c \in free, NEW v \in Values,
         AddHeadCell(c, v)
  PROVE  Grows(s, k, 0, c, v)
<1>1. /\ Len(s) \in Nat /\ head = At(s, 1) /\ tail = At(s, Len(s))
      /\ \A j \in 1 .. Len(s) : s[j] # Null /\ At(s, j) = s[j]
      /\ \A j : j \notin 1 .. Len(s) => At(s, j) = Null
      /\ k \in 1 .. Len(s) + 1
      /\ k # Len(s) + 1 => PreviousElement = At(s, k - 1)
      /\ k = Len(s) + 1 <=> CurrentElement = Null
  BY HereFacts
<1>2. At(s, 0) = Null
  BY <1>1
<1>3. k # 1 \/ k = Len(s) + 1
  BY <1>1, <1>2 DEF CursorOnFirst
<1>4. head = Null <=> Len(s) = 0
  BY <1>1
<1>5. /\ Link(c, v, At(s, 0), At(s, 0 + 1)) /\ head' = c /\ tail' = (IF 0 = Len(s) THEN c ELSE tail)
      /\ UNCHANGED cursor
  BY <1>1, <1>2, <1>4 DEF AddHeadCell
<1> QED BY <1>1, <1>3, <1>5 DEF Grows, PutsIn, cursor

\* Insert puts it behind the current element, or at the end.
LEMMA InsertDoes ==
  ASSUME Careful, NEW s, NEW k, Here(s, k), Insert
  PROVE  \E c \in free, v \in Values : Grows(s, k, IF k = Len(s) + 1 THEN Len(s) ELSE k, c, v)
<1>1. /\ Len(s) \in Nat /\ head = At(s, 1) /\ tail = At(s, Len(s)) /\ Null \notin Cells
      /\ \A j \in 1 .. Len(s) :
            s[j] \in Cells /\ s[j] # Null /\ s[j] \notin free /\ At(s, j) = s[j]
      /\ \A j : j \notin 1 .. Len(s) => At(s, j) = Null
      /\ \A j \in 1 .. Len(s) : NextElement[s[j]] = At(s, j + 1)
      /\ k # Len(s) + 1 => CurrentElement = s[k] /\ k \in 1 .. Len(s)
      /\ k = Len(s) + 1 <=> CurrentElement = Null
  BY HereFacts
<1>2. CASE k = Len(s) + 1
  <2>1. PICK c \in free, v \in Values : AddCell(c, v)
    BY <1>1, <1>2 DEF Insert, Valid
  <2>2. Grows(s, k, Len(s), c, v)
    BY <2>1, AddDoes
  <2> QED BY <1>2, <2>2
<1>3. CASE k # Len(s) + 1
  <2>1. Valid(CurrentElement) /\ CurrentElement # Null
    BY <1>1, <1>3 DEF Valid
  <2>2. PICK c \in free, v \in Values :
          /\ NextElement[CurrentElement] # Null
          /\ Link(c, v, CurrentElement, NextElement[CurrentElement])
          /\ UNCHANGED <<head, tail, cursor>>
    BY <2>1 DEF Insert
  <2>3. CurrentElement = At(s, k) /\ NextElement[CurrentElement] = At(s, k + 1) /\ k # 0
    BY <1>1, <1>3
  <2>4. k # Len(s)
    BY <1>1, <2>2, <2>3
  <2>5. k # k + 1
    BY <1>1, <1>3
  <2>6. Grows(s, k, k, c, v)
    BY <2>2, <2>3, <2>4, <2>5 DEF Grows, PutsIn, cursor
  <2> QED BY <1>3, <2>6
<1> QED BY <1>2, <1>3

\* InsertBefore puts it in front of the current element, or of the list.
LEMMA InsertBeforeDoes ==
  ASSUME Careful, NEW s, NEW k, Here(s, k), InsertBefore
  PROVE  \E c \in free, v \in Values : Grows(s, k, IF k = Len(s) + 1 THEN 0 ELSE k - 1, c, v)
<1>1. /\ Len(s) \in Nat /\ Null \notin Cells
      /\ \A j \in 1 .. Len(s) : s[j] \in Cells /\ s[j] # Null /\ At(s, j) = s[j]
      /\ \A j : j \notin 1 .. Len(s) => At(s, j) = Null
      /\ k # Len(s) + 1 =>
            PreviousElement = At(s, k - 1) /\ CurrentElement = s[k] /\ k \in 1 .. Len(s)
      /\ k = Len(s) + 1 <=> CurrentElement = Null
  BY HereFacts
<1>2. PICK c \in free, v \in Values :
        \/ PreviousElement = Null /\ ~CursorOnFirst /\ AddHeadCell(c, v)
        \/ /\ Valid(PreviousElement)
           /\ CurrentElement # Null
           /\ Link(c, v, PreviousElement, CurrentElement)
           /\ PreviousElement' = c
           /\ UNCHANGED <<head, tail, CurrentElement, RemoveCurrentHasOccured>>
  BY DEF InsertBefore
<1>3. CASE PreviousElement = Null /\ ~CursorOnFirst /\ AddHeadCell(c, v)
  <2>1. Grows(s, k, 0, c, v)
    BY <1>3, AddHeadDoes
  <2>2. k = Len(s) + 1
    BY <1>1, <1>3 DEF CursorOnFirst
  <2> QED BY <2>1, <2>2
<1>4. CASE /\ Valid(PreviousElement)
           /\ CurrentElement # Null
           /\ Link(c, v, PreviousElement, CurrentElement)
           /\ PreviousElement' = c
           /\ UNCHANGED <<head, tail, CurrentElement, RemoveCurrentHasOccured>>
  <2>1. k # Len(s) + 1 /\ k \in 1 .. Len(s)
    BY <1>1, <1>4
  <2>2. PreviousElement = At(s, k - 1) /\ CurrentElement = At(s, k) /\ PreviousElement # Null
    BY <1>1, <1>4, <2>1 DEF Valid
  <2>3. k - 1 \in 1 .. Len(s) /\ (k - 1) + 1 = k /\ k - 1 # 0 /\ k - 1 # Len(s)
    BY <1>1, <2>1, <2>2
  <2>4. Link(c, v, At(s, k - 1), At(s, (k - 1) + 1)) /\ head' = head /\ tail' = tail
    BY <1>4, <2>2, <2>3
  <2>5. Grows(s, k, k - 1, c, v)
    BY <1>4, <2>3, <2>4 DEF Grows, PutsIn
  <2> QED BY <2>1, <2>5
<1> QED BY <1>2, <1>3, <1>4

\* Unlinking a cell takes it out.
LEMMA UnlinkDoes ==
  ASSUME NEW s, NEW k, Here(s, k), NEW i \in 1 .. Len(s), Unlink(At(s, i - 1), s[i])
  PROVE  Shrinks(s, i)
<1>1. /\ Len(s) \in Nat /\ head = At(s, 1) /\ tail = At(s, Len(s)) /\ Null \notin Cells
      /\ \A j \in 1 .. Len(s) : s[j] \in Cells /\ s[j] # Null /\ At(s, j) = s[j]
      /\ \A j : j \notin 1 .. Len(s) => At(s, j) = Null
      /\ \A j : At(s, j) \in Pointers
      /\ \A j, l \in 1 .. Len(s) : s[j] = s[l] => j = l
      /\ \A j \in 1 .. Len(s) : NextElement[s[j]] = At(s, j + 1)
  BY HereFacts
<1>2. NextElement \in [Cells -> Pointers]
  BY DEF Here, Fields
<1>3. head = s[1] /\ tail = s[Len(s)] /\ 1 \in 1 .. Len(s) /\ Len(s) \in 1 .. Len(s)
  BY <1>1
<1>4. (head = s[i] <=> i = 1) /\ (tail = s[i] <=> i = Len(s))
  BY <1>1, <1>3
<1>5. NextElement[s[i]] = At(s, i + 1) /\ At(s, i + 1) \in Pointers
  BY <1>1
<1>6. head' = IF i = 1 THEN At(s, 2) ELSE head
  BY <1>4, <1>5 DEF Unlink
<1>7. /\ NextElement' \in [Cells -> Pointers]
      /\ \A c \in Cells : c # s[i] =>
           NextElement'[c] = IF c = At(s, i - 1) THEN At(s, i + 1) ELSE NextElement[c]
  <2>1. CASE i = 1
    <3>1. NextElement' = NextElement /\ At(s, i - 1) = Null
      BY <1>1, <1>4, <2>1 DEF Unlink
    <3> QED BY <1>1, <1>2, <3>1
  <2>2. CASE i # 1
    <3>1. NextElement' = [NextElement EXCEPT ![At(s, i - 1)] = At(s, i + 1)]
      BY <1>4, <1>5, <2>2 DEF Unlink
    <3> QED BY <1>1, <1>2, <1>5, <3>1
  <2> QED BY <2>1, <2>2
<1> QED BY <1>4, <1>5, <1>6, <1>7 DEF Unlink, Shrinks, TakesOut

\* RemoveCurrent takes the current element out, when there is one.
LEMMA RemoveCurrentDoes ==
  ASSUME NEW s, NEW k, Here(s, k), RemoveCurrent
  PROVE  \/ k = Len(s) + 1 /\ Moves(s, k) /\ RemoveCurrentHasOccured'
         \/ k \in 1 .. Len(s) /\ Shrinks(s, k)
<1>1. /\ Len(s) \in Nat /\ head = At(s, 1) /\ Null \notin Cells
      /\ \A j \in 1 .. Len(s) :
            s[j] \in Cells /\ s[j] # Null /\ s[j] \notin free /\ At(s, j) = s[j]
      /\ \A j, l \in 1 .. Len(s) : s[j] = s[l] => j = l
      /\ k \in 1 .. Len(s) + 1
      /\ k # Len(s) + 1 =>
            PreviousElement = At(s, k - 1) /\ CurrentElement = s[k] /\ k \in 1 .. Len(s)
      /\ k = Len(s) + 1 <=> CurrentElement = Null
  BY HereFacts
<1>2. CursorAt(s, k) /\ Fields
  BY DEF Here
<1>3. CASE k = Len(s) + 1
  <2>1. /\ RemoveCurrentHasOccured' = TRUE
        /\ UNCHANGED <<ends, PreviousElement, CurrentElement, cells, broken>>
    BY <1>1, <1>3 DEF RemoveCurrent, Valid
  <2>2. CursorAt(s, k)'
    BY <1>2, <2>1 DEF CursorAt, At
  <2> QED BY <1>2, <1>3, <2>1, <2>2 DEF Moves, Fields
<1>4. CASE k # Len(s) + 1
  <2>1. /\ k \in 1 .. Len(s) /\ CurrentElement = s[k] /\ PreviousElement = At(s, k - 1)
        /\ Valid(CurrentElement) /\ CurrentElement # Null
    BY <1>1, <1>4 DEF Valid
  <2>2. head = CurrentElement \/ Valid(PreviousElement)
    <3>1. CASE k = 1
      BY <1>1, <2>1, <3>1
    <3>2. CASE k # 1
      <4>1. k - 1 \in 1 .. Len(s)
        BY <1>1, <2>1, <3>2
      <4> QED BY <1>1, <2>1, <4>1 DEF Valid
    <3> QED BY <3>1, <3>2
  <2>3. Unlink(At(s, k - 1), s[k])
    BY <2>1, <2>2 DEF RemoveCurrent
  <2> QED BY <2>1, <2>3, UnlinkDoes
<1> QED BY <1>3, <1>4

\* Remove takes out the first element that holds v, or moves to the end.
LEMMA RemoveElementDoes ==
  ASSUME NEW s, NEW k, Here(s, k), RemoveElement
  PROVE  \E v \in Values :
           \/ /\ \A i \in 1 .. Len(s) : ElementContainer[s[i]] # v
              /\ Moves(s, Len(s) + 1) /\ RemoveCurrentHasOccured' = FALSE
           \/ \E i \in 1 .. Len(s) :
                /\ ElementContainer[s[i]] = v
                /\ \A j \in 1 .. i - 1 : ElementContainer[s[j]] # v
                /\ Shrinks(s, i)
<1>1. /\ s \in Seq(Cells) /\ Len(s) \in Nat /\ Chain = s /\ DOMAIN s = 1 .. Len(s)
      /\ \A i \in 1 .. Len(s) : s[i] \in Cells /\ At(s, i) = s[i]
      /\ \A i : i \notin 1 .. Len(s) => At(s, i) = Null
  BY HereFacts
<1>2. PICK v \in Values :
       \/ /\ \A i \in 1 .. Len(s) : ElementContainer[s[i]] # v
          /\ PreviousElement' = IF s = <<>> THEN Null ELSE Last(s)
          /\ CurrentElement' = Null /\ RemoveCurrentHasOccured' = FALSE
          /\ UNCHANGED <<ends, cells, broken>>
       \/ \E i \in 1 .. Len(s) :
            /\ ElementContainer[s[i]] = v
            /\ \A j \in 1 .. i - 1 : ElementContainer[s[j]] # v
            /\ Unlink(IF i = 1 THEN Null ELSE s[i - 1], s[i])
  BY <1>1 DEF RemoveElement
<1>3. CASE /\ \A i \in 1 .. Len(s) : ElementContainer[s[i]] # v
           /\ PreviousElement' = IF s = <<>> THEN Null ELSE Last(s)
           /\ CurrentElement' = Null /\ RemoveCurrentHasOccured' = FALSE
           /\ UNCHANGED <<ends, cells, broken>>
  <2>1. PreviousElement' \in Pointers
    <3>1. s # <<>> => Last(s) \in Cells
      BY <1>1, EmptySeq DEF Last
    <3> QED BY <1>3, <3>1 DEF Pointers
  <2>2. CursorAt(s, Len(s) + 1)'
    <3>1. Len(s) + 1 \in 1 .. Len(s) + 1 /\ At(s, Len(s) + 1) = Null
      BY <1>1
    <3> QED BY <1>3, <3>1 DEF CursorAt, At
  <2>3. Moves(s, Len(s) + 1)
    BY <1>3, <2>1, <2>2 DEF Moves
  <2> QED BY <1>3, <2>3
<1>4. ASSUME NEW i \in 1 .. Len(s), ElementContainer[s[i]] = v,
             \A j \in 1 .. i - 1 : ElementContainer[s[j]] # v,
             Unlink(IF i = 1 THEN Null ELSE s[i - 1], s[i])
      PROVE  Shrinks(s, i)
  <2>1. At(s, i - 1) = IF i = 1 THEN Null ELSE s[i - 1]
    <3>1. i # 1 => i - 1 \in 1 .. Len(s)
      BY <1>1
    <3>2. i = 1 => i - 1 \notin 1 .. Len(s)
      OBVIOUS
    <3> QED BY <1>1, <3>1, <3>2
  <2> QED BY <1>4, <2>1, UnlinkDoes
<1> QED BY <1>2, <1>3, <1>4

\* First goes to the first element.
LEMMA FirstDoes == ASSUME NEW s, NEW k, Here(s, k), First PROVE Moves(s, 1)
<1>1. Len(s) \in Nat /\ head = At(s, 1) /\ At(s, 0) = Null /\ 1 - 1 = 0
  <2>1. 0 \notin 1 .. Len(s)
    BY HereFacts
  <2> QED BY <2>1, HereFacts
<1>2. CursorAt(s, 1)'
  BY <1>1 DEF First, CursorAt, At
<1> QED BY <1>2 DEF First, Moves, Pointers

\* Next goes to the element behind, unless RemoveCurrent has just done so.
LEMMA NextDoes ==
  ASSUME NEW s, NEW k, Here(s, k), Next_
  PROVE  /\ Moves(s, IF k = Len(s) + 1 \/ RemoveCurrentHasOccured THEN k ELSE k + 1)
         /\ RemoveCurrentHasOccured' = FALSE
<1>1. /\ Len(s) \in Nat /\ Null \notin Cells
      /\ \A j \in 1 .. Len(s) :
            s[j] \in Cells /\ s[j] # Null /\ s[j] \notin free /\ At(s, j) = s[j]
      /\ \A j \in 1 .. Len(s) : NextElement[s[j]] = At(s, j + 1)
      /\ k # Len(s) + 1 => CurrentElement = s[k] /\ k \in 1 .. Len(s)
      /\ k = Len(s) + 1 <=> CurrentElement = Null
  BY HereFacts
<1>2. CursorAt(s, k) /\ Fields
  BY DEF Here
<1>3. CASE k = Len(s) + 1 \/ RemoveCurrentHasOccured
  <2>1. CurrentElement = Null \/ RemoveCurrentHasOccured
    BY <1>1, <1>3
  <2>2. CurrentElement = Null => ~Valid(CurrentElement) /\ CurrentElement \notin free
    BY <1>1, <1>2 DEF Valid, Fields
  <2>3. /\ RemoveCurrentHasOccured' = FALSE
        /\ UNCHANGED <<ends, PreviousElement, CurrentElement, cells, broken>>
    BY <2>1, <2>2 DEF Next_
  <2>4. CursorAt(s, k)'
    BY <1>2, <2>3 DEF CursorAt, At
  <2>5. Moves(s, k)
    BY <1>2, <2>3, <2>4 DEF Moves, Fields
  <2> QED BY <1>3, <2>3, <2>5
<1>4. CASE ~(k = Len(s) + 1 \/ RemoveCurrentHasOccured)
  <2>1. /\ k \in 1 .. Len(s) /\ CurrentElement = s[k] /\ CurrentElement \notin free
        /\ CurrentElement # Null /\ CurrentElement \in Cells
    BY <1>1, <1>4
  <2>2. /\ PreviousElement' = CurrentElement
        /\ CurrentElement' = NextElement[CurrentElement]
        /\ UNCHANGED <<ends, RemoveCurrentHasOccured, cells, broken>>
    BY <1>4, <2>1 DEF Next_
  <2>3. k + 1 \in 1 .. Len(s) + 1 /\ (k + 1) - 1 = k
    BY <1>1, <2>1
  <2>4. CurrentElement' = At(s, k + 1) /\ PreviousElement' = At(s, (k + 1) - 1)
    BY <1>1, <2>1, <2>2, <2>3
  <2>5. CursorAt(s, k + 1)'
    BY <2>3, <2>4 DEF CursorAt, At
  <2>6. RemoveCurrentHasOccured' = FALSE
    BY <1>2, <1>4, <2>2 DEF Fields
  <2> QED BY <1>2, <1>4, <2>1, <2>2, <2>5, <2>6 DEF Moves, Pointers
<1> QED BY <1>3, <1>4

\* ExtractFirst takes the first element out, where the cursor is not near it.
LEMMA ExtractFirstDoes ==
  ASSUME Careful, NEW s, NEW k, Here(s, k), ExtractFirst
  PROVE  /\ 1 \in 1 .. Len(s) /\ TakesOut(s, 1) /\ (k > 2 \/ k = Len(s) + 1) /\ k > 1
         /\ UNCHANGED <<cursor, ElementContainer, broken>>
<1>1. /\ Len(s) \in Nat /\ head = At(s, 1) /\ tail = At(s, Len(s)) /\ Null \notin Cells
      /\ \A j \in 1 .. Len(s) : s[j] \in Cells /\ s[j] # Null /\ At(s, j) = s[j]
      /\ \A j : j \notin 1 .. Len(s) => At(s, j) = Null
      /\ \A j, l \in 1 .. Len(s) : s[j] = s[l] => j = l
      /\ \A j \in 1 .. Len(s) : NextElement[s[j]] = At(s, j + 1)
      /\ k \in 1 .. Len(s) + 1
      /\ k # Len(s) + 1 =>
            PreviousElement = At(s, k - 1) /\ CurrentElement = s[k] /\ k \in 1 .. Len(s)
      /\ k = Len(s) + 1 <=> CurrentElement = Null
  BY HereFacts
<1>2. 1 \in 1 .. Len(s) /\ head = s[1]
  BY <1>1 DEF ExtractFirst
<1>3. k > 2 \/ k = Len(s) + 1
  <2> SUFFICES ASSUME k # Len(s) + 1, k <= 2 PROVE FALSE
    BY <1>1
  <2>1. head # PreviousElement /\ head # CurrentElement
    BY <1>1 DEF ExtractFirst
  <2>2. k = 1 \/ k = 2
    BY <1>1
  <2>3. CASE k = 1
    BY <1>1, <1>2, <2>1, <2>3
  <2>4. CASE k = 2
    BY <1>1, <1>2, <2>1, <2>4
  <2> QED BY <2>2, <2>3, <2>4
<1>4. k > 1
  BY <1>1, <1>2, <1>3
<1>5. tail = s[Len(s)] /\ Len(s) \in 1 .. Len(s)
  BY <1>1, <1>2
<1>6. head = tail <=> 1 = Len(s)
  BY <1>1, <1>2, <1>5
<1>7. NextElement[head] = At(s, 2) /\ At(s, 0) = Null
  BY <1>1, <1>2
<1>8. 1 = Len(s) => At(s, 2) = Null
  BY <1>1
<1>9. /\ head' = At(s, 2)
      /\ tail' = IF 1 = Len(s) THEN At(s, 0) ELSE tail
  BY <1>6, <1>7, <1>8 DEF ExtractFirst
<1>10. /\ NextElement' = NextElement /\ free' = free \cup {s[1]}
       /\ NumberOfElements' = NumberOfElements - 1
       /\ UNCHANGED <<cursor, ElementContainer, broken>>
  BY <1>2 DEF ExtractFirst
<1>11. NextElement \in [Cells -> Pointers] /\ 1 - 1 = 0 /\ 1 + 1 = 2
  BY DEF Here, Fields
<1>12. TakesOut(s, 1)
  BY <1>1, <1>7, <1>9, <1>10, <1>11 DEF TakesOut
<1> QED BY <1>2, <1>3, <1>4, <1>10, <1>12

\* Building the list anew leaves the cursor at its end.
LEMMA RebuiltKeeps ==
  ASSUME NEW s, NEW k, Here(s, k), NEW chain \in Seq(Cells),
         NEW values \in [1 .. Len(chain) -> Values], Rebuilt(chain, values),
         \A j, l \in 1 .. Len(chain) : chain[j] = chain[l] => j = l
  PROVE  Here(chain, Len(chain) + 1)'
<1>1. Fields /\ Shape(s) /\ broken = FALSE
  BY DEF Here
<1>2. Shape(chain)' /\ CursorAt(chain, Len(chain) + 1)'
  BY <1>1, Rebuilding
<1>3. /\ Len(chain) \in Nat /\ DOMAIN chain = 1 .. Len(chain)
      /\ \A j \in 1 .. Len(chain) : chain[j] \in Cells
  BY LenProperties, ElementOfSeq
<1> DEFINE place(c) == CHOOSE j \in DOMAIN chain : chain[j] = c
<1>4. \A c \in Cells : c \in ToSet(chain) => place(c) \in 1 .. Len(chain)
  BY <1>3 DEF ToSet
<1>5. NextElement' \in [Cells -> Pointers]
  <2> DEFINE successor(c) == IF c \notin ToSet(chain) THEN NextElement[c]
                        ELSE IF place(c) = Len(chain) THEN Null ELSE chain[place(c) + 1]
  <2>1. NextElement' = [c \in Cells |-> successor(c)]
    BY DEF Rebuilt
  <2> HIDE DEF place
  <2>2. ASSUME NEW c \in Cells, c \notin ToSet(chain) PROVE successor(c) \in Pointers
    BY <1>1, <2>2 DEF Fields
  <2>3. ASSUME NEW c \in Cells, c \in ToSet(chain) PROVE successor(c) \in Pointers
    <3>1. place(c) \in 1 .. Len(chain)
      BY <1>4, <2>3
    <3>2. place(c) # Len(chain) => place(c) + 1 \in 1 .. Len(chain)
      BY <1>3, <3>1
    <3> QED BY <1>3, <2>3, <3>2 DEF Pointers
  <2> HIDE DEF successor
  <2> QED BY <2>1, <2>2, <2>3
<1>6. ElementContainer' \in [Cells -> Values]
  <2> DEFINE item(c) == IF c \notin ToSet(chain) THEN ElementContainer[c]
                        ELSE values[place(c)]
  <2>1. ElementContainer' = [c \in Cells |-> item(c)]
    BY DEF Rebuilt
  <2> HIDE DEF place
  <2>2. ASSUME NEW c \in Cells, c \notin ToSet(chain) PROVE item(c) \in Values
    BY <1>1, <2>2 DEF Fields
  <2>3. ASSUME NEW c \in Cells, c \in ToSet(chain) PROVE item(c) \in Values
    BY <1>4, <2>3
  <2> HIDE DEF item
  <2> QED BY <2>1, <2>2, <2>3
<1>7. free' \subseteq Cells
  <2>1. ToSet(Chain) \subseteq Cells
    BY HereFacts, <1>3 DEF ToSet
  <2> QED BY <1>1, <2>1 DEF Rebuilt, Fields
<1>8. Fields' /\ broken' = FALSE
  BY <1>1, <1>5, <1>6, <1>7 DEF Rebuilt, Fields, Pointers
<1> QED BY <1>2, <1>8 DEF Here

\* Empty, and operator= from the list itself, leave a list of no cells.
LEMMA EmptyKeeps ==
  ASSUME NEW s, NEW k, Here(s, k), Rebuilt(<<>>, <<>>)
  PROVE  Here(<<>>, 1)'
<1>1. <<>> \in Seq(Cells) /\ Len(<<>>) = 0 /\ <<>> \in [1 .. Len(<<>>) -> Values]
  OBVIOUS
<1>2. \A j, l \in 1 .. Len(<<>>) : <<>>[j] = <<>>[l] => j = l
  OBVIOUS
<1>3. Here(<<>>, Len(<<>>) + 1)'
  BY <1>1, <1>2, RebuiltKeeps
<1> QED BY <1>1, <1>3

\* operator= leaves a list of the cells it has made, with the cursor at its end.
LEMMA AssignKeeps ==
  ASSUME NEW s, NEW k, Here(s, k), Assign
  PROVE  RemoveCurrentHasOccured' = FALSE /\ \E chain : Here(chain, Len(chain) + 1)'
<1>1. PICK n \in 0 .. 2 : \E chain \in [1 .. n -> Cells], values \in [1 .. n -> Values] :
        IsInjective(chain) /\ Rebuilt(chain, values)
  BY DEF Assign
<1>2. PICK chain \in [1 .. n -> Cells], values \in [1 .. n -> Values] :
        IsInjective(chain) /\ Rebuilt(chain, values)
  BY <1>1
<1>3. chain \in Seq(Cells) /\ Len(chain) = n /\ DOMAIN chain = 1 .. n
  OBVIOUS
<1>4. \A j, l \in 1 .. Len(chain) : chain[j] = chain[l] => j = l
  BY <1>2, <1>3 DEF IsInjective
<1>5. Here(chain, Len(chain) + 1)'
  BY <1>2, <1>3, <1>4, RebuiltKeeps
<1> QED BY <1>2, <1>5 DEF Rebuilt

-------------------------------------------------------------------------------
(* The invariant.                                                                    *)

\* The constructor makes a list of no cells.
LEMMA InitHere == Init => Here(<<>>, 1)
<1> SUFFICES ASSUME Init PROVE Here(<<>>, 1)
  OBVIOUS
<1>1. <<>> \in Seq(Cells) /\ Len(<<>>) = 0
  OBVIOUS
<1>2. Fields /\ broken = FALSE
  BY DEF Init, Fields, Pointers
<1>3. \A i : At(<<>>, i) = Null
  BY <1>1 DEF At
<1>4. Shape(<<>>) /\ CursorAt(<<>>, 1)
  BY <1>1, <1>3 DEF Init, Shape, IsChain, Fits, CursorAt
<1> QED BY <1>2, <1>4 DEF Here

\* The invariant is kept by a call that puts a cell in...
LEMMA Growing ==
  ASSUME NEW s, NEW k, Here(s, k), NEW i \in 0 .. Len(s),
         \E c \in free, v \in Values : Grows(s, k, i, c, v)
  PROVE  IInv'
BY GrowsKeeps DEF IInv

\* ...by one that takes a cell out...
LEMMA Shrinking ==
  ASSUME NEW s, NEW k, Here(s, k), NEW i \in 1 .. Len(s), Shrinks(s, i)
  PROVE  IInv'
BY ShrinksKeeps DEF IInv

\* ...by one that moves the cursor...
LEMMA Moving == ASSUME NEW s, NEW k, Here(s, k), NEW i, Moves(s, i) PROVE IInv'
BY MovesKeeps DEF IInv

\* ...and by ExtractFirst, which leaves the cursor where it is.
LEMMA ExtractKeeps ==
  ASSUME Careful, NEW s, NEW k, Here(s, k), ExtractFirst
  PROVE  Here(RemoveAt(s, 1), k - 1)'
<1>1. Fields /\ Shape(s) /\ CursorAt(s, k) /\ broken = FALSE
  BY DEF Here
<1>2. /\ 1 \in 1 .. Len(s) /\ TakesOut(s, 1) /\ (k > 2 \/ k = Len(s) + 1)
      /\ UNCHANGED <<cursor, ElementContainer, broken>>
  BY ExtractFirstDoes
<1>3. Shape(RemoveAt(s, 1))' /\ CursorAt(RemoveAt(s, 1), k - 1)'
  BY <1>1, <1>2, TakingFirst DEF cursor
<1>4. s[1] \in Cells
  BY <1>1, <1>2, ShapeFacts
<1>5. Fields' /\ broken' = FALSE
  BY <1>1, <1>2, <1>4 DEF Fields, TakesOut, cursor, Pointers
<1> QED BY <1>3, <1>5 DEF Here

\* Every call keeps the invariant.
LEMMA StepKeeps == ASSUME Careful, IInv, [Next]_vars PROVE IInv'
<1>1. PICK s, k : Here(s, k)
  BY DEF IInv
<1>2. Len(s) \in Nat /\ k \in 1 .. Len(s) + 1 /\ (k # Len(s) + 1 => k \in 1 .. Len(s))
  BY <1>1, HereFacts
<1>3. CASE Add
  <2>1. PICK c \in free, v \in Values : AddCell(c, v)
    BY <1>3 DEF Add
  <2>2. Grows(s, k, Len(s), c, v)
    BY <1>1, <2>1, AddDoes
  <2>3. Len(s) \in 0 .. Len(s)
    BY <1>2
  <2> QED BY <1>1, <2>2, <2>3, Growing
<1>4. CASE AddHead
  <2>1. PICK c \in free, v \in Values : ~CursorOnFirst /\ AddHeadCell(c, v)
    BY <1>4 DEF AddHead
  <2>2. Grows(s, k, 0, c, v)
    BY <1>1, <2>1, AddHeadDoes
  <2>3. 0 \in 0 .. Len(s)
    BY <1>2
  <2> QED BY <1>1, <2>2, <2>3, Growing
<1>5. CASE Insert
  <2> DEFINE i == IF k = Len(s) + 1 THEN Len(s) ELSE k
  <2>1. i \in 0 .. Len(s)
    BY <1>2
  <2>2. \E c \in free, v \in Values : Grows(s, k, i, c, v)
    BY <1>1, <1>5, InsertDoes
  <2> HIDE DEF i
  <2> QED BY <1>1, <2>1, <2>2, Growing
<1>6. CASE InsertBefore
  <2> DEFINE i == IF k = Len(s) + 1 THEN 0 ELSE k - 1
  <2>1. i \in 0 .. Len(s)
    BY <1>2
  <2>2. \E c \in free, v \in Values : Grows(s, k, i, c, v)
    BY <1>1, <1>6, InsertBeforeDoes
  <2> HIDE DEF i
  <2> QED BY <1>1, <2>1, <2>2, Growing
<1>7. CASE First
  BY <1>1, <1>7, FirstDoes, Moving
<1>8. CASE Next_
  BY <1>1, <1>8, NextDoes, Moving
<1>9. CASE RemoveCurrent
  BY <1>1, <1>9, RemoveCurrentDoes, Moving, Shrinking
<1>10. CASE RemoveElement
  <2>1. \/ Moves(s, Len(s) + 1)
        \/ \E i \in 1 .. Len(s) : Shrinks(s, i)
    BY <1>1, <1>10, RemoveElementDoes
  <2> QED BY <1>1, <2>1, Moving, Shrinking
<1>11. CASE ExtractFirst
  BY <1>1, <1>11, ExtractKeeps DEF IInv
<1>12. CASE Empty \/ AssignSelf
  <2>1. Here(<<>>, 1)'
    BY <1>1, <1>12, EmptyKeeps DEF Empty, AssignSelf
  <2> QED BY <2>1 DEF IInv
<1>13. CASE Assign
  <2>1. PICK chain : Here(chain, Len(chain) + 1)'
    BY <1>1, <1>13, AssignKeeps
  <2> QED BY <2>1 DEF IInv
<1>14. CASE UNCHANGED vars
  <2>1. Here(s, k)'
    BY <1>1, <1>14 DEF Here, Shape, IsChain, Fits, CursorAt, At, Fields, Pointers,
       vars, ends, cursor, cells
  <2> QED BY <2>1 DEF IInv
<1> QED BY <1>3, <1>4, <1>5, <1>6, <1>7, <1>8, <1>9, <1>10, <1>11, <1>12, <1>13, <1>14
        DEF Next, May

\* The invariant implies what the run checks.
LEMMA InvMeans == IInv => NeverBroken /\ WellFormed
<1> SUFFICES ASSUME IInv PROVE NeverBroken /\ WellFormed
  OBVIOUS
<1>1. PICK s, k : Here(s, k)
  BY DEF IInv
<1>2. Fields /\ broken = FALSE /\ Fits(s) /\ IsChain(s)
  BY <1>1 DEF Here, Shape
<1>3. /\ s \in Seq(Cells) /\ Len(s) \in Nat /\ Chain = s /\ DOMAIN s = 1 .. Len(s)
      /\ \A i \in 1 .. Len(s) : s[i] \in Cells /\ s[i] # Null /\ At(s, i) = s[i]
      /\ \A i : i \notin 1 .. Len(s) => At(s, i) = Null
      /\ head = At(s, 1) /\ tail = At(s, Len(s))
      /\ \A i : At(s, i) \in Pointers
      /\ \A i \in 1 .. Len(s) : NextElement[s[i]] = At(s, i + 1)
      /\ k # Len(s) + 1 =>
            PreviousElement = At(s, k - 1) /\ CurrentElement = s[k] /\ k \in 1 .. Len(s)
      /\ k = Len(s) + 1 <=> CurrentElement = Null
  BY <1>1, HereFacts
<1>4. NumberOfElements = Len(s) /\ Len(s) \in 0 .. Cardinality(Cells)
  BY <1>2, ChainFits DEF Fits, N
<1>5. TypeOK
  BY <1>2, <1>3, <1>4 DEF TypeOK, Fields
<1>6. EndsMatch
  <2>1. CASE Len(s) = 0
    <3>1. s = <<>> /\ tail = Null
      BY <1>3, <2>1, EmptySeq
    <3> QED BY <1>3, <1>4, <3>1 DEF EndsMatch
  <2>2. CASE Len(s) # 0
    <3>1. s # <<>> /\ Len(s) \in 1 .. Len(s) /\ Len(s) + 1 \notin 1 .. Len(s)
      BY <1>3, <2>2, EmptySeq
    <3>2. tail = s[Len(s)] /\ NextElement[s[Len(s)]] = Null
      BY <1>3, <3>1
    <3> QED BY <1>3, <1>4, <3>1, <3>2 DEF EndsMatch, Last
  <2> QED BY <2>1, <2>2
<1>7. NoCellLost
  BY <1>2, <1>3 DEF NoCellLost, Fits, ToSet, Fields
<1>8. CursorInList
  <2> SUFFICES ASSUME k # Len(s) + 1
               PROVE \E i \in 1 .. Len(s) :
                       s[i] = CurrentElement /\ PreviousElement = IF i = 1 THEN Null ELSE s[i - 1]
    BY <1>3 DEF CursorInList
  <2>1. k \in 1 .. Len(s) /\ s[k] = CurrentElement /\ PreviousElement = At(s, k - 1)
    BY <1>3
  <2>2. k = 1 => k - 1 \notin 1 .. Len(s)
    OBVIOUS
  <2>3. k # 1 => k - 1 \in 1 .. Len(s)
    BY <1>3, <2>1
  <2> QED BY <1>3, <2>1, <2>2, <2>3
<1> QED BY <1>2, <1>5, <1>6, <1>7, <1>8 DEF NeverBroken, WellFormed

\* With a careful caller the cells are those of one list, with the cursor in it, and
\* every pointer that is followed is valid: the inductive invariant (SimpleList.h 316-693).
THEOREM ListInvariance == ASSUME Careful PROVE Spec => []IInv
<1>1. Init => IInv
  BY InitHere DEF IInv
<1>2. IInv /\ [Next]_vars => IInv'
  BY StepKeeps
<1> QED BY <1>1, <1>2, PTL DEF Spec

\* No call of a careful caller follows a null pointer or a deleted cell.
THEOREM ListIsNeverBroken == ASSUME Careful PROVE Spec => []NeverBroken
BY ListInvariance, InvMeans, PTL

\* The cells, the ends, the count and the cursor of a careful caller's list are those of
\* one list: no cell is lost, none that is linked is deleted, and the cursor is on an
\* element with the right one before it, or at the end.
THEOREM ListIsWellFormed == ASSUME Careful PROVE Spec => []WellFormed
BY ListInvariance, InvMeans, PTL

-------------------------------------------------------------------------------
(* The sequence with a position.                                                     *)

\* With the chain s and the cursor at place k the contents are those of the cells of s
\* and the position is k.
LEMMA View ==
  ASSUME NEW s, NEW k, Here(s, k)
  PROVE  /\ Contents \in Seq(Values) /\ Len(Contents) = Len(s) /\ DOMAIN Contents = 1 .. Len(s)
         /\ \A i \in 1 .. Len(s) : Contents[i] = ElementContainer[s[i]]
         /\ Position = k
<1>1. /\ s \in Seq(Cells) /\ Len(s) \in Nat /\ Chain = s /\ DOMAIN s = 1 .. Len(s)
      /\ \A i \in 1 .. Len(s) : s[i] \in Cells /\ s[i] # Null
      /\ \A i, j \in 1 .. Len(s) : s[i] = s[j] => i = j
      /\ k \in 1 .. Len(s) + 1
      /\ k # Len(s) + 1 => CurrentElement = s[k] /\ k \in 1 .. Len(s)
      /\ k = Len(s) + 1 <=> CurrentElement = Null
  BY HereFacts
<1>2. ElementContainer \in [Cells -> Values]
  BY DEF Here, Fields
<1>3. Contents = [i \in 1 .. Len(s) |-> ElementContainer[s[i]]]
  BY <1>1 DEF Contents
<1>4. Contents \in [1 .. Len(s) -> Values]
  BY <1>1, <1>2, <1>3
<1>5. Contents \in Seq(Values) /\ Len(Contents) = Len(s)
  BY <1>1, <1>4
<1>6. Position = k
  <2>1. CASE k = Len(s) + 1
    <3>1. CurrentElement \notin ToSet(Chain)
      BY <1>1, <2>1 DEF ToSet
    <3> QED BY <1>1, <2>1, <3>1 DEF Position
  <2>2. CASE k # Len(s) + 1
    <3>1. CurrentElement \in ToSet(Chain)
      BY <1>1, <2>2 DEF ToSet
    <3>2. (CHOOSE i \in DOMAIN Chain : Chain[i] = CurrentElement) = k
      BY <1>1, <2>2
    <3> QED BY <3>1, <3>2 DEF Position
  <2> QED BY <2>1, <2>2
<1> QED BY <1>3, <1>4, <1>5, <1>6

Views(s, k) ==
  /\ Contents \in Seq(Values) /\ Len(Contents) = Len(s) /\ DOMAIN Contents = 1 .. Len(s)
  /\ \A i \in 1 .. Len(s) : Contents[i] = ElementContainer[s[i]]
  /\ Position = k

\* In the next state as in this one.
LEMMA ViewNext == (\A s, k : Here(s, k) => Views(s, k))'
<1>1. \A s, k : Here(s, k) => Views(s, k)
  BY View DEF Views
<1> QED BY <1>1, PTL

\* There is one sequence that is s with c put in behind place i.
LEMMA InsertedOnce ==
  ASSUME NEW S, NEW x \in Seq(S), NEW y \in Seq(S),
         NEW s, Len(s) \in Nat, NEW i \in 0 .. Len(s),
         NEW c, Inserted(x, s, i, c), Inserted(y, s, i, c)
  PROVE  x = y
<1>1. /\ \A j \in 1 .. i : x[j] = y[j]
      /\ \A j \in i + 2 .. Len(s) + 1 : x[j] = y[j]
      /\ x[i + 1] = y[i + 1]
      /\ \A j \in 1 .. Len(x) : j \in 1 .. i \/ j = i + 1 \/ j \in i + 2 .. Len(s) + 1
  BY InsertedAt
<1>2. Len(x) = Len(y)
  BY DEF Inserted
<1>3. \A j \in 1 .. Len(x) : x[j] = y[j]
  BY <1>1
<1> QED BY <1>2, <1>3, SeqEqual

\* There is one sequence that is s without place i.
LEMMA RemovedOnce ==
  ASSUME NEW S, NEW x \in Seq(S), NEW y \in Seq(S),
         NEW s, Len(s) \in Nat, NEW i \in 1 .. Len(s),
         Removed(x, s, i), Removed(y, s, i)
  PROVE  x = y
<1>1. /\ \A j \in 1 .. i - 1 : x[j] = y[j]
      /\ \A j \in i .. Len(s) - 1 : x[j] = y[j]
      /\ \A j \in 1 .. Len(x) : j \in 1 .. i - 1 \/ j \in i .. Len(s) - 1
  BY RemovedAt
<1>2. Len(x) = Len(y)
  BY DEF Removed
<1>3. \A j \in 1 .. Len(x) : x[j] = y[j]
  BY <1>1
<1> QED BY <1>2, <1>3, SeqEqual

\* The ends of a sequence are places of it.
LEMMA EndsOfSequence ==
  ASSUME NEW S, NEW s \in Seq(S), NEW v \in S
  PROVE  /\ Append(s, v) \in Seq(S) /\ Inserted(Append(s, v), s, Len(s), v)
         /\ <<v>> \o s \in Seq(S) /\ Inserted(<<v>> \o s, s, 0, v)
         /\ Len(s) # 0 => Tail(s) \in Seq(S) /\ Removed(Tail(s), s, 1)
<1>1. Len(s) \in Nat
  OBVIOUS
<1>2. Append(s, v) \in Seq(S) /\ Inserted(Append(s, v), s, Len(s), v)
  BY <1>1 DEF Inserted
<1>3. <<v>> \o s \in Seq(S) /\ Len(<<v>> \o s) = Len(s) + 1
  BY <1>1
<1>4. (<<v>> \o s)[1] = v
  BY <1>1
<1>5. ASSUME NEW j \in 1 .. Len(s) PROVE (<<v>> \o s)[j + 1] = s[j]
  BY <1>1
<1>6. Inserted(<<v>> \o s, s, 0, v)
  BY <1>1, <1>3, <1>4, <1>5 DEF Inserted
<1>7. Len(s) # 0 => Tail(s) \in Seq(S) /\ Removed(Tail(s), s, 1)
  <2> SUFFICES ASSUME Len(s) # 0 PROVE Tail(s) \in Seq(S) /\ Removed(Tail(s), s, 1)
    OBVIOUS
  <2>1. /\ Tail(s) \in Seq(S) /\ Len(Tail(s)) = Len(s) - 1
        /\ \A j \in 1 .. Len(s) - 1 : Tail(s)[j] = s[j + 1]
    BY <1>1, EmptySeq, HeadTailProperties
  <2>2. ASSUME NEW j \in 2 .. Len(s) PROVE Tail(s)[j - 1] = s[j]
    <3>1. j - 1 \in 1 .. Len(s) - 1 /\ (j - 1) + 1 = j
      BY <1>1
    <3> QED BY <2>1, <3>1
  <2> QED BY <2>1, <2>2 DEF Removed
<1> QED BY <1>2, <1>3, <1>6, <1>7

-------------------------------------------------------------------------------
(* The calls on the sequence.                                                        *)

\* The abstract list has the community modules' operators, under names of its own.
LEMMA SameOperators ==
  /\ \A q, i, v : Abstract!InsertAt(q, i, v) = InsertAt(q, i, v)
  /\ \A q, i : Abstract!RemoveAt(q, i) = RemoveAt(q, i)
  /\ \A q : Abstract!ToSet(q) = ToSet(q)
BY DEF Abstract!InsertAt, InsertAt, Abstract!RemoveAt, RemoveAt, Abstract!ToSet, ToSet

\* A cell that comes in is an element that comes in.
LEMMA GrowsView ==
  ASSUME NEW s, NEW k, Here(s, k), NEW i \in 0 .. Len(s), NEW c \in free, NEW v \in Values,
         Grows(s, k, i, c, v)
  PROVE  /\ Contents' \in Seq(Values) /\ Inserted(Contents', Contents, i, v)
         /\ Position' = IF k <= i THEN k ELSE k + 1
         /\ UNCHANGED RemoveCurrentHasOccured
<1> DEFINE t == InsertAt(s, i + 1, c)
           n == IF k <= i THEN k ELSE k + 1
<1>1. /\ s \in Seq(Cells) /\ Len(s) \in Nat
      /\ \A j \in 1 .. Len(s) : s[j] \in Cells /\ s[j] \notin free
  BY HereFacts
<1>2. c \in Cells /\ ElementContainer \in [Cells -> Values]
  BY DEF Here, Fields
<1>3. Inserted(t, s, i, c)
  BY <1>1, <1>2, InsertAtIs
<1>4. Here(t, n)'
  BY GrowsKeeps
<1> HIDE DEF t, n
<1>5. Views(s, k)
  BY View DEF Views
<1>6. Views(t, n)'
  BY <1>4, ViewNext
<1>7. /\ Contents' \in Seq(Values) /\ Len(Contents') = Len(t)
      /\ \A j \in 1 .. Len(t) : Contents'[j] = ElementContainer'[t[j]]
      /\ Position' = n
  BY <1>6 DEF Views
<1>8. /\ Len(Contents) = Len(s)
      /\ \A j \in 1 .. Len(s) : Contents[j] = ElementContainer[s[j]]
  BY <1>5 DEF Views
<1>9. ElementContainer' = [ElementContainer EXCEPT ![c] = v]
  BY DEF Grows, PutsIn, Link
<1>10. /\ ElementContainer'[c] = v
       /\ \A j \in 1 .. Len(s) : ElementContainer'[s[j]] = Contents[j]
  BY <1>1, <1>2, <1>8, <1>9
<1>11. Len(t) = Len(s) + 1
  BY <1>3 DEF Inserted
<1>12. /\ \A j \in 1 .. i : j \in 1 .. Len(s) /\ j \in 1 .. Len(t) /\ t[j] = s[j]
       /\ i + 1 \in 1 .. Len(t) /\ t[i + 1] = c
  BY <1>1, <1>3, InsertedAt
<1>13. \A j \in 1 .. i : Contents'[j] = Contents[j]
  BY <1>7, <1>10, <1>12
<1>14. Contents'[i + 1] = v
  BY <1>7, <1>10, <1>12
<1>15. ASSUME NEW j \in i + 1 .. Len(s) PROVE Contents'[j + 1] = Contents[j]
  <2>1. j \in 1 .. Len(s) /\ j + 1 \in 1 .. Len(t)
    BY <1>1, <1>11
  <2>2. t[j + 1] = s[j]
    BY <1>3 DEF Inserted
  <2> QED BY <1>7, <1>10, <2>1, <2>2
<1>16. Inserted(Contents', Contents, i, v)
  BY <1>7, <1>8, <1>11, <1>13, <1>14, <1>15 DEF Inserted
<1>17. UNCHANGED RemoveCurrentHasOccured
  BY DEF Grows
<1> QED BY <1>7, <1>16, <1>17 DEF n

\* A cell that goes out is an element that goes out.
LEMMA TakenView ==
  ASSUME NEW s, NEW k, Here(s, k), NEW i \in 1 .. Len(s), NEW n, Here(RemoveAt(s, i), n)',
         UNCHANGED ElementContainer
  PROVE  /\ Contents' \in Seq(Values) /\ Removed(Contents', Contents, i) /\ Position' = n
<1> DEFINE t == RemoveAt(s, i)
<1>1. s \in Seq(Cells) /\ Len(s) \in Nat
  BY HereFacts
<1>2. Removed(t, s, i)
  BY <1>1, RemoveAtIs
<1> HIDE DEF t
<1>3. Here(t, n)'
  BY DEF t
<1>4. /\ Contents' \in Seq(Values) /\ Len(Contents') = Len(t)
      /\ \A j \in 1 .. Len(t) : Contents'[j] = ElementContainer[t[j]]
      /\ Position' = n
  <2>1. Views(t, n)'
    BY <1>3, ViewNext
  <2> QED BY <2>1 DEF Views
<1>5. /\ Len(Contents) = Len(s)
      /\ \A j \in 1 .. Len(s) : Contents[j] = ElementContainer[s[j]]
  BY View
<1>6. Len(t) = Len(s) - 1
  BY <1>2 DEF Removed
<1>7. /\ \A j \in 1 .. i - 1 : j \in 1 .. Len(s) /\ j \in 1 .. Len(t) /\ t[j] = s[j]
  BY <1>1, <1>2, RemovedAt
<1>8. \A j \in 1 .. i - 1 : Contents'[j] = Contents[j]
  BY <1>4, <1>5, <1>7
<1>9. ASSUME NEW j \in i + 1 .. Len(s) PROVE Contents'[j - 1] = Contents[j]
  <2>1. j \in 1 .. Len(s) /\ j - 1 \in 1 .. Len(t)
    BY <1>1, <1>6
  <2>2. t[j - 1] = s[j]
    BY <1>2 DEF Removed
  <2> QED BY <1>4, <1>5, <2>1, <2>2
<1> QED BY <1>4, <1>5, <1>6, <1>8, <1>9 DEF Removed

\* A cursor that moves changes the position and nothing else.
LEMMA MovesView ==
  ASSUME NEW s, NEW k, Here(s, k), NEW n, Moves(s, n)
  PROVE  Contents' = Contents /\ Position' = n
<1>1. Views(s, n)'
  <2>1. Here(s, n)'
    BY MovesKeeps
  <2> QED BY <2>1, ViewNext
<1>2. /\ Contents' \in Seq(Values) /\ Len(Contents') = Len(s)
      /\ \A j \in 1 .. Len(s) : Contents'[j] = ElementContainer'[s[j]]
      /\ Position' = n
  BY <1>1 DEF Views
<1>3. /\ Contents \in Seq(Values) /\ Len(Contents) = Len(s)
      /\ \A j \in 1 .. Len(s) : Contents[j] = ElementContainer[s[j]]
  BY View
<1>4. ElementContainer' = ElementContainer
  BY DEF Moves, cells
<1>5. \A j \in 1 .. Len(Contents) : Contents'[j] = Contents[j]
  BY <1>2, <1>3, <1>4
<1>6. Contents' = Contents
  BY <1>2, <1>3, <1>5, SeqEqual
<1> QED BY <1>2, <1>6

\* A cell put in is an element put in: at the end...
LEMMA GrowsIsAdd ==
  ASSUME NEW s, NEW k, Here(s, k), NEW c \in free, NEW v \in Values, Grows(s, k, Len(s), c, v)
  PROVE  Abstract!Add(v)
<1>1. Len(s) \in Nat /\ k \in 1 .. Len(s) + 1 /\ Len(s) \in 0 .. Len(s)
  <2>1. Len(s) \in Nat /\ k \in 1 .. Len(s) + 1
    BY HereFacts
  <2> QED BY <2>1
<1>2. Contents \in Seq(Values) /\ Len(Contents) = Len(s) /\ Position = k
  BY View
<1>3. /\ Contents' \in Seq(Values) /\ Inserted(Contents', Contents, Len(s), v)
      /\ Position' = IF k <= Len(s) THEN k ELSE k + 1
      /\ UNCHANGED RemoveCurrentHasOccured
  BY <1>1, GrowsView
<1>4. Contents' = Append(Contents, v)
  BY <1>1, <1>2, <1>3, EndsOfSequence, InsertedOnce
<1>5. Position' = IF Position > Len(Contents) THEN Position + 1 ELSE Position
  BY <1>1, <1>2, <1>3
<1> QED BY <1>3, <1>4, <1>5 DEF Abstract!Add, Abstract!AtEnd

\* ...in front...
LEMMA GrowsIsAddHead ==
  ASSUME NEW s, NEW k, Here(s, k), NEW c \in free, NEW v \in Values, Grows(s, k, 0, c, v)
  PROVE  Abstract!AddHead(v)
<1>1. Len(s) \in Nat /\ k \in 1 .. Len(s) + 1 /\ 0 \in 0 .. Len(s)
  <2>1. Len(s) \in Nat /\ k \in 1 .. Len(s) + 1
    BY HereFacts
  <2> QED BY <2>1
<1>2. Contents \in Seq(Values) /\ Len(Contents) = Len(s) /\ Position = k
  BY View
<1>3. /\ Contents' \in Seq(Values) /\ Inserted(Contents', Contents, 0, v)
      /\ Position' = IF k <= 0 THEN k ELSE k + 1
      /\ UNCHANGED RemoveCurrentHasOccured
  BY <1>1, GrowsView
<1>4. Contents' = <<v>> \o Contents
  BY <1>1, <1>2, <1>3, EndsOfSequence, InsertedOnce
<1>5. Position' = Position + 1
  BY <1>1, <1>2, <1>3
<1> QED BY <1>3, <1>4, <1>5 DEF Abstract!AddHead

\* ...or inside.
LEMMA GrowsInside ==
  ASSUME NEW s, NEW k, Here(s, k), NEW i \in 0 .. Len(s), NEW c \in free, NEW v \in Values,
         Grows(s, k, i, c, v)
  PROVE  Contents' = InsertAt(Contents, i + 1, v)
<1>1. Len(s) \in Nat
  BY HereFacts
<1>2. Contents \in Seq(Values) /\ Len(Contents) = Len(s)
  BY View
<1>3. Contents' \in Seq(Values) /\ Inserted(Contents', Contents, i, v)
  BY GrowsView
<1> QED BY <1>1, <1>2, <1>3, InsertAtIs, InsertedOnce

\* Insert, on the cells and on the sequence.
LEMMA InsertIs ==
  ASSUME Careful, NEW s, NEW k, Here(s, k), Insert
  PROVE  \E v \in Values : Abstract!Insert(v)
<1>1. Len(s) \in Nat /\ k \in 1 .. Len(s) + 1
  BY HereFacts
<1>2. Len(Contents) = Len(s) /\ Position = k
  BY View
<1>3. PICK c \in free, v \in Values : Grows(s, k, IF k = Len(s) + 1 THEN Len(s) ELSE k, c, v)
  BY InsertDoes
<1>4. CASE k = Len(s) + 1
  <2>1. Position > Len(Contents)
    BY <1>1, <1>2, <1>4
  <2>2. Abstract!Add(v)
    BY <1>3, <1>4, GrowsIsAdd
  <2> QED BY <2>1, <2>2, SameOperators DEF Abstract!Insert, Abstract!AtEnd
<1>5. CASE k # Len(s) + 1
  <2>1. ~(Position > Len(Contents)) /\ k \in 0 .. Len(s) /\ Grows(s, k, k, c, v)
    BY <1>1, <1>2, <1>3, <1>5
  <2>2. Contents' = InsertAt(Contents, Position + 1, v)
    BY <1>2, <2>1, GrowsInside
  <2>3. Position' = (IF k <= k THEN k ELSE k + 1) /\ UNCHANGED RemoveCurrentHasOccured
    BY <2>1, GrowsView
  <2>4. Position' = Position
    BY <1>1, <1>2, <2>3
  <2> QED BY <2>1, <2>2, <2>3, <2>4, SameOperators DEF Abstract!Insert, Abstract!AtEnd
<1> QED BY <1>4, <1>5

\* InsertBefore, on the cells and on the sequence.
LEMMA InsertBeforeIs ==
  ASSUME Careful, NEW s, NEW k, Here(s, k), InsertBefore
  PROVE  \E v \in Values : Abstract!InsertBefore(v)
<1>1. Len(s) \in Nat /\ k \in 1 .. Len(s) + 1
  BY HereFacts
<1>2. Len(Contents) = Len(s) /\ Position = k
  BY View
<1>3. PICK c \in free, v \in Values : Grows(s, k, IF k = Len(s) + 1 THEN 0 ELSE k - 1, c, v)
  BY InsertBeforeDoes
<1>4. CASE k = Len(s) + 1
  <2>1. Position > Len(Contents)
    BY <1>1, <1>2, <1>4
  <2>2. Abstract!AddHead(v)
    BY <1>3, <1>4, GrowsIsAddHead
  <2> QED BY <2>1, <2>2, SameOperators DEF Abstract!InsertBefore, Abstract!AtEnd
<1>5. CASE k # Len(s) + 1
  <2>1. /\ ~(Position > Len(Contents)) /\ k - 1 \in 0 .. Len(s) /\ (k - 1) + 1 = k
        /\ Grows(s, k, k - 1, c, v)
    BY <1>1, <1>2, <1>3, <1>5
  <2>2. Contents' = InsertAt(Contents, (k - 1) + 1, v)
    BY <2>1, GrowsInside
  <2>3. Position' = (IF k <= k - 1 THEN k ELSE k + 1) /\ UNCHANGED RemoveCurrentHasOccured
    BY <2>1, GrowsView
  <2>4. Position' = Position + 1
    BY <1>1, <1>2, <2>3
  <2> QED BY <1>2, <2>1, <2>2, <2>3, <2>4, SameOperators
           DEF Abstract!InsertBefore, Abstract!AtEnd
<1> QED BY <1>4, <1>5

\* A cell taken out is an element taken out.
LEMMA ShrinksView ==
  ASSUME NEW s, NEW k, Here(s, k), NEW i \in 1 .. Len(s), Shrinks(s, i)
  PROVE  Contents' = RemoveAt(Contents, i) /\ Position' = i /\ RemoveCurrentHasOccured' = TRUE
<1>1. Len(s) \in Nat
  BY HereFacts
<1>2. Contents \in Seq(Values) /\ Len(Contents) = Len(s)
  BY View
<1>3. Contents' \in Seq(Values) /\ Removed(Contents', Contents, i) /\ Position' = i
  <2>1. Here(RemoveAt(s, i), i)'
    BY ShrinksKeeps
  <2>2. UNCHANGED ElementContainer
    BY DEF Shrinks
  <2> QED BY <2>1, <2>2, TakenView
<1>4. Contents' = RemoveAt(Contents, i)
  BY <1>1, <1>2, <1>3, RemoveAtIs, RemovedOnce
<1> QED BY <1>3, <1>4 DEF Shrinks

\* RemoveCurrent, on the cells and on the sequence.
LEMMA RemoveCurrentIs ==
  ASSUME NEW s, NEW k, Here(s, k), RemoveCurrent
  PROVE  Abstract!RemoveCurrent
<1>1. Len(s) \in Nat
  BY HereFacts
<1>2. Len(Contents) = Len(s) /\ Position = k
  BY View
<1>3. ~RemoveCurrentHasOccured
  BY DEF RemoveCurrent
<1>4. CASE k = Len(s) + 1 /\ Moves(s, k) /\ RemoveCurrentHasOccured'
  <2>1. Contents' = Contents /\ Position' = k
    BY <1>4, MovesView
  <2>2. RemoveCurrentHasOccured' = TRUE
    BY <1>4 DEF Moves
  <2> QED BY <1>1, <1>2, <1>3, <1>4, <2>1, <2>2, SameOperators
           DEF Abstract!RemoveCurrent, Abstract!AtEnd
<1>5. CASE k \in 1 .. Len(s) /\ Shrinks(s, k)
  <2>1. Contents' = RemoveAt(Contents, k) /\ Position' = k /\ RemoveCurrentHasOccured' = TRUE
    BY <1>5, ShrinksView
  <2> QED BY <1>1, <1>2, <1>3, <1>5, <2>1, SameOperators
           DEF Abstract!RemoveCurrent, Abstract!AtEnd
<1> QED BY <1>4, <1>5, RemoveCurrentDoes

\* Remove, on the cells and on the sequence.
LEMMA RemoveElementIs ==
  ASSUME NEW s, NEW k, Here(s, k), RemoveElement
  PROVE  \E v \in Values : Abstract!RemoveElement(v)
<1>1. /\ Len(s) \in Nat /\ Len(Contents) = Len(s) /\ DOMAIN Contents = 1 .. Len(s)
      /\ \A i \in 1 .. Len(s) : Contents[i] = ElementContainer[s[i]]
  BY HereFacts, View
<1>2. PICK v \in Values :
       \/ /\ \A i \in 1 .. Len(s) : ElementContainer[s[i]] # v
          /\ Moves(s, Len(s) + 1) /\ RemoveCurrentHasOccured' = FALSE
       \/ \E i \in 1 .. Len(s) :
            /\ ElementContainer[s[i]] = v
            /\ \A j \in 1 .. i - 1 : ElementContainer[s[j]] # v
            /\ Shrinks(s, i)
  BY RemoveElementDoes
<1>3. CASE /\ \A i \in 1 .. Len(s) : ElementContainer[s[i]] # v
           /\ Moves(s, Len(s) + 1) /\ RemoveCurrentHasOccured' = FALSE
  <2>1. v \notin ToSet(Contents)
    BY <1>1, <1>3 DEF ToSet
  <2>2. Contents' = Contents /\ Position' = Len(Contents) + 1
    BY <1>1, <1>3, MovesView
  <2> QED BY <1>3, <2>1, <2>2, SameOperators DEF Abstract!RemoveElement
<1>4. ASSUME NEW i \in 1 .. Len(s), ElementContainer[s[i]] = v,
             \A j \in 1 .. i - 1 : ElementContainer[s[j]] # v, Shrinks(s, i)
      PROVE  Abstract!RemoveElement(v)
  <2>1. Contents' = RemoveAt(Contents, i) /\ Position' = i /\ RemoveCurrentHasOccured' = TRUE
    BY <1>4, ShrinksView
  <2>2. \A j \in 1 .. i - 1 : Contents[j] # v
    BY <1>1, <1>4
  <2> QED BY <1>1, <1>4, <2>1, <2>2, SameOperators DEF Abstract!RemoveElement
<1> QED BY <1>2, <1>3, <1>4

\* ExtractFirst, on the cells and on the sequence.
LEMMA ExtractFirstIs ==
  ASSUME Careful, NEW s, NEW k, Here(s, k), ExtractFirst PROVE Abstract!ExtractFirst
<1>1. /\ 1 \in 1 .. Len(s) /\ k > 1 /\ UNCHANGED <<cursor, ElementContainer>>
  BY ExtractFirstDoes
<1>2. /\ Len(s) \in Nat /\ Contents \in Seq(Values) /\ Len(Contents) = Len(s) /\ Position = k
  BY HereFacts, View
<1>3. Contents' \in Seq(Values) /\ Removed(Contents', Contents, 1) /\ Position' = k - 1
  <2>1. Here(RemoveAt(s, 1), k - 1)'
    BY ExtractKeeps
  <2> QED BY <1>1, <2>1, TakenView
<1>4. Len(Contents) # 0 /\ Contents # <<>>
  BY <1>1, <1>2, EmptySeq
<1>5. PICK v \in Values : v = Contents[1]
  BY <1>1, <1>2, ElementOfSeq
<1>6. Tail(Contents) \in Seq(Values) /\ Removed(Tail(Contents), Contents, 1)
  BY <1>2, <1>4, <1>5, EndsOfSequence
<1>7. Contents' = Tail(Contents)
  BY <1>1, <1>2, <1>3, <1>6, RemovedOnce
<1> QED BY <1>1, <1>2, <1>3, <1>4, <1>7 DEF Abstract!ExtractFirst, cursor

\* Next, on the cells and on the sequence.
LEMMA NextIs == ASSUME NEW s, NEW k, Here(s, k), Next_ PROVE Abstract!Next_
<1>1. Len(s) \in Nat /\ k \in 1 .. Len(s) + 1 /\ Len(Contents) = Len(s) /\ Position = k
  BY HereFacts, View
<1> DEFINE n == IF k = Len(s) + 1 \/ RemoveCurrentHasOccured THEN k ELSE k + 1
<1>2. Moves(s, n) /\ RemoveCurrentHasOccured' = FALSE
  BY NextDoes
<1>3. Contents' = Contents /\ Position' = n
  <2> HIDE DEF n
  <2> QED BY <1>2, MovesView
<1>4. Position > Len(Contents) <=> k = Len(s) + 1
  BY <1>1
<1>5. n = IF Position > Len(Contents) \/ RemoveCurrentHasOccured THEN Position ELSE Position + 1
  BY <1>1, <1>4
<1> HIDE DEF n
<1> QED BY <1>2, <1>3, <1>5 DEF Abstract!Next_, Abstract!AtEnd

\* A list built anew has its position at the end.
LEMMA RebuiltView ==
  ASSUME NEW chain, Here(chain, Len(chain) + 1)'
  PROVE  Contents' \in Seq(Values) /\ Len(Contents') = Len(chain) /\ Position' = Len(Contents') + 1
<1>1. Views(chain, Len(chain) + 1)'
  BY ViewNext
<1> QED BY <1>1 DEF Views

\* Every call is a call on the sequence, or changes nothing there.
LEMMA StepIs == ASSUME Careful, IInv, [Next]_vars PROVE [Abstract!Next]_(Abstract!vars)
<1>1. PICK s, k : Here(s, k)
  BY DEF IInv
<1>2. CASE Add
  <2>1. PICK c \in free, v \in Values : AddCell(c, v)
    BY <1>2 DEF Add
  <2>2. Abstract!Add(v)
    BY <1>1, <2>1, AddDoes, GrowsIsAdd
  <2> QED BY <2>2 DEF Abstract!Next
<1>3. CASE AddHead
  <2>1. PICK c \in free, v \in Values : ~CursorOnFirst /\ AddHeadCell(c, v)
    BY <1>3 DEF AddHead
  <2>2. Abstract!AddHead(v)
    BY <1>1, <2>1, AddHeadDoes, GrowsIsAddHead
  <2> QED BY <2>2 DEF Abstract!Next
<1>4. CASE Insert
  BY <1>1, <1>4, InsertIs DEF Abstract!Next
<1>5. CASE InsertBefore
  BY <1>1, <1>5, InsertBeforeIs DEF Abstract!Next
<1>6. CASE First
  <2>1. Contents' = Contents /\ Position' = 1
    BY <1>1, <1>6, FirstDoes, MovesView
  <2>2. Abstract!First
    BY <1>6, <2>1 DEF First, Abstract!First
  <2> QED BY <2>2 DEF Abstract!Next
<1>7. CASE Next_
  BY <1>1, <1>7, NextIs DEF Abstract!Next
<1>8. CASE RemoveCurrent
  BY <1>1, <1>8, RemoveCurrentIs DEF Abstract!Next
<1>9. CASE RemoveElement
  BY <1>1, <1>9, RemoveElementIs DEF Abstract!Next
<1>10. CASE ExtractFirst
  BY <1>1, <1>10, ExtractFirstIs DEF Abstract!Next
<1>11. CASE Empty \/ AssignSelf
  <2>1. Here(<<>>, 1)'
    BY <1>1, <1>11, EmptyKeeps DEF Empty, AssignSelf
  <2>2. Len(<<>>) = 0 /\ 1 = Len(<<>>) + 1
    OBVIOUS
  <2>3. Contents' \in Seq(Values) /\ Len(Contents') = 0 /\ Position' = 1
    BY <2>1, <2>2, RebuiltView
  <2>4. Contents' = <<>> /\ RemoveCurrentHasOccured' = FALSE
    BY <1>11, <2>3, EmptySeq DEF Empty, AssignSelf, Rebuilt
  <2>5. Abstract!Empty
    BY <2>3, <2>4 DEF Abstract!Empty
  <2> QED BY <2>5 DEF Abstract!Next
<1>12. CASE Assign
  <2>1. PICK chain : Here(chain, Len(chain) + 1)'
    BY <1>1, <1>12, AssignKeeps
  <2>2. Contents' \in Seq(Values) /\ Position' = Len(Contents') + 1
    BY <2>1, RebuiltView
  <2>3. RemoveCurrentHasOccured' = FALSE
    BY <1>1, <1>12, AssignKeeps
  <2>4. Abstract!Assign
    BY <2>2, <2>3 DEF Abstract!Assign
  <2> QED BY <2>4 DEF Abstract!Next
<1>13. CASE UNCHANGED vars
  <2>1. CursorAt(s, k)'
    BY <1>1, <1>13 DEF Here, CursorAt, At, vars, cursor
  <2>2. Moves(s, k)
    BY <1>1, <1>13, <2>1 DEF Moves, Here, Fields, vars, ends, cursor, cells
  <2>3. Contents' = Contents /\ Position' = k /\ Position = k
    BY <1>1, <2>2, MovesView, View
  <2> QED BY <1>13, <2>3 DEF Abstract!vars, vars, cursor
<1> QED BY <1>2, <1>3, <1>4, <1>5, <1>6, <1>7, <1>8, <1>9, <1>10, <1>11, <1>12, <1>13
        DEF Next, May

\* The cells of a careful caller's list implement the sequence with a position: every call
\* does to its contents and its position what SimpleList.h says of it, or nothing.
THEOREM ListIsImplemented == ASSUME Careful PROVE Spec => ImplementsList
<1>1. Init => Abstract!Init
  <2> SUFFICES ASSUME Init PROVE Abstract!Init
    OBVIOUS
  <2>1. Here(<<>>, 1) /\ Len(<<>>) = 0
    BY InitHere
  <2>2. Contents \in Seq(Values) /\ Len(Contents) = 0 /\ Position = 1
    BY <2>1, View
  <2>3. Contents = <<>> /\ RemoveCurrentHasOccured = FALSE
    BY <2>2, EmptySeq DEF Init
  <2> QED BY <2>2, <2>3 DEF Abstract!Init
<1>2. IInv /\ [Next]_vars => [Abstract!Next]_(Abstract!vars)
  BY StepIs
<1> QED BY <1>1, <1>2, ListInvariance, PTL DEF Spec, ImplementsList, Abstract!Spec


-------------------------------------------------------------------------------
(* MutexedSimpleList.                                                               *)

Labels == {"idle", "lockFrom", "lockTo", "init", "copy", "append", "unlockTo", "unlockFrom"}

SharedTypeOK ==
  /\ mutex \in [Lists -> MutexType]
  /\ contents \in [Lists -> Seq(Elements)]
  /\ pc \in [Threads -> Labels]
  /\ calls \in [Threads -> 0..MaxCalls]
  /\ to \in [Threads -> Lists] /\ from \in [Threads -> Lists]
  /\ copying \in [Threads -> BOOLEAN] /\ LockCount \in [Threads -> 0..1]
  /\ next \in [Threads -> Nat \ {0}]
  /\ expired \in BOOLEAN
  /\ snapshot \in [Threads -> Seq(Elements)]

\* Where a thread is says what it is doing and which locks it has counted.
PlaceOK(t) ==
  /\ pc[t] \in {"lockFrom", "init", "copy", "unlockFrom"} => copying[t]
  /\ pc[t] = "append" => ~copying[t]
  /\ pc[t] \in {"idle", "lockFrom", "lockTo", "unlockFrom"} => LockCount[t] = 0
  /\ Writing(t) => LockCount[t] = 1 \/ (expired /\ ~copying[t])

\* How many times thread t has locked list l.
Held(t, l) == (IF to[t] = l THEN LockCount[t] ELSE 0) + (IF Reading(t) /\ from[t] = l THEN 1 ELSE 0)

\* The owner of a mutex has locked it depth times, and nobody else has.
MutexOK(l) ==
  /\ mutex[l].owner = NoThread <=> mutex[l].depth = 0
  /\ \A t \in Threads : Held(t, l) = IF mutex[l].owner = t THEN mutex[l].depth ELSE 0

LockInv ==
  /\ SharedTypeOK
  /\ \A t \in Threads : PlaceOK(t)
  /\ \A l \in Lists : MutexOK(l)
-------------------------------------------------------------------------------
\* The program starts with every list free and every thread out of it.
LEMMA InitOK == SharedInit => LockInv
<1> SUFFICES ASSUME SharedInit PROVE LockInv
  OBVIOUS
<1>1. SharedTypeOK
  <2>1. to \in [Threads -> Lists] /\ from = to
    BY DEF SharedInit
  <2>2. mutex \in [Lists -> MutexType]
    BY DEF SharedInit, MutexType, FreeMutex
  <2>3. calls \in [Threads -> 0..MaxCalls] /\ LockCount \in [Threads -> 0..1]
    BY CallsBoundAssumption DEF SharedInit
  <2>4. contents \in [Lists -> Seq(Elements)] /\ snapshot \in [Threads -> Seq(Elements)]
    BY DEF SharedInit
  <2>5. pc \in [Threads -> Labels]
    BY DEF SharedInit, Labels
  <2>6. copying \in [Threads -> BOOLEAN] /\ next \in [Threads -> Nat \ {0}]
    BY DEF SharedInit
  <2>7. expired \in BOOLEAN
    BY Zenon DEF SharedInit
  <2> QED BY <2>1, <2>2, <2>3, <2>4, <2>5, <2>6, <2>7 DEF SharedTypeOK
<1>2. \A t \in Threads : PlaceOK(t)
  BY DEF SharedInit, PlaceOK, Writing
<1>3. \A l \in Lists : MutexOK(l)
  BY NoThreadAssumption DEF SharedInit, MutexOK, Held, Reading, FreeMutex
<1> QED BY <1>1, <1>2, <1>3 DEF LockInv

\* An unlock of a mutex that is locked gives a mutex.
LEMMA UnlockedType ==
  ASSUME NEW mx \in MutexType, mx.depth \in Nat \ {0}
  PROVE  Unlocked(mx) \in MutexType
<1>1. CASE mx.depth = 1
  BY <1>1 DEF Unlocked, FreeMutex, MutexType
<1>2. CASE mx.depth # 1
  <2>1. mx.depth - 1 \in Nat
    BY <1>2
  <2>2. [mx EXCEPT !.depth = mx.depth - 1] \in MutexType
    BY <2>1 DEF MutexType
  <2> QED BY <1>2, <2>2 DEF Unlocked
<1> QED BY <1>1, <1>2

\* A thread that has locked a list is the owner of its mutex.
LEMMA Owner ==
  ASSUME LockInv, NEW t \in Threads, NEW l \in Lists, Held(t, l) # 0
  PROVE  mutex[l].owner = t /\ mutex[l].depth \in Nat \ {0}
BY DEF LockInv, MutexOK, SharedTypeOK, MutexType

\* A thread that is about to give a mutex back has locked it.
LEMMA Gives ==
  ASSUME LockInv, NEW t \in Threads
  PROVE  /\ LockCount[t] # 0 => Held(t, to[t]) # 0
         /\ pc[t] = "unlockFrom" => Held(t, from[t]) # 0
<1>1. LockCount[t] \in 0..1 /\ to[t] \in Lists /\ from[t] \in Lists
  BY DEF LockInv, SharedTypeOK
<1>2. pc[t] = "unlockFrom" => Reading(t)
  BY DEF LockInv, PlaceOK, Reading
<1> QED BY <1>1, <1>2 DEF Held

\* Every step keeps the types.
LEMMA StepTypes ==
  ASSUME LockInv, NEW t \in Threads, AddTail(t) \/ AssignList(t) \/ Advance(t)
  PROVE  SharedTypeOK'
<1>0. ASSUME NEW l \in Lists, NEW k \in Lists, NEW isCopy \in BOOLEAN, NEW label \in Labels,
             Call(t, l, k, isCopy, label)
      PROVE  SharedTypeOK'
  <2> USE <1>0 DEF Call, LockInv, SharedTypeOK
  <2>1. calls' \in [Threads -> 0..MaxCalls]
    BY CallsBoundAssumption
  <2>2. to' \in [Threads -> Lists] /\ from' \in [Threads -> Lists] /\ copying' \in [Threads -> BOOLEAN]
    OBVIOUS
  <2>3. pc' \in [Threads -> Labels]
    BY DEF Goto
  <2> QED BY <2>1, <2>2, <2>3 DEF ghosts
<1>1. CASE AddTail(t)
  BY <1>0, <1>1 DEF AddTail, Labels
<1>2. CASE AssignList(t)
  <2>1. PICK pair \in Assigns : Call(t, pair[1], pair[2], TRUE, "lockFrom")
    BY <1>2 DEF AssignList
  <2>2. pair[1] \in Lists /\ pair[2] \in Lists
    BY AssignsAssumption
  <2> QED BY <1>0, <2>1, <2>2 DEF Labels
<1>3. CASE LockFrom(t)
  <2>1. from[t] \in Lists /\ mutex[from[t]] \in MutexType
    BY DEF LockInv, SharedTypeOK
  <2>2. Locked(mutex[from[t]], t) \in MutexType
    BY <2>1 DEF Locked, MutexType
  <2>3. mutex' \in [Lists -> MutexType]
    BY <1>3, <2>1, <2>2 DEF LockFrom, LockInv, SharedTypeOK
  <2>4. pc' \in [Threads -> Labels]
    BY <1>3 DEF LockFrom, Goto, LockInv, SharedTypeOK, Labels
  <2> QED BY <1>3, <2>3, <2>4 DEF LockFrom, locals, ghosts, LockInv, SharedTypeOK
<1>4. CASE LockTo(t)
  <2>1. to[t] \in Lists /\ from[t] \in Lists /\ mutex[to[t]] \in MutexType
    BY DEF LockInv, SharedTypeOK
  <2>2. Locked(mutex[to[t]], t) \in MutexType
    BY <2>1 DEF Locked, MutexType
  <2>3. mutex' \in [Lists -> MutexType]
    BY <1>4, <2>1, <2>2 DEF LockTo, LockInv, SharedTypeOK
  <2>4. pc' \in [Threads -> Labels] /\ LockCount' \in [Threads -> 0..1]
    BY <1>4 DEF LockTo, Goto, LockInv, SharedTypeOK, Labels
  <2>5. snapshot' \in [Threads -> Seq(Elements)]
    BY <1>4, <2>1 DEF LockTo, LockInv, SharedTypeOK
  <2> QED BY <1>4, <2>3, <2>4, <2>5 DEF LockTo, locals, LockInv, SharedTypeOK
<1>5. CASE LockTimesOut(t)
  BY <1>5, AssignsAssumption, CallsBoundAssumption DEF LockTimesOut, Goto, locals, ghosts,
     SharedTypeOK, LockInv, PlaceOK, MutexType, Labels
<1>6. CASE Append_(t)
  <2>1. PICK v \in Elements : contents' = [contents EXCEPT ![to[t]] = Append(@, v)]
    BY <1>6 DEF Append_
  <2>2. to[t] \in Lists /\ contents[to[t]] \in Seq(Elements)
    BY DEF LockInv, SharedTypeOK
  <2>3. Append(contents[to[t]], v) \in Seq(Elements)
    BY <2>2
  <2>4. contents' \in [Lists -> Seq(Elements)]
    BY <2>1, <2>3 DEF LockInv, SharedTypeOK
  <2> QED BY <1>6, <2>4 DEF Append_, Goto, locals, ghosts, LockInv, SharedTypeOK, Labels
<1>7. CASE Forget(t)
  BY <1>7, AssignsAssumption, CallsBoundAssumption DEF Forget, Goto, locals, ghosts,
     SharedTypeOK, LockInv, PlaceOK, MutexType, Labels
<1>8. CASE Copy(t)
  <2>1. CASE next[t] <= Len(contents[from[t]])
    <3>1. from[t] \in Lists /\ to[t] \in Lists /\ next[t] \in Nat \ {0}
      BY DEF LockInv, SharedTypeOK
    <3>2. contents[from[t]] \in Seq(Elements) /\ contents[to[t]] \in Seq(Elements)
      BY <3>1 DEF LockInv, SharedTypeOK
    <3>3. contents[from[t]][next[t]] \in Elements
      BY <2>1, <3>1, <3>2
    <3>4. Append(contents[to[t]], contents[from[t]][next[t]]) \in Seq(Elements)
      BY <3>2, <3>3
    <3>5. contents' = [contents EXCEPT ![to[t]] = Append(contents[to[t]], contents[from[t]][next[t]])]
      BY <1>8, <2>1 DEF Copy
    <3>6. contents' \in [Lists -> Seq(Elements)]
      BY <3>1, <3>4, <3>5 DEF LockInv, SharedTypeOK
    <3>7. next' \in [Threads -> Nat \ {0}] /\ pc' = pc
      <4>1. next' = [next EXCEPT ![t] = next[t] + 1] /\ pc' = pc
        BY <1>8, <2>1 DEF Copy
      <4>2. next[t] + 1 \in Nat \ {0}
        BY <3>1
      <4> QED BY <4>1, <4>2 DEF LockInv, SharedTypeOK
    <3> QED BY <1>8, <3>6, <3>7 DEF Copy, locals, ghosts, LockInv, SharedTypeOK
  <2>2. CASE ~(next[t] <= Len(contents[from[t]]))
    <3>1. contents' = contents /\ next' = next /\ pc' = [pc EXCEPT ![t] = "unlockTo"]
      BY <1>8, <2>2 DEF Copy, Goto
    <3> QED BY <1>8, <3>1 DEF Copy, locals, ghosts, LockInv, SharedTypeOK, Labels
  <2> QED BY <2>1, <2>2
<1>9. CASE UnlockTo(t)
  <2>1. to[t] \in Lists
    BY DEF LockInv, SharedTypeOK
  <2>2. mutex' # mutex => mutex[to[t]].depth \in Nat \ {0}
    BY <1>9, <2>1, Owner, Gives DEF UnlockTo
  <2>3. mutex[to[t]].depth \in Nat \ {0} => Unlocked(mutex[to[t]]) \in MutexType
    BY <2>1, UnlockedType DEF LockInv, SharedTypeOK
  <2>4. mutex' \in [Lists -> MutexType]
    BY <1>9, <2>1, <2>2, <2>3 DEF UnlockTo, LockInv, SharedTypeOK
  <2> QED BY <1>9, <2>4 DEF UnlockTo, Goto, locals, ghosts, LockInv, SharedTypeOK, Labels
<1>10. CASE UnlockFrom(t)
  <2>1. from[t] \in Lists
    BY DEF LockInv, SharedTypeOK
  <2>2. mutex[from[t]].depth \in Nat \ {0}
    BY <1>10, <2>1, Owner, Gives DEF UnlockFrom
  <2>3. mutex[from[t]].depth \in Nat \ {0} => Unlocked(mutex[from[t]]) \in MutexType
    BY <2>1, UnlockedType DEF LockInv, SharedTypeOK
  <2>4. mutex' \in [Lists -> MutexType]
    BY <1>10, <2>1, <2>2, <2>3 DEF UnlockFrom, LockInv, SharedTypeOK
  <2> QED BY <1>10, <2>4 DEF UnlockFrom, Goto, locals, ghosts, LockInv, SharedTypeOK, Labels
<1> QED BY <1>1, <1>2, <1>3, <1>4, <1>5, <1>6, <1>7, <1>8, <1>9, <1>10 DEF Advance

\* A step of t changes no other thread's variables.
LEMMA StepOthers ==
  ASSUME LockInv, NEW t \in Threads, AddTail(t) \/ AssignList(t) \/ Advance(t)
  PROVE  \A u \in Threads \ {t} : /\ pc'[u] = pc[u] /\ copying'[u] = copying[u]
                                  /\ LockCount'[u] = LockCount[u] /\ to'[u] = to[u]
                                  /\ from'[u] = from[u] /\ next'[u] = next[u]
                                  /\ snapshot'[u] = snapshot[u] /\ (expired => expired')
<1>1. CASE AddTail(t)
  BY <1>1 DEF AddTail, Call, Goto, locals, ghosts, SharedTypeOK, LockInv
<1>2. CASE AssignList(t)
  BY <1>2 DEF AssignList, Call, Goto, locals, ghosts, SharedTypeOK, LockInv
<1>3. CASE LockFrom(t)
  BY <1>3 DEF LockFrom, TryLock, Locked, Goto, locals, ghosts, SharedTypeOK, LockInv
<1>4. CASE LockTo(t)
  BY <1>4 DEF LockTo, TryLock, Locked, Goto, locals, ghosts, SharedTypeOK, LockInv
<1>5. CASE LockTimesOut(t)
  BY <1>5 DEF LockTimesOut, Goto, locals, ghosts, SharedTypeOK, LockInv
<1>6. CASE Append_(t)
  BY <1>6 DEF Append_, Goto, locals, ghosts, SharedTypeOK, LockInv
<1>7. CASE Forget(t)
  BY <1>7 DEF Forget, Goto, locals, ghosts, SharedTypeOK, LockInv
<1>8. CASE Copy(t)
  BY <1>8 DEF Copy, Goto, locals, ghosts, SharedTypeOK, LockInv
<1>9. CASE UnlockTo(t)
  BY <1>9 DEF UnlockTo, Unlocked, FreeMutex, Goto, locals, ghosts, SharedTypeOK, LockInv
<1>10. CASE UnlockFrom(t)
  BY <1>10 DEF UnlockFrom, Unlocked, FreeMutex, Goto, locals, ghosts, SharedTypeOK, LockInv
<1> QED BY <1>1, <1>2, <1>3, <1>4, <1>5, <1>6, <1>7, <1>8, <1>9, <1>10 DEF Advance

\* Every step leaves a thread where it may be.
LEMMA StepPlace ==
  ASSUME LockInv, NEW t \in Threads, AddTail(t) \/ AssignList(t) \/ Advance(t)
  PROVE  \A u \in Threads : PlaceOK(u)'
<1>1. CASE AddTail(t)
  <2>1. PlaceOK(t)'
    BY <1>1 DEF AddTail, Call, Goto, locals, ghosts, SharedTypeOK, LockInv, PlaceOK, Writing
  <2>2. \A u \in Threads \ {t} : PlaceOK(u)'
    BY StepOthers DEF LockInv, PlaceOK, Writing
  <2> QED BY <2>1, <2>2
<1>2. CASE AssignList(t)
  <2>1. PlaceOK(t)'
    BY <1>2 DEF AssignList, Call, Goto, locals, ghosts, SharedTypeOK, LockInv, PlaceOK, Writing
  <2>2. \A u \in Threads \ {t} : PlaceOK(u)'
    BY StepOthers DEF LockInv, PlaceOK, Writing
  <2> QED BY <2>1, <2>2
<1>3. CASE LockFrom(t)
  <2>1. PlaceOK(t)'
    BY <1>3 DEF LockFrom, TryLock, Locked, Goto, locals, ghosts, SharedTypeOK, LockInv, PlaceOK,
       Writing
  <2>2. \A u \in Threads \ {t} : PlaceOK(u)'
    BY StepOthers DEF LockInv, PlaceOK, Writing
  <2> QED BY <2>1, <2>2
<1>4. CASE LockTo(t)
  <2>1. PlaceOK(t)'
    BY <1>4 DEF LockTo, TryLock, Locked, Goto, locals, ghosts, SharedTypeOK, LockInv, PlaceOK,
       Writing
  <2>2. \A u \in Threads \ {t} : PlaceOK(u)'
    BY StepOthers DEF LockInv, PlaceOK, Writing
  <2> QED BY <2>1, <2>2
<1>5. CASE LockTimesOut(t)
  <2>1. PlaceOK(t)'
    BY <1>5 DEF LockTimesOut, Goto, locals, ghosts, SharedTypeOK, LockInv, PlaceOK, Writing
  <2>2. \A u \in Threads \ {t} : PlaceOK(u)'
    BY StepOthers DEF LockInv, PlaceOK, Writing
  <2> QED BY <2>1, <2>2
<1>6. CASE Append_(t)
  <2>1. PlaceOK(t)'
    BY <1>6 DEF Append_, Goto, locals, ghosts, SharedTypeOK, LockInv, PlaceOK, Writing
  <2>2. \A u \in Threads \ {t} : PlaceOK(u)'
    BY StepOthers DEF LockInv, PlaceOK, Writing
  <2> QED BY <2>1, <2>2
<1>7. CASE Forget(t)
  <2>1. PlaceOK(t)'
    BY <1>7 DEF Forget, Goto, locals, ghosts, SharedTypeOK, LockInv, PlaceOK, Writing
  <2>2. \A u \in Threads \ {t} : PlaceOK(u)'
    BY StepOthers DEF LockInv, PlaceOK, Writing
  <2> QED BY <2>1, <2>2
<1>8. CASE Copy(t)
  <2>1. PlaceOK(t)'
    BY <1>8 DEF Copy, Goto, locals, ghosts, SharedTypeOK, LockInv, PlaceOK, Writing
  <2>2. \A u \in Threads \ {t} : PlaceOK(u)'
    BY StepOthers DEF LockInv, PlaceOK, Writing
  <2> QED BY <2>1, <2>2
<1>9. CASE UnlockTo(t)
  <2>1. PlaceOK(t)'
    BY <1>9 DEF UnlockTo, Unlocked, FreeMutex, Goto, locals, ghosts, SharedTypeOK, LockInv,
       PlaceOK, Writing
  <2>2. \A u \in Threads \ {t} : PlaceOK(u)'
    BY StepOthers DEF LockInv, PlaceOK, Writing
  <2> QED BY <2>1, <2>2
<1>10. CASE UnlockFrom(t)
  <2>1. PlaceOK(t)'
    BY <1>10 DEF UnlockFrom, Unlocked, FreeMutex, Goto, locals, ghosts, SharedTypeOK, LockInv,
       PlaceOK, Writing
  <2>2. \A u \in Threads \ {t} : PlaceOK(u)'
    BY StepOthers DEF LockInv, PlaceOK, Writing
  <2> QED BY <2>1, <2>2
<1> QED BY <1>1, <1>2, <1>3, <1>4, <1>5, <1>6, <1>7, <1>8, <1>9, <1>10 DEF Advance

\* What a thread does to the mutexes is what it does to its own count of them.
LEMMA SameMutex ==
  ASSUME LockInv, UNCHANGED mutex, \A u \in Threads, l \in Lists : Held(u, l)' = Held(u, l)
  PROVE  \A l \in Lists : MutexOK(l)'
BY DEF LockInv, MutexOK

\* A lock counted by the thread that takes it.
LEMMA TakenMutex ==
  ASSUME LockInv, NEW t \in Threads, NEW k \in Lists,
         TryLock(mutex[k], t), mutex' = [mutex EXCEPT ![k] = Locked(@, t)],
         \A u \in Threads \ {t}, l \in Lists : Held(u, l)' = Held(u, l),
         \A l \in Lists : Held(t, l)' = IF l = k THEN Held(t, l) + 1 ELSE Held(t, l)
  PROVE  \A l \in Lists : MutexOK(l)'
<1> SUFFICES ASSUME NEW l \in Lists PROVE MutexOK(l)'
  OBVIOUS
<1>1. CASE l # k
  <2>1. mutex'[l] = mutex[l]
    BY <1>1 DEF LockInv, SharedTypeOK
  <2>2. \A u \in Threads : Held(u, l)' = Held(u, l)
    BY <1>1
  <2> QED BY <2>1, <2>2 DEF LockInv, MutexOK
<1>2. CASE l = k
  <2>1. /\ mutex[k].depth \in Nat /\ mutex[k].owner \in {t, NoThread}
        /\ mutex'[k].owner = t /\ mutex'[k].depth = mutex[k].depth + 1
    BY DEF TryLock, Locked, LockInv, SharedTypeOK, MutexType
  <2>2. Held(t, k) = mutex[k].depth /\ \A u \in Threads \ {t} : Held(u, k) = 0
    BY <2>1, NoThreadAssumption DEF LockInv, MutexOK
  <2> QED BY <1>2, <2>1, <2>2, NoThreadAssumption DEF MutexOK
<1> QED BY <1>1, <1>2

\* A lock counted by the thread that gives it back.
LEMMA GivenMutex ==
  ASSUME LockInv, NEW t \in Threads, NEW k \in Lists,
         Held(t, k) # 0, mutex' = [mutex EXCEPT ![k] = Unlocked(@)],
         \A u \in Threads \ {t}, l \in Lists : Held(u, l)' = Held(u, l),
         \A l \in Lists : Held(t, l)' = IF l = k THEN Held(t, l) - 1 ELSE Held(t, l)
  PROVE  \A l \in Lists : MutexOK(l)'
<1> SUFFICES ASSUME NEW l \in Lists PROVE MutexOK(l)'
  OBVIOUS
<1>1. CASE l # k
  <2>1. mutex'[l] = mutex[l]
    BY <1>1 DEF LockInv, SharedTypeOK
  <2>2. \A u \in Threads : Held(u, l)' = Held(u, l)
    BY <1>1
  <2> QED BY <2>1, <2>2 DEF LockInv, MutexOK
<1>2. CASE l = k
  <2>1. mutex[k].depth \in Nat \ {0} /\ mutex[k].owner = t
    BY Owner
  <2>2. Held(t, k) = mutex[k].depth /\ \A u \in Threads \ {t} : Held(u, k) = 0
    BY <2>1 DEF LockInv, MutexOK
  <2>3. IF mutex[k].depth = 1
        THEN mutex'[k].owner = NoThread /\ mutex'[k].depth = 0
        ELSE mutex'[k].owner = t /\ mutex'[k].depth = mutex[k].depth - 1
    BY <2>1 DEF Unlocked, FreeMutex, LockInv, SharedTypeOK, MutexType
  <2> QED BY <1>2, <2>1, <2>2, <2>3, NoThreadAssumption DEF MutexOK
<1> QED BY <1>1, <1>2

\* Every step keeps the depth of every mutex its owner's count of it.
LEMMA StepMutex ==
  ASSUME LockInv, NEW t \in Threads, AddTail(t) \/ AssignList(t) \/ Advance(t)
  PROVE  \A l \in Lists : MutexOK(l)'
<1>1. CASE AddTail(t)
  <2>1. \A u \in Threads \ {t}, l \in Lists : Held(u, l)' = Held(u, l)
    BY StepOthers DEF Held, Reading
  <2>2. \A l \in Lists : Held(t, l)' = Held(t, l)
    BY <1>1 DEF AddTail, Call, Goto, locals, ghosts, LockInv, SharedTypeOK, PlaceOK, Held, Reading
  <2> QED BY <1>1, <2>1, <2>2, SameMutex DEF AddTail, Call
<1>2. CASE AssignList(t)
  <2>1. \A u \in Threads \ {t}, l \in Lists : Held(u, l)' = Held(u, l)
    BY StepOthers DEF Held, Reading
  <2>2. \A l \in Lists : Held(t, l)' = Held(t, l)
    BY <1>2 DEF AssignList, Call, Goto, locals, ghosts, LockInv, SharedTypeOK, PlaceOK, Held, Reading
  <2> QED BY <1>2, <2>1, <2>2, SameMutex DEF AssignList, Call
<1>3. CASE LockFrom(t)
  <2>1. \A u \in Threads \ {t}, l \in Lists : Held(u, l)' = Held(u, l)
    BY StepOthers DEF Held, Reading
  <2>2. \A l \in Lists : Held(t, l)' = IF l = from[t] THEN Held(t, l) + 1 ELSE Held(t, l)
    BY <1>3 DEF LockFrom, Goto, locals, ghosts, LockInv, SharedTypeOK, PlaceOK, Held, Reading
  <2>3. from[t] \in Lists
    BY DEF LockInv, SharedTypeOK
  <2> QED BY <1>3, <2>1, <2>2, <2>3, TakenMutex DEF LockFrom
<1>4. CASE LockTo(t)
  <2>1. \A u \in Threads \ {t}, l \in Lists : Held(u, l)' = Held(u, l)
    BY StepOthers DEF Held, Reading
  <2>2. \A l \in Lists : Held(t, l)' = IF l = to[t] THEN Held(t, l) + 1 ELSE Held(t, l)
    BY <1>4 DEF LockTo, Goto, locals, ghosts, LockInv, SharedTypeOK, PlaceOK, Held, Reading
  <2>3. to[t] \in Lists
    BY DEF LockInv, SharedTypeOK
  <2> QED BY <1>4, <2>1, <2>2, <2>3, TakenMutex DEF LockTo
<1>5. CASE LockTimesOut(t)
  <2>1. \A u \in Threads \ {t}, l \in Lists : Held(u, l)' = Held(u, l)
    BY StepOthers DEF Held, Reading
  <2>2. \A l \in Lists : Held(t, l)' = Held(t, l)
    BY <1>5 DEF LockTimesOut, Goto, locals, ghosts, LockInv, SharedTypeOK, PlaceOK, Held, Reading
  <2> QED BY <1>5, <2>1, <2>2, SameMutex DEF LockTimesOut
<1>6. CASE Append_(t)
  <2>1. \A u \in Threads \ {t}, l \in Lists : Held(u, l)' = Held(u, l)
    BY StepOthers DEF Held, Reading
  <2>2. \A l \in Lists : Held(t, l)' = Held(t, l)
    BY <1>6 DEF Append_, Goto, locals, ghosts, LockInv, SharedTypeOK, PlaceOK, Held, Reading
  <2> QED BY <1>6, <2>1, <2>2, SameMutex DEF Append_
<1>7. CASE Forget(t)
  <2>1. \A u \in Threads \ {t}, l \in Lists : Held(u, l)' = Held(u, l)
    BY StepOthers DEF Held, Reading
  <2>2. \A l \in Lists : Held(t, l)' = Held(t, l)
    BY <1>7 DEF Forget, Goto, locals, ghosts, LockInv, SharedTypeOK, PlaceOK, Held, Reading
  <2> QED BY <1>7, <2>1, <2>2, SameMutex DEF Forget
<1>8. CASE Copy(t)
  <2>1. \A u \in Threads \ {t}, l \in Lists : Held(u, l)' = Held(u, l)
    BY StepOthers DEF Held, Reading
  <2>2. \A l \in Lists : Held(t, l)' = Held(t, l)
    BY <1>8 DEF Copy, Goto, locals, ghosts, LockInv, SharedTypeOK, PlaceOK, Held, Reading
  <2> QED BY <1>8, <2>1, <2>2, SameMutex DEF Copy
<1>9. CASE UnlockTo(t)
  <2>1. \A u \in Threads \ {t}, l \in Lists : Held(u, l)' = Held(u, l)
    BY StepOthers DEF Held, Reading
  <2>2. to[t] \in Lists /\ LockCount[t] \in 0..1
    BY DEF LockInv, SharedTypeOK
  <2>3. CASE LockCount[t] = 0
    <3>1. \A l \in Lists : Held(t, l)' = Held(t, l)
      BY <1>9, <2>3 DEF UnlockTo, Goto, locals, LockInv, SharedTypeOK, PlaceOK, Held, Reading
    <3> QED BY <1>9, <2>1, <2>3, <3>1, SameMutex DEF UnlockTo
  <2>4. CASE LockCount[t] = 1
    <3>1. \A l \in Lists : Held(t, l)' = IF l = to[t] THEN Held(t, l) - 1 ELSE Held(t, l)
      BY <1>9, <2>4 DEF UnlockTo, Goto, locals, LockInv, SharedTypeOK, PlaceOK, Held, Reading
    <3>2. Held(t, to[t]) # 0
      BY <2>4, Gives
    <3>3. mutex' = [mutex EXCEPT ![to[t]] = Unlocked(@)]
      BY <1>9, <2>4 DEF UnlockTo
    <3> QED BY <2>1, <2>2, <3>1, <3>2, <3>3, GivenMutex
  <2> QED BY <2>2, <2>3, <2>4
<1>10. CASE UnlockFrom(t)
  <2>1. \A u \in Threads \ {t}, l \in Lists : Held(u, l)' = Held(u, l)
    BY StepOthers DEF Held, Reading
  <2>2. from[t] \in Lists /\ Held(t, from[t]) # 0
    BY <1>10, Gives DEF UnlockFrom, LockInv, SharedTypeOK
  <2>3. \A l \in Lists : Held(t, l)' = IF l = from[t] THEN Held(t, l) - 1 ELSE Held(t, l)
    BY <1>10 DEF UnlockFrom, Goto, locals, ghosts, LockInv, SharedTypeOK, PlaceOK, Held, Reading
  <2> QED BY <1>10, <2>1, <2>2, <2>3, GivenMutex DEF UnlockFrom
<1> QED BY <1>1, <1>2, <1>3, <1>4, <1>5, <1>6, <1>7, <1>8, <1>9, <1>10 DEF Advance

(* The recursive mutexes: the depth of each is what its owner counts of it,    *)
(* whatever the threads call and however their timed locks expire.             *)
THEOREM LockInvariance == SharedSpec => []LockInv
<1>1. LockInv /\ [SharedNext]_sharedVars => LockInv'
  <2> SUFFICES ASSUME LockInv, [SharedNext]_sharedVars PROVE LockInv'
    OBVIOUS
  <2>1. CASE SharedNext
    <3>1. PICK t \in Threads : AddTail(t) \/ AssignList(t) \/ Advance(t)
      BY <2>1 DEF SharedNext
    <3> QED BY <3>1, StepTypes, StepPlace, StepMutex DEF LockInv
  <2>2. CASE UNCHANGED sharedVars
    BY <2>2 DEF sharedVars, locals, ghosts, LockInv, SharedTypeOK, PlaceOK, MutexOK, Held, Reading,
       Writing
  <2> QED BY <2>1, <2>2
<1> QED BY <1>1, InitOK, PTL DEF SharedSpec

\* The owner of a mutex is one.
LEMMA LockInvExclusive == LockInv => AccessIsExclusive
<1> SUFFICES ASSUME LockInv, ~expired, NEW t \in Threads, NEW u \in Threads, t # u, Writing(t)
             PROVE  /\ Writing(u) => to[t] # to[u]
                    /\ Reading(u) => to[t] # from[u]
  BY DEF AccessIsExclusive, Exclusive
<1>1. to[t] \in Lists /\ to[u] \in Lists /\ from[u] \in Lists
  BY DEF LockInv, SharedTypeOK
<1>2. mutex[to[t]].owner = t
  BY <1>1, Gives, Owner DEF LockInv, PlaceOK
<1>3. Writing(u) => mutex[to[u]].owner = u
  BY <1>1, Gives, Owner DEF LockInv, PlaceOK
<1>4. Reading(u) => Held(u, from[u]) # 0
  <2>1. LockCount[u] \in 0..1
    BY DEF LockInv, SharedTypeOK
  <2> QED BY <1>1, <2>1 DEF Held
<1>5. Reading(u) => mutex[from[u]].owner = u
  BY <1>1, <1>4, Owner
<1> QED BY <1>2, <1>3, <1>5

(* As long as no timed lock has expired, no list that one thread writes is     *)
(* read or written by another (SmartLocker and operator=).                     *)
THEOREM AccessIsAlwaysExclusive == SharedSpec => []AccessIsExclusive
  BY LockInvariance, LockInvExclusive, PTL

(* Whatever expired on the way, every lock is given back: when no thread is    *)
(* inside a call every mutex is free (~SmartLocker).                           *)
THEOREM LocksAreAlwaysReturned == SharedSpec => []LocksAreReturned
<1>1. LockInv => LocksAreReturned
  <2> SUFFICES ASSUME LockInv, \A t \in Threads : pc[t] = "idle", NEW l \in Lists
               PROVE  mutex[l] = FreeMutex
    BY DEF LocksAreReturned
  <2>1. \A t \in Threads : Held(t, l) = 0
    BY DEF LockInv, PlaceOK, Held, Reading
  <2>2. mutex[l] \in MutexType /\ (mutex[l].owner = NoThread <=> mutex[l].depth = 0)
    BY DEF LockInv, SharedTypeOK, MutexOK
  <2>3. mutex[l].owner \in Threads => mutex[l].depth = 0
    BY <2>1 DEF LockInv, MutexOK
  <2>4. mutex[l].owner = NoThread /\ mutex[l].depth = 0
    BY <2>2, <2>3, NoThreadAssumption DEF MutexType
  <2> QED BY <2>2, <2>4 DEF MutexType, FreeMutex
<1> QED BY <1>1, LockInvariance, PTL

-------------------------------------------------------------------------------
\* How far a copy is: the list it reads is as it was, and what it has written is
\* the beginning of it.
CopyOK(t) ==
  copying[t] =>
    /\ to[t] # from[t]
    /\ pc[t] \in {"init", "copy", "unlockTo"} => contents[from[t]] = snapshot[t]
    /\ pc[t] = "copy" => /\ Len(contents[to[t]]) = next[t] - 1
                         /\ next[t] - 1 <= Len(snapshot[t])
                         /\ \A i \in 1 .. next[t] - 1 : contents[to[t]][i] = snapshot[t][i]
    /\ pc[t] = "unlockTo" => contents[to[t]] = snapshot[t]
CopyInv == expired \/ \A t \in Threads : CopyOK(t)

\* A step of t changes only the list t writes.
LEMMA OnlyWritten ==
  ASSUME LockInv, NEW t \in Threads, AddTail(t) \/ AssignList(t) \/ Advance(t), NEW l \in Lists,
         ~(Writing(t) /\ l = to[t])
  PROVE  contents'[l] = contents[l]
<1>1. CASE Append_(t)
  BY <1>1 DEF Append_, LockInv, SharedTypeOK, Writing
<1>2. CASE Forget(t)
  BY <1>2 DEF Forget, LockInv, SharedTypeOK, Writing
<1>3. CASE Copy(t)
  BY <1>3 DEF Copy, LockInv, SharedTypeOK, Writing
<1>4. CASE ~(Append_(t) \/ Forget(t) \/ Copy(t))
  BY <1>4 DEF AddTail, AssignList, Call, Advance, LockFrom, LockTo, LockTimesOut, UnlockTo,
     UnlockFrom
<1> QED BY <1>1, <1>2, <1>3, <1>4

\* A step of t leaves the copies of the others as they are.
LEMMA OtherCopies ==
  ASSUME LockInv, CopyInv, NEW t \in Threads, AddTail(t) \/ AssignList(t) \/ Advance(t), ~expired',
         NEW u \in Threads \ {t}
  PROVE  CopyOK(u)'
<1>1. ~expired /\ CopyOK(u)
  BY StepOthers DEF CopyInv
<1>2. to[u] \in Lists /\ from[u] \in Lists
  BY DEF LockInv, SharedTypeOK
<1>3. Writing(u) => contents'[to[u]] = contents[to[u]]
  BY <1>1, <1>2, OnlyWritten, LockInvExclusive DEF AccessIsExclusive, Exclusive
<1>4. Reading(u) => contents'[from[u]] = contents[from[u]]
  BY <1>1, <1>2, OnlyWritten, LockInvExclusive DEF AccessIsExclusive, Exclusive
<1>5. /\ pc'[u] = pc[u] /\ copying'[u] = copying[u] /\ to'[u] = to[u] /\ from'[u] = from[u]
      /\ next'[u] = next[u] /\ snapshot'[u] = snapshot[u]
  BY StepOthers
<1> QED BY <1>1, <1>3, <1>4, <1>5 DEF CopyOK, Writing, Reading

\* One element more.
LEMMA OwnCopy ==
  ASSUME LockInv, CopyInv, NEW t \in Threads, Copy(t), ~expired
  PROVE  CopyOK(t)'
<1>1. /\ to[t] \in Lists /\ from[t] \in Lists /\ next[t] \in Nat \ {0} /\ pc[t] = "copy"
      /\ snapshot[t] \in Seq(Elements) /\ contents[to[t]] \in Seq(Elements) /\ copying[t]
  BY DEF Copy, LockInv, SharedTypeOK, PlaceOK
<1>2. /\ to[t] # from[t] /\ contents[from[t]] = snapshot[t]
      /\ Len(contents[to[t]]) = next[t] - 1 /\ next[t] - 1 <= Len(snapshot[t])
      /\ \A i \in 1 .. next[t] - 1 : contents[to[t]][i] = snapshot[t][i]
  BY <1>1 DEF CopyInv, CopyOK
<1>3. UNCHANGED <<locals, ghosts>>
  BY DEF Copy
<1>4. CASE next[t] <= Len(contents[from[t]])
  <2>1. /\ contents'[to[t]] = Append(contents[to[t]], snapshot[t][next[t]])
        /\ contents'[from[t]] = snapshot[t] /\ next'[t] = next[t] + 1 /\ pc'[t] = "copy"
    BY <1>1, <1>2, <1>4 DEF Copy, LockInv, SharedTypeOK
  <2>2. snapshot[t][next[t]] \in Elements
    BY <1>1, <1>2, <1>4
  <2>3. /\ Len(contents'[to[t]]) = next[t]
        /\ \A i \in 1 .. next[t] : contents'[to[t]][i] = snapshot[t][i]
    <3>1. Len(contents'[to[t]]) = next[t]
      BY <1>1, <1>2, <2>1, <2>2
    <3>2. SUFFICES ASSUME NEW i \in 1 .. next[t] PROVE contents'[to[t]][i] = snapshot[t][i]
      BY <3>1
    <3>3. CASE i = next[t]
      BY <1>1, <1>2, <2>1, <2>2, <3>3
    <3>4. CASE i # next[t]
      <4>1. i \in 1 .. next[t] - 1 /\ i \in 1 .. Len(contents[to[t]])
        BY <1>1, <1>2, <3>4
      <4> QED BY <1>1, <1>2, <2>1, <2>2, <4>1
    <3> QED BY <3>3, <3>4
  <2>4. snapshot'[t] = snapshot[t] /\ to' = to /\ from' = from /\ copying' = copying
    BY <1>3 DEF locals, ghosts
  <2>5. next'[t] - 1 = next[t] /\ next[t] <= Len(snapshot[t])
    BY <1>1, <1>2, <1>4, <2>1
  <2> QED BY <1>1, <1>2, <2>1, <2>3, <2>4, <2>5 DEF CopyOK
<1>5. CASE ~(next[t] <= Len(contents[from[t]]))
  <2>1. contents' = contents /\ pc'[t] = "unlockTo"
    BY <1>1, <1>5 DEF Copy, Goto, LockInv, SharedTypeOK
  <2>2. Len(contents[to[t]]) = Len(snapshot[t])
    BY <1>1, <1>2, <1>5
  <2>3. contents[to[t]] = snapshot[t]
    <3>1. \A i \in 1 .. Len(contents[to[t]]) : contents[to[t]][i] = snapshot[t][i]
      BY <1>2
    <3> QED BY <1>1, <2>2, <3>1, SeqEqual
  <2> QED BY <1>1, <1>2, <1>3, <2>1, <2>3 DEF CopyOK, locals, ghosts
<1> QED BY <1>4, <1>5

\* Every step keeps the copies exact when no list is assigned to itself.
LEMMA StepCopies ==
  ASSUME \A pair \in Assigns : pair[1] # pair[2],
         LockInv, CopyInv, NEW t \in Threads, AddTail(t) \/ AssignList(t) \/ Advance(t), ~expired'
  PROVE  CopyOK(t)'
<1>1. ~expired /\ CopyOK(t)
  <2>1. CASE LockTo(t)
    BY <2>1 DEF LockTo, CopyInv
  <2>2. CASE LockTimesOut(t)
    BY <2>2 DEF LockTimesOut
  <2>3. CASE AddTail(t) \/ AssignList(t)
    BY <2>3 DEF AddTail, AssignList, Call, ghosts, CopyInv
  <2>4. CASE ~(LockTo(t) \/ LockTimesOut(t) \/ AddTail(t) \/ AssignList(t))
    BY <2>4 DEF Advance, LockFrom, Append_, Forget, Copy, UnlockTo, UnlockFrom, ghosts, CopyInv
  <2> QED BY <2>1, <2>2, <2>3, <2>4
<1>2. to[t] \in Lists /\ from[t] \in Lists
  BY DEF LockInv, SharedTypeOK
<1>3. CASE AddTail(t)
  <2>1. ~copying'[t]
    BY <1>3 DEF AddTail, Call, LockInv, SharedTypeOK
  <2> QED BY <2>1 DEF CopyOK
<1>4. CASE AssignList(t)
  <2>1. pc'[t] = "lockFrom" /\ to'[t] # from'[t]
    BY <1>4 DEF AssignList, Call, Goto, LockInv, SharedTypeOK
  <2> QED BY <2>1 DEF CopyOK
<1>5. CASE LockFrom(t)
  BY <1>1, <1>5 DEF LockFrom, Goto, CopyOK, locals, LockInv, SharedTypeOK
<1>6. CASE LockTo(t)
  BY <1>1, <1>6 DEF LockTo, Goto, CopyOK, locals, LockInv, SharedTypeOK
<1>7. CASE LockTimesOut(t)
  BY <1>7 DEF LockTimesOut, CopyOK, locals
<1>8. CASE Append_(t)
  <2>1. ~copying'[t]
    BY <1>8 DEF Append_, LockInv, PlaceOK, locals
  <2> QED BY <2>1 DEF CopyOK
<1>9. CASE Forget(t)
  <2>1. /\ pc[t] = "init" /\ pc'[t] = "copy" /\ next'[t] = 1 /\ copying[t]
        /\ contents'[to[t]] = <<>> /\ (to[t] # from[t] => contents'[from[t]] = contents[from[t]])
    BY <1>2, <1>9 DEF Forget, Goto, LockInv, SharedTypeOK, PlaceOK
  <2>2. UNCHANGED <<locals, ghosts>> /\ snapshot[t] \in Seq(Elements)
    BY <1>9 DEF Forget, LockInv, SharedTypeOK
  <2>3. Len(snapshot[t]) \in Nat
    BY <2>2
  <2> QED BY <1>1, <2>1, <2>2, <2>3 DEF CopyOK, locals, ghosts
<1>10. CASE Copy(t)
  BY <1>1, <1>10, OwnCopy
<1>11. CASE UnlockTo(t)
  BY <1>1, <1>11 DEF UnlockTo, Goto, CopyOK, locals, ghosts, LockInv, SharedTypeOK
<1>12. CASE UnlockFrom(t)
  BY <1>1, <1>12 DEF UnlockFrom, Goto, CopyOK, locals, ghosts, LockInv, SharedTypeOK
<1> QED BY <1>3, <1>4, <1>5, <1>6, <1>7, <1>8, <1>9, <1>10, <1>11, <1>12 DEF Advance

(* operator= builds an exact copy of the list as it was when its lock was      *)
(* taken, whatever the other threads do, unless a timed lock expired or a list *)
(* is assigned to itself, which empties it.                                    *)
THEOREM CopyIsAlwaysExact ==
  ASSUME \A pair \in Assigns : pair[1] # pair[2]
  PROVE  SharedSpec => []CopyIsExact
<1>1. SharedInit => CopyInv
  BY DEF SharedInit, CopyInv, CopyOK
<1>2. LockInv /\ CopyInv /\ [SharedNext]_sharedVars => CopyInv'
  <2> SUFFICES ASSUME LockInv, CopyInv, [SharedNext]_sharedVars, ~expired' PROVE \A u \in Threads : CopyOK(u)'
    BY DEF CopyInv
  <2>1. CASE SharedNext
    <3>1. PICK t \in Threads : AddTail(t) \/ AssignList(t) \/ Advance(t)
      BY <2>1 DEF SharedNext
    <3>2. CopyOK(t)'
      BY <3>1, StepCopies
    <3>3. \A u \in Threads \ {t} : CopyOK(u)'
      BY <3>1, OtherCopies
    <3> QED BY <3>2, <3>3
  <2>2. CASE UNCHANGED sharedVars
    BY <2>2 DEF sharedVars, locals, ghosts, CopyInv, CopyOK
  <2> QED BY <2>1, <2>2
<1>3. CopyInv => CopyIsExact
  BY DEF CopyInv, CopyOK, CopyIsExact
<1> QED BY <1>1, <1>2, <1>3, LockInvariance, PTL DEF SharedSpec
===============================================================================
