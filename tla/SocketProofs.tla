------------------------------ MODULE SocketProofs ------------------------------
(* For any number of objects and of ends, a table of descriptors, buffers and     *)
(* messages of any size: every open descriptor has one owner but those of a failed *)
(* Accept, and every stream carries the bytes its sender was told it sent, with   *)
(* repeats only behind a Send that failed half way.                               *)
EXTENDS Socket, SequenceTheorems, WellFoundedInduction, TLAPS

Stages == {"unused", "new", "listening", "connected", "hung up"}
InUse == {"idle", "sending", "accepting"}
PCs == InUse \cup {"none", "clear", "delete"}

TypeOK ==
  /\ file \in [Descriptors -> Ends \cup {None}]
  /\ stage \in [Ends -> Stages]
  /\ peer \in [Ends -> Ends \cup {None}]
  /\ backlog \in [Ends -> SUBSET Ends]
  /\ inbox \in [Ends -> Seq(Nat)] /\ got \in [Ends -> Nat]
  /\ torn \in [Ends -> SUBSET (Nat \X Nat)]
  /\ descriptor \in [Objects -> Descriptors \cup {SOCKET_ERROR}]
  /\ pc \in [Objects -> PCs]
  /\ next \in [Objects -> Nat] /\ len \in [Objects -> Nat] /\ TotalLen \in [Objects -> Nat]
  /\ new_fd \in [Objects -> Descriptors \cup {SOCKET_ERROR}] /\ orphans \subseteq Descriptors

\* An object that has a socket: not one in the last step of Close.
Open(o) == pc[o] \in InUse /\ descriptor[o] # SOCKET_ERROR

\* A descriptor that the kernel gave and that no object has got: during and after Accept.
Loose(f) == f \in orphans \/ \E o \in Objects : pc[o] = "accepting" /\ new_fd[o] = f

\* A descriptor in the table is that of one object, which may use it, or of none yet.
Owned ==
  /\ \A o \in Objects : pc[o] \in {"sending", "accepting"} => descriptor[o] # SOCKET_ERROR
  /\ \A o \in Objects : Open(o) => file[descriptor[o]] # None
  /\ \A o, p \in Objects : Open(o) /\ Open(p) /\ descriptor[o] = descriptor[p] => o = p
  /\ \A f \in Descriptors : file[f] # None =>
       Loose(f) \/ \E o \in Objects : Open(o) /\ descriptor[o] = f

\* What accept gave is of one Accept, or of none any more.
Given ==
  /\ \A f \in Descriptors : Loose(f) =>
       file[f] # None /\ \A o \in Objects : Open(o) => descriptor[o] # f
  /\ \A o \in Objects : pc[o] = "accepting" => new_fd[o] \in Descriptors \ orphans
  /\ \A o, p \in Objects :
       pc[o] = "accepting" /\ pc[p] = "accepting" /\ new_fd[o] = new_fd[p] => o = p

\* An end in use is behind one descriptor or in one backlog.
Distinct == \A f, g \in Descriptors : file[f] = file[g] /\ file[f] # None => f = g
Live == \A f \in Descriptors : file[f] # None => stage[file[f]] # "unused"
Waiting(l, e) ==
  /\ stage[l] = "listening" /\ stage[e] \in {"connected", "hung up"}
  /\ \A f \in Descriptors : file[f] # e
  /\ \A m \in Ends : e \in backlog[m] => m = l
Placed == Distinct /\ Live /\ \A l \in Ends : \A e \in backlog[l] : Waiting(l, e)

\* Connected ends are in pairs; nothing was received on an end that never was connected.
Linked == \A e \in Ends : stage[e] = "connected" <=> peer[e] # None
Mutual == \A e \in Ends : peer[e] # None => peer[e] # e /\ peer[peer[e]] = e
Blank ==
  \A e \in Ends : stage[e] \notin {"connected", "hung up"} => inbox[e] = <<>> /\ got[e] = 0
Paired == Linked /\ Mutual /\ Blank

\* The order of a stream: a place and the next one, or a way back that T knows.
Goes(T, a, b) == a = b \/ (b < a /\ <<a, b>> \in T)
Chain(T, n, s) == \A i \in 1 .. Len(s) : Goes(T, IF i = 1 THEN n ELSE s[i - 1], s[i] - 1)
LastOf(n, s) == IF Len(s) = 0 THEN n ELSE s[Len(s)]
Exact == \A e \in Ends : Chain(torn[e], got[e], inbox[e])

\* Nothing comes from an end that no object has.
Mute(e) == \/ \E l \in Ends : e \in backlog[l]
           \/ \E f \in Descriptors : Loose(f) /\ file[f] = e
Silent ==
  \A e \in Ends : Mute(e) /\ peer[e] # None => inbox[peer[e]] = <<>> /\ got[peer[e]] = 0

\* What an object counts: nothing before it is connected, then what its peer was given.
Final(e) == LastOf(got[e], inbox[e])
Received(e) == <<Final(e), torn[e]>>
Told(e, n, l) == IF l = 0 THEN Goes(torn[e], Final(e), n) ELSE Final(e) = n + l
Counts(o) ==
  /\ pc[o] # "sending" => TotalLen[o] = 0
  /\ pc[o] = "sending" => Stream(o)
  /\ pc[o] = "accepting" => At(o, "listening")
  /\ pc[o] = "none" \/ (pc[o] \in InUse /\ (descriptor[o] = SOCKET_ERROR \/ At(o, "new")))
       => next[o] = 0
  /\ pc[o] \in {"idle", "sending"} /\ At(o, "connected")
       => Told(peer[EndOf(o)], next[o], TotalLen[o])

IInv ==
  /\ TypeOK /\ Owned /\ Given /\ Placed /\ Paired /\ Exact /\ Silent
  /\ \A o \in Objects : Counts(o)

-------------------------------------------------------------------------------
\* The lowest number of a set of numbers is in it: the kernel gives a free descriptor.
LEMMA MinIsMember == ASSUME NEW S \in SUBSET Nat, S # {} PROVE Min(S) \in S
<1> DEFINE R == OpToRel(<, Nat)
<1>1. \E x \in S : \A y \in S : <<y, x>> \notin R
  <2> HIDE DEF R
  <2>1. IsWellFoundedOn(R, Nat)
    BY NatLessThanWellFounded DEF R
  <2> QED BY <2>1, WFMin
<1>2. PICK x \in S : \A y \in S : <<y, x>> \notin R
  BY <1>1
<1>3. ASSUME NEW y \in S PROVE x <= y
  <2>1. <<y, x>> \notin {ss \in Nat \X Nat : ss[1] < ss[2]}
    BY <1>2 DEF OpToRel
  <2>2. ~(y < x)
    BY <2>1
  <2> QED BY <2>2
<1> QED BY <1>3 DEF Min

\* The number of bytes a pass of Send asks for.
LEMMA AskedIsInt == ASSUME TypeOK, NEW o \in Objects PROVE Asked(o) \in Int
<1>1. \A a, b \in Int : Min({a, b}) \in Int
  <2> TAKE a, b \in Int
  <2>1. \E x \in {a, b} : \A y \in {a, b} : x <= y
    OBVIOUS
  <2> QED BY <2>1 DEF Min
<1>2. len[o] - TotalLen[o] \in Int /\ BufferSize - 1 \in Int
  BY SocketAssumption DEF TypeOK
<1> QED BY <1>1, <1>2 DEF Asked

\* A free descriptor is found when there is one.
LEMMA FreeIsFree ==
  ASSUME FreeDescriptors # {}
  PROVE  Min(FreeDescriptors) \in Descriptors /\ file[Min(FreeDescriptors)] = None
<1>1. FreeDescriptors \in SUBSET Nat
  BY SocketAssumption DEF FreeDescriptors, Descriptors
<1> QED BY <1>1, MinIsMember DEF FreeDescriptors

\* Two objects that have a socket have different ones.
LEMMA EndsApart ==
  ASSUME TypeOK, Owned, Placed
  PROVE  /\ \A o \in Objects : Open(o) => /\ descriptor[o] \in Descriptors
                                          /\ EndOf(o) = file[descriptor[o]]
                                          /\ EndOf(o) \in Ends
         /\ \A o, p \in Objects : Open(o) /\ Open(p) /\ EndOf(o) = EndOf(p) => o = p
<1>1. \A o \in Objects : Open(o) => /\ descriptor[o] \in Descriptors
                                    /\ EndOf(o) = file[descriptor[o]]
                                    /\ EndOf(o) \in Ends
  BY DEF TypeOK, Owned, EndOf, Open
<1>2. ASSUME NEW o \in Objects, NEW p \in Objects, Open(o), Open(p), EndOf(o) = EndOf(p)
      PROVE  o = p
  <2>1. file[descriptor[o]] = file[descriptor[p]] /\ file[descriptor[o]] # None
    BY <1>1, <1>2, SocketAssumption
  <2>2. descriptor[o] = descriptor[p]
    BY <2>1, <1>1, <1>2 DEF Placed, Distinct
  <2> QED BY <2>2, <1>2 DEF Owned
<1> QED BY <1>1, <1>2

\* The program starts with no object and an empty table.
LEMMA InitOK == Init => IInv
<1> SUFFICES ASSUME Init PROVE IInv
  OBVIOUS
<1> USE SocketAssumption
<1>1. TypeOK
  BY DEF Init, TypeOK, Stages, PCs, InUse, Descriptors, SOCKET_ERROR
<1>2. Owned /\ Given
  BY DEF Init, Owned, Given, Loose, Open, InUse
<1>3. Placed
  BY DEF Init, Placed, Distinct, Live
<1>4. Paired /\ Silent
  BY DEF Init, Paired, Linked, Mutual, Blank, Silent
<1>5. Exact
  BY DEF Init, Exact, Chain
<1>6. \A o \in Objects : Counts(o)
  BY DEF Init, Counts, InUse, At, EndOf
<1> QED BY <1>1, <1>2, <1>3, <1>4, <1>5, <1>6 DEF IInv

-------------------------------------------------------------------------------
\* A step of another leaves what p counts true when it leaves p its end and its stream.
LEMMA OthersCount ==
  ASSUME IInv, NEW p \in Objects,
         pc'[p] = pc[p], descriptor'[p] = descriptor[p],
         next'[p] = next[p], TotalLen'[p] = TotalLen[p],
         Open(p) => /\ EndOf(p)' = EndOf(p)
                    /\ \/ stage'[EndOf(p)] = stage[EndOf(p)]
                       \/ stage[EndOf(p)] = "connected" /\ stage'[EndOf(p)] = "hung up"
                    /\ stage'[EndOf(p)] = "connected" =>
                         /\ peer'[EndOf(p)] = peer[EndOf(p)]
                         /\ Received(peer[EndOf(p)])' = Received(peer[EndOf(p)])
  PROVE  Counts(p)'
<1> DEFINE e == EndOf(p)
<1>1. TypeOK /\ Owned /\ Counts(p)
  BY DEF IInv
<1>2. CASE ~Open(p)
  <2>1. pc[p] \notin {"sending", "accepting"}
    BY <1>1, <1>2 DEF Owned, Open, InUse
  <2>2. pc[p] = "idle" => descriptor[p] = SOCKET_ERROR
    BY <1>2 DEF Open, InUse
  <2>3. pc[p] = "idle" => EndOf(p) = None /\ EndOf(p)' = None
    BY <2>2 DEF EndOf
  <2> QED BY <1>1, <2>1, <2>2, <2>3 DEF Counts, At, InUse
<1>3. CASE Open(p)
  <2>1. EndOf(p) \in Ends
    BY <1>1, <1>3, EndsApart DEF IInv
  <2>2. EndOf(p)' = e /\ e # None
    BY <2>1, <1>3, SocketAssumption
  <2>3. (At(p, "new")' => At(p, "new")) /\ (At(p, "listening") => At(p, "listening")')
    BY <2>2, <1>3 DEF At
  <2>4. Stream(p) => Stream(p)'
    BY <2>2, <1>3 DEF At, Stream
  <2>5. At(p, "connected")' => /\ At(p, "connected")
                               /\ Received(peer[EndOf(p)])' = Received(peer[EndOf(p)])
    BY <2>2, <1>3 DEF At, Received
  <2>8. ASSUME At(p, "connected")', Told(peer[EndOf(p)], next[p], TotalLen[p])
        PROVE  Told(peer[EndOf(p)], next[p], TotalLen[p])'
    <3>1. /\ Final(peer[EndOf(p)])' = Final(peer[EndOf(p)])
          /\ torn'[peer'[EndOf(p)']] = torn[peer[EndOf(p)]]
      BY <2>5, <2>8 DEF Received
    <3> QED BY <3>1, <2>8 DEF Told
  <2>6. pc[p] # "none"
    BY <1>3 DEF Open, InUse
  <2> HIDE DEF e
  <2>7. /\ pc[p] # "sending" => TotalLen[p] = 0
        /\ pc[p] = "sending" => Stream(p)
        /\ pc[p] = "accepting" => At(p, "listening")
        /\ descriptor[p] = SOCKET_ERROR \/ At(p, "new") => next[p] = 0
        /\ pc[p] \in {"idle", "sending"} /\ At(p, "connected")
             => Told(peer[EndOf(p)], next[p], TotalLen[p])
    BY <1>1, <1>3 DEF Counts, Open
  <2> QED BY <2>3, <2>4, <2>5, <2>6, <2>7, <2>8 DEF Counts
<1> QED BY <1>2, <1>3

\* What no object has stays so as long as no Accept goes on and no descriptor is given.
LEMMA GivenKept ==
  ASSUME Given, UNCHANGED accept,
         \A p \in Objects : pc'[p] = "accepting" <=> pc[p] = "accepting",
         \A f \in Descriptors : Loose(f) =>
           file'[f] # None /\ \A p \in Objects : Open(p)' => descriptor'[p] # f
  PROVE  Given' /\ \A f : Loose(f)' <=> Loose(f)
<1>1. new_fd' = new_fd /\ orphans' = orphans
  BY DEF accept
<1>2. \A f : Loose(f)' <=> Loose(f)
  BY <1>1 DEF Loose
<1>3. Given'
  BY <1>1, <1>2 DEF Given
<1> QED BY <1>2, <1>3

\* An end stays silent while its peer is left alone.
LEMMA SilentKept ==
  ASSUME Silent, UNCHANGED <<peer, inbox, got>>, \A e \in Ends : Mute(e)' => Mute(e)
  PROVE  Silent'
BY DEF Silent

\* An end that no object has is not that of an object.
LEMMA MuteApart ==
  ASSUME TypeOK, Owned, Given, Placed, NEW o \in Objects, Open(o)
  PROVE  ~Mute(EndOf(o))
<1>1. descriptor[o] \in Descriptors /\ EndOf(o) = file[descriptor[o]] /\ EndOf(o) \in Ends
  BY EndsApart
<1>2. ASSUME NEW l \in Ends, EndOf(o) \in backlog[l] PROVE FALSE
  <2>1. \A f \in Descriptors : file[f] # EndOf(o)
    BY <1>2 DEF Placed, Waiting
  <2> QED BY <2>1, <1>1
<1>3. ASSUME NEW f \in Descriptors, Loose(f), file[f] = EndOf(o) PROVE FALSE
  <2>1. f = descriptor[o]
    BY <1>1, <1>3, SocketAssumption DEF Placed, Distinct
  <2> QED BY <2>1, <1>3 DEF Given
<1> QED BY <1>2, <1>3 DEF Mute

\* What is said of the kernel holds as long as it does nothing.
LEMMA KernelKept ==
  ASSUME Placed, Paired, Exact, Silent, UNCHANGED kernel, \A f : Loose(f)' => Loose(f)
  PROVE  Placed' /\ Paired' /\ Exact' /\ Silent'
<1>1. /\ file' = file /\ stage' = stage /\ peer' = peer /\ backlog' = backlog
      /\ inbox' = inbox /\ got' = got /\ torn' = torn
  BY DEF kernel
<1>2. Placed'
  BY <1>1 DEF Placed, Distinct, Live, Waiting
<1>3. Paired'
  BY <1>1 DEF Paired, Linked, Mutual, Blank
<1>4. Exact'
  BY <1>1 DEF Exact
<1>5. Silent'
  <2>1. \A e \in Ends : Mute(e)' => Mute(e)
    BY <1>1 DEF Mute
  <2> QED BY <2>1, <1>1, SilentKept
<1> QED BY <1>2, <1>3, <1>4, <1>5

\* A step of o that the kernel does not see.
LEMMA QuietStep ==
  ASSUME IInv, TypeOK', NEW o \in Objects, UNCHANGED <<kernel, accept>>,
         \A p \in Objects \ {o} : /\ pc'[p] = pc[p] /\ descriptor'[p] = descriptor[p]
                                  /\ next'[p] = next[p] /\ TotalLen'[p] = TotalLen[p],
         Open(o)' <=> Open(o), Open(o) => descriptor'[o] = descriptor[o],
         pc[o] # "accepting", pc'[o] # "accepting",
         pc'[o] = "sending" => Open(o), Counts(o)'
  PROVE  IInv'
<1>1. \A p \in Objects : /\ Open(p)' <=> Open(p)
                         /\ Open(p) => descriptor'[p] = descriptor[p]
                         /\ pc'[p] = "accepting" <=> pc[p] = "accepting"
  BY DEF Open
<1>2. file' = file /\ UNCHANGED accept /\ UNCHANGED kernel
  BY DEF kernel
<1>3. Given' /\ \A f : Loose(f)' <=> Loose(f)
  <2>1. \A f \in Descriptors : Loose(f) =>
          file'[f] # None /\ \A p \in Objects : Open(p)' => descriptor'[p] # f
    BY <1>1, <1>2 DEF IInv, Given
  <2> QED BY <2>1, <1>1, <1>2, GivenKept DEF IInv
<1>4. Owned'
  <2>1. \A p \in Objects : pc'[p] \in {"sending", "accepting"} => descriptor'[p] # SOCKET_ERROR
    BY DEF IInv, Owned, Open
  <2> QED BY <2>1, <1>1, <1>2, <1>3 DEF IInv, Owned
<1>5. Placed' /\ Paired' /\ Exact' /\ Silent'
  BY <1>2, <1>3, KernelKept DEF IInv
<1>6. ASSUME NEW p \in Objects \ {o} PROVE Counts(p)'
  <2>1. EndOf(p)' = EndOf(p)
    BY DEF EndOf, kernel
  <2>2. \A e : Received(e)' = Received(e)
    BY DEF Received, Final, kernel
  <2> QED BY <2>1, <2>2, OthersCount DEF kernel
<1> QED BY <1>3, <1>4, <1>5, <1>6 DEF IInv

\* The thread gives its message to the loop of Send.
LEMMA SendLongOK ==
  ASSUME IInv, NEW o \in Objects, NEW n \in 1 .. MaxBytes - next[o], SendLong(o, n)
  PROVE  IInv'
<1>1. n \in Nat
  BY SocketAssumption DEF IInv, TypeOK
<1>2. TypeOK'
  BY <1>1 DEF IInv, TypeOK, SendLong, kernel, accept, PCs, InUse
<1>3. Open(o) /\ Open(o)'
  BY DEF SendLong, Stream, At, EndOf, Open, InUse, IInv, TypeOK
<1>4. Counts(o)'
  <2>1. EndOf(o)' = EndOf(o) /\ \A s : At(o, s)' <=> At(o, s)
    BY DEF SendLong, kernel, EndOf, At
  <2>3. pc[o] = "idle" /\ pc'[o] = "sending" /\ TotalLen' = TotalLen /\ next' = next /\ peer' = peer
    BY DEF SendLong, kernel, IInv, TypeOK
  <2>6. At(o, "connected") => Told(peer[EndOf(o)], next[o], TotalLen[o])
    BY <2>3 DEF IInv, Counts
  <2>7. At(o, "connected")' => Told(peer[EndOf(o)], next[o], TotalLen[o])'
    <3>1. ASSUME At(o, "connected")'
          PROVE  Told(peer[EndOf(o)], next[o], TotalLen[o])'
      <4>1. Told(peer[EndOf(o)], next[o], TotalLen[o])
        BY <2>1, <2>6, <3>1
      <4> QED BY <4>1, <2>1, <2>3 DEF Told, Final, SendLong, kernel
    <3> QED BY <3>1
  <2>4. Stream(o)' /\ descriptor'[o] # SOCKET_ERROR
    BY <2>1, <1>3 DEF SendLong, Stream, Open
  <2>5. ~At(o, "new")
    BY DEF SendLong, Stream, At
  <2> QED BY <2>1, <2>3, <2>4, <2>5, <2>7 DEF Counts
<1>5. UNCHANGED <<kernel, accept>> /\ pc[o] = "idle" /\ pc'[o] = "sending"
  BY DEF SendLong, IInv, TypeOK
<1> QED BY <1>2, <1>3, <1>4, <1>5, QuietStep DEF SendLong, IInv, TypeOK

\* The assignment at the end of Close.
LEMMA ClearOK == ASSUME IInv, NEW o \in Objects, Clear(o) PROVE IInv'
<1>1. TypeOK'
  BY DEF IInv, TypeOK, Clear, kernel, accept, PCs, InUse
<1>2. ~Open(o) /\ ~Open(o)'
  BY DEF Clear, Open, InUse, IInv, TypeOK
<1>3. pc'[o] \in {"idle", "none"} /\ next'[o] = 0 /\ TotalLen'[o] = 0 /\ descriptor'[o] = SOCKET_ERROR
  BY DEF Clear, IInv, TypeOK, Counts
<1>4. Counts(o)'
  BY <1>3 DEF Counts, At, EndOf
<1>5. UNCHANGED <<kernel, accept>> /\ pc[o] # "accepting"
  BY DEF Clear
<1> QED BY <1>1, <1>2, <1>3, <1>4, <1>5, QuietStep DEF Clear, IInv, TypeOK

\* The destructor of a closed object.
LEMMA DeleteClosedOK == ASSUME IInv, NEW o \in Objects, DeleteClosed(o) PROVE IInv'
<1>1. TypeOK'
  BY DEF IInv, TypeOK, DeleteClosed, kernel, thread, accept, PCs, InUse
<1>2. ~Open(o) /\ ~Open(o)'
  BY DEF DeleteClosed, Open, InUse, IInv, TypeOK
<1>3. pc'[o] = "none" /\ next'[o] = 0 /\ TotalLen'[o] = 0
  BY DEF DeleteClosed, thread, IInv, TypeOK, Counts, InUse
<1>4. Counts(o)'
  BY <1>3 DEF Counts, InUse
<1>5. UNCHANGED <<kernel, accept>> /\ pc[o] # "accepting"
  BY DEF DeleteClosed, thread
<1> QED BY <1>1, <1>2, <1>3, <1>4, <1>5, QuietStep DEF DeleteClosed, thread, IInv, TypeOK

-------------------------------------------------------------------------------
\* A new descriptor f of o, for an end e that no other descriptor stands for.
LEMMA OwnedGrows ==
  ASSUME TypeOK, Owned, Given, NEW o \in Objects, NEW f \in Descriptors, NEW e \in Ends,
         file[f] = None, pc[o] = "none", UNCHANGED accept,
         file' = [file EXCEPT ![f] = e],
         descriptor' = [descriptor EXCEPT ![o] = f],
         pc' = [pc EXCEPT ![o] = "idle"]
  PROVE  Owned' /\ Given' /\ (\A g : Loose(g)' <=> Loose(g)) /\ ~Loose(f)
<1>1. Open(o)' /\ descriptor'[o] = f /\ pc'[o] = "idle" /\ ~Open(o)
  BY SocketAssumption DEF TypeOK, Open, InUse, Descriptors, SOCKET_ERROR
<1>2. \A p \in Objects \ {o} : /\ pc'[p] = pc[p] /\ descriptor'[p] = descriptor[p]
                               /\ Open(p)' <=> Open(p)
  BY DEF TypeOK, Open
<1>3. file'[f] = e /\ e # None /\ \A g \in Descriptors \ {f} : file'[g] = file[g]
  BY SocketAssumption DEF TypeOK
<1>4. \A p \in Objects \ {o} : Open(p) => descriptor[p] \in Descriptors \ {f}
  BY DEF TypeOK, Owned, Open
<1>5. \A p \in Objects : pc'[p] \in {"sending", "accepting"} => descriptor'[p] # SOCKET_ERROR
  BY <1>1, <1>2 DEF Owned
<1>9. ~Loose(f)
  BY DEF Given
<1>10. Given' /\ \A g : Loose(g)' <=> Loose(g)
  <2>1. \A p \in Objects : pc'[p] = "accepting" <=> pc[p] = "accepting"
    BY <1>1, <1>2
  <2>2. \A g \in Descriptors : Loose(g) =>
          file'[g] # None /\ \A p \in Objects : Open(p)' => descriptor'[p] # g
    BY <1>1, <1>2, <1>3, <1>9 DEF Given
  <2> QED BY <2>1, <2>2, GivenKept
<1>6. \A p \in Objects : Open(p)' => file'[descriptor'[p]] # None
  BY <1>1, <1>2, <1>3, <1>4 DEF Owned
<1>7. \A p, q \in Objects : Open(p)' /\ Open(q)' /\ descriptor'[p] = descriptor'[q] => p = q
  BY <1>1, <1>2, <1>4 DEF Owned
<1>8. \A g \in Descriptors : file'[g] # None =>
        Loose(g)' \/ \E p \in Objects : Open(p)' /\ descriptor'[p] = g
  <2> TAKE g \in Descriptors
  <2>1. CASE g = f
    BY <1>1, <2>1
  <2>2. ASSUME g # f, file'[g] # None, ~Loose(g)
        PROVE  \E p \in Objects : Open(p)' /\ descriptor'[p] = g
    <3>1. PICK p \in Objects : Open(p) /\ descriptor[p] = g
      BY <1>3, <2>2 DEF Owned
    <3>2. p # o
      BY <3>1, <1>1
    <3> QED BY <1>2, <3>1, <3>2
  <2> QED BY <2>1, <2>2, <1>10
<1> QED BY <1>5, <1>6, <1>7, <1>8, <1>9, <1>10 DEF Owned

\* A descriptor is added for an end that had none.
LEMMA OthersKeepEnds ==
  ASSUME TypeOK, Owned, Placed, NEW f \in Descriptors, NEW e \in Ends, file[f] = None,
         file' = [file EXCEPT ![f] = e], NEW p \in Objects, Open(p),
         descriptor'[p] = descriptor[p]
  PROVE  EndOf(p)' = EndOf(p)
<1>1. descriptor[p] \in Descriptors \ {f} /\ descriptor[p] # SOCKET_ERROR
  BY DEF TypeOK, Owned, Open
<1> QED BY <1>1 DEF EndOf, TypeOK

\* A new socket.
LEMMA ConstructOK == ASSUME IInv, NEW o \in Objects, Construct(o) PROVE IInv'
<1> DEFINE f == Min(FreeDescriptors)
<1>1. f \in Descriptors /\ file[f] = None
  BY FreeIsFree DEF Construct
<1>2. PICK e \in Unused : stage' = [stage EXCEPT ![e] = "new"] /\ file' = [file EXCEPT ![f] = e]
  BY DEF Construct
<1> HIDE DEF f
<1>3. /\ descriptor' = [descriptor EXCEPT ![o] = f] /\ pc' = [pc EXCEPT ![o] = "idle"]
      /\ peer' = peer /\ backlog' = backlog /\ inbox' = inbox /\ got' = got
      /\ torn' = torn /\ pc[o] = "none"
      /\ next' = next /\ len' = len /\ TotalLen' = TotalLen
      /\ new_fd' = new_fd /\ orphans' = orphans
  BY DEF Construct, f, thread, accept
<1>4. e \in Ends /\ stage[e] = "unused"
  BY <1>2 DEF Unused
<1>5. TypeOK /\ Owned /\ Given /\ Placed /\ Paired /\ Exact /\ Silent
  BY DEF IInv
<1>6. UNCHANGED accept
  BY <1>3 DEF accept
<1>7. \A d \in Ends \ {e} : stage'[d] = stage[d]
  BY <1>2, <1>5 DEF TypeOK
<1>8. stage'[e] = "new"
  BY <1>2, <1>4, <1>5 DEF TypeOK
<1>9. TypeOK'
  BY <1>1, <1>2, <1>3, <1>4, <1>5 DEF TypeOK, Stages, PCs, InUse
<1>10. Owned' /\ Given' /\ (\A g : Loose(g)' <=> Loose(g)) /\ ~Loose(f)
  BY <1>1, <1>2, <1>3, <1>4, <1>5, <1>6, OwnedGrows
<1>11. Placed'
  <2>1. \A g \in Descriptors : file'[g] = IF g = f THEN e ELSE file[g]
    BY <1>1, <1>2, <1>5 DEF TypeOK
  <2>2. \A g \in Descriptors : file[g] # e
    BY <1>4, <1>5, SocketAssumption DEF Placed, Live
  <2>3. \A l \in Ends : e \notin backlog[l] /\ (backlog[l] # {} => l # e)
    BY <1>4, <1>5 DEF Placed, Waiting
  <2>4. \A g, h \in Descriptors : file'[g] = file'[h] /\ file'[g] # None => g = h
    BY <2>1, <2>2, <1>5 DEF Placed, Distinct
  <2>5. ASSUME NEW g \in Descriptors, file'[g] # None PROVE stage'[file'[g]] # "unused"
    <3>1. CASE g = f
      BY <3>1, <2>1, <1>8
    <3>2. CASE g # f
      <4>1. file'[g] = file[g] /\ file[g] \in Ends /\ file[g] # e
        BY <3>2, <2>1, <2>2, <2>5, <1>5 DEF TypeOK
      <4>2. stage[file[g]] # "unused"
        BY <4>1, <2>5, <1>5 DEF Placed, Live
      <4> QED BY <4>1, <4>2, <1>7
    <3> QED BY <3>1, <3>2
  <2>6. ASSUME NEW l \in Ends, NEW d \in backlog'[l] PROVE Waiting(l, d)'
    <3>1. d \in backlog[l] /\ d \in Ends /\ l # e /\ d # e
      BY <2>3, <2>6, <1>3, <1>5 DEF TypeOK
    <3>2. stage'[l] = stage[l] /\ stage'[d] = stage[d]
      BY <3>1, <1>7
    <3>3. \A g \in Descriptors : file'[g] # d
      BY <3>1, <2>1, <1>5 DEF Placed, Waiting
    <3> QED BY <3>1, <3>2, <3>3, <1>3, <1>5 DEF Placed, Waiting
  <2> QED BY <2>4, <2>5, <2>6 DEF Placed, Distinct, Live
<1>12. Paired'
  BY <1>3, <1>4, <1>5, <1>7, <1>8 DEF Paired, Linked, Mutual, Blank, TypeOK
<1>13. Exact' /\ Silent'
  <2>1. Exact'
    BY <1>3, <1>5 DEF Exact
  <2>2. \A g \in Descriptors : Loose(g)' => Loose(g) /\ file'[g] = file[g]
    BY <1>1, <1>2, <1>5, <1>10 DEF TypeOK
  <2>3. \A d \in Ends : Mute(d)' => Mute(d)
    BY <2>2, <1>3 DEF Mute
  <2> QED BY <2>1, <2>3, <1>3, <1>5, SilentKept
<1>14. Counts(o)'
  <2>1. EndOf(o)' = e /\ pc'[o] = "idle" /\ next'[o] = next[o] /\ TotalLen'[o] = TotalLen[o]
    BY <1>1, <1>2, <1>3, <1>4, <1>5, SocketAssumption DEF TypeOK, EndOf, Descriptors, SOCKET_ERROR
  <2>2. next[o] = 0 /\ TotalLen[o] = 0
    BY <1>3 DEF IInv, Counts
  <2> QED BY <2>1, <2>2, <1>8 DEF Counts, At
<1>15. ASSUME NEW p \in Objects \ {o} PROVE Counts(p)'
  <2>1. pc'[p] = pc[p] /\ descriptor'[p] = descriptor[p]
    BY <1>3, <1>5 DEF TypeOK
  <2>2. ASSUME Open(p) PROVE EndOf(p)' = EndOf(p) /\ stage'[EndOf(p)] = stage[EndOf(p)]
    <3>1. EndOf(p)' = EndOf(p)
      BY <2>1, <2>2, <1>1, <1>2, <1>4, <1>5, OthersKeepEnds
    <3>2. EndOf(p) \in Ends /\ stage[EndOf(p)] # "unused"
      <4>1. /\ EndOf(p) \in Ends /\ descriptor[p] \in Descriptors
            /\ EndOf(p) = file[descriptor[p]]
        BY <2>2, <1>5, EndsApart
      <4> QED BY <4>1, <1>5, SocketAssumption DEF Placed, Live
    <3> QED BY <3>1, <3>2, <1>4, <1>7
  <2>3. \A d : Received(d)' = Received(d)
    BY <1>3 DEF Received, Final
  <2> QED BY <2>1, <2>2, <2>3, <1>3, OthersCount
<1> QED BY <1>9, <1>10, <1>11, <1>12, <1>13, <1>14, <1>15 DEF IInv

\* Bind and Listen.
LEMMA ListenOK == ASSUME IInv, NEW o \in Objects, Listen(o) PROVE IInv'
<1> DEFINE e == EndOf(o)
<1>1. TypeOK /\ Owned /\ Given /\ Placed /\ Paired /\ Exact /\ Silent
  BY DEF IInv
<1>2. Open(o) /\ e \in Ends /\ stage[e] = "new" /\ pc[o] = "idle"
  BY <1>1 DEF Listen, At, EndOf, Open, InUse, TypeOK
<1>3. /\ stage' = [stage EXCEPT ![e] = "listening"]
      /\ file' = file /\ peer' = peer /\ backlog' = backlog /\ inbox' = inbox /\ got' = got
      /\ torn' = torn /\ descriptor' = descriptor /\ pc' = pc
      /\ next' = next /\ len' = len /\ TotalLen' = TotalLen
      /\ new_fd' = new_fd /\ orphans' = orphans
  BY DEF Listen, thread, accept
<1>4. \A p : EndOf(p)' = EndOf(p) /\ (Open(p)' <=> Open(p)) /\ Received(p)' = Received(p)
  BY <1>3 DEF EndOf, Open, Received, Final
<1> HIDE DEF e
<1>5. /\ stage'[e] = "listening"
      /\ \A d \in Ends \ {e} : stage'[d] = stage[d]
  BY <1>1, <1>2, <1>3 DEF TypeOK
<1>6. TypeOK'
  BY <1>1, <1>2, <1>3 DEF TypeOK, Stages
<1>7. Owned' /\ Given' /\ \A g : Loose(g)' <=> Loose(g)
  <2>1. \A g : Loose(g)' <=> Loose(g)
    BY <1>3 DEF Loose
  <2>2. Owned'
    BY <2>1, <1>1, <1>3, <1>4 DEF Owned
  <2>3. Given'
    BY <2>1, <1>1, <1>3, <1>4 DEF Given
  <2> QED BY <2>1, <2>2, <2>3
<1>8. Placed'
  <2>1. \A l \in Ends : e \notin backlog[l] /\ (backlog[l] # {} => l # e)
    BY <1>1, <1>2 DEF Placed, Waiting
  <2>2. Live'
    <3>1. \A d \in Ends : stage[d] # "unused" => stage'[d] # "unused"
      BY <1>5
    <3> QED BY <3>1, <1>1, <1>3 DEF Placed, Live, TypeOK
  <2>3. ASSUME NEW l \in Ends, NEW d \in backlog'[l] PROVE Waiting(l, d)'
    <3>1. d \in backlog[l] /\ d \in Ends /\ l # e /\ d # e /\ Waiting(l, d)
      BY <2>1, <2>3, <1>1, <1>3 DEF TypeOK, Placed
    <3>2. stage'[l] = stage[l] /\ stage'[d] = stage[d]
      BY <3>1, <1>5
    <3> QED BY <3>1, <3>2, <1>3 DEF Waiting
  <2>4. Distinct'
    BY <1>1, <1>3 DEF Placed, Distinct
  <2> QED BY <2>2, <2>3, <2>4 DEF Placed
<1>9. Paired'
  BY <1>1, <1>2, <1>3, <1>5 DEF Paired, Linked, Mutual, Blank
<1>10. Exact' /\ Silent'
  <2>1. Exact'
    BY <1>1, <1>3 DEF Exact
  <2>2. \A d \in Ends : Mute(d)' => Mute(d)
    BY <1>3, <1>7 DEF Mute
  <2> QED BY <2>1, <2>2, <1>1, <1>3, SilentKept
<1>11. Counts(o)'
  <2>1. EndOf(o)' = e /\ stage'[e] = "listening"
    BY <1>4, <1>5 DEF e
  <2> QED BY <1>2, <1>3, <2>1 DEF Counts, At, IInv, Open
<1>12. ASSUME NEW p \in Objects \ {o} PROVE Counts(p)'
  <2>1. Open(p) => EndOf(p) \in Ends \ {e}
    BY <1>1, <1>2, EndsApart DEF e
  <2> QED BY <2>1, <1>3, <1>4, <1>5, OthersCount
<1> QED BY <1>6, <1>7, <1>8, <1>9, <1>10, <1>11, <1>12 DEF IInv

\* The kernel answers for the listener.
LEMMA ConnectOK == ASSUME IInv, NEW o \in Objects, Connect(o) PROVE IInv'
<1> DEFINE x == EndOf(o)
<1>1. TypeOK /\ Owned /\ Given /\ Placed /\ Paired /\ Exact /\ Silent
  BY DEF IInv
<1>2. Open(o) /\ x \in Ends /\ stage[x] = "new" /\ pc[o] = "idle"
  BY <1>1 DEF Connect, At, EndOf, Open, InUse, TypeOK
<1>3. PICK l \in Ends, e \in Ends :
        /\ stage[l] = "listening" /\ stage[e] = "unused"
        /\ stage' = [stage EXCEPT ![x] = "connected", ![e] = "connected"]
        /\ peer' = [peer EXCEPT ![x] = e, ![e] = x]
        /\ backlog' = [backlog EXCEPT ![l] = @ \cup {e}]
  BY DEF Connect, Unused
<1>4. /\ file' = file /\ inbox' = inbox /\ got' = got /\ torn' = torn
      /\ descriptor' = descriptor /\ pc' = pc
      /\ next' = next /\ len' = len /\ TotalLen' = TotalLen
      /\ new_fd' = new_fd /\ orphans' = orphans
  BY DEF Connect, thread, accept
<1>5. \A p : EndOf(p)' = EndOf(p) /\ (Open(p)' <=> Open(p)) /\ Received(p)' = Received(p)
  BY <1>4 DEF EndOf, Open, Received, Final
<1>6. x = file[descriptor[o]] /\ descriptor[o] \in Descriptors
  BY <1>1, <1>2, EndsApart
<1>7. \A p \in Objects \ {o} : Open(p) => EndOf(p) \in Ends \ {x}
  BY <1>1, <1>2, EndsApart
<1>8. \A p \in Objects : Counts(p)
  BY DEF IInv
<1>9. At(o, "new")
  BY <1>2, SocketAssumption DEF At
<1>10. EndOf(o)' = x
  BY <1>5
<1> HIDE DEF x
<1>11. x # e /\ x # l /\ e # l
  BY <1>2, <1>3
<1>12. /\ stage'[x] = "connected" /\ stage'[e] = "connected"
       /\ \A d \in Ends \ {x, e} : stage'[d] = stage[d]
  BY <1>1, <1>2, <1>3, <1>11 DEF TypeOK
<1>13. /\ peer'[x] = e /\ peer'[e] = x
       /\ \A d \in Ends \ {x, e} : peer'[d] = peer[d]
  BY <1>1, <1>2, <1>3, <1>11 DEF TypeOK
<1>14. /\ backlog'[l] = backlog[l] \cup {e}
       /\ \A d \in Ends \ {l} : backlog'[d] = backlog[d]
  BY <1>1, <1>3 DEF TypeOK
<1>15. TypeOK'
  BY <1>1, <1>2, <1>3, <1>4 DEF TypeOK, Stages
<1>16. Owned' /\ Given' /\ \A g : Loose(g)' <=> Loose(g)
  <2>1. \A g : Loose(g)' <=> Loose(g)
    BY <1>4 DEF Loose
  <2>2. Owned'
    BY <2>1, <1>1, <1>4, <1>5 DEF Owned
  <2>3. Given'
    BY <2>1, <1>1, <1>4, <1>5 DEF Given
  <2> QED BY <2>1, <2>2, <2>3
<1>17. \A g \in Descriptors : file[g] # e
  BY <1>1, <1>3, SocketAssumption DEF Placed, Live
<1>18. \A m \in Ends : \A d \in backlog[m] :
         d \in Ends \ {x, e} /\ m \notin {x, e} /\ Waiting(m, d)
  BY <1>1, <1>2, <1>3, <1>6 DEF Placed, Waiting, TypeOK
<1>19. Placed'
  <2>1. Distinct'
    BY <1>1, <1>4 DEF Placed, Distinct
  <2>2. \A d \in Ends : stage[d] # "unused" => stage'[d] # "unused"
    BY <1>12
  <2>3. Live'
    BY <2>2, <1>1, <1>4 DEF Placed, Live, TypeOK
  <2>4. ASSUME NEW m \in Ends, NEW d \in backlog'[m] PROVE Waiting(m, d)'
    <3>1. CASE d \in backlog[m]
      <4>1. stage'[m] = stage[m] /\ stage'[d] = stage[d] /\ d # e /\ Waiting(m, d)
        BY <3>1, <1>12, <1>18
      <4>2. \A n \in Ends : d \in backlog'[n] => d \in backlog[n]
        BY <4>1, <1>14
      <4> QED BY <4>1, <4>2, <1>4 DEF Waiting
    <3>2. CASE d \notin backlog[m]
      <4>1. m = l /\ d = e
        BY <3>2, <2>4, <1>14
      <4>2. stage'[l] = "listening"
        BY <1>3, <1>11, <1>12
      <4>3. \A n \in Ends : e \in backlog'[n] => n = l
        BY <1>14, <1>18
      <4> QED BY <4>1, <4>2, <4>3, <1>4, <1>12, <1>17 DEF Waiting
    <3> QED BY <3>1, <3>2
  <2> QED BY <2>1, <2>3, <2>4 DEF Placed
<1>20. peer[x] = None /\ peer[e] = None /\ Final(x) = 0 /\ Final(e) = 0
  <2>1. peer[x] = None /\ peer[e] = None
    BY <1>1, <1>2, <1>3 DEF Paired, Linked
  <2>2. inbox[x] = <<>> /\ got[x] = 0 /\ inbox[e] = <<>> /\ got[e] = 0
    BY <1>1, <1>2, <1>3 DEF Paired, Blank
  <2> QED BY <2>1, <2>2 DEF Final, LastOf
<1>21. Paired'
  <2>1. \A d \in Ends : stage'[d] = "connected" <=> peer'[d] # None
    <3>1. \A d \in Ends \ {x, e} : stage'[d] = "connected" <=> peer'[d] # None
      BY <1>1, <1>12, <1>13 DEF Paired, Linked
    <3>2. x # None /\ e # None
      BY <1>2, <1>3, SocketAssumption
    <3> QED BY <3>1, <3>2, <1>12, <1>13
  <2>2. ASSUME NEW d \in Ends, peer'[d] # None PROVE peer'[d] # d /\ peer'[peer'[d]] = d
    <3>1. CASE d \in {x, e}
      BY <3>1, <1>11, <1>13
    <3>2. CASE d \notin {x, e}
      <4>1. peer'[d] = peer[d] /\ peer[d] \in Ends /\ peer[d] # d /\ peer[peer[d]] = d
        BY <3>2, <2>2, <1>1, <1>13 DEF Paired, Mutual, TypeOK
      <4>2. peer[d] \notin {x, e}
        BY <4>1, <1>20, SocketAssumption
      <4> QED BY <4>1, <4>2, <1>13
    <3> QED BY <3>1, <3>2
  <2>3. \A d \in Ends : stage'[d] \notin {"connected", "hung up"} => inbox'[d] = <<>> /\ got'[d] = 0
    BY <1>1, <1>4, <1>12 DEF Paired, Blank
  <2> QED BY <2>1, <2>2, <2>3 DEF Paired, Linked, Mutual, Blank
<1>22. Exact'
  BY <1>1, <1>4 DEF Exact
<1>26. ~Mute(x)
  BY <1>1, <1>2, MuteApart DEF x
<1>23. Silent'
  <2>1. ASSUME NEW d \in Ends, Mute(d)', peer'[d] # None
        PROVE  inbox'[peer'[d]] = <<>> /\ got'[peer'[d]] = 0
    <3>1. CASE d = e
      BY <3>1, <1>1, <1>2, <1>4, <1>13 DEF Paired, Blank
    <3>2. CASE d # e
      <4>1. Mute(d)
        BY <3>2, <2>1, <1>4, <1>14, <1>16 DEF Mute
      <4>2. peer'[d] = peer[d]
        BY <4>1, <3>2, <1>13, <1>26
      <4> QED BY <4>1, <4>2, <2>1, <1>1, <1>4 DEF Silent
    <3> QED BY <3>1, <3>2
  <2> QED BY <2>1 DEF Silent
<1>24. Counts(o)'
  <2>1. next[o] = 0 /\ TotalLen[o] = 0
    BY <1>2, <1>8, <1>9 DEF Counts, Open
  <2>2. ~At(o, "new")' /\ descriptor'[o] # SOCKET_ERROR
    BY <1>2, <1>4, <1>10, <1>12 DEF At, Open
  <2>3. Told(peer[EndOf(o)], next[o], TotalLen[o])'
    BY <2>1, <1>4, <1>10, <1>13, <1>20 DEF Told, Goes, Final
  <2> QED BY <2>1, <2>2, <2>3, <1>2, <1>4 DEF Counts
<1>25. ASSUME NEW p \in Objects \ {o} PROVE Counts(p)'
  <2>1. Open(p) => EndOf(p) \in Ends \ {x, e}
    BY <1>1, <1>7, <1>17, EndsApart
  <2>2. \A d : Received(d)' = Received(d)
    BY <1>4 DEF Received, Final
  <2>3. Open(p) => EndOf(p)' = EndOf(p) /\ stage'[EndOf(p)] = stage[EndOf(p)]
                   /\ peer'[EndOf(p)] = peer[EndOf(p)]
    BY <2>1, <1>5, <1>12, <1>13
  <2> QED BY <2>2, <2>3, <1>4, OthersCount
<1> QED BY <1>15, <1>16, <1>19, <1>21, <1>22, <1>23, <1>24, <1>25 DEF IInv

\* The kernel gives a connection to the listener.
LEMMA AcceptOK == ASSUME IInv, NEW o \in Objects, Accept(o) PROVE IInv'
<1> DEFINE x == EndOf(o)
           f == Min(FreeDescriptors)
<1>1. TypeOK /\ Owned /\ Given /\ Placed /\ Paired /\ Exact /\ Silent /\ Counts(o)
  BY DEF IInv
<1>2. f \in Descriptors /\ file[f] = None
  BY FreeIsFree DEF Accept
<1>3. x \in Ends /\ stage[x] = "listening" /\ pc[o] = "idle" /\ Open(o)
  BY <1>1 DEF Accept, At, EndOf, Open, InUse, TypeOK
<1>4. PICK e \in backlog[x] :
        /\ backlog' = [backlog EXCEPT ![x] = @ \ {e}]
        /\ file' = [file EXCEPT ![f] = e]
  BY DEF Accept
<1>5. /\ stage' = stage /\ peer' = peer /\ inbox' = inbox /\ got' = got /\ torn' = torn
      /\ descriptor' = descriptor /\ next' = next /\ len' = len /\ TotalLen' = TotalLen
      /\ orphans' = orphans /\ new_fd' = [new_fd EXCEPT ![o] = f]
      /\ pc' = [pc EXCEPT ![o] = "accepting"]
  BY DEF Accept
<1> HIDE DEF f
<1>6. e \in Ends /\ Waiting(x, e)
  BY <1>1, <1>3, <1>4 DEF TypeOK, Placed
<1>7. /\ backlog'[x] = backlog[x] \ {e}
      /\ \A d \in Ends \ {x} : backlog'[d] = backlog[d]
  BY <1>1, <1>3, <1>4 DEF TypeOK
<1>8. TypeOK'
  BY <1>1, <1>2, <1>3, <1>4, <1>5, <1>6 DEF TypeOK, PCs, InUse
<1>9. /\ pc'[o] = "accepting" /\ new_fd'[o] = f
      /\ \A p \in Objects \ {o} : pc'[p] = pc[p] /\ new_fd'[p] = new_fd[p]
      /\ \A p \in Objects : Open(p)' <=> Open(p)
  BY <1>1, <1>3, <1>5 DEF TypeOK, Open, InUse
<1>15. \A g \in Descriptors : file'[g] = IF g = f THEN e ELSE file[g]
  BY <1>1, <1>2, <1>4 DEF TypeOK
<1>16. ~Loose(f) /\ \A p \in Objects : Open(p) => descriptor[p] # f
  BY <1>1, <1>2 DEF Given, Owned
<1>17. \A g : Loose(g)' <=> g = f \/ Loose(g)
  BY <1>3, <1>5, <1>9 DEF Loose
<1>18. e # None
  BY <1>6, SocketAssumption
<1>19. Owned'
  <2>1. \A p \in Objects : pc'[p] \in {"sending", "accepting"} => descriptor'[p] # SOCKET_ERROR
    BY <1>1, <1>3, <1>5, <1>9 DEF Owned, Open
  <2>2. \A p \in Objects : Open(p)' => file'[descriptor'[p]] # None
    <3>1. \A p \in Objects : Open(p) => descriptor[p] \in Descriptors \ {f}
      BY <1>1, <1>16, EndsApart
    <3> QED BY <3>1, <1>1, <1>5, <1>9, <1>15 DEF Owned
  <2>3. \A p, q \in Objects : Open(p)' /\ Open(q)' /\ descriptor'[p] = descriptor'[q] => p = q
    BY <1>1, <1>5, <1>9 DEF Owned
  <2>4. \A g \in Descriptors : file'[g] # None =>
          Loose(g)' \/ \E p \in Objects : Open(p)' /\ descriptor'[p] = g
    BY <1>1, <1>5, <1>9, <1>15, <1>17 DEF Owned
  <2> QED BY <2>1, <2>2, <2>3, <2>4 DEF Owned
<1>20. Given'
  <2>1. \A g \in Descriptors : Loose(g)' =>
          file'[g] # None /\ \A p \in Objects : Open(p)' => descriptor'[p] # g
    BY <1>1, <1>5, <1>9, <1>15, <1>16, <1>17, <1>18 DEF Given
  <2>2. \A p \in Objects : pc'[p] = "accepting" => new_fd'[p] \in Descriptors \ orphans'
    BY <1>1, <1>2, <1>5, <1>9, <1>16 DEF Given, Loose
  <2>3. \A p \in Objects \ {o} : pc[p] = "accepting" => new_fd[p] # f
    BY <1>16 DEF Loose
  <2>4. \A p, q \in Objects :
          pc'[p] = "accepting" /\ pc'[q] = "accepting" /\ new_fd'[p] = new_fd'[q] => p = q
    BY <2>3, <1>1, <1>9 DEF Given
  <2> QED BY <2>1, <2>2, <2>4 DEF Given
<1>10. Placed'
  <2>2. \A g \in Descriptors : file[g] # e
    BY <1>6 DEF Waiting
  <2>3. Distinct'
    BY <1>15, <2>2, <1>1 DEF Placed, Distinct
  <2>4. stage[e] # "unused"
    BY <1>6 DEF Waiting
  <2>5. Live'
    BY <1>15, <2>4, <1>1, <1>5 DEF Placed, Live
  <2>6. ASSUME NEW m \in Ends, NEW d \in backlog'[m] PROVE Waiting(m, d)'
    <3>1. d \in backlog[m] /\ Waiting(m, d)
      BY <2>6, <1>1, <1>7 DEF Placed
    <3>2. d # e
      BY <2>6, <3>1, <1>6, <1>7 DEF Waiting
    <3>3. \A g \in Descriptors : file'[g] # d
      BY <3>1, <3>2, <1>15 DEF Waiting
    <3>4. \A n \in Ends : d \in backlog'[n] => d \in backlog[n]
      BY <1>7
    <3> QED BY <3>1, <3>3, <3>4, <1>5 DEF Waiting
  <2> QED BY <2>3, <2>5, <2>6 DEF Placed
<1>11. Paired' /\ Exact'
  <2>1. Paired'
    BY <1>1, <1>5 DEF Paired, Linked, Mutual, Blank
  <2>2. Exact'
    BY <1>1, <1>5 DEF Exact
  <2> QED BY <2>1, <2>2
<1>12. Silent'
  <2>1. ASSUME NEW d \in Ends, Mute(d)' PROVE Mute(d)
    <3>1. CASE \E m \in Ends : d \in backlog'[m]
      BY <3>1, <1>7 DEF Mute
    <3>2. ASSUME NEW g \in Descriptors, Loose(g)', file'[g] = d PROVE Mute(d)
      <4>1. CASE g = f
        BY <4>1, <3>2, <1>3, <1>15 DEF Mute
      <4>2. CASE g # f
        BY <4>2, <3>2, <1>15, <1>17 DEF Mute
      <4> QED BY <4>1, <4>2
    <3> QED BY <2>1, <3>1, <3>2 DEF Mute
  <2> QED BY <2>1, <1>1, <1>5, SilentKept
<1>21. \A p \in Objects : Open(p) => EndOf(p)' = EndOf(p)
  BY <1>1, <1>2, <1>4, <1>5, <1>6, OthersKeepEnds
<1>13. Counts(o)'
  <2>1. TotalLen'[o] = 0 /\ EndOf(o)' = x
    BY <1>1, <1>3, <1>5, <1>21 DEF Counts
  <2>2. stage'[x] = "listening" /\ x # None /\ descriptor'[o] # SOCKET_ERROR
    BY <1>3, <1>5, SocketAssumption DEF Open
  <2>3. At(o, "listening")' /\ ~At(o, "new")'
    BY <2>1, <2>2 DEF At
  <2> QED BY <2>1, <2>2, <2>3, <1>9 DEF Counts
<1>14. ASSUME NEW p \in Objects \ {o} PROVE Counts(p)'
  <2>1. pc'[p] = pc[p] /\ descriptor'[p] = descriptor[p]
    BY <1>5, <1>9
  <2>3. \A d : Received(d)' = Received(d)
    BY <1>5 DEF Received, Final
  <2> QED BY <2>1, <2>3, <1>5, <1>21, OthersCount
<1> QED BY <1>8, <1>19, <1>20, <1>10, <1>11, <1>12, <1>13, <1>14 DEF IInv

\* The new object is returned.
LEMMA AcceptReturnsOK == ASSUME IInv, NEW o \in Objects, AcceptReturns(o) PROVE IInv'
<1> DEFINE f == new_fd[o]
<1>1. TypeOK /\ Owned /\ Given /\ Placed /\ Paired /\ Exact /\ Silent
  BY DEF IInv
<1>2. PICK s \in Objects :
        /\ pc[s] = "none" /\ descriptor' = [descriptor EXCEPT ![s] = f]
        /\ pc' = [pc EXCEPT ![o] = "idle", ![s] = "idle"]
  BY DEF AcceptReturns
<1>3. /\ UNCHANGED kernel /\ pc[o] = "accepting" /\ orphans' = orphans
      /\ new_fd' = [new_fd EXCEPT ![o] = SOCKET_ERROR]
      /\ next' = next /\ len' = len /\ TotalLen' = TotalLen
  BY DEF AcceptReturns
<1>4. file' = file /\ stage' = stage /\ peer' = peer
  BY <1>3 DEF kernel
<1>5. /\ f \in Descriptors \ orphans /\ Loose(f) /\ f # SOCKET_ERROR /\ s # o
      /\ file[f] \in Ends /\ \A p \in Objects : Open(p) => descriptor[p] # f
  <2>1. f \in Descriptors \ orphans /\ Loose(f)
    BY <1>1, <1>3 DEF Given, Loose
  <2>2. file[f] # None /\ \A p \in Objects : Open(p) => descriptor[p] # f
    BY <2>1, <1>1 DEF Given
  <2> QED BY <2>1, <2>2, <1>1, <1>2, <1>3, SocketAssumption DEF TypeOK, Descriptors, SOCKET_ERROR
<1> HIDE DEF f
<1>6. /\ pc'[o] = "idle" /\ pc'[s] = "idle" /\ descriptor'[s] = f
      /\ \A p \in Objects \ {o, s} : pc'[p] = pc[p]
      /\ \A p \in Objects \ {s} : descriptor'[p] = descriptor[p]
      /\ new_fd'[o] = SOCKET_ERROR /\ \A p \in Objects \ {o} : new_fd'[p] = new_fd[p]
  BY <1>1, <1>2, <1>3, <1>5 DEF TypeOK
<1>7. Open(s)' /\ ~Open(s) /\ \A p \in Objects \ {s} : Open(p)' <=> Open(p)
  BY <1>2, <1>3, <1>5, <1>6 DEF Open, InUse
<1>8. TypeOK'
  BY <1>1, <1>2, <1>3, <1>5 DEF TypeOK, kernel, PCs, InUse
<1>9. \A g : Loose(g)' <=> Loose(g) /\ g # f
  <2>1. \A p \in Objects \ {o} : pc'[p] = "accepting" <=> pc[p] = "accepting"
    BY <1>2, <1>6
  <2>2. \A p \in Objects \ {o} : pc[p] = "accepting" => new_fd[p] # f
    BY <1>1, <1>3 DEF Given, f
  <2> QED BY <2>1, <2>2, <1>3, <1>5, <1>6 DEF Loose, f
<1>10. Owned'
  <2>1. \A p \in Objects : pc'[p] \in {"sending", "accepting"} => descriptor'[p] # SOCKET_ERROR
    BY <1>1, <1>6 DEF Owned
  <2>2. \A p \in Objects : Open(p)' => file'[descriptor'[p]] # None
    BY <1>1, <1>4, <1>5, <1>6, <1>7, SocketAssumption DEF Owned
  <2>3. \A p, q \in Objects : Open(p)' /\ Open(q)' /\ descriptor'[p] = descriptor'[q] => p = q
    BY <1>1, <1>5, <1>6, <1>7 DEF Owned
  <2>4. ASSUME NEW g \in Descriptors, file'[g] # None
        PROVE  Loose(g)' \/ \E p \in Objects : Open(p)' /\ descriptor'[p] = g
    <3>1. CASE g = f
      BY <3>1, <1>6, <1>7
    <3>2. ASSUME g # f, NEW p \in Objects, Open(p), descriptor[p] = g
          PROVE  Open(p)' /\ descriptor'[p] = g
      BY <3>2, <1>6, <1>7
    <3>3. Loose(g) \/ \E p \in Objects : Open(p) /\ descriptor[p] = g
      BY <2>4, <1>1, <1>4 DEF Owned
    <3> QED BY <3>1, <3>2, <3>3, <1>9
  <2> QED BY <2>1, <2>2, <2>3, <2>4 DEF Owned
<1>11. Given'
  <2>1. \A g \in Descriptors : Loose(g)' =>
          file'[g] # None /\ \A p \in Objects : Open(p)' => descriptor'[p] # g
    BY <1>1, <1>4, <1>6, <1>7, <1>9 DEF Given
  <2>2. \A p \in Objects : pc'[p] = "accepting" => p # o /\ pc[p] = "accepting"
    BY <1>6
  <2> QED BY <2>1, <2>2, <1>1, <1>3, <1>6 DEF Given
<1>12. Placed' /\ Paired' /\ Exact' /\ Silent'
  BY <1>1, <1>3, <1>9, KernelKept
<1>13. Counts(s)'
  <2>1. EndOf(s)' = file[f]
    BY <1>4, <1>5, <1>6 DEF EndOf
  <2>2. next'[s] = 0 /\ TotalLen'[s] = 0
    BY <1>2, <1>3 DEF IInv, Counts
  <2>3. ASSUME At(s, "connected")' PROVE Told(peer[EndOf(s)], next[s], TotalLen[s])'
    <3>1. peer[file[f]] # None
      BY <2>1, <2>3, <1>1, <1>4, <1>5 DEF At, Paired, Linked
    <3>2. inbox[peer[file[f]]] = <<>> /\ got[peer[file[f]]] = 0
      BY <3>1, <1>1, <1>5 DEF Silent, Mute
    <3>3. Final(peer[EndOf(s)])' = 0
      BY <3>2, <2>1, <1>3 DEF Final, LastOf, kernel
    <3> QED BY <3>3, <2>2 DEF Told, Goes
  <2> QED BY <2>2, <2>3, <1>6 DEF Counts
<1>14. \A p \in Objects \ {s} : EndOf(p)' = EndOf(p)
  BY <1>4, <1>6 DEF EndOf
<1>15. Counts(o)'
  <2>1. At(o, "listening") /\ TotalLen[o] = 0
    BY <1>3 DEF IInv, Counts
  <2>2. ~At(o, "connected")' /\ ~At(o, "new")'
    BY <2>1, <1>4, <1>5, <1>14 DEF At
  <2>3. descriptor'[o] # SOCKET_ERROR
    BY <1>1, <1>3, <1>5, <1>6 DEF Owned
  <2> QED BY <2>1, <2>2, <2>3, <1>3, <1>6 DEF Counts
<1>16. ASSUME NEW p \in Objects \ {s, o} PROVE Counts(p)'
  <2>1. \A d : Received(d)' = Received(d)
    BY <1>3 DEF Received, Final, kernel
  <2> QED BY <2>1, <1>3, <1>4, <1>6, <1>14, OthersCount
<1> QED BY <1>8, <1>10, <1>11, <1>12, <1>13, <1>15, <1>16 DEF IInv

\* No object gets the descriptor.
LEMMA AcceptFailsOK == ASSUME IInv, NEW o \in Objects, AcceptFails(o) PROVE IInv'
<1>1. TypeOK /\ Owned /\ Given /\ Placed /\ Paired /\ Exact /\ Silent
  BY DEF IInv
<1>2. /\ UNCHANGED kernel /\ pc[o] = "accepting" /\ orphans' = orphans \cup {new_fd[o]}
      /\ new_fd' = [new_fd EXCEPT ![o] = SOCKET_ERROR] /\ pc' = [pc EXCEPT ![o] = "idle"]
      /\ descriptor' = descriptor /\ next' = next /\ len' = len /\ TotalLen' = TotalLen
  BY DEF AcceptFails
<1>3. file' = file /\ stage' = stage /\ peer' = peer
  BY <1>2 DEF kernel
<1>4. /\ pc'[o] = "idle" /\ new_fd[o] \in Descriptors
      /\ \A p \in Objects \ {o} : pc'[p] = pc[p] /\ new_fd'[p] = new_fd[p]
  BY <1>1, <1>2 DEF TypeOK, Given
<1>5. TypeOK'
  BY <1>1, <1>2, <1>4 DEF TypeOK, kernel, PCs, InUse
<1>6. \A p \in Objects : Open(p)' <=> Open(p)
  BY <1>2, <1>4 DEF Open, InUse
<1>7. \A g : Loose(g)' <=> Loose(g)
  BY <1>2, <1>4 DEF Loose
<1>8. Owned'
  <2>1. \A p \in Objects : pc'[p] \in {"sending", "accepting"} => descriptor'[p] # SOCKET_ERROR
    BY <1>1, <1>2, <1>4 DEF Owned
  <2> QED BY <2>1, <1>1, <1>2, <1>3, <1>6, <1>7 DEF Owned
<1>9. Given'
  <2>1. \A p \in Objects : pc'[p] = "accepting" =>
          p # o /\ pc[p] = "accepting" /\ new_fd'[p] = new_fd[p] /\ new_fd[p] # new_fd[o]
    BY <1>1, <1>2, <1>4 DEF Given
  <2>2. \A g \in Descriptors : Loose(g)' =>
          file'[g] # None /\ \A p \in Objects : Open(p)' => descriptor'[p] # g
    BY <1>1, <1>2, <1>3, <1>6, <1>7 DEF Given
  <2> QED BY <2>1, <2>2, <1>1, <1>2 DEF Given
<1>10. Placed' /\ Paired' /\ Exact' /\ Silent'
  BY <1>1, <1>2, <1>7, KernelKept
<1>11. \A p : EndOf(p)' = EndOf(p)
  BY <1>2, <1>3 DEF EndOf
<1>12. Counts(o)'
  <2>1. At(o, "listening") /\ TotalLen[o] = 0
    BY <1>2 DEF IInv, Counts
  <2>2. ~At(o, "connected")' /\ ~At(o, "new")'
    BY <2>1, <1>3, <1>11 DEF At
  <2>3. descriptor'[o] # SOCKET_ERROR
    BY <1>1, <1>2 DEF Owned
  <2> QED BY <2>1, <2>2, <2>3, <1>2, <1>4 DEF Counts
<1>13. ASSUME NEW p \in Objects \ {o} PROVE Counts(p)'
  <2>1. \A d : Received(d)' = Received(d)
    BY <1>2 DEF Received, Final, kernel
  <2> QED BY <2>1, <1>2, <1>3, <1>4, <1>11, OthersCount
<1> QED BY <1>5, <1>8, <1>9, <1>10, <1>12, <1>13 DEF IInv

\* What close leaves of the kernel's state.
LEMMA CloseOK ==
  ASSUME IInv, NEW o \in Objects, NEW to \in {"clear", "delete"}, Close(o, to)
  PROVE  IInv'
<1> DEFINE f == descriptor[o]
           x == file[f]
           gone == {x} \cup backlog[x]
           left == {d \in Ends \ gone : peer[d] \in gone}
<1>1. TypeOK /\ Owned /\ Given /\ Placed /\ Paired /\ Exact /\ Silent
  BY DEF IInv
<1>2. Open(o) /\ pc[o] = "idle"
  BY DEF Close, Open, InUse
<1>3. f \in Descriptors /\ x \in Ends /\ EndOf(o) = x
  BY <1>1, <1>2, EndsApart
<1>4. /\ file' = [file EXCEPT ![f] = None]
      /\ stage' = [d \in Ends |-> CASE d \in gone -> "unused" [] d \in left -> "hung up"
                                    [] OTHER -> stage[d]]
      /\ peer' = [d \in Ends |-> IF d \in gone \cup left THEN None ELSE peer[d]]
      /\ backlog' = [backlog EXCEPT ![x] = {}]
      /\ inbox' = [d \in Ends |-> IF d \in gone THEN <<>> ELSE inbox[d]]
      /\ got' = [d \in Ends |-> IF d \in gone THEN 0 ELSE got[d]]
      /\ torn' = [d \in Ends |-> IF d \in gone THEN {} ELSE torn[d]]
  BY DEF Close, Close_
<1>5. /\ pc' = [pc EXCEPT ![o] = to] /\ descriptor' = descriptor
      /\ next' = next /\ len' = len /\ TotalLen' = TotalLen
      /\ new_fd' = new_fd /\ orphans' = orphans
  BY DEF Close, thread, accept
<1>6. ASSUME NEW m \in Ends, NEW d \in backlog[m] PROVE d \in Ends /\ d # x /\ Waiting(m, d)
  <2>1. d \in Ends /\ Waiting(m, d)
    BY <1>1, <1>6 DEF TypeOK, Placed
  <2>2. x # d
    BY <2>1, <1>3 DEF Waiting
  <2> QED BY <2>1, <2>2
<1>7. \A m \in Ends : \A d \in backlog[m] : (d \in gone <=> m = x) /\ m \notin left
                                           /\ (m \in gone => m = x)
  <2> TAKE m \in Ends
  <2> TAKE d \in backlog[m]
  <2>1. Waiting(m, d) /\ d # x
    BY <1>6
  <2>2. d \in gone => m = x
    BY <2>1, <1>3 DEF Waiting
  <2>3. m \notin left
    <3>1. stage[m] # "connected"
      BY <2>1 DEF Waiting
    <3>2. peer[m] = None
      BY <3>1, <1>1 DEF Paired, Linked
    <3>3. None \notin gone
      BY <1>1, <1>3, SocketAssumption DEF TypeOK
    <3> QED BY <3>2, <3>3
  <2>4. m \notin backlog[x]
    BY <2>1, <1>3, <1>6 DEF Waiting
  <2> QED BY <2>2, <2>3, <2>4
<1>8. gone \subseteq Ends /\ None \notin gone
  <2>1. backlog[x] \subseteq Ends
    BY <1>1, <1>3 DEF TypeOK
  <2> QED BY <2>1, <1>3, SocketAssumption
<1>9. \A d \in Ends : d \in left => stage[d] = "connected"
  BY <1>1, <1>8 DEF Paired, Linked
<1>10. ASSUME NEW g \in Descriptors \ {f} PROVE file[g] \notin gone
  <2>1. file[g] # x
    BY <1>1, <1>3, SocketAssumption DEF Placed, Distinct
  <2>2. \A d \in backlog[x] : file[g] # d
    BY <1>3, <1>6 DEF Waiting
  <2> QED BY <2>1, <2>2
<1>11. \A d \in Ends : d \notin left /\ d \notin gone => peer[d] \notin gone
  OBVIOUS
<1>12. \A d \in Ends : d \in left <=> d \notin gone /\ peer[d] \in gone
  OBVIOUS
<1> HIDE DEF gone, left, f
<1>13. \A d \in Ends :
         /\ d \in gone => stage'[d] = "unused" /\ peer'[d] = None /\ inbox'[d] = <<>> /\ got'[d] = 0
         /\ d \notin gone => inbox'[d] = inbox[d] /\ got'[d] = got[d] /\ torn'[d] = torn[d]
         /\ d \in left => stage'[d] = "hung up" /\ peer'[d] = None
         /\ d \notin gone \cup left => stage'[d] = stage[d] /\ peer'[d] = peer[d]
  BY <1>4, <1>12
<1>14. \A m \in Ends : backlog'[m] = IF m = x THEN {} ELSE backlog[m]
  BY <1>1, <1>3, <1>4 DEF TypeOK
<1>15. \A g \in Descriptors : file'[g] = IF g = f THEN None ELSE file[g]
  BY <1>1, <1>3, <1>4 DEF TypeOK
<1>16. TypeOK'
  <2>1. file' \in [Descriptors -> Ends \cup {None}]
    BY <1>1, <1>4 DEF TypeOK
  <2>2. stage' \in [Ends -> Stages]
    BY <1>1, <1>4 DEF TypeOK, Stages
  <2>3. peer' \in [Ends -> Ends \cup {None}]
    BY <1>1, <1>4 DEF TypeOK
  <2>4. backlog' \in [Ends -> SUBSET Ends]
    BY <1>1, <1>4 DEF TypeOK
  <2>5. inbox' \in [Ends -> Seq(Nat)] /\ got' \in [Ends -> Nat]
    <3>1. <<>> \in Seq(Nat) /\ 0 \in Nat
      OBVIOUS
    <3> QED BY <3>1, <1>1, <1>4 DEF TypeOK
  <2>6. pc' \in [Objects -> PCs]
    BY <1>1, <1>5 DEF TypeOK, PCs
  <2>7. torn' \in [Ends -> SUBSET (Nat \X Nat)]
    BY <1>1, <1>4 DEF TypeOK
  <2> QED BY <2>1, <2>2, <2>3, <2>4, <2>5, <2>6, <2>7, <1>1, <1>5 DEF TypeOK
<1>17. ~Open(o)' /\ \A p \in Objects \ {o} : pc'[p] = pc[p] /\ (Open(p)' <=> Open(p))
  BY <1>1, <1>5 DEF Open, InUse, TypeOK
<1>18. pc'[o] = to
  BY <1>1, <1>5 DEF TypeOK
<1>19. \A p \in Objects \ {o} : Open(p) => descriptor[p] \in Descriptors \ {f}
  BY <1>1, <1>2, <1>3, EndsApart DEF Owned, f
<1>27. Given' /\ (\A g : Loose(g)' <=> Loose(g)) /\ ~Loose(f)
  <2>1. ~Loose(f)
    BY <1>1, <1>2, <1>3 DEF Given, f
  <2>2. \A p \in Objects : pc'[p] = "accepting" <=> pc[p] = "accepting"
    BY <1>2, <1>17, <1>18
  <2>3. \A g \in Descriptors : Loose(g) =>
          file'[g] # None /\ \A p \in Objects : Open(p)' => descriptor'[p] # g
    BY <2>1, <1>1, <1>5, <1>15, <1>17 DEF Given
  <2>4. UNCHANGED accept
    BY <1>5 DEF accept
  <2> QED BY <2>1, <2>2, <2>3, <2>4, <1>1, GivenKept
<1>20. Owned'
  <2>1. \A p \in Objects : pc'[p] \in {"sending", "accepting"} => descriptor'[p] # SOCKET_ERROR
    BY <1>1, <1>5, <1>17, <1>18 DEF Owned
  <2>2. \A p \in Objects : Open(p)' => file'[descriptor'[p]] # None
    BY <1>1, <1>5, <1>15, <1>17, <1>19 DEF Owned
  <2>3. \A p, q \in Objects : Open(p)' /\ Open(q)' /\ descriptor'[p] = descriptor'[q] => p = q
    BY <1>1, <1>5, <1>17 DEF Owned
  <2>4. ASSUME NEW g \in Descriptors, file'[g] # None
        PROVE  Loose(g)' \/ \E p \in Objects : Open(p)' /\ descriptor'[p] = g
    <3> SUFFICES ASSUME ~Loose(g) PROVE \E p \in Objects : Open(p)' /\ descriptor'[p] = g
      BY <1>27
    <3>1. g # f /\ file[g] # None
      BY <2>4, <1>15
    <3>2. PICK p \in Objects : Open(p) /\ descriptor[p] = g
      BY <3>1, <1>1 DEF Owned
    <3>3. p # o
      BY <3>1, <3>2 DEF f
    <3> QED BY <3>2, <3>3, <1>5, <1>17
  <2> QED BY <2>1, <2>2, <2>3, <2>4 DEF Owned
<1>21. Placed'
  <2>1. Distinct'
    BY <1>1, <1>15 DEF Placed, Distinct
  <2>2. ASSUME NEW g \in Descriptors, file'[g] # None PROVE stage'[file'[g]] # "unused"
    <3>1. g # f /\ file'[g] = file[g] /\ file[g] \in Ends /\ file[g] \notin gone
      BY <2>2, <1>1, <1>10, <1>15 DEF TypeOK
    <3>2. stage[file[g]] # "unused"
      BY <3>1, <2>2, <1>1 DEF Placed, Live
    <3> QED BY <3>1, <3>2, <1>13
  <2>3. ASSUME NEW m \in Ends, NEW d \in backlog'[m] PROVE Waiting(m, d)'
    <3>1. m # x /\ d \in backlog[m]
      BY <2>3, <1>14
    <3>2. d \in Ends /\ Waiting(m, d) /\ d \notin gone /\ m \notin gone \cup left
      BY <3>1, <1>6, <1>7
    <3>3. stage'[m] = stage[m] /\ stage'[d] \in {stage[d], "hung up"}
      BY <3>2, <1>13
    <3>4. \A g \in Descriptors : file'[g] # d
      BY <3>2, <1>15, SocketAssumption DEF Waiting
    <3>5. \A n \in Ends : d \in backlog'[n] => d \in backlog[n]
      BY <1>14
    <3> QED BY <3>2, <3>3, <3>4, <3>5 DEF Waiting
  <2> QED BY <2>1, <2>2, <2>3 DEF Placed, Live
<1>22. Paired'
  <2>1. \A d \in Ends : stage'[d] = "connected" <=> peer'[d] # None
    BY <1>1, <1>13 DEF Paired, Linked, Blank
  <2>2. ASSUME NEW d \in Ends, peer'[d] # None PROVE peer'[d] # d /\ peer'[peer'[d]] = d
    <3>1. d \notin gone \cup left /\ peer'[d] = peer[d]
      BY <2>2, <1>13
    <3>2. peer[d] \in Ends /\ peer[d] # d /\ peer[peer[d]] = d
      BY <3>1, <2>2, <1>1 DEF Paired, Mutual, TypeOK
    <3>3. peer[d] \notin gone \cup left
      BY <3>1, <3>2, <1>12
    <3> QED BY <3>1, <3>2, <3>3, <1>13
  <2>3. \A d \in Ends : stage'[d] \notin {"connected", "hung up"} => inbox'[d] = <<>> /\ got'[d] = 0
    BY <1>1, <1>13 DEF Paired, Linked, Blank
  <2> QED BY <2>1, <2>2, <2>3 DEF Paired, Linked, Mutual, Blank
<1>23. Exact'
  <2>1. ASSUME NEW d \in Ends PROVE Chain(torn'[d], got'[d], inbox'[d])
    <3>1. CASE d \in gone
      <4>1. inbox'[d] = <<>>
        BY <3>1, <1>13
      <4>2. \A T, n : Chain(T, n, <<>>)
        BY DEF Chain
      <4> QED BY <4>1, <4>2
    <3>2. CASE d \notin gone
      BY <3>2, <1>1, <1>13 DEF Exact
    <3> QED BY <3>1, <3>2
  <2> QED BY <2>1 DEF Exact
<1>24. Silent'
  <2>2. ASSUME NEW d \in Ends, Mute(d)' PROVE Mute(d)
    <3>1. ASSUME NEW g \in Descriptors, Loose(g)', file'[g] = d PROVE Mute(d)
      BY <3>1, <1>15, <1>27 DEF Mute
    <3>2. ASSUME NEW m \in Ends, d \in backlog'[m] PROVE Mute(d)
      BY <3>2, <1>14 DEF Mute
    <3> QED BY <2>2, <3>1, <3>2 DEF Mute
  <2>1. ASSUME NEW d \in Ends, Mute(d)', peer'[d] # None
        PROVE  inbox'[peer'[d]] = <<>> /\ got'[peer'[d]] = 0
    <3>1. Mute(d)
      BY <2>1, <2>2
    <3>2. d \notin gone \cup left /\ peer'[d] = peer[d]
      BY <2>1, <3>1, <1>13
    <3>3. peer[d] \in Ends /\ peer[d] \notin gone
      <4>1. peer[d] \in Ends \cup {None}
        BY <3>1, <1>1 DEF TypeOK
      <4>2. peer[d] # None
        BY <3>2, <2>1
      <4>3. peer[d] \notin gone
        BY <3>1, <3>2, <1>12
      <4> QED BY <4>1, <4>2, <4>3
    <3>4. inbox[peer[d]] = <<>> /\ got[peer[d]] = 0
      BY <3>1, <3>2, <2>1, <1>1 DEF Silent
    <3>5. inbox'[peer[d]] = inbox[peer[d]] /\ got'[peer[d]] = got[peer[d]]
      BY <3>3, <1>13
    <3> QED BY <3>2, <3>4, <3>5
  <2> QED BY <2>1 DEF Silent
<1>25. Counts(o)'
  <2>1. TotalLen[o] = 0
    BY <1>2 DEF IInv, Counts
  <2> QED BY <2>1, <1>5, <1>18 DEF Counts, InUse
<1>26. ASSUME NEW p \in Objects \ {o} PROVE Counts(p)'
  <2>1. ASSUME Open(p)
        PROVE  /\ EndOf(p)' = EndOf(p) /\ EndOf(p) \in Ends /\ EndOf(p) \notin gone
    <3>1. /\ EndOf(p) = file[descriptor[p]] /\ EndOf(p) \in Ends
          /\ descriptor[p] \in Descriptors \ {f} /\ descriptor[p] # SOCKET_ERROR
      BY <2>1, <1>1, <1>19, EndsApart DEF Open
    <3>2. EndOf(p)' = file'[descriptor[p]]
      BY <3>1, <1>5 DEF EndOf
    <3> QED BY <3>1, <3>2, <1>10, <1>15
  <2>2. ASSUME Open(p), stage'[EndOf(p)] = "connected"
        PROVE  /\ peer'[EndOf(p)] = peer[EndOf(p)]
               /\ Received(peer[EndOf(p)])' = Received(peer[EndOf(p)])
    <3> DEFINE e == EndOf(p)
    <3>1. e \in Ends /\ e \notin gone \cup left
      BY <2>1, <2>2, <1>13
    <3>2. EndOf(p)' = e
      BY <2>1, <2>2
    <3> HIDE DEF e
    <3>3. peer'[e] = peer[e] /\ stage[e] = stage'[e]
      BY <3>1, <1>13
    <3>4. peer[e] \in Ends /\ peer[e] \notin gone
      <4>1. peer[e] \in Ends \cup {None} /\ stage[e] = "connected"
        BY <3>1, <3>3, <2>2, <1>1 DEF TypeOK, e
      <4>2. peer[e] # None
        BY <4>1, <3>1, <1>1 DEF Paired, Linked
      <4> QED BY <4>1, <4>2, <3>1, <1>12
    <3>5. inbox'[peer[e]] = inbox[peer[e]] /\ got'[peer[e]] = got[peer[e]]
          /\ torn'[peer[e]] = torn[peer[e]]
      BY <3>4, <1>13
    <3> QED BY <3>2, <3>3, <3>5 DEF Received, Final, e
  <2>3. Open(p) => \/ stage'[EndOf(p)] = stage[EndOf(p)]
                   \/ stage[EndOf(p)] = "connected" /\ stage'[EndOf(p)] = "hung up"
    BY <2>1, <1>9, <1>13
  <2> QED BY <2>1, <2>2, <2>3, <1>5, <1>17, OthersCount
<1> QED BY <1>16, <1>20, <1>21, <1>22, <1>23, <1>24, <1>25, <1>26, <1>27 DEF IInv

-------------------------------------------------------------------------------
\* Two ends have one peer only if they are the same.
LEMMA PeersApart ==
  ASSUME Paired, NEW d \in Ends, NEW e \in Ends, peer[d] = peer[e], peer[d] # None
  PROVE  d = e
BY DEF Paired, Mutual

\* A place behind the first m + 1 is one of the k behind m, and not the first of them.
LEMMA Shifted ==
  ASSUME NEW m \in Nat, NEW k \in Nat \ {0}, NEW i \in 1 .. m + k, i > m + 1
  PROVE  /\ i - m \in 1 .. k /\ i - m - 1 \in 1 .. k /\ i # 1
         /\ m + (i - m) = i /\ m + (i - m - 1) = i - 1
OBVIOUS

\* A stream goes on with the next places...
LEMMA ChainAppend ==
  ASSUME NEW T, NEW n \in Nat, NEW s \in Seq(Nat), NEW more \in Seq(Nat), NEW from \in Nat,
         NEW k \in Nat \ {0}, Len(more) = k, \A i \in 1 .. k : more[i] = from + i,
         Chain(T, n, s), Goes(T, LastOf(n, s), from)
  PROVE  s \o more \in Seq(Nat) /\ Chain(T, n, s \o more)
<1> DEFINE t == s \o more
<1>2. Len(s) \in Nat
  OBVIOUS
<1>3. /\ t \in Seq(Nat) /\ Len(t) = Len(s) + k
      /\ \A i \in 1 .. Len(s) + k : t[i] = IF i <= Len(s) THEN s[i] ELSE more[i - Len(s)]
  BY ConcatProperties
<1> HIDE DEF t
<1>4. ASSUME NEW i \in 1 .. Len(s) PROVE t[i] = s[i]
  <2>1. i \in 1 .. Len(s) + k /\ i <= Len(s)
    BY <1>2
  <2> QED BY <2>1, <1>3
<1>5. \A i \in 1 .. k : t[Len(s) + i] = from + i
  <2> TAKE i \in 1 .. k
  <2> DEFINE j == Len(s) + i
  <2>1. j \in 1 .. Len(s) + k /\ ~(j <= Len(s)) /\ j - Len(s) = i
    BY <1>2
  <2> HIDE DEF j
  <2>2. t[j] = from + i
    BY <2>1, <1>3
  <2> QED BY <2>2 DEF j
<1>7. ASSUME NEW i \in 1 .. Len(t) PROVE Goes(T, IF i = 1 THEN n ELSE t[i - 1], t[i] - 1)
  <2>1. CASE i <= Len(s)
    <3>1. i \in 1 .. Len(s) /\ (i # 1 => i - 1 \in 1 .. Len(s))
      BY <2>1, <1>2
    <3>2. t[i] = s[i] /\ (i # 1 => t[i - 1] = s[i - 1])
      BY <3>1, <1>4
    <3> QED BY <3>1, <3>2 DEF Chain
  <2>2. CASE i = Len(s) + 1
    <3>1. 1 \in 1 .. k /\ t[i] = from + 1
      BY <2>2, <1>5
    <3>2. t[i] - 1 = from
      BY <3>1
    <3>3. (IF i = 1 THEN n ELSE t[i - 1]) = LastOf(n, s)
      <4>1. CASE Len(s) = 0
        BY <4>1, <2>2 DEF LastOf
      <4>2. CASE Len(s) # 0
        <5>1. i # 1 /\ i - 1 = Len(s) /\ Len(s) \in 1 .. Len(s)
          BY <4>2, <2>2, <1>2
        <5> QED BY <5>1, <4>2, <1>4 DEF LastOf
      <4> QED BY <4>1, <4>2
    <3> QED BY <3>2, <3>3
  <2>3. CASE i > Len(s) + 1
    <3>1. i \in 1 .. Len(s) + k
      BY <1>3
    <3>2. /\ i - Len(s) \in 1 .. k /\ i - Len(s) - 1 \in 1 .. k /\ i # 1
          /\ Len(s) + (i - Len(s)) = i /\ Len(s) + (i - Len(s) - 1) = i - 1
      BY <3>1, <2>3, <1>2, Shifted
    <3>3. t[i] = from + (i - Len(s)) /\ t[i - 1] = from + (i - Len(s) - 1)
      BY <3>2, <1>5
    <3>4. t[i] - 1 = t[i - 1]
      BY <3>2, <3>3
    <3> QED BY <3>2, <3>4 DEF Goes
  <2> QED BY <2>1, <2>2, <2>3, <1>2
<1> QED BY <1>3, <1>7 DEF Chain, t

LEMMA LastAppend ==
  ASSUME NEW n, NEW s \in Seq(Nat), NEW more \in Seq(Nat), Len(more) # 0
  PROVE  LastOf(n, s \o more) = more[Len(more)]
<1> DEFINE t == s \o more
<1>1. Len(s) \in Nat /\ Len(more) \in Nat
  OBVIOUS
<1>2. /\ Len(t) = Len(s) + Len(more)
      /\ \A i \in 1 .. Len(s) + Len(more) : t[i] = IF i <= Len(s) THEN s[i] ELSE more[i - Len(s)]
  BY ConcatProperties
<1> HIDE DEF t
<1>3. /\ Len(t) \in 1 .. Len(s) + Len(more) /\ Len(t) # 0
      /\ ~(Len(t) <= Len(s)) /\ Len(t) - Len(s) = Len(more)
  BY <1>1, <1>2
<1>4. t[Len(t)] = more[Len(more)]
  BY <1>2, <1>3
<1>5. LastOf(n, t) = more[Len(more)]
  BY <1>3, <1>4 DEF LastOf
<1> QED BY <1>5 DEF t

\* ...and is read from its first byte on.
LEMMA ChainSkip ==
  ASSUME NEW T, NEW n \in Nat, NEW s \in Seq(Nat), NEW k \in 1 .. Len(s), Chain(T, n, s)
  PROVE  LET t == SubSeq(s, k + 1, Len(s))
         IN  t \in Seq(Nat) /\ Chain(T, s[k], t) /\ LastOf(s[k], t) = LastOf(n, s)
<1> DEFINE t == SubSeq(s, k + 1, Len(s))
<1>1. Len(s) \in Nat /\ k \in Nat /\ k <= Len(s)
  BY LenProperties
<1>2. \A i \in k + 1 .. Len(s) : s[i] \in Nat
  BY <1>1
<1>3. /\ t \in Seq(Nat) /\ Len(t) = IF k + 1 <= Len(s) THEN Len(s) - (k + 1) + 1 ELSE 0
      /\ \A i \in 1 .. Len(s) - (k + 1) + 1 : t[i] = s[(k + 1) + i - 1]
  <2>1. k + 1 \in Int /\ Len(s) \in Int
    BY <1>1
  <2> HIDE DEF t
  <2>3. \A u : u = SubSeq(s, k + 1, Len(s)) =>
          /\ u \in Seq(Nat) /\ Len(u) = IF k + 1 <= Len(s) THEN Len(s) - (k + 1) + 1 ELSE 0
          /\ \A i \in 1 .. Len(s) - (k + 1) + 1 : u[i] = s[(k + 1) + i - 1]
    BY ONLY <2>1, <1>2, SubSeqProperties
  <2> QED BY <2>3 DEF t
<1> HIDE DEF t
<1>4. Len(t) = Len(s) - k
  <2>1. \A l \in Nat, j \in Nat : j <= l => (IF j + 1 <= l THEN l - (j + 1) + 1 ELSE 0) = l - j
    OBVIOUS
  <2> QED BY <2>1, <1>1, <1>3
<1>5. \A i \in 1 .. Len(t) : t[i] = s[k + i]
  <2> TAKE i \in 1 .. Len(t)
  <2>1. i \in 1 .. Len(s) - (k + 1) + 1 /\ (k + 1) + i - 1 = k + i
    BY <1>1, <1>4
  <2> QED BY <2>1, <1>3
<1>6. ASSUME NEW i \in 1 .. Len(t) PROVE Goes(T, IF i = 1 THEN s[k] ELSE t[i - 1], t[i] - 1)
  <2>1. k + i \in 1 .. Len(s) /\ k + i # 1
    BY <1>1, <1>4
  <2>2. Goes(T, s[k + i - 1], s[k + i] - 1)
    BY <2>1 DEF Chain
  <2>3. CASE i = 1
    <3>1. k + i - 1 = k
      BY <2>3, <1>1
    <3> QED BY <3>1, <2>2, <2>3, <1>5
  <2>4. CASE i # 1
    <3>1. i - 1 \in 1 .. Len(t) /\ k + (i - 1) = k + i - 1
      BY <2>4, <1>1, <1>4
    <3>2. t[i - 1] = s[k + i - 1] /\ t[i] = s[k + i]
      BY <3>1, <1>5
    <3> QED BY <3>2, <2>2, <2>4
  <2> QED BY <2>3, <2>4
<1>7. LastOf(s[k], t) = LastOf(n, s)
  <2>1. Len(s) # 0
    BY <1>1
  <2>2. CASE Len(t) = 0
    BY <2>1, <2>2, <1>1, <1>4 DEF LastOf
  <2>3. CASE Len(t) # 0
    <3>1. Len(t) \in 1 .. Len(t) /\ k + Len(t) = Len(s)
      BY <2>3, <1>1, <1>4
    <3> QED BY <3>1, <2>1, <2>3, <1>5 DEF LastOf
  <2> QED BY <2>2, <2>3
<1> QED BY <1>3, <1>6, <1>7 DEF t, Chain

\* The last byte that arrived is where a sender thinks it is, or a way back from there.
LEMMA ToldGoes ==
  ASSUME NEW e, NEW n \in Nat, NEW l \in Nat, Told(e, n, l)
  PROVE  Goes(torn[e], Final(e), n + l)
BY DEF Told, Goes

\* What send takes for o is the next bytes of its stream.
LEMMA TakesOK ==
  ASSUME IInv, NEW o \in Objects, NEW k \in Nat \ {0},
         Open(o), pc[o] \in {"idle", "sending"}, Takes(EndOf(o), next[o] + TotalLen[o], k),
         UNCHANGED <<file, stage, peer, backlog, got, torn, descriptor>>,
         \A f : Loose(f)' => Loose(f)
  PROVE  /\ inbox' \in [Ends -> Seq(Nat)] /\ Paired' /\ Exact' /\ Silent'
         /\ At(o, "connected") =>
              Final(peer[EndOf(o)])' = next[o] + TotalLen[o] + k
         /\ \A p \in Objects \ {o} : Open(p) /\ At(p, "connected") =>
              Received(peer[EndOf(p)])' = Received(peer[EndOf(p)])
<1> DEFINE e == EndOf(o)
           q == peer[e]
           from == next[o] + TotalLen[o]
<1>1. TypeOK /\ Owned /\ Given /\ Placed /\ Paired /\ Exact /\ Silent /\ Counts(o)
  BY DEF IInv
<1>2. e \in Ends /\ descriptor[o] \in Descriptors /\ e = file[descriptor[o]]
  BY <1>1, EndsApart
<1>3. /\ file' = file /\ stage' = stage /\ peer' = peer /\ backlog' = backlog /\ got' = got
      /\ torn' = torn /\ descriptor' = descriptor /\ \A p : EndOf(p)' = EndOf(p)
  BY DEF EndOf
<1>4. CASE q = None
  <2>1. inbox' = inbox
    BY <1>4 DEF Takes
  <2>2. UNCHANGED kernel
    BY <2>1, <1>3 DEF kernel
  <2>3. Paired' /\ Exact' /\ Silent'
    BY <2>2, <1>1, KernelKept
  <2>4. ~At(o, "connected")
    BY <1>1, <1>2, <1>4 DEF At, Paired, Linked
  <2>5. \A p : Received(peer[EndOf(p)])' = Received(peer[EndOf(p)])
    <3> TAKE p
    <3>1. peer'[EndOf(p)'] = peer[EndOf(p)]
      BY <1>3
    <3> QED BY <3>1, <2>1, <1>3 DEF Received, Final
  <2> QED BY <2>1, <2>3, <2>4, <2>5, <1>1 DEF TypeOK
<1>5. CASE q # None
  <2>1. q \in Ends /\ q # e /\ peer[q] = e /\ stage[e] = "connected"
    BY <1>1, <1>2, <1>5 DEF TypeOK, Paired, Mutual, Linked
  <2>2. stage[q] = "connected"
    BY <2>1, <1>1, <1>2, SocketAssumption DEF Paired, Linked
  <2>3. At(o, "connected")
    BY <2>1, <1>2, SocketAssumption DEF At
  <2>4. Goes(torn[q], Final(q), from)
    BY <2>3, <1>1, ToldGoes DEF Counts, TypeOK
  <2>5. from \in Nat /\ got[q] \in Nat /\ inbox[q] \in Seq(Nat)
    BY <2>1, <1>1 DEF TypeOK
  <2> DEFINE more == [i \in 1 .. k |-> from + i]
           t == inbox[q] \o more
  <2>6. t \in Seq(Nat) /\ Chain(torn[q], got[q], t) /\ LastOf(got[q], t) = from + k
    <3>1. Chain(torn[q], got[q], inbox[q])
      BY <2>1, <1>1 DEF Exact
    <3>2. Goes(torn[q], LastOf(got[q], inbox[q]), from)
      BY <2>4 DEF Final
    <3>3. /\ more \in Seq(Nat) /\ Len(more) = k /\ k # 0
          /\ k \in Nat \ {0} /\ \A i \in 1 .. k : more[i] = from + i
      BY <2>5
    <3>4. inbox[q] \in Seq(Nat) /\ got[q] \in Nat /\ from \in Nat
      BY <2>5
    <3> HIDE DEF q, from, more
    <3>5. t \in Seq(Nat)
      BY ONLY <3>1, <3>2, <3>3, <3>4, ChainAppend
    <3>6. Chain(torn[q], got[q], t)
      BY ONLY <3>1, <3>2, <3>3, <3>4, ChainAppend
    <3>7. LastOf(got[q], t) = from + k
      <4>1. LastOf(got[q], t) = more[Len(more)]
        BY ONLY <3>3, <3>4, LastAppend
      <4>2. k \in 1 .. k
        BY ONLY <3>3
      <4> QED BY ONLY <3>3, <4>1, <4>2
    <3> QED BY <3>5, <3>6, <3>7
  <2>7. inbox' = [inbox EXCEPT ![q] = t]
    BY <1>5 DEF Takes
  <2> HIDE DEF e, q, from, t, more
  <2>8. /\ inbox'[q] = t
        /\ \A d \in Ends \ {q} : inbox'[d] = inbox[d]
    BY <2>1, <2>7, <1>1 DEF TypeOK
  <2>10. inbox' \in [Ends -> Seq(Nat)]
    BY <2>6, <2>7, <1>1 DEF TypeOK
  <2>11. Paired'
    <3>1. Linked' /\ Mutual'
      BY <1>1, <1>3 DEF Paired, Linked, Mutual
    <3>2. Blank'
      BY <1>1, <1>3, <2>2, <2>8 DEF Paired, Blank
    <3> QED BY <3>1, <3>2 DEF Paired
  <2>12. Exact'
    <3>1. ASSUME NEW d \in Ends \ {q} PROVE Chain(torn'[d], got'[d], inbox'[d])
      BY <2>8, <1>1, <1>3 DEF Exact
    <3>2. Chain(torn'[q], got'[q], inbox'[q])
      BY <2>6, <2>8, <1>3
    <3> QED BY <3>1, <3>2 DEF Exact
  <2>13. Silent'
    <3>1. ASSUME NEW d \in Ends, Mute(d)', peer[d] # None
          PROVE  inbox'[peer[d]] = <<>> /\ got[peer[d]] = 0
      <4>3. Mute(d)
        BY <3>1, <1>3 DEF Mute
      <4>1. d # e /\ peer[d] \in Ends
        <5>1. peer[d] \in Ends
          BY <3>1, <1>1 DEF TypeOK
        <5>2. d # e
          BY <4>3, <1>1, MuteApart DEF e
        <5> QED BY <5>1, <5>2
      <4>2. peer[d] # q
        BY <4>1, <3>1, <1>1, <1>2, PeersApart DEF q
      <4> QED BY <4>1, <4>2, <4>3, <3>1, <2>8, <1>1 DEF Silent
    <3> QED BY <3>1, <1>3 DEF Silent
  <2>14. Final(peer[EndOf(o)])' = next[o] + TotalLen[o] + k
    <3>1. peer'[EndOf(o)'] = q
      BY <1>3 DEF q, e
    <3> QED BY <3>1, <2>6, <2>8, <1>3 DEF Final, from
  <2>15. ASSUME NEW p \in Objects \ {o}, Open(p), At(p, "connected")
         PROVE  Received(peer[EndOf(p)])' = Received(peer[EndOf(p)])
    <3>1. EndOf(p) \in Ends /\ EndOf(p) # e
      BY <2>15, <1>1, EndsApart DEF e
    <3>2. peer[EndOf(p)] # None
      BY <3>1, <2>15, <1>1 DEF At, Paired, Linked
    <3>3. peer[EndOf(p)] \in Ends /\ peer[EndOf(p)] # q
      BY <3>1, <3>2, <1>1, <1>2, PeersApart DEF q, TypeOK
    <3> QED BY <3>3, <2>8, <1>3 DEF Received, Final
  <2> QED BY <2>10, <2>11, <2>12, <2>13, <2>14, <2>15
<1> QED BY <1>4, <1>5

\* A step that moves bytes and leaves every object its socket.
LEMMA MovesBytes ==
  ASSUME IInv, TypeOK', NEW o \in Objects, Open(o), Open(o)',
         UNCHANGED <<file, stage, peer, backlog, descriptor>>,
         \A p \in Objects \ {o} : /\ pc'[p] = pc[p] /\ next'[p] = next[p]
                                  /\ TotalLen'[p] = TotalLen[p],
         \A p \in Objects \ {o} : Open(p) /\ At(p, "connected") =>
              Received(peer[EndOf(p)])' = Received(peer[EndOf(p)]),
         UNCHANGED accept, pc[o] # "accepting", pc'[o] # "accepting",
         Paired', Exact', Silent', Counts(o)'
  PROVE  IInv'
<1>1. \A p : EndOf(p)' = EndOf(p)
  BY DEF EndOf
<1>2. \A p \in Objects : Open(p)' <=> Open(p)
  BY DEF Open
<1>6. Given' /\ \A f : Loose(f)' <=> Loose(f)
  <2>1. Given /\ UNCHANGED accept /\ \A p \in Objects : pc'[p] = "accepting" <=> pc[p] = "accepting"
    BY DEF IInv
  <2>2. \A f \in Descriptors : Loose(f) =>
          file'[f] # None /\ \A p \in Objects : Open(p)' => descriptor'[p] # f
    BY <1>2 DEF IInv, Given
  <2> QED BY <2>1, <2>2, GivenKept
<1>3. Owned'
  <2>1. \A p \in Objects : pc'[p] \in {"sending", "accepting"} => descriptor'[p] # SOCKET_ERROR
    BY DEF IInv, Owned, Open
  <2> QED BY <2>1, <1>2, <1>6 DEF IInv, Owned
<1>4. Placed'
  <2>1. Placed /\ file' = file /\ stage' = stage /\ backlog' = backlog
    BY DEF IInv
  <2> QED BY ONLY <2>1 DEF Placed, Distinct, Live, Waiting
<1>5. ASSUME NEW p \in Objects \ {o} PROVE Counts(p)'
  <2>1. Open(p) /\ stage'[EndOf(p)] = "connected" => At(p, "connected")
    BY EndsApart, SocketAssumption DEF At, IInv
  <2> QED BY <2>1, <1>1, OthersCount
<1> QED BY <1>3, <1>4, <1>5, <1>6 DEF IInv

\* A short message.
LEMMA SendShortOK ==
  ASSUME IInv, NEW o \in Objects, NEW n \in 1 .. MaxBytes - next[o], SendShort(o, n)
  PROVE  IInv'
<1>1. n \in Nat
  BY SocketAssumption DEF IInv, TypeOK
<1>2. PICK k \in 1 .. n : Takes(EndOf(o), next[o], k) /\ next' = [next EXCEPT ![o] = @ + k]
  BY DEF SendShort
<1>3. k \in Nat \ {0}
  BY <1>1
<1>4. /\ pc[o] = "idle" /\ Stream(o)
      /\ file' = file /\ stage' = stage /\ peer' = peer /\ backlog' = backlog /\ got' = got
      /\ torn' = torn /\ descriptor' = descriptor /\ pc' = pc /\ len' = len
      /\ TotalLen' = TotalLen /\ new_fd' = new_fd /\ orphans' = orphans
  BY DEF SendShort, accept
<1>5. Open(o) /\ Open(o)'
  BY <1>4 DEF Stream, At, EndOf, Open, InUse
<1>6. TotalLen[o] = 0 /\ next[o] \in Nat /\ next[o] + TotalLen[o] = next[o]
  BY <1>4 DEF IInv, Counts, TypeOK
<1>7. Takes(EndOf(o), next[o] + TotalLen[o], k)
  BY <1>2, <1>6
<1>8. /\ inbox' \in [Ends -> Seq(Nat)] /\ Paired' /\ Exact' /\ Silent'
      /\ At(o, "connected") =>
           Final(peer[EndOf(o)])' = next[o] + TotalLen[o] + k
      /\ \A p \in Objects \ {o} : Open(p) /\ At(p, "connected") =>
           Received(peer[EndOf(p)])' = Received(peer[EndOf(p)])
  <2>1. \A f : Loose(f)' => Loose(f)
    BY <1>4 DEF Loose
  <2> QED BY <2>1, <1>3, <1>4, <1>5, <1>7, TakesOK
<1>9. next'[o] = next[o] + k /\ \A p \in Objects \ {o} : next'[p] = next[p]
  BY <1>2 DEF IInv, TypeOK
<1>10. next' \in [Objects -> Nat]
  BY <1>2, <1>3 DEF IInv, TypeOK
<1>11. TypeOK'
  BY <1>4, <1>8, <1>10 DEF IInv, TypeOK
<1>12. Counts(o)'
  <2>1. \A s : At(o, s)' <=> At(o, s)
    BY <1>4 DEF At, EndOf
  <2>2. ~At(o, "new") /\ descriptor[o] # SOCKET_ERROR
    BY <1>4, <1>5 DEF Stream, At, Open
  <2>4. At(o, "connected")' => Told(peer[EndOf(o)], next[o], TotalLen[o])'
    <3>1. At(o, "connected")' => Final(peer[EndOf(o)])' = next'[o] /\ TotalLen'[o] = 0
      BY <2>1, <1>4, <1>6, <1>8, <1>9
    <3> QED BY <3>1 DEF Told, Goes
  <2> QED BY <2>1, <2>2, <2>4, <1>4, <1>6 DEF Counts
<1>13. UNCHANGED accept /\ pc[o] # "accepting" /\ pc'[o] # "accepting"
  BY <1>4 DEF accept
<1> QED BY <1>4, <1>5, <1>8, <1>9, <1>11, <1>12, <1>13, MovesBytes

\* A pass of the loop of Send.
LEMMA SendPartOK == ASSUME IInv, NEW o \in Objects, SendPart(o) PROVE IInv'
<1>1. TypeOK /\ Counts(o) /\ Owned
  BY DEF IInv
<1>2. PICK k \in 1 .. Asked(o) :
        /\ Takes(EndOf(o), next[o] + TotalLen[o], k)
        /\ IF TotalLen[o] + k < len[o]
           THEN /\ TotalLen' = [TotalLen EXCEPT ![o] = @ + k]
                /\ UNCHANGED <<pc, next, len>>
           ELSE /\ next' = [next EXCEPT ![o] = @ + TotalLen[o] + k]
                /\ pc' = [pc EXCEPT ![o] = "idle"]
                /\ len' = [len EXCEPT ![o] = 0] /\ TotalLen' = [TotalLen EXCEPT ![o] = 0]
  BY DEF SendPart
<1>3. k \in Nat \ {0}
  BY <1>1, AskedIsInt
<1>4. /\ pc[o] = "sending"
      /\ file' = file /\ stage' = stage /\ peer' = peer /\ backlog' = backlog /\ got' = got
      /\ torn' = torn /\ descriptor' = descriptor /\ new_fd' = new_fd /\ orphans' = orphans
  BY DEF SendPart, accept
<1>5. next[o] \in Nat /\ TotalLen[o] \in Nat
  BY <1>1 DEF TypeOK
<1>6. /\ next' \in [Objects -> Nat] /\ TotalLen' \in [Objects -> Nat] /\ len' \in [Objects -> Nat]
      /\ pc' \in [Objects -> PCs]
  <2>1. /\ next' \in [Objects -> Nat] /\ TotalLen' \in [Objects -> Nat] /\ len' \in [Objects -> Nat]
    <3>1. TotalLen[o] + k \in Nat /\ next[o] + TotalLen[o] + k \in Nat
      BY <1>3, <1>5
    <3>2. CASE TotalLen[o] + k < len[o]
      BY <3>1, <3>2, <1>1, <1>2 DEF TypeOK
    <3>3. CASE ~(TotalLen[o] + k < len[o])
      <4>1. /\ next' = [next EXCEPT ![o] = @ + TotalLen[o] + k]
            /\ len' = [len EXCEPT ![o] = 0] /\ TotalLen' = [TotalLen EXCEPT ![o] = 0]
        BY <3>3, <1>2
      <4> QED BY <3>1, <4>1, <1>1 DEF TypeOK
    <3> QED BY <3>2, <3>3
  <2>2. pc' \in [Objects -> PCs]
    BY <1>1, <1>2 DEF TypeOK, PCs, InUse
  <2> QED BY <2>1, <2>2
<1>7. /\ pc'[o] \in {"idle", "sending"} /\ (pc'[o] = "idle" => TotalLen'[o] = 0)
      /\ next'[o] + TotalLen'[o] = next[o] + TotalLen[o] + k
  BY <1>1, <1>2, <1>3, <1>4, <1>5 DEF TypeOK
<1>8. \A p \in Objects \ {o} : pc'[p] = pc[p] /\ next'[p] = next[p] /\ TotalLen'[p] = TotalLen[p]
  BY <1>1, <1>2 DEF TypeOK
<1>9. Open(o) /\ Open(o)' /\ Stream(o)
  BY <1>1, <1>4, <1>7 DEF Owned, Open, InUse, Counts
<1>10. /\ inbox' \in [Ends -> Seq(Nat)] /\ Paired' /\ Exact' /\ Silent'
       /\ At(o, "connected") =>
            Final(peer[EndOf(o)])' = next[o] + TotalLen[o] + k
       /\ \A p \in Objects \ {o} : Open(p) /\ At(p, "connected") =>
            Received(peer[EndOf(p)])' = Received(peer[EndOf(p)])
  <2>1. \A f : Loose(f)' => Loose(f)
    <3>1. \A p \in Objects : pc'[p] = "accepting" => pc[p] = "accepting"
      BY <1>7, <1>8
    <3> QED BY <3>1, <1>4 DEF Loose
  <2> QED BY <2>1, <1>2, <1>3, <1>4, <1>9, TakesOK
<1>11. TypeOK'
  BY <1>1, <1>4, <1>6, <1>10 DEF TypeOK
<1>12. Counts(o)'
  <2>1. \A s : At(o, s)' <=> At(o, s)
    BY <1>4 DEF At, EndOf
  <2>2. ~At(o, "new") /\ descriptor[o] # SOCKET_ERROR /\ Stream(o)'
    BY <2>1, <1>9 DEF Stream, At, Open
  <2>4. At(o, "connected")' => Told(peer[EndOf(o)], next[o], TotalLen[o])'
    <3>1. At(o, "connected")' => Final(peer[EndOf(o)])' = next'[o] + TotalLen'[o]
      BY <2>1, <1>7, <1>10
    <3>2. next'[o] + 0 = next'[o]
      BY <1>6
    <3> QED BY <3>1, <3>2 DEF Told, Goes
  <2> QED BY <2>1, <2>2, <2>4, <1>4, <1>7 DEF Counts
<1>13. UNCHANGED accept /\ pc[o] # "accepting" /\ pc'[o] # "accepting"
  BY <1>4, <1>7 DEF accept
<1> QED BY <1>4, <1>8, <1>9, <1>10, <1>11, <1>12, <1>13, MovesBytes

\* A send that fails: the way back is known to the stream of the peer.
LEMMA SendFailsOK == ASSUME IInv, NEW o \in Objects, SendFails(o) PROVE IInv'
<1> DEFINE e == EndOf(o)
           q == peer[e]
           back == <<next[o] + TotalLen[o], next[o]>>
<1>1. TypeOK /\ Owned /\ Given /\ Placed /\ Paired /\ Exact /\ Silent /\ Counts(o)
  BY DEF IInv
<1>2. /\ pc[o] = "sending"
      /\ torn' = IF q = None \/ TotalLen[o] = 0 THEN torn
                 ELSE [torn EXCEPT ![q] = @ \cup {back}]
      /\ pc' = [pc EXCEPT ![o] = "idle"]
      /\ len' = [len EXCEPT ![o] = 0] /\ TotalLen' = [TotalLen EXCEPT ![o] = 0]
      /\ file' = file /\ stage' = stage /\ peer' = peer /\ backlog' = backlog
      /\ inbox' = inbox /\ got' = got /\ descriptor' = descriptor /\ next' = next
      /\ new_fd' = new_fd /\ orphans' = orphans
  BY DEF SendFails, accept
<1>3. /\ pc'[o] = "idle" /\ TotalLen'[o] = 0
      /\ \A p \in Objects \ {o} : pc'[p] = pc[p] /\ TotalLen'[p] = TotalLen[p]
  BY <1>1, <1>2 DEF TypeOK
<1>4. Open(o) /\ Open(o)' /\ Stream(o)
  BY <1>1, <1>2, <1>3 DEF Owned, Open, InUse, Counts
<1>5. e \in Ends /\ q \in Ends \cup {None} /\ EndOf(o)' = e
  <2>1. e \in Ends
    BY <1>1, <1>4, EndsApart
  <2>2. EndOf(o)' = e
    BY <1>2 DEF EndOf
  <2> QED BY <2>1, <2>2, <1>1 DEF TypeOK
<1>6. next[o] \in Nat /\ TotalLen[o] \in Nat /\ back \in Nat \X Nat
  BY <1>1 DEF TypeOK
<1> HIDE DEF e, q, back
<1>7. /\ \A d \in Ends : torn[d] \subseteq torn'[d] /\ (d # q => torn'[d] = torn[d])
      /\ q # None /\ TotalLen[o] # 0 => back \in torn'[q]
  BY <1>1, <1>2, <1>5 DEF TypeOK
<1>8. TypeOK'
  <2>1. torn' \in [Ends -> SUBSET (Nat \X Nat)]
    BY <1>1, <1>2, <1>5, <1>6 DEF TypeOK
  <2> QED BY <2>1, <1>1, <1>2 DEF TypeOK, PCs, InUse
<1>9. Paired'
  BY <1>1, <1>2 DEF Paired, Linked, Mutual, Blank
<1>10. Exact'
  <2>1. \A T, U : T \subseteq U => \A n, u : Chain(T, n, u) => Chain(U, n, u)
    BY DEF Chain, Goes
  <2> QED BY <2>1, <1>1, <1>2, <1>7 DEF Exact
<1>11. Silent'
  <2>1. \A f : Loose(f)' => Loose(f)
    <3>1. \A p \in Objects : pc'[p] = "accepting" => pc[p] = "accepting"
      BY <1>3
    <3> QED BY <3>1, <1>2 DEF Loose
  <2>2. \A d \in Ends : Mute(d)' => Mute(d)
    BY <2>1, <1>2 DEF Mute
  <2> QED BY <2>2, <1>1, <1>2, SilentKept
<1>12. Counts(o)'
  <2>1. \A s : At(o, s)' <=> At(o, s)
    BY <1>2 DEF At, EndOf
  <2>2. ~At(o, "new") /\ descriptor'[o] # SOCKET_ERROR
    BY <1>4 DEF Stream, At, Open
  <2>3. ASSUME At(o, "connected") PROVE Told(q, next[o], TotalLen[o])'
    <3>1. Told(q, next[o], TotalLen[o]) /\ q # None
      BY <2>3, <1>1, <1>2, <1>5 DEF Counts, At, Paired, Linked, q, e
    <3>2. Final(q)' = Final(q) /\ q' = q
      BY <1>2, <1>5 DEF Final, q, e
    <3>3. CASE TotalLen[o] = 0
      <4>1. Goes(torn[q], Final(q), next[o])
        BY <3>1, <3>3 DEF Told
      <4>2. Goes(torn'[q], Final(q), next[o])
        BY <4>1, <3>1, <1>5, <1>7 DEF Goes
      <4> QED BY <4>2, <3>2, <1>2, <1>3 DEF Told
    <3>4. CASE TotalLen[o] # 0
      <4>1. Final(q) = next[o] + TotalLen[o] /\ next[o] < Final(q)
        BY <3>1, <3>4, <1>6 DEF Told
      <4>2. <<Final(q), next[o]>> \in torn'[q]
        BY <4>1, <3>1, <3>4, <1>7 DEF back
      <4>3. Goes(torn'[q], Final(q), next[o])
        BY <4>1, <4>2 DEF Goes
      <4> QED BY <4>3, <3>2, <1>2, <1>3 DEF Told
    <3> QED BY <3>3, <3>4
  <2>4. At(o, "connected")' => Told(peer[EndOf(o)], next[o], TotalLen[o])'
    BY <2>1, <2>3 DEF q, e
  <2> QED BY <2>1, <2>2, <2>4, <1>3 DEF Counts
<1>13. \A p \in Objects \ {o} : Open(p) /\ At(p, "connected") =>
         Received(peer[EndOf(p)])' = Received(peer[EndOf(p)])
  <2> TAKE p \in Objects \ {o}
  <2> SUFFICES ASSUME Open(p), At(p, "connected")
               PROVE  Received(peer[EndOf(p)])' = Received(peer[EndOf(p)])
    OBVIOUS
  <2>1. EndOf(p) \in Ends /\ EndOf(p) # e
    BY <1>1, <1>4, EndsApart DEF e
  <2>2. peer[EndOf(p)] # None /\ peer[EndOf(p)] \in Ends
    BY <2>1, <1>1 DEF At, Paired, Linked, TypeOK
  <2>3. peer[EndOf(p)] # q
    BY <2>1, <2>2, <1>1, <1>5, PeersApart DEF q
  <2>4. EndOf(p)' = EndOf(p)
    BY <1>2 DEF EndOf
  <2> QED BY <2>2, <2>3, <2>4, <1>2, <1>7 DEF Received, Final
<1>14. UNCHANGED accept
  BY <1>2 DEF accept
<1> QED BY <1>2, <1>3, <1>4, <1>8, <1>9, <1>10, <1>11, <1>12, <1>13, <1>14, MovesBytes

\* A read takes the first bytes that wait.
LEMMA RecvOK == ASSUME IInv, NEW o \in Objects, Recv(o) PROVE IInv'
<1> DEFINE e == EndOf(o)
<1>1. TypeOK /\ Owned /\ Given /\ Placed /\ Paired /\ Exact /\ Silent /\ Counts(o)
  BY DEF IInv
<1>2. PICK k \in 1 .. Len(inbox[e]) :
        /\ inbox' = [inbox EXCEPT ![e] = SubSeq(@, k + 1, Len(@))]
        /\ got' = [got EXCEPT ![e] = inbox[e][k]]
  BY DEF Recv
<1>3. /\ pc[o] = "idle" /\ Stream(o)
      /\ file' = file /\ stage' = stage /\ peer' = peer /\ backlog' = backlog
      /\ descriptor' = descriptor /\ pc' = pc /\ next' = next /\ len' = len
      /\ TotalLen' = TotalLen /\ torn' = torn /\ new_fd' = new_fd /\ orphans' = orphans
  BY DEF Recv, thread, accept
<1>4. Open(o) /\ Open(o)'
  BY <1>3 DEF Stream, At, EndOf, Open, InUse
<1>5. e \in Ends /\ stage[e] \in {"connected", "hung up"} /\ e = file[descriptor[o]]
      /\ descriptor[o] \in Descriptors
  BY <1>1, <1>3, <1>4, EndsApart DEF Stream, At
<1>6. inbox[e] \in Seq(Nat) /\ got[e] \in Nat /\ Len(inbox[e]) \in Nat
  <2>1. inbox[e] \in Seq(Nat) /\ got[e] \in Nat
    BY <1>1, <1>5 DEF TypeOK
  <2> QED BY <2>1
<1> HIDE DEF e
<1>7. /\ inbox'[e] = SubSeq(inbox[e], k + 1, Len(inbox[e])) /\ got'[e] = inbox[e][k]
      /\ \A d \in Ends \ {e} : inbox'[d] = inbox[d] /\ got'[d] = got[d]
  BY <1>1, <1>2, <1>5 DEF TypeOK
<1>8. k \in Nat /\ k <= Len(inbox[e]) /\ inbox[e][k] \in Nat
  BY <1>6
<1> DEFINE t == SubSeq(inbox[e], k + 1, Len(inbox[e]))
<1>9. /\ t \in Seq(Nat) /\ Chain(torn[e], inbox[e][k], t)
      /\ LastOf(inbox[e][k], t) = LastOf(got[e], inbox[e])
  <2>1. Chain(torn[e], got[e], inbox[e])
    BY <1>1, <1>5 DEF Exact
  <2> QED BY <2>1, <1>6, ChainSkip
<1> HIDE DEF t
<1>10. TypeOK'
  <2>1. inbox' \in [Ends -> Seq(Nat)]
    BY <1>1, <1>2, <1>9 DEF TypeOK, t
  <2>2. got' \in [Ends -> Nat]
    <3> QED BY <1>1, <1>2, <1>8 DEF TypeOK
  <2> QED BY <2>1, <2>2, <1>1, <1>3 DEF TypeOK
<1>11. Paired'
  <2>1. Linked' /\ Mutual'
    BY <1>1, <1>3 DEF Paired, Linked, Mutual
  <2>2. Blank'
    BY <1>1, <1>3, <1>5, <1>7 DEF Paired, Blank
  <2> QED BY <2>1, <2>2 DEF Paired
<1>12. Exact'
  <2>1. ASSUME NEW d \in Ends \ {e} PROVE Chain(torn'[d], got'[d], inbox'[d])
    BY <1>1, <1>3, <1>7 DEF Exact
  <2>2. Chain(torn'[e], got'[e], inbox'[e])
    BY <1>3, <1>7, <1>9 DEF t
  <2> QED BY <2>1, <2>2 DEF Exact
<1>13. Silent'
  <2>4. \A f : Loose(f)' => Loose(f)
    BY <1>3 DEF Loose
  <2>1. ASSUME NEW d \in Ends, Mute(d)', peer[d] # None
        PROVE  inbox'[peer[d]] = <<>> /\ got'[peer[d]] = 0
    <3>4. Mute(d)
      BY <2>1, <2>4, <1>3 DEF Mute
    <3>1. inbox[peer[d]] = <<>> /\ got[peer[d]] = 0
      BY <3>4, <2>1, <1>1 DEF Silent
    <3>2. peer[d] # e
      BY <3>1, <1>8
    <3>3. peer[d] \in Ends
      BY <2>1, <1>1 DEF TypeOK
    <3> QED BY <3>1, <3>2, <3>3, <1>7
  <2> QED BY <2>1, <1>3 DEF Silent
<1>14. \A d \in Ends : Received(d)' = Received(d)
  BY <1>3, <1>7, <1>9 DEF Received, Final, t
<1>15. \A p \in Objects : Open(p) /\ At(p, "connected") =>
         Received(peer[EndOf(p)])' = Received(peer[EndOf(p)])
  <2>1. ASSUME NEW p \in Objects, Open(p), At(p, "connected") PROVE peer[EndOf(p)] \in Ends
    <3>1. EndOf(p) \in Ends /\ stage[EndOf(p)] = "connected"
      BY <2>1, <1>1, EndsApart DEF At
    <3>2. peer[EndOf(p)] # None
      BY <3>1, <1>1 DEF Paired, Linked
    <3> QED BY <3>1, <3>2, <1>1 DEF TypeOK
  <2>2. \A p : peer'[EndOf(p)'] = peer[EndOf(p)]
    BY <1>3 DEF EndOf
  <2> QED BY <2>1, <2>2, <1>14 DEF Received
<1>16. Counts(o)'
  <2>1. EndOf(o)' = EndOf(o) /\ \A s : At(o, s)' <=> At(o, s)
    BY <1>3 DEF At, EndOf
  <2>2. ~At(o, "new") /\ descriptor[o] # SOCKET_ERROR
    BY <1>3, <1>4 DEF Stream, At, Open
  <2>3. ASSUME At(o, "connected") PROVE Told(peer[EndOf(o)], next[o], TotalLen[o])'
    <3>1. Told(peer[EndOf(o)], next[o], TotalLen[o])
      BY <2>3, <1>1, <1>3 DEF Counts
    <3>2. peer'[EndOf(o)'] = peer[EndOf(o)] /\ Received(peer[EndOf(o)])' = Received(peer[EndOf(o)])
      BY <2>3, <1>3, <1>4, <1>15, <2>1
    <3> QED BY <3>1, <3>2, <1>3 DEF Told, Received
  <2> QED BY <2>1, <2>2, <2>3, <1>1, <1>3, <1>4 DEF Counts
<1>17. UNCHANGED accept
  BY <1>3 DEF accept
<1> QED BY <1>3, <1>4, <1>10, <1>11, <1>12, <1>13, <1>15, <1>16, <1>17, MovesBytes

-------------------------------------------------------------------------------
\* Every step keeps what is known.
LEMMA StepOK == ASSUME IInv, [Next]_vars PROVE IInv'
<1>1. CASE UNCHANGED vars
  <2>1. /\ file' = file /\ stage' = stage /\ peer' = peer /\ backlog' = backlog
        /\ inbox' = inbox /\ got' = got /\ descriptor' = descriptor /\ pc' = pc
        /\ torn' = torn /\ new_fd' = new_fd /\ orphans' = orphans
        /\ next' = next /\ len' = len /\ TotalLen' = TotalLen /\ UNCHANGED kernel
    BY <1>1 DEF vars, kernel, thread, accept
  <2>5. \A f : Loose(f)' <=> Loose(f)
    BY <2>1 DEF Loose
  <2>6. \A o : Open(o)' <=> Open(o)
    BY <2>1 DEF Open
  <2>2. TypeOK' /\ Owned' /\ Given'
    BY <2>1, <2>5, <2>6 DEF IInv, TypeOK, Owned, Given
  <2>3. Placed' /\ Paired' /\ Exact' /\ Silent'
    BY <2>1, <2>5, KernelKept DEF IInv
  <2>4. \A o \in Objects : Counts(o)'
    <3> TAKE o \in Objects
    <3>1. EndOf(o)' = EndOf(o) /\ \A e : Received(e)' = Received(e)
      BY <2>1 DEF EndOf, Received, Final
    <3> QED BY <2>1, <3>1, OthersCount
  <2> QED BY <2>2, <2>3, <2>4 DEF IInv
<1>2. CASE Next
  <2>1. PICK o \in Objects : Step(o)
    BY <1>2 DEF Next
  <2>2. CASE Construct(o)
    BY <2>2, ConstructOK
  <2>3. CASE Listen(o)
    BY <2>3, ListenOK
  <2>4. CASE Connect(o)
    BY <2>4, ConnectOK
  <2>5. CASE Accept(o)
    BY <2>5, AcceptOK
  <2>6. CASE CallClose(o)
    BY <2>6, CloseOK DEF CallClose
  <2>7. CASE Delete(o)
    BY <2>7, CloseOK DEF Delete
  <2>8. CASE Clear(o)
    BY <2>8, ClearOK
  <2>9. CASE DeleteClosed(o)
    BY <2>9, DeleteClosedOK
  <2>10. ASSUME NEW n \in 1 .. MaxBytes - next[o], SendShort(o, n) PROVE IInv'
    BY <2>10, SendShortOK
  <2>11. ASSUME NEW n \in 1 .. MaxBytes - next[o], SendLong(o, n) PROVE IInv'
    BY <2>11, SendLongOK
  <2>12. CASE SendPart(o)
    BY <2>12, SendPartOK
  <2>13. CASE SendFails(o)
    BY <2>13, SendFailsOK
  <2>14. CASE Recv(o)
    BY <2>14, RecvOK
  <2>15. CASE AcceptReturns(o)
    BY <2>15, AcceptReturnsOK
  <2>16. CASE AcceptFails(o)
    BY <2>16, AcceptFailsOK
  <2> QED BY <2>1, <2>2, <2>3, <2>4, <2>5, <2>6, <2>7, <2>8, <2>9, <2>10, <2>11, <2>12,
             <2>13, <2>14, <2>15, <2>16 DEF Step
<1> QED BY <1>1, <1>2

\* Types, ownership of descriptors, pairs of ends, the bytes on their way and what the
\* threads count hold in every state of every run.
THEOREM Invariance == Spec => []IInv
BY InitOK, StepOK, PTL DEF Spec

\* The bytes of a stream by their index in the property and in the proof.
LEMMA StandsIs ==
  ASSUME TypeOK, NEW e \in Ends
  PROVE  /\ Last(Stands(e)) = Final(e)
         /\ \A i \in 1 .. Len(inbox[e]) : Stands(e)[i] = IF i = 1 THEN got[e] ELSE inbox[e][i - 1]
<1> DEFINE s == inbox[e]
           n == got[e]
           u == <<n>> \o s
<1>1. s \in Seq(Nat) /\ n \in Nat /\ Len(s) \in Nat
  <2>1. s \in Seq(Nat) /\ n \in Nat
    BY DEF TypeOK
  <2> QED BY <2>1
<1>2. Stands(e) = u
  BY DEF Stands
<1> HIDE DEF s, n
<1>3. <<n>> \in Seq(Nat) /\ Len(<<n>>) = 1 /\ <<n>>[1] = n
  BY <1>1
<1>4. /\ Len(u) = 1 + Len(s)
      /\ \A i \in 1 .. 1 + Len(s) : u[i] = IF i <= 1 THEN <<n>>[i] ELSE s[i - 1]
  BY <1>1, <1>3, ConcatProperties
<1> HIDE DEF u
<1>5. \A i \in 1 .. 1 + Len(s) : u[i] = IF i = 1 THEN n ELSE s[i - 1]
  BY <1>1, <1>3, <1>4
<1>6. u[Len(u)] = LastOf(n, s)
  <2>1. Len(u) \in 1 .. 1 + Len(s) /\ Len(u) - 1 = Len(s)
    BY <1>1, <1>4
  <2> QED BY <2>1, <1>1, <1>4, <1>5 DEF LastOf
<1>7. \A i \in 1 .. Len(s) : u[i] = IF i = 1 THEN n ELSE s[i - 1]
  BY <1>1, <1>5
<1> QED BY <1>2, <1>6, <1>7 DEF Last, Final, s, n

\* What is read from a connection and waits to be read is in order, up to the last byte
\* that the sender knows of, whatever part of a message send takes; where one fails half
\* way, the stream goes back to where its sender was told it was, and never skips a byte.
THEOREM StreamIsAlwaysExact == Spec => []StreamIsExact
<1>1. IInv => StreamIsExact
  <2> SUFFICES ASSUME IInv PROVE StreamIsExact
    OBVIOUS
  <2>0. TypeOK /\ Owned /\ Placed /\ Paired /\ Exact
    BY DEF IInv
  <2>1. ASSUME NEW e \in Ends, NEW i \in 1 .. Len(inbox[e])
        PROVE  Follows(e, Stands(e)[i], inbox[e][i] - 1)
    <3>1. Stands(e)[i] = IF i = 1 THEN got[e] ELSE inbox[e][i - 1]
      BY <2>0, StandsIs
    <3>2. Goes(torn[e], Stands(e)[i], inbox[e][i] - 1)
      BY <2>0, <3>1 DEF Exact, Chain
    <3> QED BY <3>2 DEF Goes, Follows
  <2>2. ASSUME NEW o \in Objects, pc[o] \in {"idle", "sending"}, At(o, "connected")
        PROVE  Follows(peer[EndOf(o)], Last(Stands(peer[EndOf(o)])), next[o] + TotalLen[o])
    <3> DEFINE p == peer[EndOf(o)]
    <3>1. Told(p, next[o], TotalLen[o]) /\ next[o] \in Nat /\ TotalLen[o] \in Nat
      BY <2>2 DEF IInv, Counts, TypeOK
    <3>2. Goes(torn[p], Final(p), next[o] + TotalLen[o])
      BY <3>1, ToldGoes
    <3>3. p \in Ends
      <4>1. EndOf(o) \in Ends /\ stage[EndOf(o)] = "connected"
        BY <2>0, <2>2 DEF At, EndOf, TypeOK
      <4>2. peer[EndOf(o)] # None
        BY <4>1, <2>0 DEF Paired, Linked
      <4> QED BY <4>1, <4>2, <2>0 DEF TypeOK
    <3>4. Last(Stands(p)) = Final(p)
      BY <3>3, <2>0, StandsIs
    <3> QED BY <3>2, <3>4 DEF Goes, Follows
  <2> QED BY <2>1, <2>2 DEF StreamIsExact
<1> QED BY <1>1, Invariance, PTL

\* A descriptor in the table is that of one object outside the last step of Close or of
\* the Accept that makes its object, however the kernel gives the numbers again, and no
\* object uses one that is not in the table; only a failed Accept leaves one to nobody.
THEOREM DescriptorsAreAlwaysOwned == Spec => []DescriptorsAreOwned
<1>1. IInv => DescriptorsAreOwned
  <2> SUFFICES ASSUME IInv, NEW f \in Descriptors
               PROVE  /\ f \in orphans => file[f] # None
                      /\ IF file[f] = None \/ f \in orphans THEN Holder(f) = {}
                         ELSE \E o \in Objects : Holder(f) = {o}
    BY DEF DescriptorsAreOwned
  <2>0. Owned /\ Given
    BY DEF IInv
  <2>1. f # SOCKET_ERROR
    BY SocketAssumption DEF Descriptors, SOCKET_ERROR
  <2>2. Holder(f) = {o \in Objects : \/ Open(o) /\ descriptor[o] = f
                                     \/ pc[o] = "accepting" /\ new_fd[o] = f}
    BY <2>1 DEF Holder, Open, InUse, PCs, IInv, TypeOK
  <2>3. f \in orphans => file[f] # None
    BY <2>0 DEF Given, Loose
  <2>4. CASE file[f] = None
    <3>1. \A o \in Objects : ~(Open(o) /\ descriptor[o] = f)
      BY <2>0, <2>4 DEF Owned
    <3>2. \A o \in Objects : ~(pc[o] = "accepting" /\ new_fd[o] = f)
      BY <2>0, <2>4 DEF Given, Loose
    <3> QED BY <2>2, <2>3, <2>4, <3>1, <3>2
  <2>5. CASE f \in orphans
    <3>1. \A o \in Objects : ~(Open(o) /\ descriptor[o] = f)
      BY <2>0, <2>5 DEF Given, Loose
    <3>2. \A o \in Objects : ~(pc[o] = "accepting" /\ new_fd[o] = f)
      BY <2>0, <2>5 DEF Given
    <3> QED BY <2>2, <2>3, <2>5, <3>1, <3>2
  <2>6. CASE file[f] # None /\ f \notin orphans
    <3>1. CASE \E o \in Objects : Open(o) /\ descriptor[o] = f
      <4>1. PICK o \in Objects : Open(o) /\ descriptor[o] = f
        BY <3>1
      <4>2. \A p \in Objects : Open(p) /\ descriptor[p] = f => p = o
        BY <4>1, <2>0 DEF Owned
      <4>3. \A p \in Objects : ~(pc[p] = "accepting" /\ new_fd[p] = f)
        BY <4>1, <2>0 DEF Given, Loose
      <4>4. Holder(f) = {o}
        BY <2>2, <4>1, <4>2, <4>3
      <4> QED BY <4>4, <2>6
    <3>2. CASE ~\E o \in Objects : Open(o) /\ descriptor[o] = f
      <4>1. PICK o \in Objects : pc[o] = "accepting" /\ new_fd[o] = f
        BY <3>2, <2>0, <2>6 DEF Owned, Loose
      <4>2. \A p \in Objects : pc[p] = "accepting" /\ new_fd[p] = f => p = o
        BY <4>1, <2>0 DEF Given
      <4>3. Holder(f) = {o}
        BY <2>2, <3>2, <4>1, <4>2
      <4> QED BY <4>3, <2>6
    <3> QED BY <3>1, <3>2
  <2> QED BY <2>4, <2>5, <2>6
<1> QED BY <1>1, Invariance, PTL
================================================================================
