-------------------------------- MODULE Socket --------------------------------
(* Stream sockets (Socket.cpp): objects that open, listen, connect, accept, send, *)
(* receive and close, each used by a thread of its own, over one table of         *)
(* descriptors whose numbers the kernel gives again as soon as they are closed.   *)
(* Datagrams, names and addresses are left out, and so are the calls that throw   *)
(* before they change anything: a first send that fails, or an accept that does.  *)
EXTENDS Integers, Sequences, SequencesExt, FiniteSetsExt

CONSTANTS
  Objects,       \* Socket objects
  Ends,          \* the kernel's side of a socket
  MaxDescriptor, \* the highest number the table has
  BufferSize,    \* TCP_BUFFER_SIZE
  Capacity,      \* bytes the kernel keeps for a receiver
  MaxBytes,      \* bound on the bytes a thread sends on one connection
  None

SOCKET_ERROR == -1
Descriptors == 0 .. MaxDescriptor

ASSUME SocketAssumption ==
  /\ MaxDescriptor \in Nat /\ BufferSize \in Nat \ {0, 1} /\ Capacity \in Nat \ {0}
  /\ MaxBytes \in Nat /\ None \notin Ends

VARIABLES
  file,          \* the end each descriptor stands for
  stage,         \* of an end: "unused", "new", "listening", "connected" or "hung up"
  peer, backlog, \* its peer; the ends a listener has not accepted yet
  inbox, got,    \* bytes to be read, each its place in the stream; the last one read
  torn,          \* history: where a Send to the end failed half way, the place of the
                 \* last byte that left and of the last one the sender was told of
  descriptor,    \* of an object
  pc,            \* "none" (no object), "idle", "sending", "accepting", and in Close
                 \* "clear" or "delete" (from the destructor)
  next,          \* the bytes the thread was told it sent on this connection
  len, TotalLen, \* arguments and progress of a Send of several parts
  new_fd,        \* what accept gave to an Accept that has no object for it yet
  orphans        \* history: the descriptors of an Accept that threw

kernel == <<file, stage, peer, backlog, inbox, got, torn>>
accept == <<new_fd, orphans>>
thread == <<next, len, TotalLen, accept>>
vars == <<kernel, descriptor, pc, thread>>

Init ==
  /\ file = [f \in Descriptors |-> None] /\ stage = [e \in Ends |-> "unused"]
  /\ peer = [e \in Ends |-> None] /\ backlog = [e \in Ends |-> {}]
  /\ inbox = [e \in Ends |-> <<>>] /\ got = [e \in Ends |-> 0]
  /\ torn = [e \in Ends |-> {}]
  /\ descriptor = [o \in Objects |-> SOCKET_ERROR] /\ pc = [o \in Objects |-> "none"]
  /\ next = [o \in Objects |-> 0] /\ len = [o \in Objects |-> 0]
  /\ TotalLen = [o \in Objects |-> 0]
  /\ new_fd = [o \in Objects |-> SOCKET_ERROR] /\ orphans = {}

-------------------------------------------------------------------------------
(* The kernel.                                                                   *)

Unused == {e \in Ends : stage[e] = "unused"}
FreeDescriptors == {f \in Descriptors : file[f] = None}
EndOf(o) == IF descriptor[o] = SOCKET_ERROR THEN None ELSE file[descriptor[o]]
At(o, s) == EndOf(o) # None /\ stage[EndOf(o)] = s
Stream(o) == At(o, "connected") \/ At(o, "hung up")
Room(e) == IF peer[e] = None THEN Capacity ELSE Capacity - Len(inbox[peer[e]])

\* close: the ends of the descriptor and of its backlog go, and their peers see it.
Close_(f) ==
  LET gone == {file[f]} \cup backlog[file[f]]
      left == {e \in Ends \ gone : peer[e] \in gone}
  IN  /\ file' = [file EXCEPT ![f] = None]
      /\ stage' = [e \in Ends |-> CASE e \in gone -> "unused" [] e \in left -> "hung up"
                                    [] OTHER -> stage[e]]
      /\ peer' = [e \in Ends |-> IF e \in gone \cup left THEN None ELSE peer[e]]
      /\ backlog' = [backlog EXCEPT ![file[f]] = {}]
      /\ inbox' = [e \in Ends |-> IF e \in gone THEN <<>> ELSE inbox[e]]
      /\ got' = [e \in Ends |-> IF e \in gone THEN 0 ELSE got[e]]
      /\ torn' = [e \in Ends |-> IF e \in gone THEN {} ELSE torn[e]]

\* send takes the first k bytes of the buffer that starts after byte `from`.
Takes(e, from, k) ==
  /\ k <= Room(e)
  /\ inbox' = IF peer[e] = None THEN inbox
              ELSE [inbox EXCEPT ![peer[e]] = @ \o [i \in 1 .. k |-> from + i]]

-------------------------------------------------------------------------------
(* The life of a descriptor.                                                     *)

\* Socket(TCP); it throws when the table is full.
Construct(o) ==
  /\ pc[o] = "none" /\ FreeDescriptors # {}
  /\ \E e \in Unused :
       /\ stage' = [stage EXCEPT ![e] = "new"]
       /\ file' = [file EXCEPT ![Min(FreeDescriptors)] = e]
  /\ descriptor' = [descriptor EXCEPT ![o] = Min(FreeDescriptors)]
  /\ pc' = [pc EXCEPT ![o] = "idle"]
  /\ UNCHANGED <<peer, backlog, inbox, got, torn, thread>>

\* Bind and Listen, and Bind can only fail before anything is changed.
Listen(o) ==
  /\ pc[o] = "idle" /\ At(o, "new")
  /\ stage' = [stage EXCEPT ![EndOf(o)] = "listening"]
  /\ UNCHANGED <<file, peer, backlog, inbox, got, torn, descriptor, pc, thread>>

\* The kernel answers for the listener, which accepts later.
Connect(o) ==
  /\ pc[o] = "idle" /\ At(o, "new")
  /\ \E l \in {e \in Ends : stage[e] = "listening"}, e \in Unused :
       /\ stage' = [stage EXCEPT ![EndOf(o)] = "connected", ![e] = "connected"]
       /\ peer' = [peer EXCEPT ![EndOf(o)] = e, ![e] = EndOf(o)]
       /\ backlog' = [backlog EXCEPT ![l] = @ \cup {e}]
  /\ UNCHANGED <<file, inbox, got, torn, descriptor, pc, thread>>

\* Accept, of a connection that select has seen: the call of accept, and then...
Accept(o) ==
  /\ pc[o] = "idle" /\ At(o, "listening") /\ FreeDescriptors # {}
  /\ \E e \in backlog[EndOf(o)] :
       /\ backlog' = [backlog EXCEPT ![EndOf(o)] = @ \ {e}]
       /\ file' = [file EXCEPT ![Min(FreeDescriptors)] = e]
  /\ new_fd' = [new_fd EXCEPT ![o] = Min(FreeDescriptors)]
  /\ pc' = [pc EXCEPT ![o] = "accepting"]
  /\ UNCHANGED <<stage, peer, inbox, got, torn, descriptor, next, len, TotalLen, orphans>>

\* ... the new object takes the descriptor and is returned, ...
AcceptReturns(o) ==
  /\ pc[o] = "accepting"
  /\ \E s \in {p \in Objects : pc[p] = "none"} :
       /\ descriptor' = [descriptor EXCEPT ![s] = new_fd[o]]
       /\ pc' = [pc EXCEPT ![o] = "idle", ![s] = "idle"]
  /\ new_fd' = [new_fd EXCEPT ![o] = SOCKET_ERROR]
  /\ UNCHANGED <<kernel, next, len, TotalLen, orphans>>

\* ... or there is no object, or getsockopt fails in SetDescriptor, which throws and
\* leaves an object nobody has: nothing closes the descriptor.
AcceptFails(o) ==
  /\ pc[o] = "accepting"
  /\ orphans' = orphans \cup {new_fd[o]}
  /\ new_fd' = [new_fd EXCEPT ![o] = SOCKET_ERROR]
  /\ pc' = [pc EXCEPT ![o] = "idle"]
  /\ UNCHANGED <<kernel, descriptor, next, len, TotalLen>>

\* Close, called or from the destructor: shutdown and close, and then the assignment.
Close(o, to) ==
  /\ pc[o] = "idle" /\ descriptor[o] # SOCKET_ERROR
  /\ Close_(descriptor[o])
  /\ pc' = [pc EXCEPT ![o] = to]
  /\ UNCHANGED <<descriptor, thread>>

CallClose(o) == Close(o, "clear")
Delete(o) == Close(o, "delete")

\* Variant: Close leaves the number in the object.
Clear_Missing(o) ==
  /\ pc[o] \in {"clear", "delete"}
  /\ pc' = [pc EXCEPT ![o] = IF @ = "clear" THEN "idle" ELSE "none"]
  /\ next' = [next EXCEPT ![o] = 0]
  /\ UNCHANGED <<kernel, descriptor, len, TotalLen, accept>>

Clear(o) ==
  /\ pc[o] \in {"clear", "delete"}
  /\ pc' = [pc EXCEPT ![o] = IF @ = "clear" THEN "idle" ELSE "none"]
  /\ descriptor' = [descriptor EXCEPT ![o] = SOCKET_ERROR]
  /\ next' = [next EXCEPT ![o] = 0]
  /\ UNCHANGED <<kernel, len, TotalLen, accept>>

\* The destructor of an object that is closed already.
DeleteClosed(o) ==
  /\ pc[o] = "idle" /\ descriptor[o] = SOCKET_ERROR
  /\ pc' = [pc EXCEPT ![o] = "none"]
  /\ UNCHANGED <<kernel, descriptor, thread>>

-------------------------------------------------------------------------------
(* Send and Recv.                                                                *)

\* A message below the limit is given to send once, which may take a part of it.
SendShort(o, n) ==
  /\ pc[o] = "idle" /\ Stream(o) /\ n <= BufferSize - 1
  /\ \E k \in 1 .. n : /\ Takes(EndOf(o), next[o], k)
                       /\ next' = [next EXCEPT ![o] = @ + k]
  /\ UNCHANGED <<file, stage, peer, backlog, got, torn, descriptor, pc, len, TotalLen,
                 accept>>

SendLong(o, n) ==
  /\ pc[o] = "idle" /\ Stream(o) /\ n > BufferSize - 1
  /\ pc' = [pc EXCEPT ![o] = "sending"]
  /\ len' = [len EXCEPT ![o] = n]
  /\ UNCHANGED <<kernel, descriptor, next, TotalLen, accept>>

Asked(o) == Min({len[o] - TotalLen[o], BufferSize - 1})

\* Variant: the loop counts the bytes it asked for, not those that were taken.
SendPart_CountsAsked(o) ==
  /\ pc[o] = "sending"
  /\ \E k \in 1 .. Asked(o) :
       /\ Takes(EndOf(o), next[o] + TotalLen[o], k)
       /\ TotalLen' = [TotalLen EXCEPT ![o] = @ + Asked(o)]
  /\ UNCHANGED <<file, stage, peer, backlog, got, torn, descriptor, pc, next, len, accept>>

\* A pass of the loop; the last one returns TotalLen.
SendPart(o) ==
  /\ pc[o] = "sending"
  /\ \E k \in 1 .. Asked(o) :
       /\ Takes(EndOf(o), next[o] + TotalLen[o], k)
       /\ IF TotalLen[o] + k < len[o]
          THEN /\ TotalLen' = [TotalLen EXCEPT ![o] = @ + k]
               /\ UNCHANGED <<pc, next, len>>
          ELSE /\ next' = [next EXCEPT ![o] = @ + TotalLen[o] + k]
               /\ pc' = [pc EXCEPT ![o] = "idle"]
               /\ len' = [len EXCEPT ![o] = 0] /\ TotalLen' = [TotalLen EXCEPT ![o] = 0]
  /\ UNCHANGED <<file, stage, peer, backlog, got, torn, descriptor, accept>>

\* send fails in the loop, of the connection or of a signal, and Send throws: what an
\* earlier pass sent is sent, and the caller is not told how much it was. The socket
\* stays open, and a repeat of the message or another one goes on at `next`.
SendFails(o) ==
  /\ pc[o] = "sending"
  /\ torn' = LET p == peer[EndOf(o)]
             IN  IF p = None \/ TotalLen[o] = 0 THEN torn
                 ELSE [torn EXCEPT ![p] = @ \cup {<<next[o] + TotalLen[o], next[o]>>}]
  /\ pc' = [pc EXCEPT ![o] = "idle"]
  /\ len' = [len EXCEPT ![o] = 0] /\ TotalLen' = [TotalLen EXCEPT ![o] = 0]
  /\ UNCHANGED <<file, stage, peer, backlog, inbox, got, descriptor, next, accept>>

Recv(o) ==
  /\ pc[o] = "idle" /\ Stream(o)
  /\ \E k \in 1 .. Len(inbox[EndOf(o)]) :
       /\ inbox' = [inbox EXCEPT ![EndOf(o)] = SubSeq(@, k + 1, Len(@))]
       /\ got' = [got EXCEPT ![EndOf(o)] = inbox[EndOf(o)][k]]
  /\ UNCHANGED <<file, stage, peer, backlog, torn, descriptor, pc, thread>>

Step(o) ==
  \/ Construct(o) \/ Listen(o) \/ Connect(o)
  \/ Accept(o) \/ AcceptReturns(o) \/ AcceptFails(o)
  \/ CallClose(o) \/ Delete(o) \/ Clear(o) \/ DeleteClosed(o)
  \/ \E n \in 1 .. MaxBytes - next[o] : SendShort(o, n) \/ SendLong(o, n)
  \/ SendPart(o) \/ SendFails(o) \/ Recv(o)

Next == \E o \in Objects : Step(o)
Spec == Init /\ [][Next]_vars

-------------------------------------------------------------------------------
(* Properties.                                                                   *)

\* The byte after place a may be the one after place b: they are one place, or a Send
\* failed half way and its sender, who knows of b only, went back there.
Follows(e, a, b) == a = b \/ (b < a /\ <<a, b>> \in torn[e])
Stands(e) == <<got[e]>> \o inbox[e]

(* What is read from a connection and what waits to be read follow each other     *)
(* byte for byte, up to the last one that the sender was told of or is sending: a *)
(* send that takes a part leaves no gap and repeats nothing. Bytes are repeated   *)
(* only where a Send of several parts failed after one of them, and just those.   *)
StreamIsExact ==
  /\ \A e \in Ends : \A i \in 1 .. Len(inbox[e]) :
       Follows(e, Stands(e)[i], inbox[e][i] - 1)
  /\ \A o \in Objects : pc[o] \in {"idle", "sending"} /\ At(o, "connected") =>
       LET p == peer[EndOf(o)] IN Follows(p, Last(Stands(p)), next[o] + TotalLen[o])

(* An open descriptor belongs to exactly one object, or to the one Accept that     *)
(* makes its object, and an object outside the last step of Close has an open one, *)
(* although the number of a closed one is soon that of another: nobody closes or   *)
(* writes to the socket of another. The only ones left open with nobody to close   *)
(* them are those of an Accept that failed after the kernel gave it one.           *)
Holder(f) ==
  {o \in Objects : \/ descriptor[o] = f /\ pc[o] \notin {"none", "clear", "delete"}
                   \/ pc[o] = "accepting" /\ new_fd[o] = f}
DescriptorsAreOwned ==
  \A f \in Descriptors :
    /\ f \in orphans => file[f] # None
    /\ IF file[f] = None \/ f \in orphans THEN Holder(f) = {}
       ELSE \E o \in Objects : Holder(f) = {o}
===============================================================================
