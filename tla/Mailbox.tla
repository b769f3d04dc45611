------------------------------- MODULE Mailbox -------------------------------
(***************************************************************************)
(* What Thread's message queue promises to the threads that share it: one  *)
(* unbounded first-in first-out box.  A message that was put is taken      *)
(* exactly once, in the order of the puts, and a thread is told "no        *)
(* message" only if it has looked into the box since it asked and found it *)
(* empty.                                                                  *)
(***************************************************************************)
EXTENDS Sequences

CONSTANTS
  Threads,
  Msgs,
  NoMsg,     (* the answer "no message"                    *)
  Pending,   (* the thread has asked and has not yet looked *)
  Missed     (* the thread has looked and found nothing     *)

VARIABLES
  box,       (* the messages, oldest first   *)
  answer     (* the last answer each thread got, or where it stands *)

mailboxVars == <<box, answer>>

Init ==
  /\ box = <<>>
  /\ answer = [t \in Threads |-> NoMsg]

Put(m) ==
  /\ box' = Append(box, m)
  /\ UNCHANGED answer

Ask(t) ==
  /\ answer[t] \in Msgs \cup {NoMsg, Missed}
  /\ answer' = [answer EXCEPT ![t] = Pending]
  /\ UNCHANGED box

Take(t) ==
  /\ answer[t] = Pending
  /\ box # <<>>
  /\ box' = Tail(box)
  /\ answer' = [answer EXCEPT ![t] = Head(box)]

Miss(t) ==
  /\ answer[t] = Pending
  /\ box = <<>>
  /\ answer' = [answer EXCEPT ![t] = Missed]
  /\ UNCHANGED box

GiveUp(t) ==
  /\ answer[t] = Missed
  /\ answer' = [answer EXCEPT ![t] = NoMsg]
  /\ UNCHANGED box

Next ==
  \/ \E m \in Msgs : Put(m)
  \/ \E t \in Threads : Ask(t) \/ Take(t) \/ Miss(t) \/ GiveUp(t)

Spec == Init /\ [][Next]_mailboxVars

==============================================================================
