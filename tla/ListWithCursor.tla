---------------------------- MODULE ListWithCursor ----------------------------
(***************************************************************************)
(* What System/SimpleList.h promises, without its cells: a sequence and a  *)
(* position in it. Position Len(list) + 1 is the end, where no element is  *)
(* current. After RemoveCurrent the position is already on the element     *)
(* that followed, and the next call of Next stays there.                   *)
(***************************************************************************)
EXTENDS Naturals, Sequences, SequencesExt

CONSTANT Values

VARIABLES list, position, removed

vars == <<list, position, removed>>

AtEnd == position > Len(list)

Init == list = <<>> /\ position = 1 /\ removed = FALSE

Add(v) ==
  /\ list' = Append(list, v)
  /\ position' = IF AtEnd THEN position + 1 ELSE position
  /\ UNCHANGED removed

AddHead(v) ==
  /\ list' = <<v>> \o list
  /\ position' = position + 1
  /\ UNCHANGED removed

(* "Insert an item after the current element, if not defined, add tail." *)
Insert(v) ==
  \/ AtEnd /\ Add(v)
  \/ ~AtEnd /\ list' = InsertAt(list, position + 1, v) /\ UNCHANGED <<position, removed>>

(* "Insert an item before the current element, if not defined, add head." *)
InsertBefore(v) ==
  \/ AtEnd /\ AddHead(v)
  \/ /\ ~AtEnd
     /\ list' = InsertAt(list, position, v)
     /\ position' = position + 1
     /\ UNCHANGED removed

First == position' = 1 /\ removed' = FALSE /\ UNCHANGED list

Next_ ==
  /\ position' = IF AtEnd \/ removed THEN position ELSE position + 1
  /\ removed' = FALSE
  /\ UNCHANGED list

RemoveCurrent ==
  /\ ~removed /\ removed' = TRUE
  /\ list' = IF AtEnd THEN list ELSE RemoveAt(list, position)
  /\ UNCHANGED position

RemoveElement(v) ==
  \/ /\ v \notin ToSet(list)
     /\ position' = Len(list) + 1 /\ removed' = FALSE /\ UNCHANGED list
  \/ \E i \in DOMAIN list :
       /\ list[i] = v /\ \A j \in 1..(i - 1) : list[j] # v
       /\ list' = RemoveAt(list, i)
       /\ position' = i /\ removed' = TRUE

ExtractFirst ==
  /\ list # <<>> /\ position > 1
  /\ list' = Tail(list)
  /\ position' = position - 1
  /\ UNCHANGED removed

Empty == list' = <<>> /\ position' = 1 /\ removed' = FALSE

(* operator= from a list of any contents. *)
Assign == list' \in Seq(Values) /\ position' = Len(list') + 1 /\ removed' = FALSE

Next ==
  \/ \E v \in Values : Add(v) \/ AddHead(v) \/ Insert(v) \/ InsertBefore(v) \/ RemoveElement(v)
  \/ First \/ Next_ \/ RemoveCurrent \/ ExtractFirst \/ Empty \/ Assign

Spec == Init /\ [][Next]_vars

===============================================================================
