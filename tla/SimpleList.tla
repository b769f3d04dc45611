------------------------------ MODULE SimpleList ------------------------------
(***************************************************************************)
(* System/SimpleList.h: a singly linked list with the cursor inside it,    *)
(* used by one thread at a time. One action is one call.                   *)
(*                                                                         *)
(* Following a null pointer or a deleted cell is undefined; the model sets *)
(* broken and stops there.                                                 *)
(***************************************************************************)
EXTENDS Naturals, Sequences, FiniteSets, SequencesExt

CONSTANTS
  Cells,    (* bound: the cells that memory has room for                   *)
  Null,
  Values,   (* what the cells contain                                      *)
  Uses,     (* the calls made                                              *)
  Careful   (* callers keep the cursor away from the ends, see below       *)

ASSUME NullAssumption == IsFiniteSet(Cells) /\ Null \notin Cells
ASSUME CarefulAssumption == Careful \in BOOLEAN

VARIABLES
  head, tail, NumberOfElements, PreviousElement, CurrentElement, RemoveCurrentHasOccured,
  NextElement, ElementContainer,
  free,     (* the cells not allocated                                     *)
  broken

ends   == <<head, tail, NumberOfElements>>
cursor == <<PreviousElement, CurrentElement, RemoveCurrentHasOccured>>
cells  == <<NextElement, ElementContainer, free>>
vars   == <<ends, cursor, cells, broken>>

Pointers == Cells \cup {Null}

(* The cells linked from c, as far as there can be any. *)
Walk[n \in 0..Cardinality(Cells)] ==
  [c \in Pointers |->
    IF n = 0 \/ c = Null THEN <<>> ELSE <<c>> \o Walk[n - 1][NextElement[c]]]

Chain == Walk[Cardinality(Cells)][head]

Init ==
  /\ head = Null /\ tail = Null /\ NumberOfElements = 0
  /\ PreviousElement = Null /\ CurrentElement = Null /\ RemoveCurrentHasOccured = FALSE
  /\ NextElement = [c \in Cells |-> Null]
  /\ ElementContainer \in {[c \in Cells |-> v] : v \in Values}
  /\ free = Cells /\ broken = FALSE

(* A pointer that may be followed. *)
Valid(c) == c \in Cells \ free

Break ==
  /\ broken' = TRUE
  /\ UNCHANGED <<ends, cursor, cells>>

-------------------------------------------------------------------------------
(* Names of the form Action_Bug are variants of Action with a bug someone  *)
(* could make there; no specification uses them.                           *)

(* GetNewSimpleListElement: cell c, holding v, linked to next; and prev,   *)
(* when there is one, linked to c.                                         *)
Link(c, v, prev, next) ==
  /\ c \in free /\ free' = free \ {c}
  /\ ElementContainer' = [ElementContainer EXCEPT ![c] = v]
  /\ NextElement' = [x \in Cells |-> IF x = c THEN next ELSE IF x = prev THEN c ELSE NextElement[x]]
  /\ NumberOfElements' = NumberOfElements + 1
  /\ UNCHANGED broken

-------------------------------------------------------------------------------
AddCell(c, v) ==
  \/ head = Null
     /\ Link(c, v, Null, Null) /\ head' = c /\ tail' = c /\ UNCHANGED cursor
  \/ head # Null /\ Valid(tail)
     /\ Link(c, v, tail, Null) /\ tail' = c /\ UNCHANGED <<head, cursor>>
  \/ head # Null /\ ~Valid(tail) /\ Break

AddHeadCell(c, v) ==
  /\ Link(c, v, Null, head)
  /\ head' = c /\ tail' = IF head = Null THEN c ELSE tail
  /\ UNCHANGED cursor

(* Add and AddTail. *)
Add == \E c \in free, v \in Values : AddCell(c, v)

(* Careful callers do not put an element in front of one that the cursor   *)
(* takes for the first.                                                    *)
CursorOnFirst == CurrentElement # Null /\ PreviousElement = Null

AddHead ==
  /\ Careful => ~CursorOnFirst
  /\ \E c \in free, v \in Values : AddHeadCell(c, v)

Insert ==
  \E c \in free, v \in Values :
    \/ CurrentElement = Null /\ AddCell(c, v)
    \/ /\ Valid(CurrentElement)
       /\ Careful => NextElement[CurrentElement] # Null
       /\ Link(c, v, CurrentElement, NextElement[CurrentElement])
       /\ UNCHANGED <<head, tail, cursor>>
    \/ CurrentElement # Null /\ ~Valid(CurrentElement) /\ Break

(* PreviousElement is left where it was. *)
InsertBefore_KeepsPrevious ==
  \E c \in free, v \in Values :
    \/ PreviousElement = Null /\ (Careful => ~CursorOnFirst)
       /\ AddHeadCell(c, v)
    \/ /\ Valid(PreviousElement)
       /\ Careful => CurrentElement # Null
       /\ Link(c, v, PreviousElement, CurrentElement)
       /\ UNCHANGED <<head, tail, cursor>>
    \/ PreviousElement # Null /\ ~Valid(PreviousElement) /\ ~Careful /\ Break

InsertBefore ==
  \E c \in free, v \in Values :
    \/ PreviousElement = Null /\ (Careful => ~CursorOnFirst)
       /\ AddHeadCell(c, v)
    \/ /\ Valid(PreviousElement)
       /\ Careful => CurrentElement # Null
       /\ Link(c, v, PreviousElement, CurrentElement)
       /\ PreviousElement' = c
       /\ UNCHANGED <<head, tail, CurrentElement, RemoveCurrentHasOccured>>
    \/ PreviousElement # Null /\ ~Valid(PreviousElement) /\ ~Careful /\ Break

-------------------------------------------------------------------------------
First ==
  /\ PreviousElement' = Null /\ CurrentElement' = head /\ RemoveCurrentHasOccured' = FALSE
  /\ UNCHANGED <<ends, cells, broken>>

(* Next forgets that RemoveCurrent has moved the cursor already. *)
Next_SkipsAfterRemove ==
  /\ RemoveCurrentHasOccured' = FALSE
  /\ \/ /\ CurrentElement = Null
        /\ UNCHANGED <<ends, PreviousElement, CurrentElement, cells, broken>>
     \/ /\ Valid(CurrentElement)
        /\ PreviousElement' = CurrentElement
        /\ CurrentElement' = NextElement[CurrentElement]
        /\ UNCHANGED <<ends, cells, broken>>

Next_ ==
  /\ \/ /\ CurrentElement = Null \/ RemoveCurrentHasOccured
        /\ RemoveCurrentHasOccured' = FALSE
        /\ UNCHANGED <<ends, PreviousElement, CurrentElement, cells, broken>>
     \/ /\ ~RemoveCurrentHasOccured /\ Valid(CurrentElement)
        /\ PreviousElement' = CurrentElement
        /\ CurrentElement' = NextElement[CurrentElement]
        /\ UNCHANGED <<ends, RemoveCurrentHasOccured, cells, broken>>
     \/ /\ ~RemoveCurrentHasOccured /\ CurrentElement \in free
        /\ broken' = TRUE /\ UNCHANGED <<ends, cursor, cells>>

(* Tail is not moved back when the last cell goes. *)
Unlink_KeepsTail(prev, cur) ==
  /\ RemoveCurrentHasOccured' = TRUE
  /\ PreviousElement' = prev /\ CurrentElement' = NextElement[cur]
  /\ IF head = cur
     THEN head' = NextElement[cur] /\ UNCHANGED NextElement
     ELSE NextElement' = [NextElement EXCEPT ![prev] = NextElement[cur]] /\ UNCHANGED head
  /\ free' = free \cup {cur}
  /\ NumberOfElements' = NumberOfElements - 1
  /\ UNCHANGED <<tail, ElementContainer, broken>>

(* Taking the cell at the cursor <<prev, cur>> out of the list. *)
Unlink(prev, cur) ==
  /\ RemoveCurrentHasOccured' = TRUE
  /\ PreviousElement' = prev /\ CurrentElement' = NextElement[cur]
  /\ IF head = cur
     THEN head' = NextElement[cur] /\ UNCHANGED NextElement
     ELSE NextElement' = [NextElement EXCEPT ![prev] = NextElement[cur]] /\ UNCHANGED head
  /\ tail' = IF tail = cur THEN prev ELSE tail
  /\ free' = free \cup {cur}
  /\ NumberOfElements' = NumberOfElements - 1
  /\ UNCHANGED <<ElementContainer, broken>>

(* A second RemoveCurrent on the same element throws and changes nothing. *)
RemoveCurrent ==
  /\ ~RemoveCurrentHasOccured
  /\ \/ /\ CurrentElement = Null
        /\ RemoveCurrentHasOccured' = TRUE
        /\ UNCHANGED <<ends, PreviousElement, CurrentElement, cells, broken>>
     \/ /\ Valid(CurrentElement) /\ (head = CurrentElement \/ Valid(PreviousElement))
        /\ Unlink(PreviousElement, CurrentElement)
     \/ /\ CurrentElement # Null
        /\ ~Valid(CurrentElement) \/ (head # CurrentElement /\ ~Valid(PreviousElement))
        /\ broken' = TRUE /\ UNCHANGED <<ends, cursor, cells>>

(* Remove: the loop stops at the first cell that contains v, or at the end. *)
RemoveElement ==
  /\ \E v \in Values :
       \/ /\ \A i \in DOMAIN Chain : ElementContainer[Chain[i]] # v
          /\ PreviousElement' = IF Chain = <<>> THEN Null ELSE Last(Chain)
          /\ CurrentElement' = Null /\ RemoveCurrentHasOccured' = FALSE
          /\ UNCHANGED <<ends, cells, broken>>
       \/ \E i \in DOMAIN Chain :
            /\ ElementContainer[Chain[i]] = v
            /\ \A j \in 1..(i - 1) : ElementContainer[Chain[j]] # v
            /\ Unlink(IF i = 1 THEN Null ELSE Chain[i - 1], Chain[i])

(* Careful callers extract no element that the cursor is on or next to. On *)
(* an empty list ExtractFirst throws.                                      *)
ExtractFirst ==
  /\ head # Null
  /\ Careful => CurrentElement = Null \/ head \notin {PreviousElement, CurrentElement}
  /\ IF head = tail THEN head' = Null /\ tail' = Null
     ELSE head' = NextElement[head] /\ UNCHANGED tail
  /\ NumberOfElements' = NumberOfElements - 1
  /\ free' = free \cup {head}
  /\ UNCHANGED <<cursor, NextElement, ElementContainer, broken>>

(* The list as it is after Empty, that is after Init, then AddTail for     *)
(* each cell of chain.                                                     *)
Rebuilt(chain, values) ==
  /\ head' = IF chain = <<>> THEN Null ELSE chain[1]
  /\ tail' = IF chain = <<>> THEN Null ELSE Last(chain)
  /\ NumberOfElements' = Len(chain)
  /\ PreviousElement' = Null /\ CurrentElement' = Null /\ RemoveCurrentHasOccured' = FALSE
  /\ free' = (free \cup ToSet(Chain)) \ ToSet(chain)
  /\ NextElement' = [c \in Cells |->
       IF c \notin ToSet(chain) THEN NextElement[c]
       ELSE LET i == CHOOSE j \in DOMAIN chain : chain[j] = c
            IN IF i = Len(chain) THEN Null ELSE chain[i + 1]]
  /\ ElementContainer' = [c \in Cells |->
       IF c \notin ToSet(chain) THEN ElementContainer[c]
       ELSE values[CHOOSE j \in DOMAIN chain : chain[j] = c]]
  /\ UNCHANGED broken

Empty == Rebuilt(<<>>, <<>>)

(* operator= from another list, of at most two elements here... *)
Assign ==
  \E n \in 0..2 : \E chain \in [1..n -> Cells], values \in [1..n -> Values] :
    /\ IsInjective(chain) /\ ToSet(chain) \subseteq free \cup ToSet(Chain)
    /\ Rebuilt(chain, values)

(* ...and from itself: it is emptied before it is copied. *)
AssignSelf == Rebuilt(<<>>, <<>>)

May(use) == use \in Uses /\ ~broken

Next ==
  \/ May("Add") /\ Add
  \/ May("AddHead") /\ AddHead
  \/ May("Insert") /\ Insert
  \/ May("InsertBefore") /\ InsertBefore
  \/ May("cursor") /\ (First \/ Next_)
  \/ May("RemoveCurrent") /\ RemoveCurrent
  \/ May("Remove") /\ RemoveElement
  \/ May("ExtractFirst") /\ ExtractFirst
  \/ May("Empty") /\ Empty
  \/ May("Assign") /\ Assign
  \/ May("AssignSelf") /\ AssignSelf

Spec == Init /\ [][Next]_vars

-------------------------------------------------------------------------------
(* The type invariant; the count stays within the cells there are. *)
TypeOK ==
  /\ head \in Pointers /\ tail \in Pointers
  /\ NumberOfElements \in 0..Cardinality(Cells)
  /\ PreviousElement \in Pointers /\ CurrentElement \in Pointers
  /\ RemoveCurrentHasOccured \in BOOLEAN /\ broken \in BOOLEAN
  /\ NextElement \in [Cells -> Pointers] /\ ElementContainer \in [Cells -> Values]
  /\ free \subseteq Cells

(* No call follows a null pointer or a deleted cell. *)
NeverBroken == ~broken

(* head, the links, tail and the count are those of one list, whose last   *)
(* link is null (SimpleList.h 318-346, 539-591, 658-681).                  *)
EndsMatch ==
  /\ NumberOfElements = Len(Chain)
  /\ tail = IF Chain = <<>> THEN Null ELSE Last(Chain)
  /\ tail # Null => NextElement[tail] = Null

(* Every allocated cell is linked, and no linked cell is deleted. *)
NoCellLost == ToSet(Chain) = Cells \ free

(* The cursor is on an element of the list, with the right one before it,  *)
(* or at the end (SimpleList.h 378-406, 467-495, 539-591).                 *)
CursorInList ==
  CurrentElement # Null =>
    \E i \in DOMAIN Chain :
      /\ Chain[i] = CurrentElement
      /\ PreviousElement = IF i = 1 THEN Null ELSE Chain[i - 1]

(* Whatever careful callers do, the cells, the ends, the count and the     *)
(* cursor keep their types and stay those of one list.                     *)
WellFormed == TypeOK /\ EndsMatch /\ NoCellLost /\ CursorInList

-------------------------------------------------------------------------------
(* The abstract list: the contents of the chain, and where the cursor is. *)
Contents == [i \in DOMAIN Chain |-> ElementContainer[Chain[i]]]

Position ==
  IF CurrentElement \in ToSet(Chain)
  THEN CHOOSE i \in DOMAIN Chain : Chain[i] = CurrentElement
  ELSE Len(Chain) + 1

Abstract == INSTANCE ListWithCursor
  WITH list <- Contents, position <- Position, removed <- RemoveCurrentHasOccured

(* Whatever is called, the cells implement the sequence with a position. *)
ImplementsList == Abstract!Spec

===============================================================================
