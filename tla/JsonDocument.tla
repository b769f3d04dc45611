----------------------------- MODULE JsonDocument -----------------------------
(* What a JSON parser with a callback promises to the one it calls: the events  *)
(* are those of one document, an object or an array, properly nested, every     *)
(* value of an object announced by its key and every key followed by its value; *)
(* a text is accepted only when nothing is left open.                           *)
EXTENDS Naturals, Sequences, SequencesExt

VARIABLES
  doc,      \* the open containers, whether a key waits for its value, and
            \* whether the document has begun
  verdict   \* "reading", "accepted" or "rejected"

Scalar == {"integer", "float", "string", "null", "true", "false"}
Begin  == {"object begin", "array begin"}
Finish == {"object end", "array end"}
Event  == Scalar \cup Begin \cup Finish \cup {"key"}

Kind(e) == IF e \in {"object begin", "object end"} THEN "object" ELSE "array"
Inside(d) == IF d.path = <<>> THEN "nothing" ELSE Last(d.path)
WantsValue(d) == Inside(d) = "array" \/ (Inside(d) = "object" /\ d.pending)

Blank == [path |-> <<>>, pending |-> FALSE, begun |-> FALSE]

Legal(d, e) ==
  \/ e \in Scalar /\ WantsValue(d)
  \/ e \in Begin  /\ (WantsValue(d) \/ ~d.begun)
  \/ e \in Finish /\ Inside(d) = Kind(e) /\ ~d.pending
  \/ e = "key"    /\ Inside(d) = "object" /\ ~d.pending

Apply(d, e) ==
  [path    |-> CASE e \in Begin -> Append(d.path, Kind(e))
                 [] e \in Finish -> Front(d.path)
                 [] OTHER -> d.path,
   pending |-> e = "key",
   begun   |-> TRUE]

Init == doc = Blank /\ verdict = "reading"

\* A character may end a number and the container around it: up to two events.
Read ==
  /\ verdict = "reading" /\ verdict' = "reading"
  /\ \E e \in Event :
       /\ Legal(doc, e)
       /\ \/ doc' = Apply(doc, e)
          \/ \E f \in Finish : Legal(Apply(doc, e), f) /\ doc' = Apply(Apply(doc, e), f)

Accept == /\ verdict = "reading" /\ doc.path = <<>>
          /\ verdict' = "accepted" /\ doc' = doc

Reject == /\ verdict = "reading" /\ verdict' = "rejected" /\ doc' = Blank

Next == Read \/ Accept \/ Reject
vars == <<doc, verdict>>
Spec == Init /\ [][Next]_vars
===============================================================================
