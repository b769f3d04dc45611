------------------------------ MODULE JsonReader ------------------------------
(* Reading any text: the loop of json_spirit::read, one character per step, with *)
(* the characters chosen by the environment.                                    *)
EXTENDS JsonSpirit

CONSTANTS
  Configs,     \* the configurations a parser is created with
  MaxBuffer    \* the longest scalar that is read

(* What json_spirit uses: the modes of the deepest nesting, DONE among them, fit in the  *)
(* object.  A depth of 0 is one.                                                        *)
ASSUME ConfigsAssumption ==
  \A config \in Configs :
    /\ config.depth \in 0..(StackSize - 1) /\ StackSize > 1
    /\ config.comments \in BOOLEAN /\ config.memory \in Nat

VARIABLES
  jc,       \* the parser
  sa,       \* Semantic_actions
  result    \* "reading", then what read returned: "accepted" or "rejected"

vars == <<jc, sa, result>>

Init ==
  /\ jc \in {new_JSON_parser(config) : config \in Configs}
  /\ sa = NewActions /\ result = "reading"

ReadChar(c, unit) ==
  /\ result = "reading"
  /\ \E r \in {Feed([jc |-> jc, sa |-> sa], c, unit)} :
       /\ Len(r.jc.buffer) <= MaxBuffer
       /\ jc' = r.jc /\ sa' = r.sa
       /\ result' = IF r.jc.ok THEN "reading" ELSE "rejected"

\* The text ends: the end of the stream or a zero character.
EndOfText ==
  /\ result = "reading"
  /\ jc' = JSON_parser_done(jc)
  /\ result' = IF jc'.ok THEN "accepted" ELSE "rejected"
  /\ UNCHANGED sa

\* decode_unicode_char is the only one to look at what the digits mean.
UnitsOf(c) == IF Next_state(jc, c) = "UC" THEN Units ELSE {"one byte"}

Next == EndOfText \/ \E c \in Classes \cup {"bad", "negative"} :
          \E unit \in IF c \in Classes THEN UnitsOf(c) ELSE {"one byte"} : ReadChar(c, unit)

Spec == Init /\ [][Next]_vars

-------------------------------------------------------------------------------
(* Properties.                                                                  *)

Kinds(modes) == [i \in DOMAIN modes |-> IF modes[i] = "ARRAY" THEN "array" ELSE "object"]
\* DONE is at the bottom of the stack.
Path == Kinds(SubSeq(jc.stack, 2, Len(jc.stack)))

(* No assertion of the parser or of the reader fails and nothing is accessed    *)
(* out of its bounds, whatever the text: the stack and the buffer stay within   *)
(* their arrays, the buffer is popped only when it holds something, the six     *)
(* characters of an escape are there when it is decoded, a value always has a   *)
(* container to go to and, in an object, a name read for it.                    *)
AssertsHold == ~jc.broken /\ ~sa.broken /\ Len(jc.buffer) < jc.room

(* As long as the text is not rejected, the containers the reader is inside are *)
(* those the parser is inside, one for one: a value is never put in the wrong   *)
(* container.  Only the root stays open once it has ended.                      *)
ReaderFollowsParser ==
  result = "reading" =>
    LET kinds == [i \in DOMAIN sa.open |-> sa.open[i].type]
    IN kinds = Path \/ (Path = <<>> /\ Len(sa.open) = 1)

(* The calls the parser makes to its callback are those of one well formed      *)
(* document, and a text is accepted only when every container has ended.        *)
Document == INSTANCE JsonDocument WITH
  verdict <- result,
  doc <- IF result = "rejected"
         THEN [path |-> <<>>, pending |-> FALSE, begun |-> FALSE]
         ELSE [path |-> Path, pending |-> sa.named, begun |-> sa.open # <<>>]
IsADocument == Document!Spec

===============================================================================
