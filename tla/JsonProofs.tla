---------------------------- MODULE JsonProofs -------------------------------------
(* The theorems of reading and of sending, each about its own module.             *)
(*                                                                                *)
(* Serialization, for any classes and values: an object whose declarations failed *)
(* never sends a short message before it has thrown.                              *)
(*                                                                                *)
(* JsonReader, for every text, every depth a configuration may have and every     *)
(* size of the stack and buffer: no assertion of the parser or of the reader      *)
(* fails, the reader is inside the containers the parser is inside, and the calls *)
(* of the parser are those of one document (JsonDocument).                        *)
(*                                                                                *)
(* The argument is about one character.  It is buffered (FilledByChar), the table *)
(* says what it means (CauseOfCell), and each of its actions, one lemma On... for *)
(* each, brings about what it must (Outcome): whatever it tells the reader is     *)
(* what the document allows, and the parser, the reader and the document agree    *)
(* again.                                                                         *)
EXTENDS JsonReader, Serialization, SequenceTheorems, TLAPS

------------------------------------------------------------------------------------
(* The invariant.  An object is spoken of through its fields: the parser j        *)
(* between two characters, the reader s, and what the two have in common.         *)

\* The fields of the parser.
Fields == {"state", "before", "type", "escaped", "comment", "comments", "surrogate", "error",
           "stack", "depth", "capacity", "buffer", "room", "memory", "events", "ok", "broken"}

\* Where a token may begin, inside a comment, inside a string, inside another scalar.
Blanks    == {"GO", "OK", "OB", "KE", "CO", "VA", "AR"}
InComment == {"C1", "C2", "C3"}
InString  == {"ST", "ES", "U1", "U2", "U3", "U4", "D1", "D2"}
InWord    == States \ (Blanks \cup InComment \cup InString)
Words     == Scalars \ {"string"}

\* A sequence, of whatever its elements are.
Sequence(q) == q \in Seq({q[i] : i \in DOMAIN q})

\* DONE is at the bottom and nowhere else, and only the top may wait for a key.
StackOK(q) ==
  /\ q \in Seq(Modes) /\ q # <<>> /\ q[1] = "DONE"
  /\ \A i \in 2..Len(q) : q[i] # "DONE"
  /\ \A i \in 1..(Len(q) - 1) : q[i] # "KEY"

\* The state the parser is in, or will be in after the comment.
Entry(j) == IF j.comment THEN j.before ELSE j.state

\* How many characters of an escape are in the buffer at least.
Least(st) == CASE st \in {"ES", "D2"} -> 1 [] st = "U1" -> 2 [] st = "U2" -> 3
                [] st = "U3" -> 4 [] st = "U4" -> 5 [] OTHER -> 0

\* An object with the fields of a parser and no other, in which no assertion failed,
\* and which has not returned false.
Whole(j) == DOMAIN j = Fields /\ j = [f \in Fields |-> j[f]]
Sane(j) == Whole(j) /\ j.broken = FALSE
Alive(j) == Sane(j) /\ j.ok = TRUE
\* r differs from j in the fields of F at most.
Keeps(r, j, F) == Whole(r) /\ \A f \in Fields \ F : r[f] = j[f]

\* The buffer fits in its array with the final zero.
BufferOK(j) ==
  /\ Sequence(j.buffer) /\ j.room \in Nat /\ Len(j.buffer) < j.room /\ j.room >= 2
  /\ j.memory \in Nat

\* The stack fits in its array: the depth is one less than the array holds.
MemoryOK(j) ==
  /\ StackOK(j.stack)
  /\ j.depth \in 1..(StackSize - 1) /\ j.capacity = j.depth /\ Len(j.stack) <= j.depth + 1

\* The state, the type of the scalar being read and the flag of a comment agree.
ShapeOK(j) ==
  /\ j.state \in States /\ j.before \in Blanks
  /\ j.type \in Scalars \cup {"none"}
  /\ j.comment \in BOOLEAN /\ (j.comment <=> j.state \in InComment)
  /\ j.type = "string" <=> j.state \in InString
  /\ j.state \in (Blanks \ {"OK"}) \cup InComment => j.type = "none"
  /\ j.state \in InWord => j.type # "none"
  /\ j.state \in {"MI", "ZE", "IT"} => j.type = "integer"

\* What the buffer holds for the state.
HeldOK(j) ==
  /\ j.escaped \in BOOLEAN /\ (j.escaped <=> j.state = "ES")
  /\ j.type = "none" => j.buffer = <<>>
  /\ Len(j.buffer) >= Least(j.state)

\* The state and the type agree with the mode on the top of the stack.
TopOK(j) ==
  LET e == Entry(j) top == Last(j.stack) IN
  /\ j.type # "none" => top # "DONE"
  /\ j.type \in Words => top # "KEY"
  /\ e = "GO" <=> (top = "DONE" /\ e # "OK")
  /\ e \in {"OB", "KE", "CO"} => top = "KEY"
  /\ e = "AR" => top = "ARRAY"
  /\ e = "VA" => top \in {"OBJECT", "ARRAY"}
  /\ e = "OK" => top # "KEY"

\* The reader is whole: its open containers are arrays and objects.
ActionsOK(s) ==
  /\ DOMAIN s = {"open", "name", "named", "broken"} /\ s = [f \in DOMAIN s |-> s[f]]
  /\ s.named \in BOOLEAN /\ s.broken = FALSE /\ Sequence(s.open)
  /\ \A i \in 1..Len(s.open) :
       /\ s.open[i] = [type |-> s.open[i].type, name |-> s.open[i].name, items |-> s.open[i].items]
       /\ s.open[i].type \in {"array", "object"}

\* The container of a mode; the containers of the reader are those of the stack above
\* DONE.
KindOf(mode) == IF mode = "ARRAY" THEN "array" ELSE "object"
Follows(open, stack) ==
  Len(open) = Len(stack) - 1 /\ \A i \in 1..Len(open) : open[i].type = KindOf(stack[i + 1])

\* The parser and the reader agree: on the containers (after the document the root is
\* still open), on whether the document has begun, and on whether a name waits for its
\* value.
Together(j, s) ==
  /\ Follows(s.open, j.stack) \/ (Len(j.stack) = 1 /\ Len(s.open) = 1)
  /\ Entry(j) = "GO" <=> s.open = <<>>
  /\ s.named <=> \/ Entry(j) = "CO"
                 \/ Last(j.stack) = "OBJECT" /\ (Entry(j) = "VA" \/ j.type # "none")

\* The parser and the reader between two characters of a text read so far.
Good(j, s) ==
  /\ Alive(j) /\ BufferOK(j) /\ j.comments \in BOOLEAN
  /\ MemoryOK(j) /\ ShapeOK(j) /\ HeldOK(j) /\ TopOK(j)
  /\ ActionsOK(s) /\ Together(j, s)

\* No assertion failed and the buffer is within its array.
Safe(j, s) == j.broken = FALSE /\ s.broken = FALSE /\ Len(j.buffer) < j.room

\* The inductive invariant: all that is said above while the text is read, and safety
\* for ever.
IInv ==
  /\ result \in {"reading", "accepted", "rejected"}
  /\ Safe(jc, sa)
  /\ result = "reading" => Good(jc, sa) /\ jc.events = <<>>
  /\ result = "accepted" => jc.stack = <<>>

\* f computes the fold of the callback over the calls seq, started on s, as the library
\* defines it.
Folds(f, s, seq) ==
  f = [T \in SUBSET (DOMAIN seq) |->
         IF T = {} THEN s ELSE json_calback(f[T \ {Max(T)}], seq[Max(T)])]

\* The largest of one or two numbers.
LEMMA MaxIs == /\ Max({1}) = 1 /\ Max({2}) = 2 /\ Max({1, 2}) = 2
<1>1. \A x : x \in {1} /\ (\A y \in {1} : x >= y) <=> x = 1
  OBVIOUS
<1>2. \A x : x \in {2} /\ (\A y \in {2} : x >= y) <=> x = 2
  OBVIOUS
<1>3. \A x : x \in {1, 2} /\ (\A y \in {1, 2} : x >= y) <=> x = 2
  OBVIOUS
<1> QED BY <1>1, <1>2, <1>3 DEF Max

\* The function the library's fold chooses exists.
LEMMA FoldIs ==
  ASSUME NEW s, NEW seq, \E f : Folds(f, s, seq)
  PROVE  \E f : Folds(f, s, seq) /\ FoldLeft(json_calback, s, seq) = f[DOMAIN seq]
<1>1. FoldLeft(json_calback, s, seq) = (CHOOSE f : Folds(f, s, seq))[DOMAIN seq]
  BY DEF FoldLeft, MapThenFoldSet, Folds
<1> QED BY <1>1

\* No call, one call, two calls.
LEMMA Calls0 == ASSUME NEW s PROVE FoldLeft(json_calback, s, <<>>) = s
<1> DEFINE g == [T \in SUBSET {} |-> s]
<1>1. DOMAIN <<>> = {} /\ SUBSET {} = {{}}
  OBVIOUS
<1>2. Folds(g, s, <<>>)
  <2>1. \A T \in SUBSET {} : T = {}
    OBVIOUS
  <2>2. [T \in SUBSET {} |-> s] = [T \in SUBSET {} |-> IF T = {} THEN s ELSE json_calback(g[T \ {Max(T)}], <<>>[Max(T)])]
    BY <2>1
  <2> QED BY <1>1, <2>2 DEF Folds
<1> HIDE DEF g
<1>3. PICK f : Folds(f, s, <<>>) /\ FoldLeft(json_calback, s, <<>>) = f[{}]
  BY <1>1, <1>2, FoldIs
<1>4. f = [T \in SUBSET {} |-> IF T = {} THEN s ELSE json_calback(f[T \ {Max(T)}], <<>>[Max(T)])]
  BY <1>1, <1>3 DEF Folds
<1>5. f[{}] = s
  <2>1. {} \in SUBSET {}
    OBVIOUS
  <2> QED BY <1>4, <2>1
<1> QED BY <1>3, <1>5

LEMMA Calls1 == ASSUME NEW s, NEW e PROVE FoldLeft(json_calback, s, <<e>>) = json_calback(s, e)
<1> DEFINE g == [T \in SUBSET {1} |-> IF T = {} THEN s ELSE json_calback(s, e)]
<1>1. DOMAIN <<e>> = {1} /\ <<e>>[1] = e
  OBVIOUS
<1>2. /\ \A T \in SUBSET {1} : T = {} \/ T = {1}
      /\ {} \in SUBSET {1} /\ {1} \in SUBSET {1} /\ {1} # {} /\ {1} \ {1} = {}
  OBVIOUS
<1>3. g[{}] = s /\ g[{1}] = json_calback(s, e) /\ g = [T \in SUBSET {1} |-> g[T]]
  BY <1>2
<1> HIDE DEF g
<1>4. Folds(g, s, <<e>>)
  <2>1. \A T \in SUBSET {1} :
          g[T] = IF T = {} THEN s ELSE json_calback(g[T \ {Max(T)}], <<e>>[Max(T)])
    <3> SUFFICES ASSUME NEW T \in SUBSET {1}
                 PROVE  g[T] = IF T = {} THEN s ELSE json_calback(g[T \ {Max(T)}], <<e>>[Max(T)])
      OBVIOUS
    <3>1. CASE T = {}
      BY <3>1, <1>3
    <3>2. CASE T = {1}
      <4>1. T # {} /\ Max(T) = 1 /\ T \ {Max(T)} = {} /\ <<e>>[Max(T)] = e
        BY <3>2, <1>1, <1>2, MaxIs
      <4> QED BY <3>2, <4>1, <1>3
    <3> QED BY <3>1, <3>2, <1>2
  <2>2. [T \in SUBSET {1} |-> g[T]] = [T \in SUBSET {1} |->
          IF T = {} THEN s ELSE json_calback(g[T \ {Max(T)}], <<e>>[Max(T)])]
    BY <2>1
  <2> QED BY <1>1, <1>3, <2>2 DEF Folds
<1>5. PICK f : Folds(f, s, <<e>>) /\ FoldLeft(json_calback, s, <<e>>) = f[{1}]
  BY <1>1, <1>4, FoldIs
<1>6. \A T \in SUBSET {1} : f[T] = IF T = {} THEN s ELSE json_calback(f[T \ {Max(T)}], <<e>>[Max(T)])
  BY <1>1, <1>5 DEF Folds
<1>7. f[{}] = s
  BY <1>2, <1>6
<1>8. f[{1}] = json_calback(f[{1} \ {1}], e)
  BY <1>1, <1>2, <1>6, MaxIs
<1> QED BY <1>2, <1>5, <1>7, <1>8

LEMMA Calls2 ==
  ASSUME NEW s, NEW d, NEW e
  PROVE  FoldLeft(json_calback, s, <<d, e>>) = json_calback(json_calback(s, d), e)
<1> DEFINE S == SUBSET {1, 2}
           g == [T \in S |-> IF T = {} THEN s ELSE IF T = {1} THEN json_calback(s, d)
                   ELSE IF T = {2} THEN json_calback(s, e) ELSE json_calback(json_calback(s, d), e)]
<1>1. DOMAIN <<d, e>> = {1, 2} /\ <<d, e>>[1] = d /\ <<d, e>>[2] = e
  OBVIOUS
<1>2. /\ \A T \in S : T = {} \/ T = {1} \/ T = {2} \/ T = {1, 2}
      /\ {} \in S /\ {1} \in S /\ {2} \in S /\ {1, 2} \in S
  OBVIOUS
<1>3. /\ {1} \ {1} = {} /\ {2} \ {2} = {} /\ {1, 2} \ {2} = {1}
      /\ {1} # {} /\ {2} # {} /\ {1, 2} # {} /\ {1} # {2} /\ {1, 2} # {1} /\ {1, 2} # {2}
  OBVIOUS
<1>4. /\ g[{}] = s /\ g[{1}] = json_calback(s, d) /\ g[{2}] = json_calback(s, e)
      /\ g[{1, 2}] = json_calback(json_calback(s, d), e) /\ g = [T \in S |-> g[T]]
  BY <1>2, <1>3
<1> HIDE DEF g
<1>5. Folds(g, s, <<d, e>>)
  <2>1. \A T \in S : g[T] = IF T = {} THEN s ELSE json_calback(g[T \ {Max(T)}], <<d, e>>[Max(T)])
    <3> SUFFICES ASSUME NEW T \in S
                 PROVE  g[T] = IF T = {} THEN s ELSE json_calback(g[T \ {Max(T)}], <<d, e>>[Max(T)])
      OBVIOUS
    <3>1. CASE T = {}
      BY <3>1, <1>4
    <3>2. CASE T = {1}
      BY <3>2, <1>1, <1>3, <1>4, MaxIs
    <3>3. CASE T = {2}
      BY <3>3, <1>1, <1>3, <1>4, MaxIs
    <3>4. CASE T = {1, 2}
      BY <3>4, <1>1, <1>3, <1>4, MaxIs
    <3> QED BY <3>1, <3>2, <3>3, <3>4, <1>2
  <2>2. [T \in S |-> g[T]] = [T \in S |->
          IF T = {} THEN s ELSE json_calback(g[T \ {Max(T)}], <<d, e>>[Max(T)])]
    BY <2>1
  <2> QED BY <1>1, <1>4, <2>2 DEF Folds
<1>6. PICK f : Folds(f, s, <<d, e>>) /\ FoldLeft(json_calback, s, <<d, e>>) = f[{1, 2}]
  BY <1>1, <1>5, FoldIs
<1>7. \A T \in S : f[T] = IF T = {} THEN s ELSE json_calback(f[T \ {Max(T)}], <<d, e>>[Max(T)])
  BY <1>1, <1>6 DEF Folds
<1> HIDE DEF S
<1>8. f[{}] = s
  BY <1>2, <1>7
<1>9. f[{1}] = json_calback(f[{1} \ {1}], d)
  BY <1>1, <1>2, <1>3, <1>7, MaxIs
<1>10. f[{1, 2}] = json_calback(f[{1, 2} \ {2}], e)
  BY <1>1, <1>2, <1>3, <1>7, MaxIs
<1> QED BY <1>3, <1>6, <1>8, <1>9, <1>10

------------------------------------------------------------------------------------
(* The table, row by row: what each class of character leads to.                  *)

\* What the table says of a class in a row, and in the row of a state.
Pick(f, c) == IF c \in DOMAIN f THEN f[c] ELSE "__"
Cell(st, c) == Pick(state_transition_table[st], c)

\* The entries shared by several rows.
LEMMA PickOpening ==
  ASSUME NEW c
  PROVE  /\ DOMAIN Opening = {"{", "["}
         /\ Pick(Opening, c) \in {"-6", "-5", "__"}
BY DEF Opening, Pick

LEMMA PickClosers ==
  ASSUME NEW c
  PROVE  /\ DOMAIN Closers = White \cup {"}", "]", ","}
         /\ c \in White => Pick(Closers, c) = "OK"
         /\ c \notin White => Pick(Closers, c) \in {"-8", "-7", "-3", "__"}
<1> DEFINE ends == [k \in {"}", "]", ","} |-> CASE k = "}" -> "-8" [] k = "]" -> "-7" [] OTHER -> "-3"]
<1>1. DOMAIN ends = {"}", "]", ","} /\ Pick(ends, c) \in {"-8", "-7", "-3", "__"}
  BY DEF Pick
<1>2. Closers = Row(On(White, "OK"), ends)
  BY DEF Closers
<1> HIDE DEF ends
<1>3. Pick(Closers, c) = IF c \in White THEN Pick(On(White, "OK"), c) ELSE Pick(ends, c)
  BY <1>2 DEF Pick, Row, On
<1>4. DOMAIN Closers = White \cup {"}", "]", ","}
  BY <1>1, <1>2 DEF Row, On
<1>5. c \in White => Pick(On(White, "OK"), c) = "OK"
  BY DEF Pick, On
<1> QED BY <1>1, <1>3, <1>4, <1>5

LEMMA PickValue ==
  ASSUME NEW c
  PROVE  /\ DOMAIN Value = {"{", "[", "\"", "-", "0", "1-9", "f", "n", "t"}
         /\ Pick(Value, c) \in {"-6", "-5", "SB", "MX", "ZX", "IX", "FA", "NU", "TR", "__"}
<1> DEFINE starts == [k \in {"\"", "-", "0", "1-9", "f", "n", "t"} |->
             CASE k = "\"" -> "SB" [] k = "-" -> "MX" [] k = "0" -> "ZX"
               [] k = "1-9" -> "IX" [] k = "f" -> "FA" [] k = "n" -> "NU"
               [] OTHER -> "TR"]
<1>1. DOMAIN starts = {"\"", "-", "0", "1-9", "f", "n", "t"}
      /\ Pick(starts, c) \in {"SB", "MX", "ZX", "IX", "FA", "NU", "TR", "__"}
  BY DEF Pick
<1>2. Value = Row(Opening, starts)
  BY DEF Value
<1> HIDE DEF starts
<1>3. Pick(Value, c) = IF c \in DOMAIN Opening THEN Pick(Opening, c) ELSE Pick(starts, c)
  BY <1>2 DEF Pick, Row
<1>4. DOMAIN Value = DOMAIN Opening \cup DOMAIN starts
  BY <1>2 DEF Row
<1> QED BY <1>1, <1>3, <1>4, PickOpening

\* The states, one by one.
LEMMA StatesAre ==
  States = {"GO", "OK", "OB", "KE", "CO", "VA", "AR", "ST", "ES", "U1", "U2", "U3", "U4", "D1", "D2",
            "MI", "ZE", "IT", "FX", "FR", "E1", "E2", "E3", "T1", "T2", "T3", "F1", "F2", "F3", "F4",
            "N1", "N2", "N3", "C1", "C2", "C3"}
BY DEF States, state_transition_table

(* Between the tokens a blank changes nothing, and only a blank keeps the state. *)
LEMMA CellsOfBlanks ==
  ASSUME NEW c
  PROVE  /\ IF c \in White THEN Cell("GO", c) = "GO"
            ELSE Cell("GO", c) \in {"-6", "-5", "CB", "__"}
         /\ IF c \in White THEN Cell("OK", c) = "OK"
            ELSE Cell("OK", c) \in {"-8", "-7", "-3", "CB", "__"}
         /\ IF c \in White THEN Cell("OB", c) = "OB"
            ELSE Cell("OB", c) \in {"-9", "SB", "CB", "__"}
         /\ IF c \in White THEN Cell("KE", c) = "KE"
            ELSE Cell("KE", c) \in {"SB", "CB", "__"}
         /\ IF c \in White THEN Cell("CO", c) = "CO"
            ELSE Cell("CO", c) \in {"-2", "CB", "__"}
         /\ IF c \in White THEN Cell("VA", c) = "VA"
            ELSE Cell("VA", c) \in {"-6", "-5", "SB", "MX", "ZX", "IX", "FA", "NU", "TR", "CB", "__"}
         /\ IF c \in White THEN Cell("AR", c) = "AR"
            ELSE Cell("AR", c) \in {"-7", "-6", "-5", "SB", "MX", "ZX", "IX", "FA", "NU", "TR", "CB", "__"}
<1> USE DEF Pick, Row, On, Stay, Comment, White
<1>1. Cell("GO", c) = Pick(Row(Stay("GO"), Row(Opening, Comment)), c)
  BY DEF Cell, state_transition_table
<1>2. Cell("OK", c) = Pick(Row(Closers, Comment), c)
  BY DEF Cell, state_transition_table
<1>3. Cell("OB", c) = Pick(Row(Stay("OB"), Row(On({"}"}, "-9"), Row(On({"\""}, "SB"), Comment))), c)
  BY DEF Cell, state_transition_table
<1>4. Cell("KE", c) = Pick(Row(Stay("KE"), Row(On({"\""}, "SB"), Comment)), c)
  BY DEF Cell, state_transition_table
<1>5. Cell("CO", c) = Pick(Row(Stay("CO"), Row(On({":"}, "-2"), Comment)), c)
  BY DEF Cell, state_transition_table
<1>6. Cell("VA", c) = Pick(Row(Stay("VA"), Row(Value, Comment)), c)
  BY DEF Cell, state_transition_table
<1>7. Cell("AR", c) = Pick(Row(Stay("AR"), Row(On({"]"}, "-7"), Row(Value, Comment))), c)
  BY DEF Cell, state_transition_table
<1>11. IF c \in White THEN Cell("GO", c) = "GO"
        ELSE Cell("GO", c) \in {"-6", "-5", "CB", "__"}
  BY <1>1, PickOpening
<1>12. IF c \in White THEN Cell("OK", c) = "OK"
        ELSE Cell("OK", c) \in {"-8", "-7", "-3", "CB", "__"}
  BY <1>2, PickClosers
<1>13. IF c \in White THEN Cell("OB", c) = "OB"
        ELSE Cell("OB", c) \in {"-9", "SB", "CB", "__"}
  BY <1>3
<1>14. IF c \in White THEN Cell("KE", c) = "KE"
        ELSE Cell("KE", c) \in {"SB", "CB", "__"}
  BY <1>4
<1>15. IF c \in White THEN Cell("CO", c) = "CO"
        ELSE Cell("CO", c) \in {"-2", "CB", "__"}
  BY <1>5
<1>16. IF c \in White THEN Cell("VA", c) = "VA"
        ELSE Cell("VA", c) \in {"-6", "-5", "SB", "MX", "ZX", "IX", "FA", "NU", "TR", "CB", "__"}
  BY <1>6, PickValue
<1>17. IF c \in White THEN Cell("AR", c) = "AR"
        ELSE Cell("AR", c) \in {"-7", "-6", "-5", "SB", "MX", "ZX", "IX", "FA", "NU", "TR", "CB", "__"}
  BY <1>7, PickValue
<1> QED BY <1>11, <1>12, <1>13, <1>14, <1>15, <1>16, <1>17

(* In a string, in an escape and in a comment. *)
LEMMA CellsOfStrings ==
  ASSUME NEW c
  PROVE  /\ Cell("ST", c) \in {"-4", "EX", "ST", "__"}
         /\ (Cell("ES", c) = "U1" /\ c = "u") \/ Cell("ES", c) \in {"ST", "__"}
         /\ Cell("U1", c) \in {"U2", "__"}
         /\ Cell("U2", c) \in {"U3", "__"}
         /\ Cell("U3", c) \in {"U4", "__"}
         /\ Cell("U4", c) \in {"UC", "__"}
         /\ Cell("D1", c) \in {"D2", "__"}
         /\ Cell("D2", c) \in {"U1", "__"}
         /\ Cell("C1", c) \in {"C2", "__"}
         /\ Cell("C2", c) \in {"C2", "C3", "__"}
         /\ Cell("C3", c) \in {"C2", "C3", "CE", "__"}
<1> USE DEF Pick, Row, On, Comment, Exponent, Digits
<1>1. Cell("ST", c) = Pick(Row(On({"\""}, "-4"), Row(On({"\\"}, "EX"), On(Classes \ {"white"}, "ST"))), c)
  BY DEF Cell, state_transition_table
<1>2. Cell("ES", c) = Pick(Row(On({"u"}, "U1"), On({"\"", "\\", "/", "b", "f", "n", "r", "t"}, "ST")), c)
  BY DEF Cell, state_transition_table
<1>3. Cell("U1", c) = Pick(On(Hex, "U2"), c)
  BY DEF Cell, state_transition_table
<1>4. Cell("U2", c) = Pick(On(Hex, "U3"), c)
  BY DEF Cell, state_transition_table
<1>5. Cell("U3", c) = Pick(On(Hex, "U4"), c)
  BY DEF Cell, state_transition_table
<1>6. Cell("U4", c) = Pick(On(Hex, "UC"), c)
  BY DEF Cell, state_transition_table
<1>7. Cell("D1", c) = Pick(On({"\\"}, "D2"), c)
  BY DEF Cell, state_transition_table
<1>8. Cell("D2", c) = Pick(On({"u"}, "U1"), c)
  BY DEF Cell, state_transition_table
<1>9. Cell("C1", c) = Pick(On({"*"}, "C2"), c)
  BY DEF Cell, state_transition_table
<1>10. Cell("C2", c) = Pick(Row(On({"*"}, "C3"), On(Classes, "C2")), c)
  BY DEF Cell, state_transition_table
<1>11. Cell("C3", c) = Pick(Row(On({"/"}, "CE"), Row(On({"*"}, "C3"), On(Classes, "C2"))), c)
  BY DEF Cell, state_transition_table
<1>21. Cell("ST", c) \in {"-4", "EX", "ST", "__"}
  BY <1>1
<1>22. (Cell("ES", c) = "U1" /\ c = "u") \/ Cell("ES", c) \in {"ST", "__"}
  BY <1>2
<1>23. Cell("U1", c) \in {"U2", "__"}
  BY <1>3
<1>24. Cell("U2", c) \in {"U3", "__"}
  BY <1>4
<1>25. Cell("U3", c) \in {"U4", "__"}
  BY <1>5
<1>26. Cell("U4", c) \in {"UC", "__"}
  BY <1>6
<1>27. Cell("D1", c) \in {"D2", "__"}
  BY <1>7
<1>28. Cell("D2", c) \in {"U1", "__"}
  BY <1>8
<1>29. Cell("C1", c) \in {"C2", "__"}
  BY <1>9
<1>30. Cell("C2", c) \in {"C2", "C3", "__"}
  BY <1>10
<1>31. Cell("C3", c) \in {"C2", "C3", "CE", "__"}
  BY <1>11
<1> QED BY <1>21, <1>22, <1>23, <1>24, <1>25, <1>26, <1>27, <1>28, <1>29, <1>30, <1>31

(* In a number or in true, false and null. *)
LEMMA CellsOfWords ==
  ASSUME NEW c
  PROVE  /\ Cell("MI", c) \in {"ZE", "IT", "__"}
         /\ (Cell("ZE", c) = "DF" /\ c = ".") \/ Cell("ZE", c) \in {"-8", "-7", "-3", "OK", "CB", "__"}
         /\ (Cell("IT", c) = "DF" /\ c = ".") \/ Cell("IT", c) \in {"-8", "-7", "-3", "OK", "CB", "IT", "DE", "__"}
         /\ Cell("FX", c) \in {"-8", "-7", "-3", "OK", "FR", "E1", "__"}
         /\ Cell("FR", c) \in {"-8", "-7", "-3", "OK", "CB", "FR", "E1", "__"}
         /\ Cell("E1", c) \in {"E2", "E3", "__"}
         /\ Cell("E2", c) \in {"E3", "__"}
         /\ Cell("E3", c) \in {"-8", "-7", "-3", "OK", "E3", "__"}
         /\ Cell("T1", c) \in {"T2", "__"}
         /\ Cell("T2", c) \in {"T3", "__"}
         /\ Cell("T3", c) \in {"OK", "CB", "__"}
         /\ Cell("F1", c) \in {"F2", "__"}
         /\ Cell("F2", c) \in {"F3", "__"}
         /\ Cell("F3", c) \in {"F4", "__"}
         /\ Cell("F4", c) \in {"OK", "CB", "__"}
         /\ Cell("N1", c) \in {"N2", "__"}
         /\ Cell("N2", c) \in {"N3", "__"}
         /\ Cell("N3", c) \in {"OK", "CB", "__"}
<1> USE DEF Pick, Row, On, Comment, Exponent, Digits
<1>1. Cell("MI", c) = Pick(Row(On({"0"}, "ZE"), On({"1-9"}, "IT")), c)
  BY DEF Cell, state_transition_table
<1>2. Cell("ZE", c) = Pick(Row(Closers, Row(On({"."}, "DF"), Comment)), c)
  BY DEF Cell, state_transition_table
<1>3. Cell("IT", c) = Pick(Row(Closers, Row(On({"."}, "DF"), Row(On(Digits, "IT"), Row(Exponent("DE"), Comment)))), c)
  BY DEF Cell, state_transition_table
<1>4. Cell("FX", c) = Pick(Row(Closers, Row(On(Digits, "FR"), Exponent("E1"))), c)
  BY DEF Cell, state_transition_table
<1>5. Cell("FR", c) = Pick(Row(Closers, Row(On(Digits, "FR"), Row(Exponent("E1"), Comment))), c)
  BY DEF Cell, state_transition_table
<1>6. Cell("E1", c) = Pick(Row(On({"+", "-"}, "E2"), On(Digits, "E3")), c)
  BY DEF Cell, state_transition_table
<1>7. Cell("E2", c) = Pick(On(Digits, "E3"), c)
  BY DEF Cell, state_transition_table
<1>8. Cell("E3", c) = Pick(Row(Closers, On(Digits, "E3")), c)
  BY DEF Cell, state_transition_table
<1>9. Cell("T1", c) = Pick(On({"r"}, "T2"), c)
  BY DEF Cell, state_transition_table
<1>10. Cell("T2", c) = Pick(On({"u"}, "T3"), c)
  BY DEF Cell, state_transition_table
<1>11. Cell("T3", c) = Pick(Row(On({"e"}, "OK"), Comment), c)
  BY DEF Cell, state_transition_table
<1>12. Cell("F1", c) = Pick(On({"a"}, "F2"), c)
  BY DEF Cell, state_transition_table
<1>13. Cell("F2", c) = Pick(On({"l"}, "F3"), c)
  BY DEF Cell, state_transition_table
<1>14. Cell("F3", c) = Pick(On({"s"}, "F4"), c)
  BY DEF Cell, state_transition_table
<1>15. Cell("F4", c) = Pick(Row(On({"e"}, "OK"), Comment), c)
  BY DEF Cell, state_transition_table
<1>16. Cell("N1", c) = Pick(On({"u"}, "N2"), c)
  BY DEF Cell, state_transition_table
<1>17. Cell("N2", c) = Pick(On({"l"}, "N3"), c)
  BY DEF Cell, state_transition_table
<1>18. Cell("N3", c) = Pick(Row(On({"l"}, "OK"), Comment), c)
  BY DEF Cell, state_transition_table
<1>21. Cell("MI", c) \in {"ZE", "IT", "__"}
  BY <1>1
<1>22. (Cell("ZE", c) = "DF" /\ c = ".") \/ Cell("ZE", c) \in {"-8", "-7", "-3", "OK", "CB", "__"}
  BY <1>2, PickClosers
<1>23. (Cell("IT", c) = "DF" /\ c = ".") \/ Cell("IT", c) \in {"-8", "-7", "-3", "OK", "CB", "IT", "DE", "__"}
  BY <1>3, PickClosers
<1>24. Cell("FX", c) \in {"-8", "-7", "-3", "OK", "FR", "E1", "__"}
  BY <1>4, PickClosers
<1>25. Cell("FR", c) \in {"-8", "-7", "-3", "OK", "CB", "FR", "E1", "__"}
  BY <1>5, PickClosers
<1>26. Cell("E1", c) \in {"E2", "E3", "__"}
  BY <1>6
<1>27. Cell("E2", c) \in {"E3", "__"}
  BY <1>7
<1>28. Cell("E3", c) \in {"-8", "-7", "-3", "OK", "E3", "__"}
  BY <1>8, PickClosers
<1>29. Cell("T1", c) \in {"T2", "__"}
  BY <1>9
<1>30. Cell("T2", c) \in {"T3", "__"}
  BY <1>10
<1>31. Cell("T3", c) \in {"OK", "CB", "__"}
  BY <1>11
<1>32. Cell("F1", c) \in {"F2", "__"}
  BY <1>12
<1>33. Cell("F2", c) \in {"F3", "__"}
  BY <1>13
<1>34. Cell("F3", c) \in {"F4", "__"}
  BY <1>14
<1>35. Cell("F4", c) \in {"OK", "CB", "__"}
  BY <1>15
<1>36. Cell("N1", c) \in {"N2", "__"}
  BY <1>16
<1>37. Cell("N2", c) \in {"N3", "__"}
  BY <1>17
<1>38. Cell("N3", c) \in {"OK", "CB", "__"}
  BY <1>18
<1> QED BY <1>21, <1>22, <1>23, <1>24, <1>25, <1>26, <1>27, <1>28, <1>29, <1>30, <1>31, <1>32,
   <1>33, <1>34, <1>35, <1>36, <1>37, <1>38

------------------------------------------------------------------------------------
(* The same the other way round: what an entry says of the state and the          *)
(* character.                                                                     *)

\* The states of a number that may end here.
Ended == {"ZE", "IT", "FX", "FR", "E3"}

\* The entries that only change the state.
Moves(st, c, n) ==
  \/ st \in Blanks /\ n = st /\ c \in White
  \/ st \in {"ST", "ES"} /\ n = "ST"
  \/ st = "ES" /\ n = "U1" /\ c = "u"
  \/ st = "U1" /\ n = "U2"
  \/ st = "U2" /\ n = "U3"
  \/ st = "U3" /\ n = "U4"
  \/ st = "D1" /\ n = "D2"
  \/ st = "D2" /\ n = "U1"
  \/ st \in InComment /\ n \in InComment
  \/ st \in InWord /\ n \in InWord \cup {"OK"} /\ (n \in {"MI", "ZE", "IT"} => st \in {"MI", "IT"})

\* The states and the characters an action of the table is for.
Causes(st, c, n) ==
  CASE n \in States -> Moves(st, c, n)
    [] n \in {"-6", "-5"} -> st \in {"GO", "VA", "AR"} /\ c \notin White
    [] n \in {"MX", "ZX", "IX", "FA", "NU", "TR"} -> st \in {"VA", "AR"} /\ c \notin White
    [] n = "SB" -> st \in {"OB", "KE", "VA", "AR"}
    [] n = "-9" -> st = "OB"
    [] n = "-2" -> st = "CO" /\ c \notin White
    [] n \in {"-8", "-3"} -> st \in {"OK"} \cup Ended /\ (st = "OK" => c \notin White)
    [] n = "-7" -> st \in {"OK", "AR"} \cup Ended /\ (st \in {"OK", "AR"} => c \notin White)
    [] n \in {"-4", "EX"} -> st = "ST"
    [] n = "UC" -> st = "U4"
    [] n = "CE" -> st = "C3"
    [] n = "CB" -> st \in Blanks \cup InWord /\ (st \in Blanks => c \notin White)
    [] n = "DE" -> st = "IT"
    [] n = "DF" -> st \in {"ZE", "IT"} /\ c = "."
    [] OTHER -> n = "__"

\* The states inside a number or a word, one by one.
LEMMA WordStates ==
  InWord = {"MI", "ZE", "IT", "FX", "FR", "E1", "E2", "E3", "T1", "T2", "T3", "F1", "F2", "F3", "F4",
            "N1", "N2", "N3"}
BY StatesAre DEF InWord, Blanks, InComment, InString

\* Every entry of the table is in a row and a column it is meant for.
LEMMA CauseOfCell == ASSUME NEW st \in States, NEW c PROVE Causes(st, c, Cell(st, c))
<1> USE StatesAre, WordStates DEF Causes, Moves, Blanks, InComment, Ended
<1>1. CASE st \in Blanks
  BY <1>1, CellsOfBlanks
<1>2. CASE st \in InString \cup InComment
  BY <1>2, CellsOfStrings DEF InString
<1>3. CASE st \in {"MI", "ZE", "IT", "FX", "FR", "E1", "E2", "E3"}
  BY <1>3, CellsOfWords
<1>4. CASE st \in {"T1", "T2", "T3", "F1", "F2", "F3", "F4", "N1", "N2", "N3"}
  BY <1>4, CellsOfWords
<1> QED BY <1>1, <1>2, <1>3, <1>4 DEF InString

\* Sequences: what appending, taking off and cutting leave.
LEMMA SeqAny == ASSUME NEW S, NEW q \in Seq(S) PROVE Sequence(q)
BY DEF Sequence

LEMMA SeqEmpty == Sequence(<<>>) /\ Len(<<>>) = 0
BY DEF Sequence

LEMMA SeqIs ==
  ASSUME NEW q, Sequence(q)
  PROVE  Len(q) \in Nat /\ DOMAIN q = 1..Len(q) /\ (q = <<>> <=> Len(q) = 0)
BY DEF Sequence

LEMMA SeqAppend ==
  ASSUME NEW q, NEW x, Sequence(q)
  PROVE  LET p == Append(q, x) IN
         /\ Sequence(p) /\ Len(p) = Len(q) + 1 /\ p # <<>> /\ Last(p) = x
         /\ Front(p) = q /\ \A i \in 1..Len(q) : p[i] = q[i]
<1> DEFINE S == {q[i] : i \in DOMAIN q} \cup {x}
           p == Append(q, x)
<1>1. q \in Seq(S) /\ x \in S
  BY DEF Sequence
<1> HIDE DEF S
<1>2. p \in Seq(S) /\ Len(p) = Len(q) + 1 /\ Len(q) \in Nat /\ p # <<>>
  BY <1>1
<1>3. p[Len(p)] = x /\ \A i \in 1..Len(q) : p[i] = q[i]
  BY <1>1
<1>4. Front(p) = q
  BY <1>1, <1>2, <1>3 DEF Front
<1>5. Last(p) = x
  BY <1>3 DEF Last
<1> HIDE DEF p
<1>6. Sequence(p)
  BY <1>2, SeqAny
<1> QED BY <1>2, <1>3, <1>4, <1>5, <1>6 DEF p

LEMMA SeqPrefix ==
  ASSUME NEW S, NEW q \in Seq(S), NEW m \in 0..Len(q)
  PROVE  /\ SubSeq(q, 1, m) \in Seq(S) /\ Len(SubSeq(q, 1, m)) = m
         /\ \A i \in 1..m : SubSeq(q, 1, m)[i] = q[i]
<1>1. m \in Int /\ 1 \in Int /\ \A i \in 1..m : q[i] \in S
  OBVIOUS
<1>2. /\ SubSeq(q, 1, m) \in Seq(S)
      /\ Len(SubSeq(q, 1, m)) = IF 1 <= m THEN m - 1 + 1 ELSE 0
      /\ \A i \in 1..m - 1 + 1 : SubSeq(q, 1, m)[i] = q[1 + i - 1]
  BY <1>1, SubSeqProperties
<1> QED BY <1>1, <1>2

LEMMA SeqFront ==
  ASSUME NEW q, Sequence(q), q # <<>>
  PROVE  /\ Sequence(Front(q)) /\ Len(Front(q)) = Len(q) - 1 /\ Len(q) - 1 \in Nat
         /\ \A i \in 1..(Len(q) - 1) : Front(q)[i] = q[i]
<1> DEFINE S == {q[i] : i \in DOMAIN q}
           m == Len(q) - 1
<1>1. q \in Seq(S)
  BY DEF Sequence
<1> HIDE DEF S
<1>2. m \in 0..Len(q) /\ m \in Nat
  BY <1>1
<1> HIDE DEF m
<1>3. /\ SubSeq(q, 1, m) \in Seq(S) /\ Len(SubSeq(q, 1, m)) = m
      /\ \A i \in 1..m : SubSeq(q, 1, m)[i] = q[i]
  BY <1>1, <1>2, SeqPrefix
<1>4. Sequence(SubSeq(q, 1, m))
  BY <1>3, SeqAny
<1>5. Front(q) = SubSeq(q, 1, m)
  BY DEF Front, m
<1> QED BY <1>2, <1>3, <1>4, <1>5 DEF m

LEMMA SeqCut ==
  ASSUME NEW q, Sequence(q), Len(q) >= 6
  PROVE  Sequence(SubSeq(q, 1, Len(q) - 6)) /\ Len(SubSeq(q, 1, Len(q) - 6)) = Len(q) - 6
<1> DEFINE S == {q[i] : i \in DOMAIN q}
           m == Len(q) - 6
<1>1. q \in Seq(S)
  BY DEF Sequence
<1> HIDE DEF S
<1>2. m \in 0..Len(q)
  BY <1>1
<1> HIDE DEF m
<1>3. SubSeq(q, 1, m) \in Seq(S) /\ Len(SubSeq(q, 1, m)) = m
  BY <1>1, <1>2, SeqPrefix
<1>4. Sequence(SubSeq(q, 1, m))
  BY <1>3, SeqAny
<1> QED BY <1>3, <1>4 DEF m

LEMMA SeqGrow ==
  ASSUME NEW q, NEW n \in Nat, NEW x, Sequence(q)
  PROVE  LET p == q \o [i \in 1..n |-> x] IN Sequence(p) /\ Len(p) = Len(q) + n
<1> DEFINE S == {q[i] : i \in DOMAIN q} \cup {x}
           m == [i \in 1..n |-> x]
<1>1. q \in Seq(S)
  BY DEF Sequence
<1>2. m \in Seq(S) /\ Len(m) = n
  BY IsASeq
<1> HIDE DEF S, m
<1>3. q \o m \in Seq(S) /\ Len(q \o m) = Len(q) + n
  <2>1. q \o m \in Seq(S) /\ Len(q \o m) = Len(q) + Len(m)
    BY <1>1, <1>2, ConcatProperties, Zenon
  <2> QED BY <1>2, <2>1
<1> QED BY <1>3, SeqAny DEF m

------------------------------------------------------------------------------------
(* The two memories of the parser.                                                *)

\* The fields that the functions of the parser change.
ByBuffer == {"buffer"}
ByFail == {"ok", "error"}
ByOk == {"ok"}
ByRoom == {"room", "memory", "ok", "error"}
ByAdd == {"buffer", "room", "memory", "escaped", "ok", "error"}
ByEscape == {"buffer", "escaped", "ok", "error"}
ByPlain == {"escaped"}
ByBare == {"buffer", "escaped"}

\* An assertion that holds changes nothing.
LEMMA CheckHolds ==
  ASSUME NEW j, NEW P, Sane(j), P
  PROVE  Check(j, P) = j
BY DEF Check, Sane, Whole, Fields

\* What returning false changes.
LEMMA Fails ==
  ASSUME NEW j, NEW e, Whole(j)
  PROVE  /\ Keeps(Fail(j), j, ByOk) /\ ~Fail(j).ok /\ Fail(j).ok \in BOOLEAN
         /\ Keeps(FailWith(j, e), j, ByFail) /\ ~FailWith(j, e).ok /\ FailWith(j, e).ok \in BOOLEAN
BY DEF Fail, FailWith, Whole, Keeps, Fields, ByBuffer, ByFail, ByOk, ByRoom, ByAdd, ByEscape,
   ByPlain, ByBare

\* After parse_buffer_reserve_for a character and the final zero fit, or it failed.
LEMMA Reserve ==
  ASSUME NEW j, Alive(j), BufferOK(j),
         NEW r, r = parse_buffer_reserve_for(j)
  PROVE  /\ Keeps(r, j, ByRoom) /\ BufferOK(r) /\ r.ok \in BOOLEAN
         /\ r.ok => Len(r.buffer) + 2 <= r.room /\ r.error = j.error
<1> DEFINE grown == [j EXCEPT !.room = 2 * @, !.memory = @ - 1]
<1>1. Len(j.buffer) \in Nat /\ Whole(j) /\ j.ok = TRUE
  BY SeqIs DEF BufferOK, Alive, Sane
<1>2. CASE Len(j.buffer) + 2 <= j.room
  <2>1. r = j
    BY <1>2 DEF parse_buffer_reserve_for
  <2>2. Keeps(j, j, ByRoom)
    BY <1>1 DEF Keeps, ByBuffer, ByFail, ByOk, ByRoom, ByAdd, ByEscape, ByPlain, ByBare
  <2> QED BY <1>1, <1>2, <2>1, <2>2
<1>3. CASE ~(Len(j.buffer) + 2 <= j.room) /\ j.memory = 0
  <2>1. r = FailWith(j, "out of memory")
    BY <1>3 DEF parse_buffer_reserve_for
  <2>2. Keeps(r, j, ByFail) /\ ~r.ok /\ r.ok \in BOOLEAN
    BY <1>1, <2>1, Fails
  <2>3. BufferOK(r) /\ Keeps(r, j, ByRoom)
    BY <2>2 DEF BufferOK, Keeps, Fields, ByBuffer, ByFail, ByOk, ByRoom, ByAdd, ByEscape, ByPlain, ByBare
  <2> QED BY <2>1, <2>2, <2>3
<1>4. CASE ~(Len(j.buffer) + 2 <= j.room) /\ j.memory # 0
  <2>1. r = grown
    BY <1>4 DEF parse_buffer_reserve_for
  <2>2. /\ Whole(grown) /\ \A f \in Fields \ {"room", "memory"} : grown[f] = j[f]
        /\ grown.room = 2 * j.room /\ grown.memory = j.memory - 1
    BY <1>1 DEF Keeps, Sane, Alive, Whole, Fields, ByBuffer, ByFail, ByOk, ByRoom, ByAdd, ByEscape,
       ByPlain, ByBare
  <2> HIDE DEF grown
  <2>3. grown.buffer = j.buffer /\ grown.ok = TRUE /\ grown.error = j.error
        /\ Keeps(grown, j, ByRoom)
    BY <1>1, <2>2 DEF Keeps, Fields, ByBuffer, ByFail, ByOk, ByRoom, ByAdd, ByEscape, ByPlain, ByBare
  <2>4. grown.room \in Nat /\ grown.room >= 2 /\ Len(j.buffer) + 2 <= grown.room
        /\ Len(j.buffer) < grown.room
        /\ grown.memory \in Nat
    BY <1>1, <1>4, <2>2 DEF BufferOK
  <2>5. BufferOK(grown)
    BY <2>3, <2>4 DEF BufferOK
  <2> QED BY <2>1, <2>3, <2>4, <2>5
<1> QED BY <1>2, <1>3, <1>4

\* A buffer that is not empty can be popped.
LEMMA PopChar ==
  ASSUME NEW j, Whole(j), Sequence(j.buffer), j.buffer # <<>>,
         NEW r, r = parse_buffer_pop_back_char(j)
  PROVE  /\ Keeps(r, j, ByBuffer) /\ Sequence(r.buffer) /\ r.buffer = Front(j.buffer)
         /\ Len(r.buffer) = Len(j.buffer) - 1 /\ Len(j.buffer) - 1 \in Nat
<1>1. r = [j EXCEPT !.buffer = Front(j.buffer)]
  BY DEF parse_buffer_pop_back_char
<1>2. Keeps(r, j, ByBuffer) /\ r.buffer = Front(j.buffer)
  BY <1>1 DEF Keeps, Sane, Alive, Whole, Fields, ByBuffer, ByFail, ByOk, ByRoom, ByAdd, ByEscape,
     ByPlain, ByBare
<1> QED BY <1>2, SeqFront

\* What was reserved for can be pushed.
LEMMA PushChar ==
  ASSUME NEW j, NEW c, Sane(j), Sequence(j.buffer), Len(j.buffer) + 2 <= j.room,
         NEW r, r = parse_buffer_push_back_char(j, c)
  PROVE  /\ Keeps(r, j, ByBuffer) /\ Sequence(r.buffer) /\ Len(r.buffer) = Len(j.buffer) + 1
         /\ Last(r.buffer) = Kept(c) /\ Front(r.buffer) = j.buffer /\ r.buffer # <<>>
<1>1. Check(j, Len(j.buffer) + 2 <= j.room) = j
  BY CheckHolds
<1>2. r = [j EXCEPT !.buffer = Append(j.buffer, Kept(c))]
  BY <1>1 DEF parse_buffer_push_back_char
<1>3. Keeps(r, j, ByBuffer) /\ r.buffer = Append(j.buffer, Kept(c))
  BY <1>2 DEF Keeps, Sane, Alive, Whole, Fields, ByBuffer, ByFail, ByOk, ByRoom, ByAdd, ByEscape,
     ByPlain, ByBare
<1>4. ASSUME NEW q, NEW x, Sequence(q)
      PROVE  /\ Sequence(Append(q, x)) /\ Len(Append(q, x)) = Len(q) + 1 /\ Append(q, x) # <<>>
             /\ Last(Append(q, x)) = x /\ Front(Append(q, x)) = q
  BY <1>4, SeqAppend
<1>5. /\ Sequence(r.buffer) /\ Len(r.buffer) = Len(j.buffer) + 1 /\ r.buffer # <<>>
      /\ Last(r.buffer) = Kept(c) /\ Front(r.buffer) = j.buffer
  BY <1>3, <1>4
<1> QED BY <1>3, <1>5

------------------------------------------------------------------------------------
(* Buffering a character.                                                         *)

\* Two functions in a row.
LEMMA KeepsTwice ==
  ASSUME NEW a, NEW b, NEW c, NEW F, NEW G, NEW H, Keeps(a, b, F), Keeps(b, c, G), F \subseteq H,
         G \subseteq H
  PROVE  Keeps(a, c, H)
BY DEF Keeps, ByBuffer, ByFail, ByOk, ByRoom, ByAdd, ByEscape, ByPlain, ByBare

LEMMA KeepsItself == ASSUME NEW j, NEW F, Whole(j) PROVE Keeps(j, j, F)
BY DEF Keeps, ByBuffer, ByFail, ByOk, ByRoom, ByAdd, ByEscape, ByPlain, ByBare

\* The second character of an escape replaces the backslash, and u leaves two.
LEMMA AddEscaped ==
  ASSUME NEW j, NEW c, Alive(j), Sequence(j.buffer), j.room \in Nat,
         Len(j.buffer) + 2 <= j.room, j.buffer # <<>>,
         NEW r, r = add_escaped_char_to_parse_buffer(j, c)
  PROVE  /\ Keeps(r, j, ByEscape) /\ Sequence(r.buffer)
         /\ Len(r.buffer) < r.room /\ r.ok \in BOOLEAN /\ ~r.escaped /\ r.escaped \in BOOLEAN
         /\ r.ok => /\ r.error = j.error /\ Len(r.buffer) >= Len(j.buffer)
                    /\ c = "u" => Len(r.buffer) >= Len(j.buffer) + 1
<1> DEFINE plain == [j EXCEPT !.escaped = FALSE]
           bare == parse_buffer_pop_back_char(plain)
           n == Len(j.buffer)
<1>0. Sane(j) /\ Whole(j) /\ j.ok = TRUE
  BY DEF Alive, Sane
<1>1. Check(j, Len(j.buffer) + 2 <= j.room) = j
  BY <1>0, CheckHolds
<1>2. Keeps(plain, j, ByPlain) /\ plain.escaped = FALSE
  BY <1>0 DEF Keeps, Sane, Alive, Whole, Fields, ByBuffer, ByFail, ByOk, ByRoom, ByAdd, ByEscape,
     ByPlain, ByBare
<1>3. /\ Alive(plain) /\ Sane(plain) /\ Whole(plain) /\ plain.buffer = j.buffer /\ plain.room = j.room
      /\ plain.error = j.error
  BY <1>0, <1>2 DEF Keeps, Sane, Alive, Fields, ByBuffer, ByFail, ByOk, ByRoom, ByAdd, ByEscape,
     ByPlain, ByBare
<1> HIDE DEF plain
<1>4. Keeps(bare, plain, ByBuffer) /\ Sequence(bare.buffer) /\ Len(bare.buffer) = n - 1
      /\ n - 1 \in Nat
  BY <1>3, PopChar
<1> HIDE DEF bare
<1>5. /\ Keeps(bare, j, ByBare) /\ bare.escaped = FALSE
      /\ Alive(bare) /\ Sane(bare) /\ Whole(bare) /\ bare.room = j.room /\ bare.error = j.error
  BY <1>2, <1>3, <1>4 DEF Keeps, Sane, Alive, Fields, ByBuffer, ByFail, ByOk, ByRoom, ByAdd,
     ByEscape, ByPlain, ByBare
<1>6. r = CASE c \in DOMAIN Escapes -> parse_buffer_push_back_char(bare, Escapes[c])
            [] c \in {"\"", "\\", "/"} -> parse_buffer_push_back_char(bare, c)
            [] c = "u" -> parse_buffer_push_back_char(parse_buffer_push_back_char(bare, "\\"), "u")
            [] OTHER -> FailWith(bare, "invalid escape")
  BY <1>1 DEF add_escaped_char_to_parse_buffer, bare, plain
<1>7. DOMAIN Escapes = {"b", "f", "n", "r", "t"}
  BY DEF Escapes
<1>8. n \in Nat /\ n >= 1
  BY <1>4, SeqIs
<1>9. ASSUME NEW x, NEW p, p = parse_buffer_push_back_char(bare, x)
      PROVE  Keeps(p, bare, ByBuffer) /\ Sequence(p.buffer) /\ Len(p.buffer) = n
  <2>1. Len(bare.buffer) + 2 <= bare.room
    BY <1>4, <1>5, <1>8
  <2>2. Len(bare.buffer) + 1 = n
    BY <1>4, <1>8
  <2>3. Keeps(p, bare, ByBuffer) /\ Sequence(p.buffer) /\ Len(p.buffer) = Len(bare.buffer) + 1
    BY <1>4, <1>5, <1>9, <2>1, PushChar
  <2> QED BY <2>2, <2>3
<1>10. CASE \E x : r = parse_buffer_push_back_char(bare, x) /\ c # "u"
  <2>1. Keeps(r, bare, ByBuffer) /\ Sequence(r.buffer) /\ Len(r.buffer) = n
    BY <1>9, <1>10
  <2>2. Keeps(r, j, ByEscape) /\ ~r.escaped /\ r.escaped \in BOOLEAN /\ r.ok /\ r.ok \in BOOLEAN
        /\ r.error = j.error /\ r.room = j.room
    BY <1>5, <2>1 DEF Keeps, Sane, Alive, Fields, ByBuffer, ByFail, ByOk, ByRoom, ByAdd, ByEscape,
       ByPlain, ByBare
  <2>3. Len(r.buffer) < r.room /\ Len(r.buffer) >= n
    BY <1>8, <2>1, <2>2
  <2> QED BY <1>10, <2>1, <2>2, <2>3
<1>11. CASE r = parse_buffer_push_back_char(parse_buffer_push_back_char(bare, "\\"), "u")
  <2> DEFINE h == parse_buffer_push_back_char(bare, "\\")
  <2>1. Keeps(h, bare, ByBuffer) /\ Sequence(h.buffer) /\ Len(h.buffer) = n
    BY <1>9
  <2> HIDE DEF h
  <2>2. Sane(h) /\ h.room = j.room
    BY <1>5, <2>1 DEF Keeps, Sane, Alive, Fields, ByBuffer, ByFail, ByOk, ByRoom, ByAdd, ByEscape,
       ByPlain, ByBare
  <2>3. PICK x : r = parse_buffer_push_back_char(h, x)
    BY <1>11 DEF h
  <2>4. Len(h.buffer) + 2 <= h.room
    BY <2>1, <2>2
  <2>5. Keeps(r, h, ByBuffer) /\ Sequence(r.buffer) /\ Len(r.buffer) = Len(h.buffer) + 1
    BY <2>1, <2>2, <2>3, <2>4, PushChar
  <2>6. Keeps(r, j, ByEscape) /\ ~r.escaped /\ r.escaped \in BOOLEAN /\ r.ok /\ r.ok \in BOOLEAN
        /\ r.error = j.error /\ r.room = j.room
    BY <1>5, <2>1, <2>5 DEF Keeps, Sane, Alive, Fields, ByBuffer, ByFail, ByOk, ByRoom, ByAdd,
       ByEscape, ByPlain, ByBare
  <2>7. Len(r.buffer) < r.room /\ Len(r.buffer) >= n /\ Len(r.buffer) >= n + 1
    BY <1>8, <2>1, <2>5, <2>6
  <2> QED BY <2>5, <2>6, <2>7
<1>12. CASE r = FailWith(bare, "invalid escape")
  <2>1. Keeps(r, bare, ByFail) /\ ~r.ok /\ r.ok \in BOOLEAN
    BY <1>5, <1>12, Fails
  <2>2. Keeps(r, j, ByEscape) /\ ~r.escaped /\ r.escaped \in BOOLEAN /\ r.buffer = bare.buffer
        /\ r.room = j.room
    BY <1>5, <2>1 DEF Keeps, Sane, Alive, Fields, ByBuffer, ByFail, ByOk, ByRoom, ByAdd, ByEscape,
       ByPlain, ByBare
  <2>3. Len(r.buffer) < r.room
    BY <1>4, <1>8, <2>2
  <2> QED BY <1>4, <2>1, <2>2, <2>3
<1> QED BY <1>6, <1>7, <1>10, <1>11, <1>12

\* add_char_to_parse_buffer puts the character in the buffer, unless it is a blank
\* between tokens or in a comment.
LEMMA AddChar ==
  ASSUME NEW j, NEW c, Alive(j), BufferOK(j),
         j.escaped \in BOOLEAN, j.comment \in BOOLEAN, j.escaped => j.buffer # <<>>,
         NEW k, k = add_char_to_parse_buffer(j, c)
  PROVE  /\ Keeps(k, j, ByAdd)
         /\ BufferOK(k) /\ k.ok \in BOOLEAN
         /\ k.ok => /\ k.error = j.error /\ ~k.escaped /\ k.escaped \in BOOLEAN
                    /\ j.escaped => /\ Len(k.buffer) >= Len(j.buffer)
                                    /\ c = "u" => Len(k.buffer) >= Len(j.buffer) + 1
                    /\ ~j.escaped /\ ~j.comment /\ (j.type # "none" \/ c \notin White) =>
                         /\ Len(k.buffer) = Len(j.buffer) + 1 /\ Last(k.buffer) = Kept(c)
                         /\ Front(k.buffer) = j.buffer /\ k.buffer # <<>>
                    /\ ~j.escaped /\ (j.comment \/ (j.type = "none" /\ c \in White)) => k.buffer = j.buffer
<1> DEFINE roomy == parse_buffer_reserve_for(j)
           n == Len(j.buffer)
<1>1. /\ Keeps(roomy, j, ByRoom) /\ BufferOK(roomy) /\ roomy.ok \in BOOLEAN
      /\ roomy.ok => Len(roomy.buffer) + 2 <= roomy.room /\ roomy.error = j.error
  BY Reserve
<1>2. /\ Sane(roomy) /\ (roomy.ok => Alive(roomy)) /\ roomy.buffer = j.buffer /\ roomy.escaped = j.escaped
      /\ roomy.comment = j.comment /\ roomy.type = j.type
      /\ Keeps(roomy, j, ByAdd)
  BY <1>1 DEF Keeps, Sane, Alive, Fields, ByBuffer, ByFail, ByOk, ByRoom, ByAdd, ByEscape, ByPlain, ByBare
<1>3. k = IF roomy.ok
          THEN CASE roomy.escaped -> add_escaped_char_to_parse_buffer(roomy, c)
                 [] ~roomy.escaped /\ ~roomy.comment /\ (roomy.type # "none" \/ c \notin White) ->
                      parse_buffer_push_back_char(roomy, c)
                 [] OTHER -> roomy
          ELSE roomy
  BY DEF add_char_to_parse_buffer, Then
<1> HIDE DEF roomy
<1>4. n \in Nat /\ roomy.room \in Nat /\ Sequence(roomy.buffer) /\ roomy.room >= 2 /\ roomy.memory \in Nat
  BY <1>1, <1>2, SeqIs DEF BufferOK
<1>5. CASE ~roomy.ok
  BY <1>1, <1>2, <1>3, <1>5
<1>6. CASE roomy.ok /\ roomy.escaped
  <2>1. k = add_escaped_char_to_parse_buffer(roomy, c) /\ Alive(roomy) /\ j.buffer # <<>>
    BY <1>1, <1>2, <1>3, <1>6
  <2>6. Len(roomy.buffer) + 2 <= roomy.room /\ roomy.buffer # <<>>
    BY <1>1, <1>2, <1>6, <2>1
  <2>7. /\ Keeps(k, roomy, ByEscape) /\ Sequence(k.buffer)
        /\ Len(k.buffer) < k.room /\ k.ok \in BOOLEAN /\ ~k.escaped /\ k.escaped \in BOOLEAN
        /\ k.ok => /\ k.error = roomy.error /\ Len(k.buffer) >= Len(roomy.buffer)
                   /\ c = "u" => Len(k.buffer) >= Len(roomy.buffer) + 1
    BY <1>4, <2>1, <2>6, AddEscaped
  <2>2. /\ Keeps(k, roomy, ByEscape) /\ Sequence(k.buffer)
        /\ Len(k.buffer) < k.room /\ k.ok \in BOOLEAN /\ ~k.escaped /\ k.escaped \in BOOLEAN
        /\ k.ok => /\ k.error = roomy.error /\ Len(k.buffer) >= n /\ (c = "u" => Len(k.buffer) >= n + 1)
    BY <1>2, <2>7
  <2>3. Keeps(k, j, ByAdd)
    BY <1>2, <2>2, KeepsTwice DEF ByEscape, ByBuffer, ByAdd
  <2>4. k.room = roomy.room /\ k.memory = roomy.memory
    BY <2>2 DEF Keeps, Sane, Alive, Fields, ByBuffer, ByFail, ByOk, ByRoom, ByAdd, ByEscape,
       ByPlain, ByBare
  <2>5. BufferOK(k)
    BY <1>4, <2>2, <2>4 DEF BufferOK
  <2> QED BY <1>1, <1>2, <1>6, <2>2, <2>3, <2>5
<1>7. CASE roomy.ok /\ ~roomy.escaped /\ ~roomy.comment /\ (roomy.type # "none" \/ c \notin White)
  <2>1. k = parse_buffer_push_back_char(roomy, c)
    BY <1>3, <1>7
  <2>7. Len(roomy.buffer) + 2 <= roomy.room
    BY <1>1, <1>2, <1>7
  <2>8. /\ Keeps(k, roomy, ByBuffer) /\ Sequence(k.buffer) /\ Len(k.buffer) = Len(roomy.buffer) + 1
        /\ Last(k.buffer) = Kept(c) /\ Front(k.buffer) = roomy.buffer /\ k.buffer # <<>>
    BY <1>2, <1>4, <2>1, <2>7, PushChar
  <2>2. /\ Keeps(k, roomy, ByBuffer) /\ Sequence(k.buffer) /\ Len(k.buffer) = n + 1
        /\ Last(k.buffer) = Kept(c) /\ Front(k.buffer) = j.buffer /\ k.buffer # <<>>
    BY <1>2, <2>8
  <2>3. Keeps(k, j, ByAdd)
    BY <1>2, <2>2, KeepsTwice DEF ByEscape, ByBuffer, ByAdd
  <2>4. k.room = roomy.room /\ k.memory = roomy.memory /\ k.ok = roomy.ok /\ k.error = roomy.error
        /\ k.escaped = roomy.escaped
    BY <2>2 DEF Keeps, Sane, Alive, Fields, ByBuffer, ByFail, ByOk, ByRoom, ByAdd, ByEscape,
       ByPlain, ByBare
  <2>5. BufferOK(k)
    <3>1. n + 2 <= roomy.room
      BY <1>1, <1>2, <1>7
    <3> QED BY <1>4, <2>2, <2>4, <3>1 DEF BufferOK
  <2>6. ~(j.comment \/ (j.type = "none" /\ c \in White)) /\ ~j.escaped
    BY <1>2, <1>7
  <2> QED BY <1>1, <1>2, <1>7, <2>2, <2>3, <2>4, <2>5, <2>6
<1>8. CASE roomy.ok /\ ~roomy.escaped /\ ~(~roomy.comment /\ (roomy.type # "none" \/ c \notin White))
  <2>1. k = roomy
    BY <1>3, <1>8
  <2> QED BY <1>1, <1>2, <1>8, <2>1
<1> QED BY <1>5, <1>6, <1>7, <1>8

------------------------------------------------------------------------------------
(* What each call of the callback does to the reader.                             *)

\* A value that comes to an object has a name.
NamesOK(s) == Current(s) = "object" => s.named
\* The same containers, one for one.
SameTypes(p, q) == Len(p) = Len(q) /\ \A i \in 1..Len(q) : p[i].type = q[i].type

\* Where the next value goes.
LEMMA CurrentIs ==
  ASSUME NEW s, ActionsOK(s)
  PROVE  Current(s) = IF s.open = <<>> THEN "nothing" ELSE s.open[Len(s.open)].type
BY DEF Current, Last

\* begin_compound opens one more container and uses up the name.
LEMMA BeginCompoundActions ==
  ASSUME NEW s, NEW t \in {"array", "object"}, ActionsOK(s), NamesOK(s), NEW r, r = begin_compound(s, t)
  PROVE  /\ ActionsOK(r) /\ ~r.named /\ Len(r.open) = Len(s.open) + 1
         /\ r.open[Len(s.open) + 1].type = t /\ \A i \in 1..Len(s.open) : r.open[i] = s.open[i]
<1> DEFINE o == [type |-> t, name |-> s.name, items |-> <<>>]
           q == Append(s.open, o)
<1>1. (s.broken \/ (Current(s) = "object" /\ ~s.named)) = FALSE
  BY DEF ActionsOK, NamesOK
<1>2. r = [s EXCEPT !.open = q, !.broken = FALSE, !.named = FALSE]
  BY <1>1 DEF begin_compound
<1>3. Sequence(s.open) /\ Len(s.open) \in Nat
  BY SeqIs DEF ActionsOK
<1>4. Sequence(q) /\ Len(q) = Len(s.open) + 1 /\ Last(q) = o /\ \A i \in 1..Len(s.open) : q[i] = s.open[i]
  BY <1>3, SeqAppend
<1>5. q[Len(s.open) + 1] = o
  BY <1>4 DEF Last
<1> HIDE DEF q
<1>6. r.open = q /\ r.broken = FALSE /\ r.named = FALSE /\ DOMAIN r = DOMAIN s
      /\ r = [f \in DOMAIN s |-> r[f]]
  BY <1>2 DEF ActionsOK
<1>7. o = [type |-> o.type, name |-> o.name, items |-> o.items] /\ o.type = t
  OBVIOUS
<1> HIDE DEF o
<1>8. ASSUME NEW i \in 1..Len(q)
      PROVE  /\ q[i] = [type |-> q[i].type, name |-> q[i].name, items |-> q[i].items]
             /\ q[i].type \in {"array", "object"}
  <2>1. CASE i = Len(s.open) + 1
    BY <2>1, <1>5, <1>7
  <2>2. CASE i \in 1..Len(s.open)
    BY <2>2, <1>4 DEF ActionsOK
  <2> QED BY <2>1, <2>2, <1>3, <1>4
<1>9. ActionsOK(r)
  BY <1>4, <1>6, <1>8 DEF ActionsOK
<1> QED BY <1>4, <1>5, <1>6, <1>7, <1>9

\* new_name is for an object.
LEMMA NewNameActions ==
  ASSUME NEW s, NEW text, ActionsOK(s), Current(s) = "object", NEW r, r = new_name(s, text)
  PROVE  ActionsOK(r) /\ r.named /\ r.open = s.open
<1> DEFINE x == IF KeepItems THEN text ELSE <<>>
<1>1. (s.broken \/ Current(s) # "object") = FALSE
  BY DEF ActionsOK
<1>2. r = [s EXCEPT !.broken = FALSE, !.named = TRUE, !.name = x]
  BY <1>1 DEF new_name
<1> HIDE DEF x
<1>4. DOMAIN s = {"open", "name", "named", "broken"} /\ s = [f \in DOMAIN s |-> s[f]]
  BY DEF ActionsOK
<1>3. r.open = s.open /\ r.broken = FALSE /\ r.named = TRUE /\ DOMAIN r = DOMAIN s
      /\ r = [f \in DOMAIN s |-> r[f]]
  BY <1>2, <1>4
<1>5. DOMAIN r = {"open", "name", "named", "broken"} /\ r = [f \in DOMAIN r |-> r[f]]
  BY <1>3, <1>4
<1>6. /\ Sequence(r.open)
      /\ \A i \in 1..Len(r.open) :
           /\ r.open[i] = [type |-> r.open[i].type, name |-> r.open[i].name, items |-> r.open[i].items]
           /\ r.open[i].type \in {"array", "object"}
  BY <1>3 DEF ActionsOK
<1> QED BY <1>3, <1>5, <1>6 DEF ActionsOK

\* add_to_current leaves the containers open and uses up the name.
LEMMA AddToCurrentActions ==
  ASSUME NEW s, NEW v, ActionsOK(s), s.open # <<>>, NamesOK(s), NEW r, r = add_to_current(s, v)
  PROVE  ActionsOK(r) /\ ~r.named /\ SameTypes(r.open, s.open)
<1> DEFINE n == Len(s.open)
           o == s.open[n]
           items == Add(o.items, Pair(IF Current(s) = "array" THEN <<>> ELSE s.name, v))
           q == [s.open EXCEPT ![n] = [o EXCEPT !.items = items]]
<1>1. (s.broken \/ (Current(s) = "object" /\ ~s.named)) = FALSE
  BY DEF ActionsOK, NamesOK
<1>2. r = [s EXCEPT !.open[n].items = items, !.broken = FALSE, !.named = FALSE]
  BY <1>1 DEF add_to_current
<1> HIDE DEF items
<1>3. r = [s EXCEPT !.open = q, !.broken = FALSE, !.named = FALSE]
  BY <1>2
<1>4. Sequence(s.open) /\ n \in Nat /\ n >= 1 /\ DOMAIN s.open = 1..n
  BY SeqIs DEF ActionsOK
<1> DEFINE p == [o EXCEPT !.items = items]
<1>5. o = [type |-> o.type, name |-> o.name, items |-> o.items] /\ o.type \in {"array", "object"}
  BY <1>4 DEF ActionsOK
<1> HIDE DEF o
<1>6. p = [type |-> o.type, name |-> o.name, items |-> items] /\ p.type = o.type
  BY <1>5
<1>7. p = [type |-> p.type, name |-> p.name, items |-> p.items]
  BY <1>6
<1>8. q = [s.open EXCEPT ![n] = p]
  OBVIOUS
<1> HIDE DEF p, q
<1>9. Sequence(q) /\ Len(q) = n /\ \A i \in 1..n : q[i] = IF i = n THEN p ELSE s.open[i]
  <2> DEFINE S == {s.open[i] : i \in DOMAIN s.open} \cup {p}
  <2>1. s.open \in Seq(S) /\ p \in S /\ n \in 1..Len(s.open)
    BY <1>4 DEF Sequence
  <2> HIDE DEF S
  <2>2. q \in Seq(S) /\ Len(q) = Len(s.open)
        /\ \A i \in 1..Len(s.open) : q[i] = IF i = n THEN p ELSE s.open[i]
    BY <2>1, <1>8, ExceptSeq
  <2> QED BY <2>2, SeqAny
<1>10. \A i \in 1..n : /\ q[i] = [type |-> q[i].type, name |-> q[i].name, items |-> q[i].items]
                       /\ q[i].type = s.open[i].type /\ q[i].type \in {"array", "object"}
  <2> SUFFICES ASSUME NEW i \in 1..n
               PROVE  /\ q[i] = [type |-> q[i].type, name |-> q[i].name, items |-> q[i].items]
                      /\ q[i].type = s.open[i].type /\ q[i].type \in {"array", "object"}
    OBVIOUS
  <2>1. CASE i = n
    BY <2>1, <1>4, <1>5, <1>6, <1>7, <1>9 DEF o
  <2>2. CASE i # n
    BY <2>2, <1>9 DEF ActionsOK
  <2> QED BY <2>1, <2>2
<1>11. r.open = q /\ r.broken = FALSE /\ r.named = FALSE /\ DOMAIN r = DOMAIN s
       /\ r = [f \in DOMAIN s |-> r[f]]
  BY <1>3 DEF ActionsOK
<1>12. ActionsOK(r)
  BY <1>9, <1>10, <1>11 DEF ActionsOK
<1>13. SameTypes(r.open, s.open)
  BY <1>9, <1>10, <1>11 DEF SameTypes
<1> QED BY <1>11, <1>12, <1>13

------------------------------------------------------------------------------------
(* Containers that end, and the stack of modes.                                   *)

\* Leaving a container leaves those around it.
LEMMA LeaveTypes ==
  ASSUME NEW s, ActionsOK(s), Len(s.open) > 1, NEW q, q = Leave(s.open)
  PROVE  /\ Sequence(q) /\ Len(q) = Len(s.open) - 1
         /\ \A i \in 1..Len(q) : /\ q[i] = [type |-> q[i].type, name |-> q[i].name, items |-> q[i].items]
                                 /\ q[i].type = s.open[i].type /\ q[i].type \in {"array", "object"}
<1> DEFINE n == Len(s.open)
           m == n - 2
           o == s.open[n - 1]
           name == IF o.type = "array" THEN <<>> ELSE s.open[n].name
           items == Add(o.items, Pair(name, Compound(s.open[n].type, s.open[n].items)))
           p == [o EXCEPT !.items = items]
           start == SubSeq(s.open, 1, m)
<1>1. q = Append(start, p)
  BY DEF Leave
<1> HIDE DEF name, items
<1>2. n \in Nat /\ n > 1 /\ m \in 0..n /\ m \in Nat /\ n - 1 \in 1..n /\ m + 1 = n - 1
  BY SeqIs DEF ActionsOK
<1>3. o = [type |-> o.type, name |-> o.name, items |-> o.items] /\ o.type \in {"array", "object"}
  BY <1>2 DEF ActionsOK
<1>4. p = [type |-> o.type, name |-> o.name, items |-> items] /\ p.type = o.type
  <2> HIDE DEF o
  <2> QED BY <1>3
<1>5. p = [type |-> p.type, name |-> p.name, items |-> p.items]
  BY <1>4
<1> HIDE DEF p
<1>6. Sequence(start) /\ Len(start) = m /\ \A i \in 1..m : start[i] = s.open[i]
  <2> DEFINE S == {s.open[i] : i \in DOMAIN s.open}
  <2>1. s.open \in Seq(S) /\ m \in 0..Len(s.open)
    BY <1>2 DEF ActionsOK, Sequence
  <2> HIDE DEF S, m
  <2>2. start \in Seq(S) /\ Len(start) = m /\ \A i \in 1..m : start[i] = s.open[i]
    BY <2>1, SeqPrefix
  <2> HIDE DEF start
  <2>3. Sequence(start)
    BY <2>2, SeqAny
  <2> QED BY <2>2, <2>3
<1> HIDE DEF start, m
<1>7. /\ Sequence(q) /\ Len(q) = Len(start) + 1 /\ Last(q) = p
      /\ \A i \in 1..Len(start) : q[i] = start[i]
  BY <1>1, <1>6, SeqAppend
<1>8. Len(q) = n - 1 /\ q[n - 1] = p /\ \A i \in 1..m : q[i] = s.open[i]
  BY <1>2, <1>6, <1>7 DEF Last
<1>9. ASSUME NEW i \in 1..(n - 1)
      PROVE  /\ q[i] = [type |-> q[i].type, name |-> q[i].name, items |-> q[i].items]
             /\ q[i].type = s.open[i].type /\ q[i].type \in {"array", "object"}
  <2>1. CASE i = n - 1
    BY <2>1, <1>3, <1>4, <1>5, <1>8
  <2>2. CASE i \in 1..m
    BY <2>2, <1>2, <1>8 DEF ActionsOK, m
  <2> QED BY <2>1, <2>2, <1>2
<1> QED BY <1>7, <1>8, <1>9

\* end_compound leaves the last container, unless it is the root.
LEMMA EndCompoundActions ==
  ASSUME NEW s, ActionsOK(s), NEW r, r = end_compound(s)
  PROVE  /\ ActionsOK(r) /\ r.named = s.named /\ Len(r.open) \in Nat
         /\ Len(r.open) = IF Len(s.open) > 1 THEN Len(s.open) - 1 ELSE Len(s.open)
         /\ \A i \in 1..Len(r.open) : r.open[i].type = s.open[i].type
<1>1. CASE ~(Len(s.open) > 1)
  BY <1>1, SeqIs DEF end_compound, ActionsOK
<1>2. CASE Len(s.open) > 1
  <2> DEFINE q == Leave(s.open)
  <2>1. /\ Sequence(q) /\ Len(q) = Len(s.open) - 1
        /\ \A i \in 1..Len(q) : /\ q[i] = [type |-> q[i].type, name |-> q[i].name, items |-> q[i].items]
                                /\ q[i].type = s.open[i].type /\ q[i].type \in {"array", "object"}
    BY <1>2, LeaveTypes
  <2>2. r = [s EXCEPT !.open = q]
    BY <1>2 DEF end_compound
  <2> HIDE DEF q
  <2>3. DOMAIN s = {"open", "name", "named", "broken"} /\ s = [f \in DOMAIN s |-> s[f]]
    BY DEF ActionsOK
  <2>4. r.open = q /\ r.broken = s.broken /\ r.named = s.named /\ DOMAIN r = DOMAIN s
        /\ r = [f \in DOMAIN s |-> r[f]]
    BY <2>2, <2>3
  <2>5. ActionsOK(r)
    BY <2>1, <2>4 DEF ActionsOK
  <2>6. Len(q) \in Nat
    BY <2>1, SeqIs
  <2> QED BY <1>2, <2>1, <2>4, <2>5, <2>6
<1> QED BY <1>1, <1>2

\* What json_calback calls for each event.
LEMMA CallbackScalar ==
  ASSUME NEW s, NEW e, e.type \in Scalars, ActionsOK(s), s.open # <<>>, NamesOK(s), NEW r,
         r = json_calback(s, e)
  PROVE  ActionsOK(r) /\ ~r.named /\ SameTypes(r.open, s.open)
<1>1. \E v : r = add_to_current(s, v)
  BY DEF json_calback, Scalars
<1> QED BY <1>1, AddToCurrentActions

LEMMA CallbackOthers ==
  ASSUME NEW s, NEW e
  PROVE  /\ e.type = "object begin" => json_calback(s, e) = begin_compound(s, "object")
         /\ e.type = "array begin" => json_calback(s, e) = begin_compound(s, "array")
         /\ e.type \in {"object end", "array end"} => json_calback(s, e) = end_compound(s)
         /\ e.type = "key" => json_calback(s, e) = new_name(s, e.text)
BY DEF json_calback

\* The stack of modes is never empty while a text is read, and stays as it must when a
\* mode is pushed or popped.
LEMMA StackIs ==
  ASSUME NEW q, StackOK(q)
  PROVE  /\ Len(q) \in Nat \ {0} /\ Last(q) = q[Len(q)] /\ Last(q) \in Modes
         /\ (Last(q) = "DONE" <=> Len(q) = 1)
         /\ Sequence(q)
<1>1. Len(q) \in Nat /\ Len(q) # 0 /\ q \in Seq(Modes)
  BY DEF StackOK
<1>2. Last(q) = q[Len(q)] /\ q[Len(q)] \in Modes
  BY <1>1 DEF Last
<1>3. q[Len(q)] = "DONE" <=> Len(q) = 1
  <2>1. q[1] = "DONE" /\ \A i \in 2..Len(q) : q[i] # "DONE"
    BY DEF StackOK
  <2>2. Len(q) # 1 => Len(q) \in 2..Len(q)
    <3> DEFINE n == Len(q)
    <3>1. n \in Nat \ {0}
      BY <1>1
    <3> HIDE DEF n
    <3>2. n # 1 => n \in 2..n
      BY <3>1
    <3> QED BY <3>2 DEF n
  <2> QED BY <2>1, <2>2
<1> QED BY <1>1, <1>2, <1>3, SeqAny

\* The stack after a push.
Pushed(q, m) == Append(q, m)

LEMMA StackPush ==
  ASSUME NEW q, StackOK(q), Last(q) # "KEY", NEW m \in {"ARRAY", "OBJECT", "KEY"}, NEW r, r = Pushed(q, m)
  PROVE  /\ StackOK(r) /\ Last(r) = m /\ Len(r) = Len(q) + 1
         /\ r[Len(q) + 1] = m /\ \A i \in 1..Len(q) : r[i] = q[i]
<1>1. Len(q) \in Nat \ {0} /\ Last(q) = q[Len(q)] /\ q \in Seq(Modes) /\ m \in Modes
  BY StackIs DEF StackOK, Modes
<1>2. r \in Seq(Modes) /\ Len(r) = Len(q) + 1 /\ r[Len(q) + 1] = m /\ \A i \in 1..Len(q) : r[i] = q[i]
  BY <1>1 DEF Pushed
<1>3. StackOK(r)
  <2>1. r # <<>> /\ r[1] = "DONE"
    BY <1>1, <1>2 DEF StackOK
  <2>2. \A i \in 2..Len(r) : r[i] # "DONE"
    <3> SUFFICES ASSUME NEW i \in 2..Len(r) PROVE r[i] # "DONE"
      OBVIOUS
    <3>1. CASE i = Len(q) + 1
      BY <3>1, <1>2
    <3>2. CASE i # Len(q) + 1
      <4>1. i \in 2..Len(q) /\ i \in 1..Len(q)
        BY <3>2, <1>1, <1>2
      <4> QED BY <4>1, <1>2 DEF StackOK
    <3> QED BY <3>1, <3>2
  <2>3. \A i \in 1..(Len(r) - 1) : r[i] # "KEY"
    <3> SUFFICES ASSUME NEW i \in 1..(Len(r) - 1) PROVE r[i] # "KEY"
      OBVIOUS
    <3>1. i \in 1..Len(q) /\ r[i] = q[i]
      BY <1>1, <1>2
    <3>2. CASE i = Len(q)
      BY <3>1, <3>2, <1>1
    <3>3. CASE i # Len(q)
      BY <3>1, <3>3, <1>1 DEF StackOK
    <3> QED BY <3>2, <3>3
  <2> QED BY <1>2, <2>1, <2>2, <2>3 DEF StackOK
<1> QED BY <1>1, <1>2, <1>3 DEF Last

LEMMA StackPop ==
  ASSUME NEW q, StackOK(q), Last(q) # "DONE", NEW r, r = Front(q)
  PROVE  /\ StackOK(r) /\ Last(r) # "KEY" /\ Len(r) = Len(q) - 1
         /\ \A i \in 1..Len(r) : r[i] = q[i]
<1>1. Len(q) \in Nat \ {0, 1} /\ q \in Seq(Modes)
  BY StackIs DEF StackOK
<1>2. Len(q) - 1 \in 0..Len(q)
  BY <1>1
<1>3. r \in Seq(Modes) /\ Len(r) = Len(q) - 1 /\ \A i \in 1..(Len(q) - 1) : r[i] = q[i]
  BY <1>1, <1>2, SeqPrefix DEF Front
<1>4. StackOK(r)
  <2>1. r # <<>> /\ r[1] = "DONE"
    BY <1>1, <1>3 DEF StackOK
  <2>2. \A i \in 2..Len(r) : r[i] # "DONE"
    BY <1>1, <1>3 DEF StackOK
  <2>3. \A i \in 1..(Len(r) - 1) : r[i] # "KEY"
    BY <1>1, <1>3 DEF StackOK
  <2> QED BY <1>3, <2>1, <2>2, <2>3 DEF StackOK
<1>5. Last(r) = r[Len(q) - 1] /\ r[Len(q) - 1] # "KEY"
  BY <1>1, <1>3 DEF Last, StackOK
<1> QED BY <1>3, <1>4, <1>5

------------------------------------------------------------------------------------
(* The path of the document that the stack of modes stands for.                   *)

\* The path a stack of modes stands for, and the document with the reader's part of it.
PathOf(q) == Kinds(SubSeq(q, 2, Len(q)))
Doc(q, s) == [path |-> PathOf(q), pending |-> s.named, begun |-> s.open # <<>>]
\* The reader and the stack agree on the containers.
Sync(q, s) == /\ StackOK(q) /\ ActionsOK(s)
              /\ Follows(s.open, q) \/ (Len(q) = 1 /\ Len(s.open) = 1)
\* What a path is made of.
KindSet == {"array", "object"}

\* The path of a stack, and how it changes with it: replacing a mode of the same
\* container, entering a container, leaving it.
LEMMA PathIs ==
  ASSUME NEW q, StackOK(q)
  PROVE  /\ PathOf(q) \in Seq(KindSet) /\ Len(PathOf(q)) = Len(q) - 1
         /\ \A i \in 1..(Len(q) - 1) : PathOf(q)[i] = KindOf(q[i + 1])
<1> DEFINE t == SubSeq(q, 2, Len(q))
           n == Len(q) - 1
<1>1. Len(q) \in Nat \ {0} /\ q \in Seq(Modes) /\ n \in Nat
  BY StackIs DEF StackOK
<1>2. t \in Seq(Modes) /\ Len(t) = n /\ \A i \in 1..n : t[i] = q[i + 1]
  <2>1. 2 \in Int /\ Len(q) \in Int /\ \A i \in 2..Len(q) : q[i] \in Modes
    BY <1>1
  <2> HIDE DEF t
  <2>2. \A u : u = SubSeq(q, 2, Len(q)) =>
          /\ u \in Seq(Modes) /\ Len(u) = IF 2 <= Len(q) THEN Len(q) - 2 + 1 ELSE 0
          /\ \A i \in 1..Len(q) - 2 + 1 : u[i] = q[2 + i - 1]
    BY ONLY <2>1, SubSeqProperties
  <2>3. t = SubSeq(q, 2, Len(q))
    BY DEF t
  <2>4. /\ t \in Seq(Modes) /\ Len(t) = IF 2 <= Len(q) THEN Len(q) - 2 + 1 ELSE 0
        /\ \A i \in 1..Len(q) - 2 + 1 : t[i] = q[2 + i - 1]
    BY <2>2, <2>3
  <2>5. Len(t) = n
    <3>1. \A a \in Nat \ {0} : (IF 2 <= a THEN a - 2 + 1 ELSE 0) = a - 1
      OBVIOUS
    <3>2. Len(t) = IF 2 <= Len(q) THEN Len(q) - 2 + 1 ELSE 0
      BY <2>4
    <3> QED BY <1>1, <3>1, <3>2
  <2>6. ASSUME NEW i \in 1..n PROVE t[i] = q[i + 1]
    <3>1. i \in 1..Len(q) - 2 + 1 /\ 2 + i - 1 = i + 1
      BY <1>1
    <3> QED BY <2>4, <3>1
  <2> QED BY <2>4, <2>5, <2>6
<1> HIDE DEF t
<1>3. PathOf(q) = [i \in 1..n |-> KindOf(t[i])]
  BY <1>1, <1>2 DEF PathOf, Kinds, KindOf, t
<1>4. \A i \in 1..n : KindOf(t[i]) \in KindSet
  BY DEF KindOf, KindSet
<1> HIDE DEF n
<1>5. PathOf(q) \in Seq(KindSet) /\ Len(PathOf(q)) = n
  BY <1>1, <1>3, <1>4
<1> QED BY <1>2, <1>3, <1>5 DEF n

LEMMA PathSame ==
  ASSUME NEW q, NEW r, StackOK(q), StackOK(r), Len(r) = Len(q),
         \A i \in 2..Len(q) : KindOf(r[i]) = KindOf(q[i])
  PROVE  PathOf(r) = PathOf(q)
<1>1. Len(q) \in Nat /\ \A i \in 1..(Len(q) - 1) : i + 1 \in 2..Len(q)
  BY StackIs
<1>2. \A i \in 1..Len(PathOf(q)) : PathOf(r)[i] = PathOf(q)[i]
  BY <1>1, PathIs
<1> QED BY <1>2, PathIs, SeqEqual

LEMMA PathPush ==
  ASSUME NEW q, NEW m, NEW r, StackOK(q), StackOK(r), Len(r) = Len(q) + 1,
         r[Len(q) + 1] = m, \A i \in 1..Len(q) : r[i] = q[i]
  PROVE  PathOf(r) = Append(PathOf(q), KindOf(m))
<1> DEFINE p == PathOf(q)
           a == Append(p, KindOf(m))
<1>1. Len(q) \in Nat \ {0} /\ KindOf(m) \in KindSet
  BY StackIs DEF KindOf, KindSet
<1>2. p \in Seq(KindSet) /\ Len(p) = Len(q) - 1 /\ \A i \in 1..(Len(q) - 1) : p[i] = KindOf(q[i + 1])
  BY PathIs
<1>3. PathOf(r) \in Seq(KindSet) /\ Len(PathOf(r)) = Len(r) - 1
      /\ \A i \in 1..(Len(r) - 1) : PathOf(r)[i] = KindOf(r[i + 1])
  BY PathIs
<1> HIDE DEF p
<1>4. a \in Seq(KindSet) /\ Len(a) = Len(q) /\ a[Len(q)] = KindOf(m)
      /\ \A i \in 1..(Len(q) - 1) : a[i] = p[i]
  BY <1>1, <1>2
<1> HIDE DEF a
<1>5. ASSUME NEW i \in 1..Len(q) PROVE PathOf(r)[i] = a[i]
  <2>1. PathOf(r)[i] = KindOf(r[i + 1])
    BY <1>1, <1>3
  <2>2. CASE i = Len(q)
    BY <2>1, <2>2, <1>4
  <2>3. CASE i # Len(q)
    <3>1. i \in 1..(Len(q) - 1) /\ i + 1 \in 1..Len(q)
      BY <1>1, <2>3
    <3> QED BY <2>1, <3>1, <1>2, <1>4
  <2> QED BY <2>2, <2>3
<1>6. Len(PathOf(r)) = Len(a) /\ \A i \in 1..Len(a) : PathOf(r)[i] = a[i]
  BY <1>1, <1>3, <1>4, <1>5
<1>7. PathOf(r) = a
  BY <1>3, <1>4, <1>6, SeqEqual
<1> QED BY <1>7 DEF a, p

LEMMA PathPop ==
  ASSUME NEW q, NEW r, StackOK(q), StackOK(r), Len(r) = Len(q) - 1, \A i \in 1..Len(r) : r[i] = q[i]
  PROVE  PathOf(r) = Front(PathOf(q))
<1> DEFINE p == PathOf(q)
           n == Len(q) - 2
<1>1. Len(q) \in Nat /\ Len(r) \in Nat \ {0} /\ n \in Nat /\ n <= Len(q) - 1
  BY StackIs
<1>2. p \in Seq(KindSet) /\ Len(p) = Len(q) - 1 /\ \A i \in 1..(Len(q) - 1) : p[i] = KindOf(q[i + 1])
  BY PathIs
<1>3. PathOf(r) \in Seq(KindSet) /\ Len(PathOf(r)) = n /\ \A i \in 1..n : PathOf(r)[i] = KindOf(r[i + 1])
  <2>1. PathOf(r) \in Seq(KindSet) /\ Len(PathOf(r)) = Len(r) - 1
        /\ \A i \in 1..(Len(r) - 1) : PathOf(r)[i] = KindOf(r[i + 1])
    BY PathIs
  <2>2. Len(r) - 1 = n
    BY <1>1
  <2> QED BY <2>1, <2>2
<1> HIDE DEF p
<1>4. n \in 0..Len(p) /\ Front(p) = SubSeq(p, 1, n)
  BY <1>1, <1>2 DEF Front
<1>5. Front(p) \in Seq(KindSet) /\ Len(Front(p)) = n /\ \A i \in 1..n : Front(p)[i] = p[i]
  BY <1>2, <1>4, SeqPrefix
<1>6. ASSUME NEW i \in 1..n PROVE PathOf(r)[i] = Front(p)[i]
  <2>1. i \in 1..(Len(q) - 1) /\ i + 1 \in 1..Len(r)
    BY <1>1
  <2> QED BY <2>1, <1>2, <1>3, <1>5
<1> HIDE DEF n
<1>7. PathOf(r) = Front(p)
  BY <1>3, <1>5, <1>6, SeqEqual
<1> QED BY <1>7 DEF p

LEMMA PathLast ==
  ASSUME NEW q, StackOK(q)
  PROVE  /\ PathOf(q) = <<>> <=> Last(q) = "DONE"
         /\ Last(q) # "DONE" => Last(PathOf(q)) = KindOf(Last(q))
<1>1. /\ Len(q) \in Nat \ {0} /\ (Last(q) = "DONE" <=> Len(q) = 1) /\ Last(q) = q[Len(q)]
      /\ PathOf(q) \in Seq(KindSet) /\ Len(PathOf(q)) = Len(q) - 1
      /\ \A i \in 1..(Len(q) - 1) : PathOf(q)[i] = KindOf(q[i + 1])
  BY StackIs, PathIs
<1>2. PathOf(q) = <<>> <=> Len(q) = 1
  BY <1>1
<1>3. ASSUME Len(q) # 1 PROVE Last(PathOf(q)) = KindOf(Last(q))
  <2>1. Len(q) - 1 \in 1..(Len(q) - 1) /\ (Len(q) - 1) + 1 = Len(q)
    BY <1>1, <1>3
  <2> QED BY <1>1, <2>1 DEF Last
<1> QED BY <1>1, <1>2, <1>3

------------------------------------------------------------------------------------
(* A call of the callback is an event of the document.                            *)

\* The reader knows the name of the value that may come.
Announced(q, s) == Last(q) = "OBJECT" => s.named

\* The document and the reader are inside the container of the last mode.
LEMMA InsideIs ==
  ASSUME NEW q, NEW s, StackOK(q)
  PROVE  /\ Document!Inside(Doc(q, s)) = IF Last(q) = "DONE" THEN "nothing" ELSE KindOf(Last(q))
         /\ Doc(q, s).pending = s.named /\ Doc(q, s).path = PathOf(q)
         /\ Doc(q, s).begun <=> s.open # <<>>
<1>1. Doc(q, s).path = PathOf(q) /\ Doc(q, s).pending = s.named /\ (Doc(q, s).begun <=> s.open # <<>>)
  BY DEF Doc
<1>2. (PathOf(q) = <<>> <=> Last(q) = "DONE") /\ (Last(q) # "DONE" => Last(PathOf(q)) = KindOf(Last(q)))
  BY PathLast
<1>3. \A t : Document!Last(t) = Last(t)
  BY DEF Document!Last, Last
<1> QED BY <1>1, <1>2, <1>3 DEF Document!Inside

LEMMA CurrentInside ==
  ASSUME NEW q, NEW s, Sync(q, s), Last(q) # "DONE"
  PROVE  /\ Current(s) = KindOf(Last(q)) /\ s.open # <<>> /\ Follows(s.open, q)
         /\ Len(s.open) = Len(q) - 1 /\ Len(q) \in Nat \ {0, 1}
<1>1. Len(q) \in Nat \ {0, 1} /\ Last(q) = q[Len(q)] /\ StackOK(q) /\ ActionsOK(s)
  BY StackIs DEF Sync
<1>2. Follows(s.open, q) /\ Len(s.open) = Len(q) - 1
  BY <1>1 DEF Sync, Follows
<1>3. Len(s.open) \in 1..Len(s.open) /\ Len(s.open) + 1 = Len(q)
  <2>1. \A a, b \in Nat : b \notin {0, 1} /\ a = b - 1 => a \in 1..a /\ a + 1 = b
    OBVIOUS
  <2>2. Len(s.open) \in Nat
    BY <1>1, SeqIs DEF ActionsOK
  <2> QED BY <2>1, <2>2, <1>1, <1>2
<1>4. s.open[Len(s.open)].type = KindOf(Last(q))
  BY <1>1, <1>2, <1>3 DEF Follows
<1>5. s.open # <<>>
  BY <1>1, <1>2, SeqIs DEF ActionsOK
<1> QED BY <1>1, <1>2, <1>4, <1>5, CurrentIs

\* A mode that turns stands for the same container.
LEMMA SyncSame ==
  ASSUME NEW q, NEW s, NEW r, Sync(q, s), ActionsOK(r), SameTypes(r.open, s.open)
  PROVE  Sync(q, r) /\ (r.open = <<>> <=> s.open = <<>>)
<1>1. Len(r.open) = Len(s.open) /\ Len(s.open) \in Nat
      /\ \A i \in 1..Len(s.open) : r.open[i].type = s.open[i].type
  BY SeqIs DEF SameTypes, Sync, ActionsOK
<1>2. Follows(s.open, q) => Follows(r.open, q)
  BY <1>1 DEF Follows
<1>3. r.open = <<>> <=> s.open = <<>>
  BY <1>1, SeqIs DEF Sync, ActionsOK
<1> QED BY <1>1, <1>2, <1>3 DEF Sync

\* A scalar comes where a value may, and the name is used up.
LEMMA ScalarStory ==
  ASSUME NEW q, NEW s, NEW e, e.type \in Scalars, Sync(q, s), Last(q) \in {"ARRAY", "OBJECT"},
         Announced(q, s),
         NEW r, r = json_calback(s, e)
  PROVE  /\ Sync(q, r) /\ ~r.named /\ r.open # <<>>
         /\ e.type \in Document!Event /\ Document!Legal(Doc(q, s), e.type)
         /\ Doc(q, r) = Document!Apply(Doc(q, s), e.type)
<1>1. Current(s) = KindOf(Last(q)) /\ s.open # <<>> /\ StackOK(q) /\ ActionsOK(s)
  BY CurrentInside DEF Sync
<1>2. NamesOK(s)
  BY <1>1 DEF NamesOK, KindOf, Announced
<1>3. ActionsOK(r) /\ ~r.named /\ SameTypes(r.open, s.open)
  BY <1>1, <1>2, CallbackScalar
<1>4. Sync(q, r) /\ r.open # <<>>
  BY <1>1, <1>3, SyncSame
<1>5. Document!Inside(Doc(q, s)) = KindOf(Last(q)) /\ Doc(q, s).pending = s.named
      /\ Doc(q, s).path = PathOf(q)
  BY <1>1, InsideIs
<1>6. Document!WantsValue(Doc(q, s))
  BY <1>5 DEF Document!WantsValue, KindOf, Announced
<1>7. e.type \in Document!Scalar /\ e.type \in Document!Event
  BY DEF Scalars, Document!Scalar, Document!Event
<1>8. Document!Apply(Doc(q, s), e.type) = [path |-> PathOf(q), pending |-> FALSE, begun |-> TRUE]
  BY <1>5, <1>7 DEF Document!Apply, Document!Scalar, Document!Begin, Document!Finish
<1>9. r.named = FALSE /\ (r.open # <<>>) = TRUE
  BY <1>3, <1>4 DEF ActionsOK
<1>10. Doc(q, r) = [path |-> PathOf(q), pending |-> FALSE, begun |-> TRUE]
  BY <1>9 DEF Doc
<1> QED BY <1>3, <1>4, <1>6, <1>7, <1>8, <1>10 DEF Document!Legal

\* A key comes in an object that has none waiting.
LEMMA KeyStory ==
  ASSUME NEW q, NEW s, NEW e, e.type = "key", Sync(q, s), Last(q) = "KEY", ~s.named,
         NEW r, r = json_calback(s, e)
  PROVE  /\ Sync(q, r) /\ r.named /\ r.open # <<>>
         /\ e.type \in Document!Event /\ Document!Legal(Doc(q, s), e.type)
         /\ Doc(q, r) = Document!Apply(Doc(q, s), e.type)
<1>1. Current(s) = "object" /\ s.open # <<>> /\ StackOK(q) /\ ActionsOK(s)
  BY CurrentInside DEF Sync, KindOf
<1>2. r = new_name(s, e.text)
  BY CallbackOthers
<1>3. ActionsOK(r) /\ r.named /\ r.open = s.open
  BY <1>1, <1>2, NewNameActions
<1>4. Sync(q, r) /\ r.open # <<>>
  BY <1>1, <1>3 DEF Sync
<1>5. Document!Inside(Doc(q, s)) = "object" /\ Doc(q, s).pending = s.named /\ Doc(q, s).path = PathOf(q)
  BY <1>1, InsideIs DEF KindOf
<1>6. Document!Legal(Doc(q, s), "key") /\ "key" \in Document!Event
  BY <1>5 DEF Document!Legal, Document!Event
<1>8. Document!Apply(Doc(q, s), e.type) = [path |-> PathOf(q), pending |-> TRUE, begun |-> TRUE]
  BY <1>5 DEF Document!Apply, Document!Begin, Document!Finish
<1>9. r.named = TRUE /\ (r.open # <<>>) = TRUE
  BY <1>3, <1>4 DEF ActionsOK
<1>10. Doc(q, r) = [path |-> PathOf(q), pending |-> TRUE, begun |-> TRUE]
  BY <1>9 DEF Doc
<1> QED BY <1>3, <1>4, <1>6, <1>8, <1>10

\* The events that begin and end a container, with the mode they are for.
Begins(e, m) == \/ e.type = "object begin" /\ m = "KEY"
                \/ e.type = "array begin" /\ m = "ARRAY"
Ends(e, m)   == \/ e.type = "object end" /\ m \in {"KEY", "OBJECT"}
                \/ e.type = "array end" /\ m = "ARRAY"
\* A value may come: at the very beginning, in an array, after a name.
ValueMayCome(q, s) == /\ Last(q) # "KEY" /\ Announced(q, s)
                      /\ Last(q) = "DONE" => s.open = <<>>

\* A container begins where a value may, and the reader follows the stack into it.
LEMMA BeginActions ==
  ASSUME NEW q, NEW s, NEW e, NEW m, Begins(e, m), Sync(q, s), ValueMayCome(q, s),
         NEW r, r = json_calback(s, e)
  PROVE  /\ ActionsOK(r) /\ ~r.named /\ Len(r.open) = Len(s.open) + 1
         /\ r.open[Len(s.open) + 1].type = KindOf(m)
         /\ \A i \in 1..Len(s.open) : r.open[i] = s.open[i]
<1>1. r = begin_compound(s, KindOf(m)) /\ KindOf(m) \in {"array", "object"}
  BY CallbackOthers DEF Begins, KindOf
<1>2. NamesOK(s)
  <2>1. CASE Last(q) = "DONE"
    BY <2>1, CurrentIs DEF ValueMayCome, NamesOK, Sync
  <2>2. CASE Last(q) # "DONE"
    <3>1. Last(q) \in Modes
      BY StackIs DEF Sync
    <3> QED BY <2>2, <3>1, CurrentInside DEF ValueMayCome, Announced, NamesOK, KindOf, Modes
  <2> QED BY <2>1, <2>2
<1> QED BY <1>1, <1>2, BeginCompoundActions DEF Sync

LEMMA BeginStory ==
  ASSUME NEW q, NEW s, NEW e, NEW m, Begins(e, m), Sync(q, s), ValueMayCome(q, s),
         NEW r, r = json_calback(s, e), NEW p, p = Pushed(q, m)
  PROVE  /\ Sync(p, r) /\ ~r.named /\ r.open # <<>> /\ Last(p) = m
         /\ e.type \in Document!Event /\ Document!Legal(Doc(q, s), e.type)
         /\ Doc(p, r) = Document!Apply(Doc(q, s), e.type)
<1> DEFINE n == Len(s.open)
<1>1. StackOK(q) /\ ActionsOK(s) /\ Len(q) \in Nat \ {0} /\ n \in Nat /\ Last(q) \in Modes
      /\ (Last(q) = "DONE" <=> Len(q) = 1)
  BY StackIs, SeqIs DEF Sync, ActionsOK
<1>2. /\ ActionsOK(r) /\ ~r.named /\ Len(r.open) = n + 1 /\ r.open[n + 1].type = KindOf(m)
      /\ \A i \in 1..n : r.open[i] = s.open[i]
  BY BeginActions
<1>3. n = Len(q) - 1 /\ Follows(s.open, q)
  <2>1. CASE Last(q) = "DONE"
    <3>1. s.open = <<>> /\ Len(q) = 1 /\ n = 0
      BY <1>1, <2>1, SeqIs DEF ValueMayCome, ActionsOK
    <3> QED BY <3>1 DEF Follows
  <2>2. CASE Last(q) # "DONE"
    BY <2>2, CurrentInside
  <2> QED BY <2>1, <2>2
<1>4. /\ StackOK(p) /\ Last(p) = m /\ Len(p) = Len(q) + 1
      /\ p[Len(q) + 1] = m /\ \A i \in 1..Len(q) : p[i] = q[i]
  <2>1. m \in {"ARRAY", "OBJECT", "KEY"} /\ Last(q) # "KEY"
    BY DEF Begins, ValueMayCome
  <2> QED BY <1>1, <2>1, StackPush
<1>5. Follows(r.open, p)
  <2>1. Len(r.open) = Len(p) - 1
    BY <1>1, <1>2, <1>3, <1>4
  <2>2. ASSUME NEW i \in 1..Len(r.open) PROVE r.open[i].type = KindOf(p[i + 1])
    <3>1. CASE i = n + 1
      BY <3>1, <1>1, <1>2, <1>3, <1>4
    <3>2. CASE i # n + 1
      <4>1. i \in 1..n /\ i + 1 \in 1..Len(q)
        BY <3>2, <1>1, <1>2, <1>3
      <4> QED BY <4>1, <1>2, <1>3, <1>4 DEF Follows
    <3> QED BY <3>1, <3>2
  <2> QED BY <2>1, <2>2 DEF Follows
<1>6. Sync(p, r)
  BY <1>2, <1>4, <1>5 DEF Sync
<1>7. r.open # <<>>
  BY <1>1, <1>2, SeqIs DEF ActionsOK
<1>8. /\ Document!Inside(Doc(q, s)) = IF Last(q) = "DONE" THEN "nothing" ELSE KindOf(Last(q))
      /\ Doc(q, s).pending = s.named /\ Doc(q, s).path = PathOf(q) /\ (Doc(q, s).begun <=> s.open # <<>>)
  BY <1>1, InsideIs
<1>9. e.type \in Document!Begin /\ e.type \in Document!Event /\ Document!Kind(e.type) = KindOf(m)
      /\ e.type # "key"
  BY DEF Begins, Document!Begin, Document!Event, Document!Kind, KindOf
<1>10. Document!Legal(Doc(q, s), e.type)
  <2>1. Document!WantsValue(Doc(q, s)) \/ ~Doc(q, s).begun
    BY <1>1, <1>8 DEF Document!WantsValue, ValueMayCome, Announced, KindOf, Modes
  <2> QED BY <1>9, <2>1 DEF Document!Legal
<1>11. PathOf(p) = Append(PathOf(q), KindOf(m))
  BY <1>1, <1>4, PathPush
<1>12. Document!Apply(Doc(q, s), e.type) = [path |-> PathOf(p), pending |-> FALSE, begun |-> TRUE]
  <2>1. Document!Apply(Doc(q, s), e.type)
          = [path |-> Append(PathOf(q), Document!Kind(e.type)), pending |-> e.type = "key", begun |-> TRUE]
    <3> DEFINE d == Doc(q, s)
    <3>1. d.path = PathOf(q)
      BY <1>8
    <3> HIDE DEF d
    <3>2. Document!Apply(d, e.type)
            = [path |-> Append(d.path, Document!Kind(e.type)), pending |-> e.type = "key", begun |-> TRUE]
      <4>1. (CASE e.type \in Document!Begin -> Append(d.path, Document!Kind(e.type))
               [] e.type \in Document!Finish -> Document!Front(d.path)
               [] OTHER -> d.path) = Append(d.path, Document!Kind(e.type))
        BY <1>9 DEF Document!Begin, Document!Finish
      <4> QED BY <4>1, Zenon DEF Document!Apply
    <3> QED BY <3>1, <3>2, Zenon DEF d
  <2>2. Append(PathOf(q), Document!Kind(e.type)) = PathOf(p)
    BY <1>9, <1>11, Zenon
  <2>3. (e.type = "key") = FALSE
    BY <1>9
  <2> QED BY <2>1, <2>2, <2>3, Zenon
<1>13. r.named = FALSE /\ (r.open # <<>>) = TRUE
  BY <1>2, <1>7 DEF ActionsOK
<1>14. Doc(p, r) = [path |-> PathOf(p), pending |-> FALSE, begun |-> TRUE]
  BY <1>13 DEF Doc
<1> QED BY <1>2, <1>4, <1>6, <1>7, <1>9, <1>10, <1>12, <1>14

\* A container ends that the document is in, and the reader leaves it with the stack.
LEMMA EndStory ==
  ASSUME NEW q, NEW s, NEW e, Ends(e, Last(q)), Sync(q, s), ~s.named,
         NEW r, r = json_calback(s, e), NEW p, p = Front(q)
  PROVE  /\ Sync(p, r) /\ ~r.named /\ r.open # <<>> /\ Last(p) # "KEY"
         /\ e.type \in Document!Finish /\ e.type \in Document!Event /\ Document!Legal(Doc(q, s), e.type)
         /\ Doc(p, r) = Document!Apply(Doc(q, s), e.type)
<1> DEFINE n == Len(s.open)
<1>1. StackOK(q) /\ ActionsOK(s) /\ n \in Nat /\ Last(q) # "DONE"
  BY SeqIs DEF Sync, ActionsOK, Ends
<1>2. Follows(s.open, q) /\ n = Len(q) - 1 /\ Len(q) \in Nat \ {0, 1}
  BY <1>1, CurrentInside
<1>3. r = end_compound(s)
  BY CallbackOthers DEF Ends
<1>4. /\ ActionsOK(r) /\ r.named = s.named /\ Len(r.open) \in Nat
      /\ Len(r.open) = IF n > 1 THEN n - 1 ELSE n
      /\ \A i \in 1..Len(r.open) : r.open[i].type = s.open[i].type
  BY <1>1, <1>3, EndCompoundActions
<1>5. StackOK(p) /\ Last(p) # "KEY" /\ Len(p) = Len(q) - 1 /\ \A i \in 1..Len(p) : p[i] = q[i]
  BY <1>1, StackPop
<1>6. Follows(r.open, p) \/ (Len(p) = 1 /\ Len(r.open) = 1)
  <2>1. CASE n > 1
    <3>1. Len(r.open) = Len(p) - 1
      BY <2>1, <1>2, <1>4, <1>5
    <3>2. ASSUME NEW i \in 1..Len(r.open) PROVE r.open[i].type = KindOf(p[i + 1])
      <4>1. i \in 1..n /\ i + 1 \in 1..Len(p)
        BY <2>1, <3>1, <1>2, <1>4, <1>5
      <4> QED BY <4>1, <1>2, <1>4, <1>5 DEF Follows
    <3> QED BY <3>1, <3>2 DEF Follows
  <2>2. CASE ~(n > 1)
    BY <2>2, <1>2, <1>4, <1>5
  <2> QED BY <2>1, <2>2
<1>7. r.open # <<>>
  <2>1. \A a, b \in Nat : b \notin {0, 1} /\ a = b - 1 => (IF a > 1 THEN a - 1 ELSE a) # 0
    OBVIOUS
  <2>2. Len(r.open) # 0
    BY <1>1, <1>2, <1>4, <2>1
  <2> QED BY <2>2, <1>4, SeqIs DEF ActionsOK
<1>8. Document!Inside(Doc(q, s)) = KindOf(Last(q)) /\ Doc(q, s).pending = s.named
      /\ Doc(q, s).path = PathOf(q)
  BY <1>1, InsideIs
<1>9. /\ e.type \in Document!Finish /\ e.type \in Document!Event /\ e.type \notin Document!Begin
      /\ e.type # "key"
      /\ Document!Kind(e.type) = KindOf(Last(q))
  BY DEF Ends, Document!Finish, Document!Begin, Document!Event, Document!Kind, KindOf
<1>10. Document!Legal(Doc(q, s), e.type)
  BY <1>8, <1>9 DEF Document!Legal
<1>11. PathOf(p) = Front(PathOf(q))
  BY <1>1, <1>5, PathPop
<1>12. Document!Apply(Doc(q, s), e.type) = [path |-> PathOf(p), pending |-> FALSE, begun |-> TRUE]
  <2>1. Document!Apply(Doc(q, s), e.type) = [path |-> PathOf(p), pending |-> e.type = "key", begun |-> TRUE]
    BY <1>8, <1>9, <1>11 DEF Document!Apply, Document!Front, Front
  <2> QED BY <1>9, <2>1
<1>13. r.named = FALSE /\ (r.open # <<>>) = TRUE
  BY <1>4, <1>7 DEF ActionsOK
<1>14. Doc(p, r) = [path |-> PathOf(p), pending |-> FALSE, begun |-> TRUE]
  BY <1>13 DEF Doc
<1>15. Sync(p, r)
  BY <1>4, <1>5, <1>6 DEF Sync
<1> QED BY <1>5, <1>7, <1>9, <1>10, <1>12, <1>13, <1>14, <1>15

------------------------------------------------------------------------------------
(* Pushing, popping and calling, and what a character has to bring about.         *)

\* More fields that change.
ByState == {"state"}
ByEvents == {"events"}
ByStack == {"stack"}
ByEmit == {"buffer", "events"}

\* The reader after the calls that were made for a character.
Told(s, events) == FoldLeft(json_calback, s, events)

\* The document goes from d to D in at most one step: one event, or one and the end of a
\* container, or none.
Tells(d, D) ==
  \/ D = d
  \/ \E e \in Document!Event :
       /\ Document!Legal(d, e)
       /\ \/ D = Document!Apply(d, e)
          \/ \E f \in Document!Finish :
               Document!Legal(Document!Apply(d, e), f) /\ D = Document!Apply(Document!Apply(d, e), f)

\* The parser once the character is in the buffer, before the table is looked at.
Filled(k, c, s) ==
  /\ Alive(k) /\ BufferOK(k) /\ k.comments \in BOOLEAN
  /\ MemoryOK(k) /\ ShapeOK(k) /\ TopOK(k) /\ ActionsOK(s) /\ Together(k, s)
  /\ ~k.escaped /\ k.escaped \in BOOLEAN /\ k.events = <<>>
  /\ k.type = "none" => IF k.comment \/ c \in White THEN k.buffer = <<>>
                        ELSE Len(k.buffer) = 1 /\ k.buffer # <<>>
  /\ k.type # "none" => k.buffer # <<>>
  /\ k.type # "none" /\ k.state # "ES" => Last(k.buffer) = Kept(c) /\ Len(k.buffer) >= Least(k.state) + 1
  /\ k.state = "ES" /\ c = "u" => Len(k.buffer) >= 2

\* What a character must bring about: nothing breaks, and as long as the text is
\* accepted the parser and the reader are good again and the document took one step.
Outcome(k, s, J) ==
  /\ Whole(J) /\ J.ok \in BOOLEAN /\ Safe(J, Told(s, J.events))
  /\ J.ok => /\ Good(J, Told(s, J.events))
             /\ Tells(Doc(k.stack, s), Doc(J.stack, Told(s, J.events)))

\* What no call, one call and two calls tell.
LEMMA ToldNothing == ASSUME NEW s PROVE Told(s, <<>>) = s
BY Calls0 DEF Told

LEMMA ToldOne == ASSUME NEW s, NEW e PROVE Told(s, <<e>>) = json_calback(s, e)
BY Calls1, Zenon DEF Told

LEMMA ToldTwo == \A s, d, e : Told(s, <<d, e>>) = json_calback(json_calback(s, d), e)
<1>1. \A s, d, e : FoldLeft(json_calback, s, <<d, e>>) = json_calback(json_calback(s, d), e)
  BY Calls2, Zenon
<1> QED BY <1>1, Zenon DEF Told

\* push and pop: the stack stays within its array; a mode that is not the expected one
\* makes the text rejected.
LEMMA PushMode ==
  ASSUME NEW j, Alive(j), MemoryOK(j), Last(j.stack) # "KEY", NEW m \in {"ARRAY", "OBJECT", "KEY"},
         NEW r, r = push(j, m)
  PROVE  /\ r.ok \in BOOLEAN
         /\ r.ok => Keeps(r, j, ByStack) /\ r.stack = Pushed(j.stack, m) /\ MemoryOK(r)
         /\ ~r.ok => Keeps(r, j, ByFail)
<1>1. /\ Len(j.stack) \in Nat \ {0} /\ Whole(j) /\ StackOK(j.stack)
      /\ j.depth \in 1..(StackSize - 1) /\ j.capacity = j.depth /\ Len(j.stack) <= j.depth + 1
      /\ StackSize \in Nat \ {0}
  BY StackIs, ParserAssumption DEF MemoryOK, Alive, Sane
<1>2. ~(j.depth < 0) /\ j.depth >= 0
  BY <1>1
<1>3. CASE Len(j.stack) - 1 = j.depth
  <2>1. r = FailWith(j, "nesting depth")
    BY <1>2, <1>3 DEF push
  <2> QED BY <1>1, <2>1, Fails
<1>4. CASE Len(j.stack) - 1 # j.depth
  <2>1. Len(j.stack) - 1 <= j.capacity /\ Len(j.stack) < Slots(j) /\ Len(j.stack) <= j.depth
    BY <1>1, <1>4 DEF Slots
  <2>2. Check(j, Len(j.stack) - 1 <= j.capacity /\ Len(j.stack) < Slots(j)) = j
    BY <2>1, CheckHolds DEF Alive
  <2>3. r = [Check(j, Len(j.stack) - 1 <= j.capacity /\ Len(j.stack) < Slots(j)) EXCEPT !.stack = Append(@, m)]
    BY <1>2, <1>4 DEF push
  <2>4. r = [j EXCEPT !.stack = Pushed(j.stack, m)]
    BY <2>2, <2>3 DEF Pushed
  <2> HIDE DEF Pushed
  <2>5. /\ Keeps(r, j, ByStack) /\ r.stack = Pushed(j.stack, m)
    BY <1>1, <2>4 DEF Whole, Keeps, Fields, ByStack
  <2>6. r.ok = j.ok /\ r.depth = j.depth /\ r.capacity = j.capacity
    BY <2>5 DEF Keeps, Fields, ByStack
  <2>7. StackOK(r.stack) /\ Len(r.stack) = Len(j.stack) + 1
    BY <1>1, <2>5, StackPush
  <2>8. MemoryOK(r)
    BY <1>1, <2>1, <2>6, <2>7 DEF MemoryOK
  <2> QED BY <2>5, <2>6, <2>8 DEF Alive
<1> QED BY <1>3, <1>4

LEMMA PopMode ==
  ASSUME NEW j, Alive(j), MemoryOK(j), NEW m \in {"ARRAY", "OBJECT", "KEY"}, NEW r, r = pop(j, m)
  PROVE  /\ r.ok \in BOOLEAN
         /\ r.ok => /\ Last(j.stack) = m /\ Keeps(r, j, ByStack) /\ r.stack = Front(j.stack) /\ MemoryOK(r)
                    /\ Last(r.stack) # "KEY" /\ Len(r.stack) = Len(j.stack) - 1
                    /\ \A i \in 1..Len(r.stack) : r.stack[i] = j.stack[i]
         /\ ~r.ok => Keeps(r, j, ByOk)
<1>1. /\ Len(j.stack) \in Nat \ {0} /\ Whole(j) /\ StackOK(j.stack) /\ j.stack # <<>>
      /\ j.depth \in 1..(StackSize - 1) /\ j.capacity = j.depth /\ Len(j.stack) <= j.depth + 1
      /\ StackSize \in Nat \ {0}
  BY StackIs, ParserAssumption DEF MemoryOK, Alive, Sane, StackOK
<1>2. CASE Last(j.stack) # m
  <2>1. r = Fail(j)
    BY <1>2 DEF pop
  <2> QED BY <1>1, <2>1, Fails
<1>3. CASE Last(j.stack) = m
  <2>1. r = [j EXCEPT !.stack = Front(@)]
    BY <1>1, <1>3 DEF pop
  <2>2. Keeps(r, j, ByStack) /\ r.stack = Front(j.stack)
    BY <1>1, <2>1 DEF Whole, Keeps, Fields, ByStack
  <2>3. r.ok = j.ok /\ r.depth = j.depth /\ r.capacity = j.capacity
    BY <2>2 DEF Keeps, Fields, ByStack
  <2>4. /\ StackOK(r.stack) /\ Last(r.stack) # "KEY" /\ Len(r.stack) = Len(j.stack) - 1
        /\ \A i \in 1..Len(r.stack) : r.stack[i] = j.stack[i]
    BY <1>1, <1>3, <2>2, StackPop
  <2>5. MemoryOK(r)
    BY <1>1, <2>3, <2>4 DEF MemoryOK
  <2> QED BY <1>3, <2>2, <2>3, <2>4, <2>5 DEF Alive
<1> QED BY <1>2, <1>3

\* Calling back and clearing the buffer change nothing else.
LEMMA CallbackKeeps ==
  ASSUME NEW j, NEW t, NEW x, Whole(j), NEW r, r = Callback(j, t, x)
  PROVE  /\ Keeps(r, j, ByEvents) /\ r.events = Append(j.events, [type |-> t, text |-> x])
BY DEF Callback, Whole, Keeps, Fields, ByEvents

LEMMA ClearKeeps ==
  ASSUME NEW j, Whole(j), NEW r, r = parse_buffer_clear(j)
  PROVE  Keeps(r, j, ByBuffer) /\ r.buffer = <<>>
BY DEF parse_buffer_clear, Whole, Keeps, Fields, ByBuffer

\* parse_parse_buffer reports the scalar that was being read, if any.
LEMMA Emptied ==
  ASSUME NEW j, Whole(j), j.events = <<>>, NEW r, r = parse_parse_buffer(j)
  PROVE  /\ Keeps(r, j, ByEmit) /\ r.buffer = <<>>
         /\ IF j.type = "none" THEN r.events = <<>> ELSE r.events = <<[type |-> j.type, text |-> j.buffer]>>
<1>1. CASE j.type = "none"
  <2>1. r = parse_buffer_clear(j)
    BY <1>1 DEF parse_parse_buffer
  <2>2. Keeps(r, j, ByBuffer) /\ r.buffer = <<>>
    BY <2>1, ClearKeeps
  <2> QED BY <1>1, <2>2 DEF Keeps, Fields, ByBuffer, ByEmit
<1>2. CASE j.type # "none"
  <2> DEFINE b == Callback(j, j.type, j.buffer)
  <2>1. r = parse_buffer_clear(b)
    BY <1>2 DEF parse_parse_buffer
  <2>2. Keeps(b, j, ByEvents) /\ b.events = Append(j.events, [type |-> j.type, text |-> j.buffer])
    BY CallbackKeeps
  <2> HIDE DEF b
  <2>3. Keeps(r, b, ByBuffer) /\ r.buffer = <<>>
    BY <2>1, <2>2, ClearKeeps DEF Keeps
  <2>4. r.events = b.events
    BY <2>3 DEF Keeps, Fields, ByBuffer
  <2>5. b.events = <<[type |-> j.type, text |-> j.buffer]>>
    BY <2>2
  <2>6. Keeps(r, j, ByEmit)
    <3>1. ByBuffer \subseteq ByEmit /\ ByEvents \subseteq ByEmit
      BY DEF ByBuffer, ByEvents, ByEmit
    <3> QED BY <3>1, <2>2, <2>3, KeepsTwice
  <2> QED BY <1>2, <2>3, <2>4, <2>5, <2>6
<1> QED BY <1>1, <1>2

------------------------------------------------------------------------------------
(* Actions that call nobody back.                                                 *)

\* What a character that calls nobody back leaves as it is.
Quiet == {"state", "type", "escaped", "comment", "before", "buffer", "surrogate", "ok", "error"}
Silent(J, k) == Keeps(J, k, Quiet)

\* What a silent action leaves.
LEMMA SilentIs ==
  ASSUME NEW k, NEW J, Silent(J, k)
  PROVE  /\ Whole(J) /\ J.comments = k.comments /\ J.stack = k.stack /\ J.depth = k.depth
         /\ J.capacity = k.capacity /\ J.room = k.room /\ J.memory = k.memory
         /\ J.events = k.events /\ J.broken = k.broken
BY DEF Silent, Keeps, Quiet, Fields

\* A silent action is right when the state it leaves goes with the stack.
LEMMA SilentOutcome ==
  ASSUME NEW k, NEW c, NEW s, NEW J, Filled(k, c, s), Silent(J, k), J.ok \in BOOLEAN,
         Sequence(J.buffer), Len(J.buffer) < J.room,
         J.ok => ShapeOK(J) /\ HeldOK(J) /\ TopOK(J) /\ Together(J, s)
  PROVE  Outcome(k, s, J)
<1>1. /\ Whole(J) /\ J.comments = k.comments /\ J.stack = k.stack /\ J.depth = k.depth
      /\ J.capacity = k.capacity /\ J.room = k.room /\ J.memory = k.memory
      /\ J.events = k.events /\ J.broken = k.broken
  BY SilentIs
<1>2. Told(s, J.events) = s
  BY <1>1, ToldNothing DEF Filled
<1>3. J.broken = FALSE /\ s.broken = FALSE
  BY <1>1 DEF Filled, Alive, Sane, ActionsOK
<1>4. Safe(J, s)
  BY <1>3 DEF Safe
<1>5. Tells(Doc(k.stack, s), Doc(J.stack, s))
  BY <1>1 DEF Tells
<1>6. ASSUME J.ok PROVE Good(J, s)
  <2>1. Alive(J)
    BY <1>1, <1>3, <1>6 DEF Alive, Sane
  <2>2. BufferOK(J)
    BY <1>1 DEF BufferOK, Filled
  <2>3. MemoryOK(J)
    BY <1>1 DEF MemoryOK, Filled
  <2> QED BY <1>1, <1>6, <2>1, <2>2, <2>3 DEF Good, Filled
<1> QED BY <1>1, <1>2, <1>4, <1>5, <1>6 DEF Outcome

\* The entries that are states.
LEMMA OnMove ==
  ASSUME NEW k, NEW c, NEW s, NEW n \in States, Filled(k, c, s), Moves(k.state, c, n),
         NEW J, J = [k EXCEPT !.state = n]
  PROVE  Outcome(k, s, J)
<1>1. Whole(k) /\ k.ok = TRUE
  BY DEF Filled, Alive, Sane
<1>2. Keeps(J, k, ByState) /\ J.state = n
  BY <1>1 DEF Whole, Keeps, Fields, ByState
<1>3. /\ J.type = k.type /\ J.escaped = k.escaped /\ J.comment = k.comment /\ J.before = k.before
      /\ J.buffer = k.buffer /\ J.ok = k.ok /\ J.stack = k.stack /\ J.room = k.room /\ Silent(J, k)
  BY <1>2 DEF Keeps, Fields, ByState, Silent, Quiet
<1>4. Sequence(J.buffer) /\ Len(J.buffer) < J.room /\ Len(k.buffer) \in Nat
  BY <1>3, SeqIs DEF Filled, BufferOK
<1>5. n # "ES" /\ (k.state \in InComment <=> n \in InComment) /\ (k.state \in InString <=> n \in InString)
  BY WordStates DEF Moves, Blanks, InComment, InString
<1>6. ShapeOK(J)
  <2>1. ShapeOK(k)
    BY DEF Filled
  <2>2. n \in (Blanks \ {"OK"}) \cup InComment => k.type = "none"
    BY <2>1, WordStates DEF Moves, Blanks, InComment, InString, ShapeOK
  <2>3. n \in InWord => k.type # "none"
    BY <2>1, WordStates DEF Moves, Blanks, InComment, InString, ShapeOK
  <2>4. n \in {"MI", "ZE", "IT"} => k.type = "integer"
    BY <2>1, WordStates DEF Moves, Blanks, InComment, InString, ShapeOK
  <2> QED BY <1>2, <1>3, <1>5, <2>1, <2>2, <2>3, <2>4 DEF ShapeOK
<1>7. HeldOK(J)
  <2>1. k.type = "none" => k.buffer = <<>>
    <3>1. k.type = "none" => k.comment \/ c \in White
      BY <1>5, WordStates DEF Filled, ShapeOK, Moves, Blanks, InComment, InString
    <3> QED BY <3>1 DEF Filled
  <2>2. Len(k.buffer) >= Least(n)
    <3>1. CASE n \in InString
      <4>1. k.type # "none"
        BY <1>5, <3>1 DEF Filled, ShapeOK
      <4>2. CASE k.state = "ES"
        <5>1. k.buffer # <<>> /\ (c = "u" => Len(k.buffer) >= 2) /\ Len(k.buffer) >= 1
          BY <4>1, <4>2, <1>3, <1>4, SeqIs DEF Filled
        <5>2. n \in {"ST", "U1"} /\ (n = "U1" => c = "u")
          BY <4>2, WordStates DEF Moves, Blanks, InComment
        <5> QED BY <5>1, <5>2, <1>4 DEF Least
      <4>3. CASE k.state # "ES"
        <5>1. Len(k.buffer) >= Least(k.state) + 1
          BY <4>1, <4>3 DEF Filled
        <5>2. k.state \in InString
          BY <1>5, <3>1
        <5>3. Least(n) <= Least(k.state) + 1 /\ Least(n) \in Nat /\ Least(k.state) \in Nat
          BY <4>3, <5>2, WordStates DEF Moves, Least, InString, Blanks, InComment
        <5> QED BY <5>1, <5>3, <1>4
      <4> QED BY <4>2, <4>3
    <3>2. CASE n \notin InString
      <4>1. Least(n) = 0
        BY <3>2 DEF Least, InString
      <4> QED BY <4>1, <1>4
    <3> QED BY <3>1, <3>2
  <2> QED BY <1>2, <1>3, <1>5, <2>1, <2>2 DEF HeldOK, Filled
<1>8. TopOK(J) /\ Together(J, s)
  <2>1. \/ Entry(J) = Entry(k)
        \/ /\ Entry(k) \in InWord \cup InString /\ Entry(J) \in InWord \cup InString \cup {"OK"}
           /\ Entry(J) = "OK" => k.type \in Words
    <3>1. CASE k.comment
      BY <3>1, <1>3 DEF Entry
    <3>2. CASE ~k.comment
      <4>1. Entry(J) = n /\ Entry(k) = k.state
        BY <3>2, <1>2, <1>3 DEF Entry
      <4>2. k.state \in InWord => k.type \in Words
        BY WordStates DEF Filled, ShapeOK, InString, Words
      <4> QED BY <4>1, <4>2, <1>5, WordStates, <3>2 DEF Moves, Blanks, InComment, InString, Filled,
         ShapeOK
    <3> QED BY <3>1, <3>2 DEF Filled, ShapeOK
  <2>2. TopOK(k) /\ Together(k, s) /\ J.type = k.type /\ J.stack = k.stack
    BY <1>3 DEF Filled
  <2>3. CASE Entry(J) = Entry(k)
    BY <2>2, <2>3 DEF TopOK, Together
  <2>4. CASE /\ Entry(k) \in InWord \cup InString /\ Entry(J) \in InWord \cup InString \cup {"OK"}
             /\ Entry(J) = "OK" => k.type \in Words
    <3>1. /\ Entry(k) \notin {"GO", "OK", "OB", "KE", "CO", "VA", "AR"}
          /\ Entry(J) \notin {"GO", "OB", "KE", "CO", "VA", "AR"}
      BY <2>4, WordStates DEF InString
    <3>2. TopOK(J)
      BY <2>2, <2>4, <3>1 DEF TopOK
    <3>3. Together(J, s)
      BY <2>2, <3>1 DEF Together
    <3> QED BY <3>2, <3>3
  <2> QED BY <2>1, <2>3, <2>4
<1> QED BY <1>1, <1>3, <1>4, <1>6, <1>7, <1>8, SilentOutcome

\* What the beginning of a scalar changes.
ByStart == {"state", "type", "buffer"}
\* A scalar of type t begins in state st and goes to n.
Starts(st, t, n) ==
  \/ t = "string" /\ n = "ST" /\ st \in {"OB", "KE", "VA", "AR"}
  \/ t \in Words /\ n \in InWord /\ (n \in {"MI", "ZE", "IT"} => t = "integer") /\ st \in {"VA", "AR"}

\* A character that is not accepted.
LEMMA OnFail ==
  ASSUME NEW k, NEW c, NEW s, Filled(k, c, s), NEW J, Silent(J, k), ~J.ok, J.ok \in BOOLEAN,
         J.buffer = k.buffer
  PROVE  Outcome(k, s, J)
<1>1. J.room = k.room
  BY SilentIs
<1>2. Sequence(J.buffer) /\ Len(J.buffer) < J.room
  BY <1>1 DEF Filled, BufferOK
<1> QED BY <1>2, SilentOutcome

\* The first character of a scalar: a number, a word, a string.
LEMMA OnStart ==
  ASSUME NEW k, NEW c, NEW s, NEW t, NEW n \in States, Filled(k, c, s), Starts(k.state, t, n),
         NEW J, Keeps(J, k, ByStart), J.state = n, J.type = t, Sequence(J.buffer), Len(J.buffer) < J.room
  PROVE  Outcome(k, s, J)
<1>1. /\ Silent(J, k) /\ J.escaped = k.escaped /\ J.comment = k.comment /\ J.before = k.before
      /\ J.ok = k.ok /\ J.stack = k.stack
  BY DEF Keeps, Fields, ByStart, Silent, Quiet
<1>2. Len(J.buffer) \in Nat
  BY SeqIs
<1>3. /\ ShapeOK(k) /\ TopOK(k) /\ Together(k, s) /\ ~k.escaped /\ k.escaped \in BOOLEAN /\ k.ok = TRUE
  BY DEF Filled, Alive
<1>4. k.state \in {"OB", "KE", "VA", "AR"} /\ k.state \in Blanks /\ ~k.comment /\ k.type = "none"
  BY <1>3 DEF Starts, Blanks, InComment, ShapeOK
<1>5. t \in Scalars /\ n \notin Blanks \cup InComment /\ n # "ES" /\ (t = "string" <=> n \in InString)
  BY WordStates DEF Starts, Blanks, InComment, InString, Words, Scalars
<1>6. t # "none"
  BY <1>5 DEF Scalars
<1>7. ShapeOK(J)
  <2>1. n \in {"MI", "ZE", "IT"} => t = "integer"
    BY DEF Starts
  <2> QED BY <1>1, <1>3, <1>4, <1>5, <1>6, <2>1 DEF ShapeOK
<1>8. HeldOK(J)
  <2>1. Least(n) = 0
    BY WordStates DEF Starts, Least
  <2> QED BY <1>1, <1>2, <1>3, <1>5, <1>6, <2>1 DEF HeldOK
<1>9. Entry(k) = k.state /\ Entry(J) = n
  BY <1>1, <1>4 DEF Entry
<1>10. TopOK(J)
  <2>1. Last(k.stack) # "DONE"
    BY <1>3, <1>4, <1>9 DEF TopOK
  <2>2. t \in Words => Last(k.stack) # "KEY"
    <3>1. t \in Words => k.state \in {"VA", "AR"}
      BY WordStates DEF Starts, InWord, Words
    <3> QED BY <3>1, <1>3, <1>9 DEF TopOK
  <2>3. n \notin {"GO", "OK", "OB", "KE", "CO", "VA", "AR"}
    BY <1>5 DEF Blanks
  <2> QED BY <1>1, <1>9, <2>1, <2>2, <2>3 DEF TopOK
<1>11. Together(J, s)
  <2>1. n \notin {"GO", "CO", "VA"}
    BY <1>5 DEF Blanks
  <2>2. s.named <=> Last(k.stack) = "OBJECT"
    <3>1. k.state \in {"OB", "KE"} => Last(k.stack) = "KEY"
      BY <1>3, <1>9 DEF TopOK
    <3>2. k.state = "AR" => Last(k.stack) = "ARRAY"
      BY <1>3, <1>9 DEF TopOK
    <3> QED BY <1>3, <1>4, <1>9, <3>1, <3>2 DEF Together
  <2>3. Entry(k) # "GO"
    BY <1>4, <1>9
  <2> QED BY <1>1, <1>3, <1>6, <1>9, <2>1, <2>2, <2>3 DEF Together
<1> QED BY <1>1, <1>3, <1>7, <1>8, <1>10, <1>11, SilentOutcome

LEMMA OnNumber ==
  ASSUME NEW k, NEW c, NEW s, NEW n \in {"MI", "ZE", "IT"}, Filled(k, c, s), k.state \in {"VA", "AR"},
         NEW J, J = BeginNumber(k, n)
  PROVE  Outcome(k, s, J)
<1>1. Keeps(J, k, ByStart) /\ J.state = n /\ J.type = "integer" /\ J.buffer = k.buffer /\ J.room = k.room
  BY DEF Filled, Alive, Sane, Whole, Keeps, Fields, ByStart, BeginNumber
<1>2. Sequence(J.buffer) /\ Len(J.buffer) < J.room
  BY <1>1 DEF Filled, BufferOK
<1>3. Starts(k.state, "integer", n) /\ n \in States
  BY WordStates, StatesAre DEF Starts, Words, Scalars
<1> QED BY <1>1, <1>2, <1>3, OnStart

LEMMA OnWord ==
  ASSUME NEW k, NEW c, NEW s, NEW t \in {"null", "false", "true"}, NEW n \in {"N1", "F1", "T1"},
         Filled(k, c, s), k.state \in {"VA", "AR"},
         NEW J, J = BeginScalar(k, t, n)
  PROVE  Outcome(k, s, J)
<1>0. k.type = "none" /\ Sane(k)
  BY DEF Filled, ShapeOK, Blanks, Alive
<1>1. Check(k, k.type = "none") = k
  BY <1>0, CheckHolds
<1>2. J = [k EXCEPT !.type = t, !.state = n]
  BY <1>1 DEF BeginScalar
<1>3. Keeps(J, k, ByStart) /\ J.state = n /\ J.type = t /\ J.buffer = k.buffer /\ J.room = k.room
  BY <1>2 DEF Filled, Alive, Sane, Whole, Keeps, Fields, ByStart
<1>4. Sequence(J.buffer) /\ Len(J.buffer) < J.room
  BY <1>3 DEF Filled, BufferOK
<1>5. Starts(k.state, t, n) /\ n \in States
  BY WordStates, StatesAre DEF Starts, Words, Scalars
<1> QED BY <1>3, <1>4, <1>5, OnStart

LEMMA OnString ==
  ASSUME NEW k, NEW c, NEW s, Filled(k, c, s), k.state \in {"OB", "KE", "VA", "AR"},
         NEW J, J = BeginScalar(parse_buffer_clear(k), "string", "ST")
  PROVE  Outcome(k, s, J)
<1> DEFINE b == parse_buffer_clear(k)
<1>0. k.type = "none" /\ Sane(k) /\ Whole(k)
  BY DEF Filled, ShapeOK, Blanks, Alive, Sane
<1>1. Keeps(b, k, ByBuffer) /\ b.buffer = <<>>
  BY <1>0, ClearKeeps
<1> HIDE DEF b
<1>2. Sane(b) /\ b.type = "none" /\ b.room = k.room
  BY <1>0, <1>1 DEF Keeps, Fields, ByBuffer, Sane
<1>3. Check(b, b.type = "none") = b
  BY <1>2, CheckHolds
<1>4. J = [b EXCEPT !.type = "string", !.state = "ST"]
  BY <1>3 DEF BeginScalar, b
<1>5. Keeps(J, k, ByStart) /\ J.state = "ST" /\ J.type = "string" /\ J.buffer = <<>> /\ J.room = k.room
  <2>1. Whole(b)
    BY <1>2 DEF Sane
  <2>2. Keeps(J, b, ByStart) /\ J.state = "ST" /\ J.type = "string" /\ J.buffer = b.buffer
        /\ J.room = b.room
    BY <1>4, <2>1 DEF Whole, Keeps, Fields, ByStart
  <2>3. ByBuffer \subseteq ByStart
    BY DEF ByBuffer, ByStart
  <2> QED BY <1>1, <1>2, <2>2, <2>3, KeepsTwice
<1>6. Sequence(J.buffer) /\ Len(J.buffer) < J.room
  BY <1>5, SeqEmpty DEF Filled, BufferOK
<1>7. Starts(k.state, "string", "ST") /\ "ST" \in States
  BY StatesAre DEF Starts
<1> QED BY <1>5, <1>6, <1>7, OnStart

\* The entry __.
LEMMA OnError ==
  ASSUME NEW k, NEW c, NEW s, Filled(k, c, s), NEW J, J = Fail(set_error(k, c))
  PROVE  Outcome(k, s, J)
<1>1. PICK e : set_error(k, c) = [k EXCEPT !.error = e]
  BY DEF set_error
<1>2. J = [[k EXCEPT !.error = e] EXCEPT !.ok = FALSE]
  BY <1>1 DEF Fail
<1>3. Silent(J, k) /\ J.buffer = k.buffer /\ ~J.ok /\ J.ok \in BOOLEAN
  BY <1>2 DEF Filled, Alive, Sane, Whole, Keeps, Fields, Silent, Quiet
<1> QED BY <1>3, OnFail

\* A backslash in a string.
LEMMA OnEscape ==
  ASSUME NEW k, NEW c, NEW s, Filled(k, c, s), k.state = "ST", NEW J, J = BeginEscape(k)
  PROVE  Outcome(k, s, J)
<1>1. /\ Silent(J, k) /\ J.state = "ES" /\ J.escaped /\ J.escaped \in BOOLEAN /\ J.type = k.type
      /\ J.buffer = k.buffer
      /\ J.comment = k.comment /\ J.before = k.before /\ J.ok = k.ok /\ J.stack = k.stack
      /\ J.room = k.room
  BY DEF Filled, Alive, Sane, Whole, Keeps, Fields, Silent, Quiet, BeginEscape
<1>2. Sequence(J.buffer) /\ Len(J.buffer) < J.room /\ Len(k.buffer) \in Nat
  BY <1>1, SeqIs DEF Filled, BufferOK
<1>3. ShapeOK(k) /\ TopOK(k) /\ Together(k, s) /\ k.ok = TRUE
  BY DEF Filled, Alive
<1>4. k.type = "string" /\ ~k.comment /\ k.comment \in BOOLEAN
  BY <1>3 DEF ShapeOK, InString, InComment
<1>5. ShapeOK(J)
  BY <1>1, <1>3, <1>4, WordStates, StatesAre DEF ShapeOK, InString, InComment, Blanks
<1>6. HeldOK(J)
  <2>1. Len(k.buffer) >= 1
    BY <1>2, <1>4, SeqIs DEF Filled, BufferOK
  <2> QED BY <2>1, <1>1, <1>2, <1>4 DEF HeldOK, Least
<1>7. Entry(k) = "ST" /\ Entry(J) = "ES"
  BY <1>1, <1>4 DEF Entry
<1>8. TopOK(J)
  BY <1>1, <1>3, <1>7 DEF TopOK
<1>9. Together(J, s)
  BY <1>1, <1>3, <1>7 DEF Together
<1> QED BY <1>1, <1>2, <1>3, <1>5, <1>6, <1>8, <1>9, SilentOutcome

\* The character that makes a number a float is the one that was buffered.
Marks(mark, c) == mark # "" => mark = c

\* The point and the exponent of a number.
LEMMA OnFloat ==
  ASSUME NEW k, NEW c, NEW s, NEW n \in {"E1", "FX"}, NEW mark, Filled(k, c, s),
         k.state \in {"ZE", "IT"}, Marks(mark, c),
         NEW J, J = BecomeFloat(k, n, mark)
  PROVE  Outcome(k, s, J)
<1>0. ShapeOK(k) /\ TopOK(k) /\ Together(k, s) /\ k.ok = TRUE /\ Sane(k) /\ k.type = "integer"
  BY DEF Filled, Alive, ShapeOK
<1>1. k.type \notin {"false", "true", "null", "string"}
      /\ (mark # "" => k.buffer # <<>> /\ Last(k.buffer) = Kept(mark))
  <2>1. k.buffer # <<>> /\ Last(k.buffer) = Kept(c)
    BY <1>0 DEF Filled
  <2> QED BY <1>0, <2>1, Zenon DEF Marks
<1>2. Check(k, k.type \notin {"false", "true", "null", "string"}
                 /\ (mark # "" => k.buffer # <<>> /\ Last(k.buffer) = Kept(mark))) = k
  BY <1>0, <1>1, CheckHolds
<1>3. J = [k EXCEPT !.type = "float", !.state = n]
  BY <1>2 DEF BecomeFloat
<1>4. /\ Silent(J, k) /\ J.state = n /\ J.escaped = k.escaped /\ J.type = "float" /\ J.buffer = k.buffer
      /\ J.comment = k.comment /\ J.before = k.before /\ J.ok = k.ok /\ J.stack = k.stack
      /\ J.room = k.room
  BY <1>3 DEF Filled, Alive, Sane, Whole, Keeps, Fields, Silent, Quiet
<1>5. Sequence(J.buffer) /\ Len(J.buffer) < J.room /\ Len(k.buffer) \in Nat
  BY <1>4, SeqIs DEF Filled, BufferOK
<1>6. ShapeOK(J) /\ ~k.comment
  BY <1>0, <1>4, WordStates, StatesAre DEF ShapeOK, InString, InComment, Blanks, Scalars
<1>7. HeldOK(J)
  <2>1. Least(n) = 0 /\ n # "ES"
    BY DEF Least
  <2>2. ~k.escaped /\ k.escaped \in BOOLEAN
    BY DEF Filled
  <2>3. Len(J.buffer) >= Least(J.state)
    <3>1. Least(J.state) = 0
      BY <2>1, <1>4, Zenon
    <3>2. Len(J.buffer) \in Nat
      BY <1>5, SeqIs
    <3> QED BY <3>1, <3>2
  <2>4. J.type # "none" /\ J.escaped \in BOOLEAN /\ (J.escaped <=> J.state = "ES")
    BY <2>1, <2>2, <1>4
  <2> QED BY <2>3, <2>4 DEF HeldOK
<1>8. Entry(k) = k.state /\ Entry(J) = n
  BY <1>4, <1>6 DEF Entry
<1>9. TopOK(J)
  BY <1>0, <1>4, <1>8 DEF TopOK, Words, Scalars
<1>10. Together(J, s)
  BY <1>0, <1>4, <1>8 DEF Together
<1> QED BY <1>0, <1>4, <1>5, <1>6, <1>7, <1>9, <1>10, SilentOutcome

\* The end of a comment: the state before it comes back.
LEMMA OnEndComment ==
  ASSUME NEW k, NEW c, NEW s, Filled(k, c, s), k.state = "C3", NEW J, J = EndComment(k)
  PROVE  Outcome(k, s, J)
<1>0. ShapeOK(k) /\ TopOK(k) /\ Together(k, s) /\ k.ok = TRUE /\ Sane(k) /\ k.type = "none"
      /\ k.comment /\ k.buffer = <<>>
  BY DEF Filled, Alive, ShapeOK, InComment
<1>1. Check(k, k.buffer = <<>> /\ k.type = "none") = k
  BY <1>0, CheckHolds
<1>2. J = [k EXCEPT !.comment = FALSE, !.state = k.before]
  BY <1>1 DEF EndComment
<1>3. /\ Silent(J, k) /\ J.state = k.before /\ J.escaped = k.escaped /\ J.type = k.type
      /\ J.buffer = k.buffer
      /\ ~J.comment /\ J.comment \in BOOLEAN /\ J.before = k.before /\ J.ok = k.ok
      /\ J.stack = k.stack /\ J.room = k.room
  BY <1>2 DEF Filled, Alive, Sane, Whole, Keeps, Fields, Silent, Quiet
<1>4. Sequence(J.buffer) /\ Len(J.buffer) < J.room /\ Len(k.buffer) \in Nat
  BY <1>3, SeqIs DEF Filled, BufferOK
<1>5. k.before \in Blanks /\ k.before \in States
  BY <1>0, StatesAre DEF ShapeOK, Blanks
<1>6. ShapeOK(J)
  BY <1>0, <1>3, <1>5, WordStates DEF ShapeOK, InString, InComment, Blanks
<1>7. HeldOK(J)
  <2>1. Least(k.before) = 0 /\ k.before # "ES"
    BY <1>5 DEF Least, Blanks
  <2> QED BY <2>1, <1>0, <1>3, <1>4 DEF HeldOK, Filled
<1>8. Entry(J) = Entry(k)
  BY <1>0, <1>3 DEF Entry
<1>9. TopOK(J)
  BY <1>0, <1>3, <1>8 DEF TopOK
<1>10. Together(J, s)
  BY <1>0, <1>3, <1>8 DEF Together
<1> QED BY <1>0, <1>3, <1>4, <1>6, <1>7, <1>9, <1>10, SilentOutcome

\* The last digit of an escape: the six characters to replace are in the buffer.
LEMMA OnUnicode ==
  ASSUME NEW k, NEW c, NEW s, NEW unit, Filled(k, c, s), k.state = "U4", NEW J, J = ReadUnicode(k, unit)
  PROVE  Outcome(k, s, J)
<1> DEFINE q == SubSeq(k.buffer, 1, Len(k.buffer) - 6)
           cut == [k EXCEPT !.buffer = SubSeq(k.buffer, 1, Len(k.buffer) - 6)]
           r == decode_unicode_char(k, unit)
<1>0. ShapeOK(k) /\ TopOK(k) /\ Together(k, s) /\ k.ok = TRUE /\ Sane(k) /\ Whole(k)
      /\ k.type = "string" /\ ~k.comment
  BY DEF Filled, Alive, ShapeOK, InComment, InString, Sane
<1>1. Sequence(k.buffer) /\ Len(k.buffer) \in Nat /\ Len(k.buffer) < k.room /\ k.room \in Nat
  BY SeqIs DEF Filled, BufferOK
<1>2. Len(k.buffer) >= 6
  <2>1. Least(k.state) = 5
    BY DEF Least
  <2> QED BY <2>1, <1>0, <1>1 DEF Filled
<1>3. Sequence(q) /\ Len(q) = Len(k.buffer) - 6
  BY <1>1, <1>2, SeqCut
<1>4. Keeps(cut, k, ByBuffer) /\ cut.buffer = q
  BY <1>0 DEF Whole, Keeps, Fields, ByBuffer
<1>5. (IF Len(k.buffer) < 6 THEN Check(k, FALSE) ELSE [k EXCEPT !.buffer = SubSeq(@, 1, Len(@) - 6)]) = cut
  <2>1. ~(Len(k.buffer) < 6)
    BY <1>1, <1>2
  <2> QED BY <2>1, Zenon
<1>6. \/ r = Fail(cut)
      \/ r = [cut EXCEPT !.surrogate = TRUE]
      \/ \E n \in 1..4 : r = [cut EXCEPT !.buffer = q \o [i \in 1..n |-> Kept("etc")], !.surrogate = FALSE]
  <2> DEFINE Placed(n) == [cut EXCEPT !.buffer = @ \o [i \in 1..n |-> Kept("etc")], !.surrogate = FALSE]
             size == CASE unit = "one byte" -> 1 [] unit = "two bytes" -> 2 [] OTHER -> 3
  <2>1. r = CASE k.surrogate -> IF unit = "low" THEN Placed(4) ELSE Fail(cut)
              [] ~k.surrogate /\ unit = "high" -> [cut EXCEPT !.surrogate = TRUE]
              [] ~k.surrogate /\ unit = "low"  -> Fail(cut)
              [] OTHER -> Placed(size)
    BY <1>5, Zenon DEF decode_unicode_char
  <2>2. size \in 1..4 /\ 4 \in 1..4
    OBVIOUS
  <2>3. \A n : Placed(n) = [cut EXCEPT !.buffer = q \o [i \in 1..n |-> Kept("etc")], !.surrogate = FALSE]
    BY <1>4, Zenon
  <2> HIDE DEF Placed, size, r, cut, q
  <2>4. r \in {Fail(cut), [cut EXCEPT !.surrogate = TRUE], Placed(4), Placed(size)}
    BY <2>1
  <2> QED BY <2>2, <2>3, <2>4
<1> HIDE DEF cut, q, r
<1>7. /\ Silent(r, k) /\ r.state = k.state /\ r.type = k.type /\ r.escaped = k.escaped
      /\ r.comment = k.comment
      /\ r.before = k.before /\ Sequence(r.buffer) /\ Len(r.buffer) < k.room /\ r.ok \in BOOLEAN
  <2>1. Whole(cut) /\ cut.ok = TRUE
    BY <1>0, <1>4 DEF Keeps, Fields, ByBuffer
  <2>2. /\ Silent(cut, k) /\ cut.state = k.state /\ cut.type = k.type /\ cut.escaped = k.escaped
        /\ cut.comment = k.comment
        /\ cut.before = k.before
    BY <1>4 DEF Keeps, Fields, ByBuffer, Silent, Quiet
  <2>0. Sequence(cut.buffer) /\ Len(cut.buffer) < k.room
    BY <1>1, <1>3, <1>4
  <2>3. CASE r = Fail(cut)
    BY <2>0, <2>1, <2>2, <2>3 DEF Fail, Whole, Silent, Keeps, Fields, Quiet
  <2>4. CASE r = [cut EXCEPT !.surrogate = TRUE]
    BY <2>0, <2>1, <2>2, <2>4 DEF Whole, Silent, Keeps, Fields, Quiet
  <2>5. ASSUME NEW n \in 1..4, r = [cut EXCEPT !.buffer = q \o [i \in 1..n |-> Kept("etc")], !.surrogate = FALSE]
        PROVE  /\ Silent(r, k) /\ r.state = k.state /\ r.type = k.type /\ r.escaped = k.escaped
               /\ r.comment = k.comment
               /\ r.before = k.before /\ Sequence(r.buffer) /\ Len(r.buffer) < k.room /\ r.ok \in BOOLEAN
    <3>0. PICK x : x = Kept("etc")
      OBVIOUS
    <3> DEFINE p == q \o [i \in 1..n |-> x]
    <3>1. Sequence(p) /\ Len(p) = Len(q) + n
      <4>1. n \in Nat
        OBVIOUS
      <4> QED BY <4>1, <1>3, SeqGrow
    <3>2. r = [cut EXCEPT !.buffer = p, !.surrogate = FALSE]
      BY <2>5, <3>0
    <3> HIDE DEF p
    <3>3. Len(p) < k.room
      BY <3>1, <1>1, <1>2, <1>3
    <3> QED BY <2>1, <2>2, <3>1, <3>2, <3>3 DEF Whole, Silent, Keeps, Fields, Quiet
  <2> QED BY <1>6, <2>3, <2>4, <2>5
<1>8. CASE ~r.ok
  <2>1. J = FailWith(r, "invalid unicode")
    BY <1>8 DEF ReadUnicode, r
  <2>2. Silent(J, k) /\ ~J.ok /\ J.ok \in BOOLEAN /\ J.buffer = r.buffer
    BY <1>7, <2>1 DEF FailWith, Silent, Keeps, Whole, Fields, Quiet
  <2>3. J.room = k.room
    BY <2>2, SilentIs
  <2> QED BY <1>7, <2>2, <2>3, SilentOutcome
<1>9. CASE r.ok
  <2> DEFINE n == IF r.surrogate THEN "D1" ELSE "ST"
  <2>1. J = [r EXCEPT !.state = n]
    BY <1>9 DEF ReadUnicode, r
  <2>2. n \in {"D1", "ST"}
    OBVIOUS
  <2> HIDE DEF n
  <2>3. /\ Silent(J, k) /\ J.state = n /\ J.type = k.type /\ J.escaped = k.escaped
        /\ J.comment = k.comment
        /\ J.before = k.before /\ J.buffer = r.buffer /\ J.ok \in BOOLEAN
    BY <1>7, <2>1 DEF Silent, Keeps, Whole, Fields, Quiet
  <2>4. J.room = k.room /\ J.stack = k.stack
    BY <2>3, SilentIs
  <2>5. ShapeOK(J)
    BY <1>0, <2>2, <2>3, WordStates, StatesAre DEF ShapeOK, InString, InComment, Blanks
  <2>6. HeldOK(J)
    <3>1. Least(n) = 0 /\ n # "ES"
      BY <2>2 DEF Least
    <3>2. Len(r.buffer) \in Nat
      BY <1>7, SeqIs
    <3> QED BY <1>0, <2>3, <3>1, <3>2 DEF HeldOK, Filled
  <2>7. Entry(k) = "U4" /\ Entry(J) = n
    BY <1>0, <2>3 DEF Entry
  <2>8. TopOK(J)
    BY <1>0, <2>2, <2>3, <2>4, <2>7 DEF TopOK
  <2>9. Together(J, s)
    BY <1>0, <2>2, <2>3, <2>4, <2>7 DEF Together
  <2> QED BY <1>7, <2>3, <2>4, <2>5, <2>6, <2>8, <2>9, SilentOutcome
<1> QED BY <1>7, <1>8, <1>9

------------------------------------------------------------------------------------
(* Actions that may call back.                                                    *)

\* What a character that may call back changes.
ByTurn == Quiet \cup {"stack", "events"}
Loud(J, k) == Keeps(J, k, ByTurn)

\* The state n goes with the stack q and with the values s: nothing is being read.
Settles(n, q, s) ==
  /\ n \in Blanks
  /\ n = "GO" <=> s.open = <<>>
  /\ n = "GO" => Last(q) = "DONE"
  /\ n \in {"OB", "KE", "CO"} => Last(q) = "KEY"
  /\ n = "AR" => Last(q) = "ARRAY"
  /\ n = "VA" => Last(q) \in {"OBJECT", "ARRAY"}
  /\ n = "OK" => Last(q) # "KEY"
  /\ s.named <=> n = "CO" \/ (Last(q) = "OBJECT" /\ n = "VA")

\* Where the parser is, in a comment or not.
Rests(J, n) ==
  /\ J.type = "none" /\ J.buffer = <<>> /\ ~J.escaped /\ J.escaped \in BOOLEAN /\ J.comment \in BOOLEAN
  /\ \/ J.comment /\ J.state = "C1" /\ J.before = n
     \/ ~J.comment /\ J.state = n /\ J.before \in Blanks

\* What an action that may call back leaves.
LEMMA LoudIs ==
  ASSUME NEW k, NEW J, Loud(J, k)
  PROVE  /\ Whole(J) /\ J.comments = k.comments /\ J.depth = k.depth
         /\ J.capacity = k.capacity /\ J.room = k.room /\ J.memory = k.memory /\ J.broken = k.broken
BY DEF Loud, Keeps, Quiet, ByTurn, Fields

\* Such an action is right when what it tells is, and the state it leaves goes with the
\* stack and with the values.
LEMMA LoudOutcome ==
  ASSUME NEW k, NEW c, NEW s, Filled(k, c, s), NEW J, Loud(J, k), J.ok \in BOOLEAN,
         Sequence(J.buffer), Len(J.buffer) < J.room,
         NEW S, S = Told(s, J.events), ActionsOK(S),
         J.ok => /\ MemoryOK(J) /\ Sync(J.stack, S) /\ \E n : Rests(J, n) /\ Settles(n, J.stack, S)
                 /\ Tells(Doc(k.stack, s), Doc(J.stack, S))
  PROVE  Outcome(k, s, J)
<1>1. /\ Whole(J) /\ J.comments = k.comments /\ J.depth = k.depth
      /\ J.capacity = k.capacity /\ J.room = k.room /\ J.memory = k.memory /\ J.broken = k.broken
  BY LoudIs
<1>2. J.broken = FALSE /\ S.broken = FALSE
  BY <1>1 DEF Filled, Alive, Sane, ActionsOK
<1>3. Safe(J, S)
  BY <1>2 DEF Safe
<1>4. ASSUME J.ok PROVE Good(J, S)
  <2>0. PICK n : Rests(J, n) /\ Settles(n, J.stack, S)
    BY <1>4
  <2>1. Alive(J)
    BY <1>1, <1>2, <1>4 DEF Alive, Sane
  <2>2. BufferOK(J)
    BY <1>1 DEF BufferOK, Filled
  <2>3. /\ n \in Blanks /\ n \in States /\ "C1" \in States /\ n \notin InComment
        /\ n \notin InString /\ n \notin InWord
        /\ n \notin {"MI", "ZE", "IT"} /\ "C1" \notin InString /\ "C1" \notin InWord /\ "C1" \in InComment
    BY <2>0, StatesAre, WordStates DEF Settles, Blanks, InComment, InString
  <2>4. ShapeOK(J)
    BY <2>0, <2>3 DEF Rests, ShapeOK
  <2>5. HeldOK(J)
    <3>1. J.state = n \/ J.state = "C1"
      BY <2>0 DEF Rests
    <3>2. Least(J.state) = 0 /\ J.state # "ES"
      BY <2>3, <3>1 DEF Least, Blanks
    <3> QED BY <2>0, <3>2, SeqEmpty DEF HeldOK, Rests
  <2>6. Entry(J) = n
    BY <2>0 DEF Rests, Entry
  <2>7. J.type = "none" /\ J.type \notin Words
    BY <2>0 DEF Rests, Words, Scalars
  <2>8. TopOK(J)
    <3>1. n \in {"GO", "OK", "OB", "KE", "CO", "VA", "AR"}
      BY <2>3 DEF Blanks
    <3> QED BY <2>0, <2>6, <2>7, <3>1 DEF TopOK, Settles
  <2>9. Together(J, S)
    BY <1>4, <2>0, <2>6, <2>7 DEF Together, Settles, Sync
  <2> QED BY <1>1, <1>4, <2>1, <2>2, <2>4, <2>5, <2>8, <2>9 DEF Good, Filled
<1> QED BY <1>1, <1>3, <1>4 DEF Outcome

\* Before the action the reader is with the stack, and the state between tokens too.
LEMMA FilledSync ==
  ASSUME NEW k, NEW c, NEW s, Filled(k, c, s)
  PROVE  Sync(k.stack, s) /\ StackOK(k.stack) /\ ActionsOK(s) /\ Whole(k) /\ Alive(k) /\ MemoryOK(k)
BY DEF Filled, Sync, MemoryOK, Together, Alive, Sane

LEMMA FilledSettles ==
  ASSUME NEW k, NEW c, NEW s, Filled(k, c, s), k.type = "none", ~k.comment
  PROVE  Settles(k.state, k.stack, s)
<1>1. ShapeOK(k) /\ TopOK(k) /\ Together(k, s) /\ Entry(k) = k.state
  BY DEF Filled, Entry
<1>2. k.state \in Blanks
  BY <1>1, WordStates, StatesAre DEF ShapeOK, InString, Blanks, InComment, InWord
<1> QED BY <1>1, <1>2 DEF Settles, TopOK, Together

\* A scalar was reported: the reader took it and the document allows it.
Spoke(k, s, e, S) ==
  /\ S = json_calback(s, e) /\ Sync(k.stack, S) /\ ~S.named /\ S.open # <<>>
  /\ Last(k.stack) \in {"ARRAY", "OBJECT"}
  /\ e.type \in Document!Event /\ Document!Legal(Doc(k.stack, s), e.type)
  /\ Doc(k.stack, S) = Document!Apply(Doc(k.stack, s), e.type)

\* The scalar that a bracket, a comma or a blank ends is reported where a value may come.
LEMMA Emit ==
  ASSUME NEW k, NEW c, NEW s, Filled(k, c, s), k.buffer # <<>>, k.type # "none" => Last(k.stack) # "KEY",
         NEW left, left = parse_parse_buffer(parse_buffer_pop_back_char(k))
  PROVE  /\ Keeps(left, k, ByEmit) /\ left.buffer = <<>>
         /\ k.type = "none" => left.events = <<>>
         /\ k.type # "none" => \E e : left.events = <<e>> /\ Spoke(k, s, e, json_calback(s, e))
<1> DEFINE b == parse_buffer_pop_back_char(k)
<1>1. Whole(k) /\ Sequence(k.buffer) /\ k.events = <<>>
  BY FilledSync DEF Filled, BufferOK
<1>2. Keeps(b, k, ByBuffer)
  BY <1>1, PopChar
<1> HIDE DEF b
<1>3. Whole(b) /\ b.events = <<>> /\ b.type = k.type
  BY <1>1, <1>2 DEF Keeps, Fields, ByBuffer
<1>4. left = parse_parse_buffer(b)
  BY DEF b
<1>5. /\ Keeps(left, b, ByEmit) /\ left.buffer = <<>>
      /\ IF b.type = "none" THEN left.events = <<>> ELSE left.events = <<[type |-> b.type, text |-> b.buffer]>>
  BY <1>3, <1>4, Emptied
<1>6. Keeps(left, k, ByEmit)
  <2>1. ByBuffer \subseteq ByEmit
    BY DEF ByBuffer, ByEmit
  <2> QED BY <1>2, <1>5, <2>1, KeepsTwice
<1>7. ASSUME k.type # "none" PROVE \E e : left.events = <<e>> /\ Spoke(k, s, e, json_calback(s, e))
  <2> DEFINE e == [type |-> b.type, text |-> b.buffer]
  <2>1. left.events = <<e>> /\ e.type \in Scalars
    BY <1>3, <1>5, <1>7 DEF Filled, ShapeOK
  <2> HIDE DEF e
  <2>2. Sync(k.stack, s) /\ Last(k.stack) \in Modes /\ Last(k.stack) # "DONE" /\ Last(k.stack) # "KEY"
    BY <1>7, FilledSync, StackIs DEF Filled, TopOK
  <2>3. Last(k.stack) \in {"ARRAY", "OBJECT"}
    BY <2>2 DEF Modes
  <2>4. Announced(k.stack, s)
    BY <1>7 DEF Announced, Filled, Together
  <2>5. Spoke(k, s, e, json_calback(s, e))
    BY <2>1, <2>2, <2>3, <2>4, ScalarStory DEF Spoke
  <2> QED BY <2>1, <2>5
<1> QED BY <1>3, <1>5, <1>6, <1>7

\* One event at most.
TellsOne(d, D) == \/ D = d
                  \/ \E e \in Document!Event : Document!Legal(d, e) /\ D = Document!Apply(d, e)
Short(events) == events = <<>> \/ \E e : events = <<e>>

\* One event, then the end of a container.
LEMMA TellsEnough ==
  ASSUME NEW d, NEW D, TellsOne(d, D)
  PROVE  /\ Tells(d, D)
         /\ \A f \in Document!Finish : Document!Legal(D, f) => Tells(d, Document!Apply(D, f))
<1>1. Document!Finish \subseteq Document!Event
  BY DEF Document!Event
<1> QED BY <1>1 DEF TellsOne, Tells

\* The same, as what the reader has been told.
LEMMA Emitted ==
  ASSUME NEW k, NEW c, NEW s, Filled(k, c, s), k.buffer # <<>>,
         k.type # "none" => Last(k.stack) # "KEY", ~k.comment,
         NEW left, left = parse_parse_buffer(parse_buffer_pop_back_char(k)),
         NEW S, S = Told(s, left.events)
  PROVE  /\ Keeps(left, k, ByEmit) /\ left.buffer = <<>>
         /\ Sync(k.stack, S) /\ TellsOne(Doc(k.stack, s), Doc(k.stack, S)) /\ Short(left.events)
         /\ \/ k.type = "none" /\ Settles(k.state, k.stack, S)
            \/ k.type # "none" /\ ~S.named /\ S.open # <<>> /\ Last(k.stack) \in {"ARRAY", "OBJECT"}
<1>1. /\ Keeps(left, k, ByEmit) /\ left.buffer = <<>>
      /\ k.type = "none" => left.events = <<>>
      /\ k.type # "none" => \E e : left.events = <<e>> /\ Spoke(k, s, e, json_calback(s, e))
  BY Emit
<1>2. CASE k.type = "none"
  <2>1. S = s
    BY <1>1, <1>2, ToldNothing
  <2> QED BY <1>1, <1>2, <2>1, FilledSettles, FilledSync DEF TellsOne, Short
<1>3. CASE k.type # "none"
  <2>1. PICK e : left.events = <<e>> /\ Spoke(k, s, e, json_calback(s, e))
    BY <1>1, <1>3
  <2>2. S = json_calback(s, e)
    BY <2>1, ToldOne
  <2>3. Spoke(k, s, e, S)
    BY <2>1, <2>2, Zenon
  <2> QED BY <1>1, <1>3, <2>1, <2>3 DEF Spoke, TellsOne, Short
<1> QED BY <1>2, <1>3

\* What taking the character off the buffer and reporting the scalar leave.
LEMMA LeftIs ==
  ASSUME NEW k, NEW c, NEW s, Filled(k, c, s), NEW left, Keeps(left, k, ByEmit)
  PROVE  /\ Whole(left) /\ Sane(left) /\ Alive(left) /\ MemoryOK(left) /\ left.ok /\ left.ok \in BOOLEAN
         /\ left.state = k.state /\ left.type = k.type /\ left.escaped = k.escaped
         /\ left.comment = k.comment
         /\ left.comments = k.comments /\ left.before = k.before /\ left.stack = k.stack
         /\ left.room = k.room
         /\ Loud(left, k)
<1>1. /\ left.state = k.state /\ left.type = k.type /\ left.escaped = k.escaped
      /\ left.comment = k.comment
      /\ left.comments = k.comments /\ left.before = k.before /\ left.stack = k.stack
      /\ left.room = k.room
      /\ left.ok = k.ok /\ left.broken = k.broken /\ left.depth = k.depth
      /\ left.capacity = k.capacity /\ Whole(left)
  BY DEF Keeps, Fields, ByEmit
<1>2. k.ok = TRUE /\ k.broken = FALSE /\ MemoryOK(k)
  BY DEF Filled, Alive, Sane
<1>3. Alive(left) /\ Sane(left) /\ MemoryOK(left)
  BY <1>1, <1>2 DEF Alive, Sane, MemoryOK
<1>4. Loud(left, k)
  BY DEF Loud, Keeps, Fields, ByEmit, ByTurn, Quiet
<1> QED BY <1>1, <1>2, <1>3, <1>4

\* An empty buffer is within its array.
LEMMA LoudRoom ==
  ASSUME NEW k, NEW c, NEW s, Filled(k, c, s), NEW J, Loud(J, k), J.buffer = <<>>
  PROVE  Sequence(J.buffer) /\ Len(J.buffer) < J.room
<1>1. J.room = k.room
  BY LoudIs
<1>2. k.room \in Nat /\ k.room >= 2
  BY DEF Filled, BufferOK
<1> QED BY <1>1, <1>2, SeqEmpty

\* There is something to take off.
LEMMA FilledHolds ==
  ASSUME NEW k, NEW c, NEW s, Filled(k, c, s), k.type = "none" => ~k.comment /\ c \notin White
  PROVE  k.buffer # <<>> /\ (k.type = "none" => Len(k.buffer) = 1)
BY DEF Filled

\* The first slash of a comment ends the scalar before it.
LEMMA OnComment ==
  ASSUME NEW k, NEW c, NEW s, Filled(k, c, s), k.state \in Blanks \cup InWord,
         k.state \in Blanks => c \notin White,
         NEW J, J = BeginComment(k)
  PROVE  Outcome(k, s, J)
<1> DEFINE left == parse_parse_buffer(parse_buffer_pop_back_char(k))
           S == Told(s, left.events)
           back == IF Top(left) \in {"ARRAY", "OBJECT"} /\ left.state \notin {"VA", "AR"} THEN "OK" ELSE left.state
<1>1. CASE ~k.comments
  <2>1. J = Fail(k)
    BY <1>1 DEF BeginComment
  <2>2. Silent(J, k) /\ J.buffer = k.buffer /\ ~J.ok /\ J.ok \in BOOLEAN
    BY <2>1, FilledSync DEF Fail, Whole, Keeps, Fields, Silent, Quiet
  <2> QED BY <2>2, OnFail
<1>2. CASE k.comments
  <2>0. ShapeOK(k) /\ ~k.comment /\ (k.type # "none" => k.type \in Words /\ Last(k.stack) # "KEY")
        /\ (k.state \in InWord <=> k.state \notin Blanks)
        /\ (k.type = "none" => k.state \in Blanks) /\ (k.state \in {"VA", "AR"} => k.type = "none")
    BY WordStates, StatesAre DEF Filled, ShapeOK, TopOK, InComment, InString, Blanks, Words
  <2>1. k.buffer # <<>>
    BY <2>0, FilledHolds
  <2>2. /\ Keeps(left, k, ByEmit) /\ left.buffer = <<>>
        /\ Sync(k.stack, S) /\ Tells(Doc(k.stack, s), Doc(k.stack, S))
        /\ \/ k.type = "none" /\ Settles(k.state, k.stack, S)
           \/ k.type # "none" /\ ~S.named /\ S.open # <<>> /\ Last(k.stack) \in {"ARRAY", "OBJECT"}
    BY <2>0, <2>1, Emitted, TellsEnough
  <2>3. J = IF left.ok
            THEN [Check(left, left.buffer = <<>> /\ left.type # "string" /\ left.stack # <<>>)
                   EXCEPT !.before = back, !.type = "none", !.state = "C1", !.comment = TRUE]
            ELSE left
    BY <1>2, Zenon DEF BeginComment, Then
  <2> HIDE DEF left
  <2>4. /\ Whole(left) /\ Sane(left) /\ Alive(left) /\ MemoryOK(left) /\ left.ok /\ left.ok \in BOOLEAN
        /\ left.state = k.state /\ left.type = k.type /\ left.escaped = k.escaped
        /\ left.comment = k.comment
        /\ left.before = k.before /\ left.stack = k.stack /\ left.room = k.room /\ Loud(left, k)
    BY <2>2, LeftIs
  <2>5. left.buffer = <<>> /\ left.type # "string" /\ left.stack # <<>> /\ StackOK(k.stack)
    BY <2>0, <2>2, <2>4, FilledSync DEF StackOK, Words
  <2>6. Check(left, left.buffer = <<>> /\ left.type # "string" /\ left.stack # <<>>) = left
    BY <2>4, <2>5, CheckHolds
  <2>7. J = [left EXCEPT !.before = back, !.type = "none", !.state = "C1", !.comment = TRUE]
    BY <2>3, <2>4, <2>6, Zenon
  <2>8. Settles(back, k.stack, S)
    <3>1. Top(left) = Last(k.stack)
      BY <2>4, <2>5 DEF Top
    <3>2. CASE k.type = "none" /\ Settles(k.state, k.stack, S)
      <4>1. back = k.state
        BY <3>1, <3>2, <2>4 DEF Settles, Blanks
      <4> QED BY <3>2, <4>1
    <3>3. CASE k.type # "none" /\ ~S.named /\ S.open # <<>> /\ Last(k.stack) \in {"ARRAY", "OBJECT"}
      <4>1. back = "OK"
        BY <3>1, <3>3, <2>0, <2>4
      <4>2. S.named \in BOOLEAN
        BY <2>2 DEF Sync, ActionsOK
      <4> HIDE DEF S, back
      <4> QED BY <3>3, <4>1, <4>2 DEF Settles, Blanks
    <3> QED BY <2>2, <3>2, <3>3
  <2> HIDE DEF back, S
  <2>9. /\ Loud(J, left) /\ J.before = back /\ J.type = "none" /\ J.state = "C1" /\ J.comment
        /\ J.comment \in BOOLEAN
        /\ J.escaped = left.escaped /\ J.stack = left.stack /\ J.events = left.events /\ J.ok = left.ok
        /\ J.buffer = left.buffer /\ J.depth = left.depth /\ J.capacity = left.capacity
    <3> DEFINE changed == {"before", "type", "state", "comment"}
    <3>1. /\ Whole(J) /\ \A f \in Fields \ changed : J[f] = left[f]
          /\ J.before = back /\ J.type = "none" /\ J.state = "C1" /\ J.comment = TRUE
      BY <2>4, <2>7 DEF Whole, Fields
    <3>2. Loud(J, left)
      BY <3>1 DEF Keeps, Loud, ByTurn, Quiet
    <3>3. /\ J.escaped = left.escaped /\ J.stack = left.stack /\ J.events = left.events /\ J.ok = left.ok
          /\ J.buffer = left.buffer /\ J.depth = left.depth /\ J.capacity = left.capacity
      BY <3>1 DEF Fields
    <3> QED BY <3>1, <3>2, <3>3
  <2>10. Loud(J, k)
    BY <2>4, <2>9, KeepsTwice DEF Loud
  <2>11. Rests(J, back)
    BY <2>2, <2>4, <2>9 DEF Rests, Filled
  <2>12. MemoryOK(J)
    BY <2>4, <2>9 DEF MemoryOK
  <2>13. S = Told(s, J.events) /\ ActionsOK(S)
    BY <2>2, <2>9 DEF S, Sync
  <2>14. Sequence(J.buffer) /\ Len(J.buffer) < J.room
    BY <2>2, <2>9, <2>10, LoudRoom
  <2>15. Sync(J.stack, S) /\ Tells(Doc(k.stack, s), Doc(J.stack, S)) /\ Settles(back, J.stack, S)
    BY <2>2, <2>4, <2>8, <2>9
  <2> QED BY <2>4, <2>9, <2>10, <2>11, <2>12, <2>13, <2>14, <2>15, LoudOutcome
<1> QED BY <1>1, <1>2 DEF Filled

\* The quote that ends a string: a key, or a value.
LEMMA OnEndString ==
  ASSUME NEW k, NEW c, NEW s, Filled(k, c, s), k.state = "ST", NEW J, J = EndString(k)
  PROVE  Outcome(k, s, J)
<1> DEFINE left == parse_buffer_pop_back_char(k)
<1>0. ShapeOK(k) /\ ~k.comment /\ k.type = "string" /\ k.buffer # <<>> /\ Last(k.stack) # "DONE"
      /\ Entry(k) = "ST"
  BY DEF Filled, ShapeOK, InComment, InString, TopOK, Entry
<1>1. Sync(k.stack, s) /\ StackOK(k.stack) /\ k.stack # <<>> /\ Sane(k) /\ Whole(k)
  BY FilledSync DEF StackOK, Alive
<1>2. Check(k, k.type = "string" /\ k.stack # <<>>) = k
  BY <1>0, <1>1, CheckHolds
<1>3. J = CASE Top(left) = "KEY" ->
                 parse_buffer_clear(Callback([left EXCEPT !.type = "none", !.state = "CO"], "key", left.buffer))
            [] Top(left) \in {"ARRAY", "OBJECT"} ->
                 [parse_parse_buffer(left) EXCEPT !.type = "none", !.state = "OK"]
            [] OTHER -> Fail(left)
  BY <1>2, Zenon DEF EndString
<1>4. Keeps(left, k, ByBuffer)
  BY <1>0, <1>1, PopChar DEF Filled, BufferOK
<1>5. Last(k.stack) \in {"KEY", "ARRAY", "OBJECT"}
  BY <1>0, <1>1, StackIs DEF Modes
<1>6. CASE Last(k.stack) = "KEY"
  <2> HIDE DEF left
  <2>1. PICK t : t = [left EXCEPT !.type = "none", !.state = "CO"]
    OBVIOUS
  <2>2. Whole(left) /\ left.stack = k.stack /\ left.ok = k.ok /\ left.escaped = k.escaped
        /\ left.comment = k.comment
        /\ left.before = k.before /\ left.events = k.events /\ left.depth = k.depth
        /\ left.capacity = k.capacity
        /\ Loud(left, k)
    BY <1>4 DEF Keeps, Fields, ByBuffer, Loud, ByTurn, Quiet
  <2>3. /\ Whole(t) /\ t.type = "none" /\ t.state = "CO" /\ t.stack = k.stack /\ t.ok = k.ok
        /\ t.escaped = k.escaped
        /\ t.comment = k.comment /\ t.before = k.before /\ t.events = <<>> /\ t.depth = k.depth
        /\ t.capacity = k.capacity /\ Loud(t, left)
    BY <2>1, <2>2 DEF Whole, Keeps, Fields, Loud, ByTurn, Quiet, Filled
  <2>4. PICK u : u = Callback(t, "key", left.buffer)
    OBVIOUS
  <2>5. Keeps(u, t, ByEvents) /\ u.events = Append(t.events, [type |-> "key", text |-> left.buffer])
    <3>1. \A y : y = Callback(t, "key", left.buffer) =>
            Keeps(y, t, ByEvents) /\ y.events = Append(t.events, [type |-> "key", text |-> left.buffer])
      BY <2>3, CallbackKeeps
    <3> QED BY <2>4, <3>1
  <2>6. J = parse_buffer_clear(u)
    <3>1. Top(left) = "KEY"
      BY <1>1, <1>6, <2>2 DEF Top
    <3> QED BY <1>3, <2>1, <2>4, <3>1
  <2>7. Keeps(J, u, ByBuffer) /\ J.buffer = <<>>
    BY <2>5, <2>6, ClearKeeps DEF Keeps
  <2>8. PICK e : e = [type |-> "key", text |-> left.buffer]
    OBVIOUS
  <2>9. /\ J.events = <<e>> /\ e.type = "key" /\ J.type = "none" /\ J.state = "CO"
        /\ J.stack = k.stack /\ J.ok = k.ok
        /\ J.escaped = k.escaped /\ J.comment = k.comment /\ J.before = k.before
        /\ J.depth = k.depth /\ J.capacity = k.capacity
    <3>1. u.events = <<e>>
      BY <2>3, <2>5, <2>8
    <3> QED BY <3>1, <2>3, <2>5, <2>7, <2>8 DEF Keeps, Fields, ByEvents, ByBuffer
  <2>10. Loud(J, k)
    <3>1. ByEvents \subseteq ByTurn /\ ByBuffer \subseteq ByTurn
      BY DEF ByEvents, ByBuffer, ByTurn, Quiet
    <3>2. Keeps(u, left, ByTurn)
      BY <2>3, <2>5, <3>1, KeepsTwice DEF Loud
    <3>3. Keeps(J, left, ByTurn)
      BY <2>7, <3>1, <3>2, KeepsTwice
    <3> QED BY <2>2, <3>3, KeepsTwice DEF Loud
  <2>11. PICK S : S = json_calback(s, e)
    OBVIOUS
  <2>12. S = Told(s, J.events)
    BY <2>9, <2>11, ToldOne
  <2>13. ~s.named
    BY <1>0, <1>6 DEF Filled, Together
  <2>14. /\ Sync(k.stack, S) /\ S.named /\ S.open # <<>>
         /\ e.type \in Document!Event /\ Document!Legal(Doc(k.stack, s), e.type)
         /\ Doc(k.stack, S) = Document!Apply(Doc(k.stack, s), e.type)
    BY <1>1, <1>6, <2>9, <2>11, <2>13, KeyStory
  <2>15. Tells(Doc(k.stack, s), Doc(J.stack, S)) /\ Sync(J.stack, S)
    BY <2>9, <2>14 DEF Tells
  <2>16. Settles("CO", J.stack, S)
    <3>1. S.named \in BOOLEAN
      BY <2>14 DEF Sync, ActionsOK
    <3> QED BY <3>1, <1>6, <2>9, <2>14 DEF Settles, Blanks
  <2>17. Rests(J, "CO")
    BY <1>0, <2>7, <2>9 DEF Rests, Filled, ShapeOK
  <2>18. MemoryOK(J) /\ J.ok \in BOOLEAN /\ ActionsOK(S)
    BY <2>9, <2>14, FilledSync DEF MemoryOK, Sync, Alive
  <2>19. Sequence(J.buffer) /\ Len(J.buffer) < J.room
    BY <2>7, <2>10, LoudRoom
  <2> QED BY <2>10, <2>12, <2>15, <2>16, <2>17, <2>18, <2>19, LoudOutcome
<1>7. CASE Last(k.stack) \in {"ARRAY", "OBJECT"}
  <2> DEFINE done == parse_parse_buffer(left)
             S == Told(s, done.events)
  <2>1. /\ Keeps(done, k, ByEmit) /\ done.buffer = <<>>
        /\ Sync(k.stack, S) /\ Tells(Doc(k.stack, s), Doc(k.stack, S)) /\ ~S.named /\ S.open # <<>>
    BY <1>0, <1>7, Emitted, TellsEnough
  <2>2. J = [done EXCEPT !.type = "none", !.state = "OK"]
    <3>1. left.stack = k.stack
      BY <1>4 DEF Keeps, Fields, ByBuffer
    <3> HIDE DEF left
    <3>2. Top(left) \in {"ARRAY", "OBJECT"} /\ Top(left) # "KEY"
      BY <1>1, <1>7, <3>1 DEF Top
    <3> QED BY <1>3, <3>2
  <2> HIDE DEF done
  <2>3. /\ Whole(done) /\ MemoryOK(done) /\ done.ok /\ done.ok \in BOOLEAN
        /\ done.escaped = k.escaped /\ done.comment = k.comment
        /\ done.before = k.before /\ done.stack = k.stack /\ Loud(done, k)
    BY <2>1, LeftIs
  <2> HIDE DEF S
  <2>4. /\ Loud(J, done) /\ J.type = "none" /\ J.state = "OK" /\ J.comment = k.comment
        /\ J.before = k.before
        /\ J.escaped = k.escaped /\ J.stack = k.stack /\ J.events = done.events /\ J.ok = done.ok
        /\ J.buffer = <<>> /\ J.depth = done.depth /\ J.capacity = done.capacity
    BY <2>1, <2>2, <2>3 DEF Whole, Keeps, Fields, Loud, ByTurn, Quiet
  <2>5. Loud(J, k)
    BY <2>3, <2>4, KeepsTwice DEF Loud
  <2>6. Rests(J, "OK")
    BY <1>0, <2>4 DEF Rests, Filled, ShapeOK
  <2>7. Settles("OK", J.stack, S)
    <3>1. S.named \in BOOLEAN
      BY <2>1 DEF Sync, ActionsOK
    <3> QED BY <3>1, <1>7, <2>1, <2>4 DEF Settles, Blanks
  <2>8. MemoryOK(J)
    BY <2>3, <2>4 DEF MemoryOK
  <2>9. S = Told(s, J.events) /\ ActionsOK(S)
    BY <2>1, <2>4 DEF S, Sync
  <2>10. Sequence(J.buffer) /\ Len(J.buffer) < J.room
    BY <2>4, <2>5, LoudRoom
  <2>11. Sync(J.stack, S) /\ Tells(Doc(k.stack, s), Doc(J.stack, S)) /\ J.ok \in BOOLEAN
    BY <2>1, <2>3, <2>4
  <2> QED BY <2>5, <2>6, <2>7, <2>8, <2>9, <2>10, <2>11, LoudOutcome
<1> QED BY <1>5, <1>6, <1>7

------------------------------------------------------------------------------------
(* A comma and a colon: the mode of an object turns.                              *)

\* The mode that replaces the one popped, if it was.
Turn(h, m) == IF h.ok THEN push(h, m) ELSE h

\* A mode of an object is replaced by the other.
LEMMA TurnMode ==
  ASSUME NEW j, Alive(j), MemoryOK(j), NEW a \in {"KEY", "OBJECT"}, NEW m \in {"KEY", "OBJECT"},
         NEW r, r = Turn(pop(j, a), m)
  PROVE  /\ r.ok \in BOOLEAN /\ Keeps(r, j, ByTurn) /\ r.events = j.events /\ r.buffer = j.buffer
         /\ r.ok => /\ Last(j.stack) = a /\ Keeps(r, j, ByStack) /\ MemoryOK(r)
                    /\ r.stack = Pushed(Front(j.stack), m)
<1> DEFINE h == pop(j, a)
<1>1. /\ h.ok \in BOOLEAN
      /\ h.ok => /\ Last(j.stack) = a /\ Keeps(h, j, ByStack) /\ h.stack = Front(j.stack) /\ MemoryOK(h)
                 /\ Last(h.stack) # "KEY"
      /\ ~h.ok => Keeps(h, j, ByOk)
  BY PopMode
<1>2. ByStack \subseteq ByTurn /\ ByOk \subseteq ByTurn /\ ByFail \subseteq ByTurn
      /\ ByStack \subseteq ByStack
  BY DEF ByStack, ByOk, ByFail, ByTurn, Quiet
<1> HIDE DEF h
<1>3. r = IF h.ok THEN push(h, m) ELSE h
  BY Zenon DEF Turn, h
<1>4. CASE ~h.ok
  <2>1. r = h
    BY <1>3, <1>4
  <2>2. h.events = j.events /\ h.buffer = j.buffer /\ Keeps(h, j, ByTurn)
    BY <1>1, <1>2, <1>4 DEF Keeps, Fields, ByOk
  <2> QED BY <1>1, <1>4, <2>1, <2>2
<1>5. CASE h.ok
  <2>1. Alive(h)
    BY <1>1, <1>5 DEF Alive, Sane, Keeps, Fields, ByStack
  <2>2. r = push(h, m)
    BY <1>3, <1>5
  <2>3. /\ r.ok \in BOOLEAN
        /\ r.ok => Keeps(r, h, ByStack) /\ r.stack = Pushed(h.stack, m) /\ MemoryOK(r)
        /\ ~r.ok => Keeps(r, h, ByFail)
    <3>1. m \in {"ARRAY", "OBJECT", "KEY"}
      OBVIOUS
    <3> QED BY <1>1, <1>5, <2>1, <2>2, <3>1, PushMode
  <2>4. CASE r.ok
    <3>1. Keeps(r, j, ByStack) /\ Keeps(r, j, ByTurn)
      BY <1>1, <1>2, <1>5, <2>3, <2>4, KeepsTwice
    <3>2. r.events = j.events /\ r.buffer = j.buffer
      BY <3>1 DEF Keeps, Fields, ByStack
    <3> QED BY <1>1, <1>5, <2>3, <2>4, <3>1, <3>2
  <2>5. CASE ~r.ok
    <3>1. Keeps(r, j, ByTurn)
      BY <1>1, <1>2, <1>5, <2>3, <2>5, KeepsTwice
    <3>2. h.events = j.events /\ h.buffer = j.buffer
      BY <1>1, <1>5 DEF Keeps, Fields, ByStack
    <3>3. r.events = h.events /\ r.buffer = h.buffer
      BY <2>3, <2>5 DEF Keeps, Fields, ByFail
    <3> QED BY <2>3, <2>5, <3>1, <3>2, <3>3
  <2> QED BY <2>3, <2>4, <2>5
<1> QED BY <1>1, <1>4, <1>5

\* ...and the reader does not see it.
LEMMA TurnStory ==
  ASSUME NEW q, NEW s, Sync(q, s), NEW m \in {"KEY", "OBJECT"}, Last(q) \in {"KEY", "OBJECT"},
         NEW p, p = Pushed(Front(q), m)
  PROVE  Sync(p, s) /\ Last(p) = m /\ Doc(p, s) = Doc(q, s)
<1>1. StackOK(q) /\ ActionsOK(s) /\ Len(q) \in Nat \ {0} /\ Last(q) # "DONE" /\ Last(q) = q[Len(q)]
  BY StackIs DEF Sync
<1>2. PICK f : f = Front(q)
  OBVIOUS
<1>3. /\ StackOK(f) /\ Last(f) # "KEY" /\ Len(f) = Len(q) - 1
      /\ \A i \in 1..Len(f) : f[i] = q[i]
  BY <1>1, <1>2, StackPop
<1>4. /\ StackOK(p) /\ Last(p) = m /\ Len(p) = Len(f) + 1
      /\ p[Len(f) + 1] = m /\ \A i \in 1..Len(f) : p[i] = f[i]
  <2>1. m \in {"ARRAY", "OBJECT", "KEY"} /\ p = Pushed(f, m)
    BY <1>2
  <2>2. StackOK(f) /\ Last(f) # "KEY"
    BY <1>3
  <2> QED BY <2>1, <2>2, StackPush
<1>5. Len(p) = Len(q)
  BY <1>1, <1>3, <1>4
<1>6. ASSUME NEW i \in 1..Len(q) PROVE KindOf(p[i]) = KindOf(q[i])
  <2>1. CASE i = Len(q)
    <3>1. p[i] = m /\ q[i] = Last(q)
      BY <2>1, <1>1, <1>3, <1>4
    <3> QED BY <3>1 DEF KindOf
  <2>2. CASE i # Len(q)
    <3>1. i \in 1..Len(f)
      BY <2>2, <1>1, <1>3
    <3> QED BY <3>1, <1>3, <1>4
  <2> QED BY <2>1, <2>2
<1>7. PathOf(p) = PathOf(q)
  <2>1. \A i \in 2..Len(q) : KindOf(p[i]) = KindOf(q[i])
    BY <1>1, <1>6
  <2> QED BY <2>1, <1>1, <1>4, <1>5, PathSame
<1>8. Sync(p, s)
  <2>1. Follows(s.open, q) => Follows(s.open, p)
    <3> SUFFICES ASSUME Follows(s.open, q) PROVE Follows(s.open, p)
      OBVIOUS
    <3>1. Len(s.open) = Len(p) - 1
      BY <1>5 DEF Follows
    <3>2. ASSUME NEW i \in 1..Len(s.open) PROVE s.open[i].type = KindOf(p[i + 1])
      <4>1. s.open[i].type = KindOf(q[i + 1])
        BY DEF Follows
      <4>2. i + 1 \in 1..Len(q)
        BY <1>1, <1>5, <3>1
      <4> QED BY <4>1, <4>2, <1>6
    <3> QED BY <3>1, <3>2 DEF Follows
  <2> QED BY <2>1, <1>1, <1>4, <1>5 DEF Sync
<1>9. Doc(p, s) = Doc(q, s)
  BY <1>7, Zenon DEF Doc
<1> QED BY <1>4, <1>8, <1>9

\* A comma.
LEMMA OnComma ==
  ASSUME NEW k, NEW c, NEW s, Filled(k, c, s), k.state \in {"OK"} \cup Ended,
         k.state = "OK" => c \notin White,
         NEW J, J = Comma(k)
  PROVE  Outcome(k, s, J)
<1> DEFINE left == parse_parse_buffer(parse_buffer_pop_back_char(k))
           S == Told(s, left.events)
           t == Turn(pop(left, "OBJECT"), "KEY")
<1>0. ShapeOK(k) /\ ~k.comment /\ k.comment \in BOOLEAN
      /\ (k.type # "none" => k.type \in Words /\ Last(k.stack) # "KEY")
      /\ (k.type = "none" => k.state = "OK") /\ k.type # "string" /\ k.before \in Blanks
  BY WordStates, StatesAre DEF Filled, ShapeOK, TopOK, InComment, InString, Blanks, Words, Ended
<1>1. Sync(k.stack, s) /\ StackOK(k.stack) /\ k.stack # <<>> /\ Sane(k) /\ Whole(k)
  BY FilledSync DEF StackOK, Alive
<1>2. Check(k, k.stack # <<>>) = k
  BY <1>1, CheckHolds
<1>3. k.buffer # <<>>
  BY <1>0, FilledHolds
<1>4. /\ Keeps(left, k, ByEmit) /\ left.buffer = <<>>
      /\ Sync(k.stack, S) /\ Tells(Doc(k.stack, s), Doc(k.stack, S))
      /\ \/ k.type = "none" /\ Settles(k.state, k.stack, S)
         \/ k.type # "none" /\ ~S.named /\ S.open # <<>> /\ Last(k.stack) \in {"ARRAY", "OBJECT"}
  BY <1>0, <1>3, Emitted, TellsEnough
<1>5. J = CASE Top(left) = "OBJECT" ->
                 IF t.ok THEN [Check(t, t.type # "string") EXCEPT !.type = "none", !.state = "KE"] ELSE t
            [] Top(left) = "ARRAY" -> [Check(left, left.type # "string") EXCEPT !.type = "none", !.state = "VA"]
            [] OTHER -> Fail(left)
  BY <1>2, Zenon DEF Comma, Then, Turn
<1> HIDE DEF left
<1>6. /\ Whole(left) /\ Sane(left) /\ Alive(left) /\ MemoryOK(left) /\ left.ok /\ left.ok \in BOOLEAN
      /\ left.type = k.type /\ left.escaped = k.escaped /\ left.comment = k.comment
      /\ left.before = k.before /\ left.stack = k.stack /\ Loud(left, k)
  BY <1>4, LeftIs
<1>7. Top(left) = Last(k.stack) /\ S.named \in BOOLEAN /\ ActionsOK(S)
  BY <1>1, <1>4, <1>6 DEF Top, Sync, ActionsOK
<1> HIDE DEF S
<1>8. (~S.named /\ S.open # <<>>) \/ Last(k.stack) \notin {"OBJECT", "ARRAY"}
  BY <1>0, <1>4, <1>7 DEF Settles
<1>9. CASE Last(k.stack) \notin {"OBJECT", "ARRAY"}
  <2>1. J = Fail(left)
    BY <1>5, <1>7, <1>9
  <2>2. Loud(J, left) /\ J.events = left.events /\ J.buffer = left.buffer /\ ~J.ok /\ J.ok \in BOOLEAN
    BY <2>1, <1>6 DEF Fail, Whole, Keeps, Fields, Loud, ByTurn, Quiet
  <2>3. Loud(J, k)
    BY <1>6, <2>2, KeepsTwice DEF Loud
  <2>4. Sequence(J.buffer) /\ Len(J.buffer) < J.room
    BY <1>4, <2>2, <2>3, LoudRoom
  <2>5. S = Told(s, J.events)
    BY <2>2 DEF S
  <2> QED BY <1>7, <2>2, <2>3, <2>4, <2>5, LoudOutcome
<1>10. CASE Last(k.stack) = "ARRAY"
  <2>1. Check(left, left.type # "string") = left
    BY <1>0, <1>6, CheckHolds
  <2>2. J = [left EXCEPT !.type = "none", !.state = "VA"]
    BY <1>5, <1>7, <1>10, <2>1
  <2>3. /\ Loud(J, left) /\ J.type = "none" /\ J.state = "VA" /\ J.comment = k.comment
        /\ J.before = k.before
        /\ J.escaped = k.escaped /\ J.stack = k.stack /\ J.events = left.events /\ J.ok = left.ok
        /\ J.buffer = <<>> /\ J.depth = left.depth /\ J.capacity = left.capacity
    BY <1>4, <1>6, <2>2 DEF Whole, Keeps, Fields, Loud, ByTurn, Quiet
  <2>4. Loud(J, k)
    BY <1>6, <2>3, KeepsTwice DEF Loud
  <2>5. Rests(J, "VA") /\ Settles("VA", J.stack, S)
    BY <1>0, <1>7, <1>8, <1>10, <2>3 DEF Rests, Filled, Settles, Blanks
  <2>6. MemoryOK(J)
    BY <1>6, <2>3 DEF MemoryOK
  <2>7. S = Told(s, J.events)
    BY <2>3 DEF S
  <2>8. Sequence(J.buffer) /\ Len(J.buffer) < J.room
    BY <2>3, <2>4, LoudRoom
  <2>9. Sync(J.stack, S) /\ Tells(Doc(k.stack, s), Doc(J.stack, S)) /\ J.ok \in BOOLEAN
    BY <1>4, <1>6, <2>3
  <2> QED BY <1>7, <2>4, <2>5, <2>6, <2>7, <2>8, <2>9, LoudOutcome
<1>11. CASE Last(k.stack) = "OBJECT"
  <2>1. PICK a, m : a = "OBJECT" /\ m = "KEY"
    OBVIOUS
  <2>2. t = Turn(pop(left, a), m)
    BY <2>1
  <2> HIDE DEF t
  <2>3. /\ t.ok \in BOOLEAN /\ Keeps(t, left, ByTurn) /\ t.events = left.events /\ t.buffer = left.buffer
        /\ t.ok => /\ Keeps(t, left, ByStack) /\ MemoryOK(t) /\ t.stack = Pushed(Front(left.stack), m)
    <3>1. a \in {"KEY", "OBJECT"} /\ m \in {"KEY", "OBJECT"}
      BY <2>1
    <3> QED BY <1>6, <2>2, <3>1, TurnMode
  <2>4. Loud(t, k)
    BY <1>6, <2>3, KeepsTwice DEF Loud
  <2>5. J = IF t.ok THEN [Check(t, t.type # "string") EXCEPT !.type = "none", !.state = "KE"] ELSE t
    BY <1>5, <1>7, <1>11
  <2>6. CASE ~t.ok
    <3>1. J = t
      BY <2>5, <2>6
    <3>2. Sequence(J.buffer) /\ Len(J.buffer) < J.room
      BY <1>4, <2>3, <2>4, <3>1, LoudRoom
    <3>3. S = Told(s, J.events)
      BY <2>3, <3>1 DEF S
    <3> QED BY <1>7, <2>3, <2>4, <2>6, <3>1, <3>2, <3>3, LoudOutcome
  <2>7. CASE t.ok
    <3>1. /\ Whole(t) /\ t.type = k.type /\ t.escaped = k.escaped /\ t.comment = k.comment
          /\ t.before = k.before
          /\ t.broken = left.broken
      BY <1>6, <2>3, <2>7 DEF Keeps, Fields, ByStack
    <3>2. Sane(t)
      BY <1>6, <3>1 DEF Sane
    <3>3. Check(t, t.type # "string") = t
      BY <1>0, <3>1, <3>2, CheckHolds
    <3>4. J = [t EXCEPT !.type = "none", !.state = "KE"]
      BY <2>5, <2>7, <3>3
    <3>5. /\ Loud(J, t) /\ J.type = "none" /\ J.state = "KE" /\ J.comment = k.comment
          /\ J.before = k.before
          /\ J.escaped = k.escaped /\ J.stack = t.stack /\ J.events = left.events /\ J.ok = t.ok
          /\ J.buffer = <<>> /\ J.depth = t.depth /\ J.capacity = t.capacity
      BY <1>4, <2>3, <3>1, <3>4 DEF Whole, Keeps, Fields, Loud, ByTurn, Quiet
    <3>6. Loud(J, k)
      BY <2>4, <3>5, KeepsTwice DEF Loud
    <3>7. Sync(t.stack, S) /\ Last(t.stack) = m /\ Doc(t.stack, S) = Doc(k.stack, S)
      <4>1. t.stack = Pushed(Front(k.stack), m) /\ m \in {"KEY", "OBJECT"}
        BY <1>6, <2>1, <2>3, <2>7
      <4> QED BY <1>4, <1>11, <4>1, TurnStory
    <3>8. Rests(J, "KE") /\ Settles("KE", J.stack, S)
      BY <1>0, <1>7, <1>8, <1>11, <2>1, <3>5, <3>7 DEF Rests, Filled, Settles, Blanks
    <3>9. MemoryOK(J)
      BY <2>3, <2>7, <3>5 DEF MemoryOK
    <3>10. S = Told(s, J.events)
      BY <3>5 DEF S
    <3>11. Sequence(J.buffer) /\ Len(J.buffer) < J.room
      BY <3>5, <3>6, LoudRoom
    <3>12. Sync(J.stack, S) /\ Tells(Doc(k.stack, s), Doc(J.stack, S)) /\ J.ok \in BOOLEAN
      BY <1>4, <2>3, <3>5, <3>7
    <3> QED BY <1>7, <3>6, <3>8, <3>9, <3>10, <3>11, <3>12, LoudOutcome
  <2> QED BY <2>3, <2>6, <2>7
<1> QED BY <1>9, <1>10, <1>11

\* A colon.
LEMMA OnColon ==
  ASSUME NEW k, NEW c, NEW s, Filled(k, c, s), k.state = "CO", c \notin White, NEW J, J = Colon(k)
  PROVE  Outcome(k, s, J)
<1> DEFINE b == parse_buffer_pop_back_char(k)
           t == Turn(pop(b, "KEY"), "OBJECT")
<1>0. ShapeOK(k) /\ ~k.comment /\ k.comment \in BOOLEAN /\ k.type = "none" /\ k.before \in Blanks
      /\ ~k.escaped /\ k.escaped \in BOOLEAN /\ k.events = <<>>
  BY DEF Filled, ShapeOK, InComment, Blanks
<1>1. Sync(k.stack, s) /\ StackOK(k.stack) /\ k.stack # <<>> /\ Sane(k) /\ Whole(k) /\ k.ok = TRUE
      /\ MemoryOK(k)
      /\ k.broken = FALSE
  BY FilledSync DEF StackOK, Alive, Sane
<1>2. k.buffer # <<>> /\ Len(k.buffer) = 1
  BY <1>0, FilledHolds
<1>3. /\ Keeps(b, k, ByBuffer) /\ b.buffer = <<>>
  <2>1. Sequence(k.buffer)
    BY DEF Filled, BufferOK
  <2>2. Keeps(b, k, ByBuffer) /\ Sequence(b.buffer) /\ Len(b.buffer) = Len(k.buffer) - 1
    BY <1>1, <1>2, <2>1, PopChar
  <2> QED BY <1>2, <2>2, SeqIs
<1>4. J = IF t.ok THEN [Check(t, t.type = "none") EXCEPT !.state = "VA"] ELSE t
  BY Zenon DEF Colon, Then, Turn
<1> HIDE DEF b
<1>5. /\ Whole(b) /\ b.type = k.type /\ b.escaped = k.escaped /\ b.comment = k.comment
      /\ b.before = k.before
      /\ b.stack = k.stack /\ b.events = <<>> /\ Loud(b, k) /\ b.broken = FALSE /\ b.ok = TRUE
      /\ b.depth = k.depth /\ b.capacity = k.capacity
  BY <1>0, <1>1, <1>3 DEF Keeps, Fields, ByBuffer, Loud, ByTurn, Quiet
<1>6. Alive(b) /\ MemoryOK(b)
  BY <1>1, <1>5 DEF Alive, Sane, MemoryOK
<1>7. PICK a, m : a = "KEY" /\ m = "OBJECT"
  OBVIOUS
<1>8. t = Turn(pop(b, a), m)
  BY <1>7
<1> HIDE DEF t
<1>9. /\ t.ok \in BOOLEAN /\ Keeps(t, b, ByTurn) /\ t.events = b.events /\ t.buffer = b.buffer
      /\ t.ok => /\ Last(b.stack) = a /\ Keeps(t, b, ByStack) /\ MemoryOK(t) /\ t.stack = Pushed(Front(b.stack), m)
  <2>1. a \in {"KEY", "OBJECT"} /\ m \in {"KEY", "OBJECT"}
    BY <1>7
  <2> QED BY <1>6, <1>8, <2>1, TurnMode
<1>10. Loud(t, k)
  BY <1>5, <1>9, KeepsTwice DEF Loud
<1>11. s = Told(s, t.events) /\ ActionsOK(s)
  BY <1>5, <1>9, ToldNothing, FilledSync
<1>12. CASE ~t.ok
  <2>1. J = t
    BY <1>4, <1>12
  <2>2. Sequence(J.buffer) /\ Len(J.buffer) < J.room
    BY <1>3, <1>9, <1>10, <2>1, LoudRoom
  <2> QED BY <1>9, <1>10, <1>11, <1>12, <2>1, <2>2, LoudOutcome
<1>13. CASE t.ok
  <2>1. Whole(t) /\ t.type = "none" /\ t.escaped = k.escaped /\ t.comment = k.comment
        /\ t.before = k.before /\ t.broken = FALSE
    BY <1>0, <1>5, <1>9, <1>13 DEF Keeps, Fields, ByStack
  <2>2. Check(t, t.type = "none") = t
    BY <2>1, CheckHolds DEF Sane
  <2>3. J = [t EXCEPT !.state = "VA"]
    BY <1>4, <1>13, <2>2
  <2>4. /\ Loud(J, t) /\ J.type = "none" /\ J.state = "VA" /\ J.comment = k.comment /\ J.before = k.before
        /\ J.escaped = k.escaped /\ J.stack = t.stack /\ J.events = t.events /\ J.ok = t.ok
        /\ J.buffer = <<>> /\ J.depth = t.depth /\ J.capacity = t.capacity
    BY <1>3, <1>9, <2>1, <2>3 DEF Whole, Keeps, Fields, Loud, ByTurn, Quiet
  <2>5. Loud(J, k)
    BY <1>10, <2>4, KeepsTwice DEF Loud
  <2>6. Sync(t.stack, s) /\ Last(t.stack) = m /\ Doc(t.stack, s) = Doc(k.stack, s)
    <3>1. t.stack = Pushed(Front(k.stack), m) /\ m \in {"KEY", "OBJECT"}
          /\ Last(k.stack) \in {"KEY", "OBJECT"}
      BY <1>5, <1>7, <1>9, <1>13
    <3> QED BY <1>1, <3>1, TurnStory
  <2>7. Settles("VA", J.stack, s)
    <3>1. Settles("CO", k.stack, s)
      BY <1>0, FilledSettles
    <3> QED BY <3>1, <1>7, <2>4, <2>6 DEF Settles, Blanks
  <2>8. Rests(J, "VA")
    BY <1>0, <2>4 DEF Rests
  <2>9. MemoryOK(J)
    BY <1>9, <1>13, <2>4 DEF MemoryOK
  <2>10. Sequence(J.buffer) /\ Len(J.buffer) < J.room
    BY <2>4, <2>5, LoudRoom
  <2>11. Sync(J.stack, s) /\ Tells(Doc(k.stack, s), Doc(J.stack, s)) /\ s = Told(s, J.events)
         /\ J.ok \in BOOLEAN
    BY <1>9, <1>11, <2>4, <2>6 DEF Tells
  <2> QED BY <1>11, <2>5, <2>7, <2>8, <2>9, <2>10, <2>11, LoudOutcome
<1> QED BY <1>9, <1>12, <1>13

------------------------------------------------------------------------------------
(* The end of a container.                                                        *)

\* What the end of a container changes once it is popped.
ByTypeState == {"type", "state"}

\* The calls made so far, and one more.
LEMMA AppendTwo == ASSUME NEW x, NEW y PROVE Append(<<x>>, y) = <<x, y>>
<1>1. <<x>> \in Seq({x, y}) /\ Len(<<x>>) = 1 /\ <<x>>[1] = x
  OBVIOUS
<1>2. PICK q : q = Append(<<x>>, y)
  OBVIOUS
<1>3. q \in Seq({x, y}) /\ Len(q) = 2 /\ q[1] = x /\ q[2] = y
  BY <1>1, <1>2
<1>4. q = <<x, y>>
  BY <1>3
<1> QED BY <1>2, <1>4

LEMMA AppendOne == ASSUME NEW x PROVE Append(<<>>, x) = <<x>>
OBVIOUS

LEMMA ToldMore ==
  ASSUME NEW s, NEW events, NEW e, Short(events), NEW S, S = Told(s, events)
  PROVE  Told(s, Append(events, e)) = json_calback(S, e)
<1>1. CASE events = <<>>
  <2>1. Append(events, e) = <<e>> /\ S = s
    BY <1>1, ToldNothing
  <2> QED BY <2>1, ToldOne
<1>2. CASE \E x : events = <<x>>
  <2>1. PICK x : events = <<x>>
    BY <1>2
  <2>2. Append(events, e) = <<x, e>>
    BY <2>1, AppendTwo
  <2>3. S = json_calback(s, x)
    BY <2>1, ToldOne
  <2>4. Told(s, <<x, e>>) = json_calback(json_calback(s, x), e)
    BY ToldTwo
  <2> QED BY <2>2, <2>3, <2>4, Zenon
<1> QED BY <1>1, <1>2 DEF Short

\* A container ends: the scalar before the bracket is reported, then the end, and the
\* mode on the stack is that of the bracket.
LEMMA EndMode ==
  ASSUME NEW k, NEW c, NEW s, Filled(k, c, s),
         NEW left, Loud(left, k), Alive(left), MemoryOK(left), left.buffer = <<>>, left.stack = k.stack,
         left.escaped = k.escaped, left.comment = k.comment, left.before = k.before, ~k.comment,
         Short(left.events), NEW S, S = Told(s, left.events),
         Sync(k.stack, S), TellsOne(Doc(k.stack, s), Doc(k.stack, S)),
         NEW e, NEW m \in {"ARRAY", "OBJECT", "KEY"}, Ends(e, m), Last(k.stack) = m => ~S.named,
         NEW u, Keeps(u, left, ByEvents), u.events = Append(left.events, e),
         NEW h, h = pop(u, m),
         NEW J, h.ok => Keeps(J, h, ByTypeState) /\ J.type = "none" /\ J.state = "OK",
         ~h.ok => Keeps(J, h, ByFail) /\ ~J.ok /\ J.ok \in BOOLEAN
  PROVE  Outcome(k, s, J)
<1>1. /\ Alive(u) /\ MemoryOK(u) /\ u.stack = k.stack /\ u.buffer = <<>> /\ u.escaped = k.escaped
      /\ u.comment = k.comment /\ u.before = k.before
  <2>1. /\ Whole(u) /\ u.ok = left.ok /\ u.broken = left.broken /\ u.stack = left.stack
        /\ u.depth = left.depth
        /\ u.capacity = left.capacity /\ u.buffer = left.buffer /\ u.escaped = left.escaped
        /\ u.comment = left.comment /\ u.before = left.before
    BY DEF Keeps, Fields, ByEvents
  <2> QED BY <2>1 DEF Alive, Sane, MemoryOK
<1>2. PICK T : T = json_calback(S, e)
  OBVIOUS
<1>3. T = Told(s, u.events)
  BY <1>2, ToldMore
<1>4. ActionsOK(S) /\ ActionsOK(T)
  <2>1. e.type \in {"object end", "array end"}
    BY DEF Ends
  <2>2. T = end_compound(S)
    BY <1>2, <2>1, CallbackOthers
  <2> QED BY <2>2, EndCompoundActions DEF Sync
<1>5. /\ h.ok \in BOOLEAN
      /\ h.ok => /\ Last(k.stack) = m /\ Keeps(h, u, ByStack) /\ h.stack = Front(k.stack) /\ MemoryOK(h)
      /\ ~h.ok => Keeps(h, u, ByOk)
  <2>1. /\ h.ok \in BOOLEAN
        /\ h.ok => /\ Last(u.stack) = m /\ Keeps(h, u, ByStack) /\ h.stack = Front(u.stack) /\ MemoryOK(h)
        /\ ~h.ok => Keeps(h, u, ByOk)
    BY <1>1, PopMode
  <2> QED BY <1>1, <2>1
<1>6. /\ ByEvents \subseteq ByTurn /\ ByStack \subseteq ByTurn /\ ByOk \subseteq ByTurn
      /\ ByFail \subseteq ByTurn
      /\ ByTypeState \subseteq ByTurn /\ ByTurn \subseteq ByTurn
  BY DEF ByEvents, ByStack, ByOk, ByFail, ByTypeState, ByTurn, Quiet
<1>7. Loud(u, k)
  BY <1>6, KeepsTwice DEF Loud
<1>8. CASE ~h.ok
  <2>1. Loud(J, k)
    <3>1. Keeps(J, u, ByTurn)
      BY <1>5, <1>6, <1>8, KeepsTwice
    <3> QED BY <1>6, <1>7, <3>1, KeepsTwice DEF Loud
  <2>2. J.events = u.events /\ J.buffer = <<>>
    <3>1. J.events = h.events /\ J.buffer = h.buffer
      BY <1>8 DEF Keeps, Fields, ByFail
    <3>2. h.events = u.events /\ h.buffer = u.buffer
      BY <1>5, <1>8 DEF Keeps, Fields, ByOk
    <3> QED BY <1>1, <3>1, <3>2
  <2>3. Sequence(J.buffer) /\ Len(J.buffer) < J.room
    BY <2>1, <2>2, LoudRoom
  <2>4. T = Told(s, J.events)
    BY <1>3, <2>2
  <2> QED BY <1>4, <1>8, <2>1, <2>3, <2>4, LoudOutcome
<1>9. CASE h.ok
  <2>1. Loud(J, k)
    <3>1. Keeps(J, u, ByTurn)
      BY <1>5, <1>6, <1>9, KeepsTwice
    <3> QED BY <1>6, <1>7, <3>1, KeepsTwice DEF Loud
  <2>2. /\ J.events = u.events /\ J.buffer = <<>> /\ J.escaped = k.escaped /\ J.comment = k.comment
        /\ J.before = k.before
        /\ J.stack = h.stack /\ J.ok = h.ok /\ J.depth = h.depth /\ J.capacity = h.capacity
    <3>1. /\ J.events = h.events /\ J.buffer = h.buffer /\ J.escaped = h.escaped
          /\ J.comment = h.comment /\ J.before = h.before
          /\ J.stack = h.stack /\ J.ok = h.ok /\ J.depth = h.depth /\ J.capacity = h.capacity
      BY <1>9 DEF Keeps, Fields, ByTypeState
    <3>2. h.events = u.events /\ h.buffer = u.buffer /\ h.escaped = u.escaped
          /\ h.comment = u.comment /\ h.before = u.before
      BY <1>5, <1>9 DEF Keeps, Fields, ByStack
    <3> QED BY <1>1, <3>1, <3>2
  <2>3. Sequence(J.buffer) /\ Len(J.buffer) < J.room
    BY <2>1, <2>2, LoudRoom
  <2>4. T = Told(s, J.events)
    BY <1>3, <2>2
  <2>5. PICK p : p = Front(k.stack)
    OBVIOUS
  <2>6. /\ Sync(p, T) /\ ~T.named /\ T.open # <<>> /\ Last(p) # "KEY"
        /\ e.type \in Document!Finish /\ Document!Legal(Doc(k.stack, S), e.type)
        /\ Doc(p, T) = Document!Apply(Doc(k.stack, S), e.type)
    <3>1. Ends(e, Last(k.stack)) /\ ~S.named
      BY <1>5, <1>9
    <3> QED BY <1>2, <2>5, <3>1, EndStory
  <2>7. J.stack = p
    BY <1>5, <1>9, <2>2, <2>5
  <2>8. Tells(Doc(k.stack, s), Doc(p, T))
    <3>1. Tells(Doc(k.stack, s), Document!Apply(Doc(k.stack, S), e.type))
      BY <2>6, TellsEnough
    <3> QED BY <2>6, <3>1, Zenon
  <2>9. Settles("OK", p, T)
    <3>1. T.named \in BOOLEAN
      BY <1>4 DEF ActionsOK
    <3> QED BY <2>6, <3>1 DEF Settles, Blanks
  <2>10. Rests(J, "OK")
    BY <1>9, <2>2 DEF Rests, Filled, ShapeOK
  <2>11. MemoryOK(J) /\ J.ok \in BOOLEAN
    BY <1>5, <1>9, <2>2 DEF MemoryOK
  <2>12. Sync(J.stack, T) /\ Settles("OK", J.stack, T) /\ Tells(Doc(k.stack, s), Doc(J.stack, T))
    BY <2>6, <2>7, <2>8, <2>9
  <2> QED BY <1>4, <2>1, <2>3, <2>4, <2>10, <2>11, <2>12, LoudOutcome
<1> QED BY <1>5, <1>8, <1>9

\* An object without members.
LEMMA OnEndEmptyObject ==
  ASSUME NEW k, NEW c, NEW s, Filled(k, c, s), k.state = "OB", NEW J, J = EndEmptyObject(k)
  PROVE  Outcome(k, s, J)
<1>1. PICK left : left = parse_buffer_clear(k)
  OBVIOUS
<1>2. PICK e : e = [type |-> "object end", text |-> <<>>]
  OBVIOUS
<1>3. PICK u : u = Callback(left, e.type, e.text)
  OBVIOUS
<1>4. PICK m : m = "KEY"
  OBVIOUS
<1>5. PICK h : h = pop(u, m)
  OBVIOUS
<1>6. J = IF h.ok THEN [h EXCEPT !.state = "OK"] ELSE h
  <2>1. u = Callback(left, "object end", <<>>)
    BY <1>2, <1>3
  <2>2. h = pop(Callback(parse_buffer_clear(k), "object end", <<>>), "KEY")
    BY <1>1, <1>4, <1>5, <2>1, Zenon
  <2> QED BY <2>2, Zenon DEF EndEmptyObject, Then
<1>7. /\ ShapeOK(k) /\ ~k.comment /\ k.type = "none" /\ Last(k.stack) = "KEY" /\ ~s.named
      /\ k.events = <<>>
  BY FilledSettles DEF Filled, ShapeOK, InComment, Blanks, Settles
<1>8. Whole(k) /\ Sync(k.stack, s) /\ MemoryOK(k) /\ k.ok = TRUE /\ k.broken = FALSE
  BY FilledSync DEF Alive, Sane
<1>9. Keeps(left, k, ByBuffer) /\ left.buffer = <<>>
  BY <1>1, <1>8, ClearKeeps
<1>10. /\ Whole(left) /\ Loud(left, k) /\ left.stack = k.stack /\ left.ok = k.ok /\ left.broken = k.broken
       /\ left.depth = k.depth /\ left.capacity = k.capacity /\ left.events = <<>> /\ left.type = "none"
       /\ left.escaped = k.escaped /\ left.comment = k.comment /\ left.before = k.before
  BY <1>7, <1>9 DEF Keeps, Fields, ByBuffer, Loud, ByTurn, Quiet
<1>11. Alive(left) /\ MemoryOK(left)
  BY <1>8, <1>10 DEF Alive, Sane, MemoryOK
<1>12. Keeps(u, left, ByEvents) /\ u.events = Append(left.events, e)
  <2>1. e = [type |-> e.type, text |-> e.text]
    BY <1>2
  <2>2. Keeps(u, left, ByEvents) /\ u.events = Append(left.events, [type |-> e.type, text |-> e.text])
    BY <1>3, <1>10, CallbackKeeps
  <2> QED BY <2>1, <2>2, Zenon
<1>13. Whole(u) /\ u.type = "none" /\ u.stack = left.stack /\ u.depth = left.depth
       /\ u.capacity = left.capacity
       /\ u.ok = left.ok /\ u.broken = left.broken
  BY <1>10, <1>12 DEF Keeps, Fields, ByEvents
<1>14. Alive(u) /\ MemoryOK(u)
  BY <1>8, <1>10, <1>13 DEF Alive, Sane, MemoryOK
<1>15. m \in {"ARRAY", "OBJECT", "KEY"} /\ Ends(e, m)
  BY <1>2, <1>4 DEF Ends
<1>16. /\ h.ok \in BOOLEAN /\ Whole(h)
       /\ h.ok => h.type = "none"
  <2>1. /\ h.ok \in BOOLEAN /\ (h.ok => Keeps(h, u, ByStack)) /\ (~h.ok => Keeps(h, u, ByOk))
    BY <1>5, <1>14, <1>15, PopMode
  <2> QED BY <1>13, <2>1 DEF Keeps, Fields, ByStack
<1>17. h.ok => Keeps(J, h, ByTypeState) /\ J.type = "none" /\ J.state = "OK"
  BY <1>6, <1>16 DEF Whole, Keeps, Fields, ByTypeState
<1>18. ~h.ok => Keeps(J, h, ByFail) /\ ~J.ok /\ J.ok \in BOOLEAN
  BY <1>6, <1>16, KeepsItself
<1>19. s = Told(s, left.events) /\ Short(left.events) /\ TellsOne(Doc(k.stack, s), Doc(k.stack, s))
  BY <1>10, ToldNothing DEF Short, TellsOne
<1> QED BY <1>5, <1>7, <1>8, <1>9, <1>10, <1>11, <1>12, <1>15, <1>17, <1>18, <1>19, EndMode

\* The event and the mode of a bracket that closes, and the states it may come in.
Shuts(t, m, st) ==
  \/ t = "object end" /\ m = "OBJECT" /\ st \in {"OK"} \cup Ended
  \/ t = "array end" /\ m = "ARRAY" /\ st \in {"OK", "AR"} \cup Ended

\* Any other container.
LEMMA OnEndCompound ==
  ASSUME NEW k, NEW c, NEW s, NEW t, NEW m, Filled(k, c, s), Shuts(t, m, k.state),
         k.state \in {"OK", "AR"} => c \notin White,
         NEW J, J = EndCompound(k, t, m)
  PROVE  Outcome(k, s, J)
<1> DEFINE left == parse_parse_buffer(parse_buffer_pop_back_char(k))
           S == Told(s, left.events)
<1>1. PICK e : e = [type |-> t, text |-> <<>>]
  OBVIOUS
<1>2. PICK u : u = Callback(left, t, <<>>)
  OBVIOUS
<1>3. PICK h : h = pop(u, m)
  OBVIOUS
<1>4. J = IF ~h.ok THEN FailWith(h, "unbalanced") ELSE [h EXCEPT !.type = "none", !.state = "OK"]
  BY <1>2, <1>3, Zenon DEF EndCompound
<1>5. ShapeOK(k) /\ ~k.comment /\ k.comment \in BOOLEAN
      /\ (k.type # "none" => k.type \in Words /\ Last(k.stack) # "KEY")
      /\ (k.type = "none" => k.state \in {"OK", "AR"})
  BY WordStates, StatesAre DEF Filled, ShapeOK, TopOK, InComment, InString, Blanks, Words, Ended, Shuts
<1>6. Sync(k.stack, s) /\ StackOK(k.stack) /\ k.stack # <<>> /\ Sane(k) /\ Whole(k)
  BY FilledSync DEF StackOK, Alive
<1>7. k.buffer # <<>>
  BY <1>5, FilledHolds
<1>8. /\ Keeps(left, k, ByEmit) /\ left.buffer = <<>> /\ Short(left.events)
      /\ Sync(k.stack, S) /\ TellsOne(Doc(k.stack, s), Doc(k.stack, S))
      /\ \/ k.type = "none" /\ Settles(k.state, k.stack, S)
         \/ k.type # "none" /\ ~S.named /\ S.open # <<>> /\ Last(k.stack) \in {"ARRAY", "OBJECT"}
  BY <1>5, <1>7, Emitted
<1> HIDE DEF left
<1>9. /\ Whole(left) /\ Sane(left) /\ Alive(left) /\ MemoryOK(left)
      /\ left.escaped = k.escaped /\ left.comment = k.comment
      /\ left.before = k.before /\ left.stack = k.stack /\ Loud(left, k)
  BY <1>8, LeftIs
<1>10. S.named \in BOOLEAN
  BY <1>8 DEF Sync, ActionsOK
<1>11. PICK r : r = S
  OBVIOUS
<1> HIDE DEF S
<1>12. ~r.named
  <2>1. CASE k.type = "none" /\ Settles(k.state, k.stack, r)
    BY <2>1, <1>5 DEF Settles
  <2>2. CASE ~r.named
    BY <2>2
  <2> QED BY <2>1, <2>2, <1>8, <1>11
<1>13. Keeps(u, left, ByEvents) /\ u.events = Append(left.events, e)
  <2>0. e.type = t /\ e.text = <<>>
    BY <1>1
  <2>1. u = Callback(left, e.type, e.text)
    BY <1>2, <2>0, Zenon
  <2>4. e = [type |-> e.type, text |-> e.text]
    BY <1>1
  <2>2. Keeps(u, left, ByEvents) /\ u.events = Append(left.events, [type |-> e.type, text |-> e.text])
    BY <1>9, <2>1, CallbackKeeps
  <2> QED BY <2>2, <2>4, Zenon
<1>14. Whole(u) /\ u.stack = left.stack /\ u.depth = left.depth /\ u.capacity = left.capacity
       /\ u.ok = left.ok /\ u.broken = left.broken
  BY <1>13 DEF Keeps, Fields, ByEvents
<1>15. Alive(u) /\ MemoryOK(u)
  BY <1>9, <1>14 DEF Alive, Sane, MemoryOK
<1>16. m \in {"ARRAY", "OBJECT", "KEY"} /\ Ends(e, m)
  BY <1>1 DEF Ends, Shuts
<1>17. h.ok \in BOOLEAN /\ Whole(h)
  <2>1. /\ h.ok \in BOOLEAN /\ (h.ok => Keeps(h, u, ByStack)) /\ (~h.ok => Keeps(h, u, ByOk))
    BY <1>3, <1>15, <1>16, PopMode
  <2> QED BY <2>1 DEF Keeps
<1>18. h.ok => Keeps(J, h, ByTypeState) /\ J.type = "none" /\ J.state = "OK"
  BY <1>4, <1>17 DEF Whole, Keeps, Fields, ByTypeState
<1>19. ~h.ok => Keeps(J, h, ByFail) /\ ~J.ok /\ J.ok \in BOOLEAN
  BY <1>4, <1>17, Fails
<1>20. /\ Short(left.events) /\ r = Told(s, left.events)
       /\ Sync(k.stack, r) /\ TellsOne(Doc(k.stack, s), Doc(k.stack, r)) /\ left.buffer = <<>>
  BY <1>8, <1>11 DEF S
<1> QED BY <1>3, <1>5, <1>9, <1>12, <1>13, <1>16, <1>18, <1>19, <1>20, EndMode

------------------------------------------------------------------------------------
(* The beginning of a container.                                                  *)

\* The event, the mode and the state of a bracket that opens.
Opens(t, m, n) ==
  \/ t = "object begin" /\ m = "KEY" /\ n = "OB"
  \/ t = "array begin" /\ m = "ARRAY" /\ n = "AR"

\* A bracket that opens.
LEMMA OnBeginCompound ==
  ASSUME NEW k, NEW c, NEW s, NEW t, NEW m, NEW n, Filled(k, c, s), k.state \in {"GO", "VA", "AR"},
         c \notin White,
         Opens(t, m, n),
         NEW J, J = BeginCompound(k, t, m, n)
  PROVE  Outcome(k, s, J)
<1> DEFINE b == parse_buffer_pop_back_char(k)
<1>1. PICK e : e = [type |-> t, text |-> <<>>]
  OBVIOUS
<1>2. PICK u : u = Callback(b, t, <<>>)
  OBVIOUS
<1>3. PICK h : h = push(u, m)
  OBVIOUS
<1>4. J = IF h.ok THEN [Check(h, h.type = "none") EXCEPT !.state = n] ELSE h
  BY <1>2, <1>3, Zenon DEF BeginCompound, Then
<1>5. /\ ShapeOK(k) /\ ~k.comment /\ k.comment \in BOOLEAN /\ k.type = "none" /\ k.before \in Blanks
      /\ ~k.escaped /\ k.escaped \in BOOLEAN /\ k.events = <<>>
  BY DEF Filled, ShapeOK, InComment, Blanks
<1>6. Sync(k.stack, s) /\ Sane(k) /\ Whole(k) /\ k.ok = TRUE /\ MemoryOK(k) /\ k.broken = FALSE
  BY FilledSync DEF Alive, Sane
<1>7. k.buffer # <<>> /\ Len(k.buffer) = 1
  BY <1>5, FilledHolds
<1>8. Keeps(b, k, ByBuffer) /\ b.buffer = <<>>
  <2>1. Sequence(k.buffer)
    BY DEF Filled, BufferOK
  <2>2. Keeps(b, k, ByBuffer) /\ Sequence(b.buffer) /\ Len(b.buffer) = Len(k.buffer) - 1
    BY <1>6, <1>7, <2>1, PopChar
  <2> HIDE DEF b
  <2>3. Len(b.buffer) = 0
    BY <1>7, <2>2
  <2> QED BY <2>2, <2>3, SeqIs
<1> HIDE DEF b
<1>9. /\ Whole(b) /\ b.type = k.type /\ b.escaped = k.escaped /\ b.comment = k.comment
      /\ b.before = k.before
      /\ b.stack = k.stack /\ b.events = <<>> /\ Loud(b, k) /\ b.broken = FALSE /\ b.ok = TRUE
      /\ b.depth = k.depth /\ b.capacity = k.capacity
  BY <1>5, <1>6, <1>8 DEF Keeps, Fields, ByBuffer, Loud, ByTurn, Quiet
<1>10. Keeps(u, b, ByEvents) /\ u.events = <<e>>
  <2>0. e.type = t /\ e.text = <<>>
    BY <1>1
  <2>1. u = Callback(b, e.type, e.text)
    BY <1>2, <2>0, Zenon
  <2>4. e = [type |-> e.type, text |-> e.text]
    BY <1>1
  <2>2. Keeps(u, b, ByEvents) /\ u.events = Append(b.events, [type |-> e.type, text |-> e.text])
    BY <1>9, <2>1, CallbackKeeps
  <2>3. u.events = Append(<<>>, e)
    BY <1>9, <2>2, <2>4, Zenon
  <2> QED BY <2>2, <2>3, AppendOne, Zenon
<1>11. /\ Whole(u) /\ u.type = "none" /\ u.escaped = k.escaped /\ u.comment = k.comment
       /\ u.before = k.before
       /\ u.stack = k.stack /\ u.broken = FALSE /\ u.ok = TRUE /\ u.buffer = <<>>
       /\ u.depth = k.depth /\ u.capacity = k.capacity /\ Loud(u, b)
  BY <1>5, <1>8, <1>9, <1>10 DEF Keeps, Fields, ByEvents, Loud, ByTurn, Quiet
<1>12. Alive(u) /\ MemoryOK(u) /\ Loud(u, k)
  BY <1>6, <1>9, <1>11, KeepsTwice DEF Alive, Sane, MemoryOK, Loud
<1>13. Settles(k.state, k.stack, s)
  BY <1>5, FilledSettles
<1>14. Last(k.stack) # "KEY" /\ ValueMayCome(k.stack, s)
  BY <1>13 DEF Settles, ValueMayCome, Announced, Blanks
<1>15. Begins(e, m) /\ m \in {"ARRAY", "OBJECT", "KEY"}
  BY <1>1 DEF Begins, Opens
<1>16. PICK S : S = json_calback(s, e)
  OBVIOUS
<1>17. S = Told(s, u.events)
  BY <1>10, <1>16, ToldOne
<1>18. ActionsOK(S)
  BY <1>6, <1>14, <1>15, <1>16, BeginActions
<1>19. /\ h.ok \in BOOLEAN
       /\ h.ok => Keeps(h, u, ByStack) /\ h.stack = Pushed(k.stack, m) /\ MemoryOK(h)
       /\ ~h.ok => Keeps(h, u, ByFail)
  <2>1. /\ h.ok \in BOOLEAN
        /\ h.ok => Keeps(h, u, ByStack) /\ h.stack = Pushed(u.stack, m) /\ MemoryOK(h)
        /\ ~h.ok => Keeps(h, u, ByFail)
    <3>1. Last(u.stack) # "KEY"
      BY <1>11, <1>14
    <3> QED BY <1>3, <1>12, <1>15, <3>1, PushMode
  <2> QED BY <1>11, <2>1
<1>20. ByStack \subseteq ByTurn /\ ByFail \subseteq ByTurn /\ ByTurn \subseteq ByTurn
  BY DEF ByStack, ByFail, ByTurn, Quiet
<1>21. Loud(h, k)
  <2>1. Keeps(h, u, ByTurn)
    BY <1>19, <1>20 DEF Keeps
  <2> QED BY <1>12, <1>20, <2>1, KeepsTwice DEF Loud
<1>22. h.events = u.events /\ h.buffer = <<>>
  BY <1>11, <1>19 DEF Keeps, Fields, ByStack, ByFail
<1>23. CASE ~h.ok
  <2>1. J = h
    BY <1>4, <1>23
  <2>2. Sequence(J.buffer) /\ Len(J.buffer) < J.room
    BY <1>21, <1>22, <2>1, LoudRoom
  <2>3. S = Told(s, J.events)
    BY <1>17, <1>22, <2>1
  <2> QED BY <1>18, <1>19, <1>21, <1>23, <2>1, <2>2, <2>3, LoudOutcome
<1>24. CASE h.ok
  <2>1. Whole(h) /\ h.type = "none" /\ h.escaped = k.escaped /\ h.comment = k.comment
        /\ h.before = k.before /\ h.broken = FALSE
    BY <1>11, <1>19, <1>24 DEF Keeps, Fields, ByStack
  <2>2. Check(h, h.type = "none") = h
    BY <2>1, CheckHolds DEF Sane
  <2>3. J = [h EXCEPT !.state = n]
    BY <1>4, <1>24, <2>2
  <2>4. /\ Loud(J, h) /\ J.type = "none" /\ J.state = n /\ J.comment = k.comment /\ J.before = k.before
        /\ J.escaped = k.escaped /\ J.stack = h.stack /\ J.events = h.events /\ J.ok = h.ok
        /\ J.buffer = <<>> /\ J.depth = h.depth /\ J.capacity = h.capacity
    BY <1>22, <2>1, <2>3 DEF Whole, Keeps, Fields, Loud, ByTurn, Quiet
  <2>5. Loud(J, k)
    BY <1>20, <1>21, <2>4, KeepsTwice DEF Loud
  <2>6. PICK p : p = Pushed(k.stack, m)
    OBVIOUS
  <2>7. /\ Sync(p, S) /\ ~S.named /\ S.open # <<>> /\ Last(p) = m
        /\ e.type \in Document!Event /\ Document!Legal(Doc(k.stack, s), e.type)
        /\ Doc(p, S) = Document!Apply(Doc(k.stack, s), e.type)
    <3>1. Sync(k.stack, s) /\ ValueMayCome(k.stack, s) /\ Begins(e, m)
      BY <1>6, <1>14, <1>15
    <3> QED BY <3>1, <1>16, <2>6, BeginStory
  <2>8. J.stack = p
    BY <1>19, <1>24, <2>4, <2>6
  <2>9. Settles(n, p, S)
    <3>1. S.named \in BOOLEAN
      BY <1>18 DEF ActionsOK
    <3>2. n \in {"OB", "AR"} /\ (n = "OB" => m = "KEY") /\ (n = "AR" => m = "ARRAY")
      BY DEF Opens
    <3>3. CASE n = "OB"
      BY <2>7, <3>1, <3>2, <3>3 DEF Settles, Blanks
    <3>4. CASE n = "AR"
      BY <2>7, <3>1, <3>2, <3>4 DEF Settles, Blanks
    <3> QED BY <3>2, <3>3, <3>4
  <2>10. Tells(Doc(k.stack, s), Doc(p, S))
    BY <2>7 DEF Tells
  <2>11. Rests(J, n)
    BY <1>5, <2>4 DEF Rests
  <2>12. MemoryOK(J) /\ J.ok \in BOOLEAN
    BY <1>19, <1>24, <2>4 DEF MemoryOK
  <2>13. Sequence(J.buffer) /\ Len(J.buffer) < J.room
    BY <2>4, <2>5, LoudRoom
  <2>14. Sync(J.stack, S) /\ Settles(n, J.stack, S) /\ Tells(Doc(k.stack, s), Doc(J.stack, S))
         /\ S = Told(s, J.events)
    BY <1>17, <1>22, <2>4, <2>7, <2>8, <2>9, <2>10
  <2> QED BY <1>18, <2>5, <2>11, <2>12, <2>13, <2>14, LoudOutcome
<1> QED BY <1>19, <1>23, <1>24

------------------------------------------------------------------------------------
(* One character.                                                                 *)

\* Whatever the table says of the buffered character.
LEMMA TakeOutcome ==
  ASSUME NEW k, NEW c, NEW s, NEW unit, Filled(k, c, s), NEW J, J = Take(k, c, unit)
  PROVE  Outcome(k, s, J)
<1> DEFINE n == Next_state(k, c)
<1>1. k.state \in States
  BY DEF Filled, ShapeOK
<1>2. n = Cell(k.state, c)
  BY Zenon DEF Next_state, Cell, Pick
<1>3. Causes(k.state, c, n)
  BY <1>1, <1>2, CauseOfCell
<1> DEFINE moved == [k EXCEPT !.state = n]
<1>4. J = CASE n \in States -> moved
            [] n = "UC" -> ReadUnicode(k, unit)
            [] n = "EX" -> BeginEscape(k)
            [] n = "MX" -> BeginNumber(k, "MI")
            [] n = "ZX" -> BeginNumber(k, "ZE")
            [] n = "IX" -> BeginNumber(k, "IT")
            [] n = "DE" -> BecomeFloat(k, "E1", "")
            [] n = "DF" -> BecomeFloat(k, "FX", ".")
            [] n = "SB" -> BeginScalar(parse_buffer_clear(k), "string", "ST")
            [] n = "NU" -> BeginScalar(k, "null", "N1")
            [] n = "FA" -> BeginScalar(k, "false", "F1")
            [] n = "TR" -> BeginScalar(k, "true", "T1")
            [] n = "CE" -> EndComment(k)
            [] n = "CB" -> BeginComment(k)
            [] n = "-9" -> EndEmptyObject(k)
            [] n = "-8" -> EndCompound(k, "object end", "OBJECT")
            [] n = "-7" -> EndCompound(k, "array end", "ARRAY")
            [] n = "-6" -> BeginCompound(k, "object begin", "KEY", "OB")
            [] n = "-5" -> BeginCompound(k, "array begin", "ARRAY", "AR")
            [] n = "-4" -> EndString(k)
            [] n = "-3" -> Comma(k)
            [] n = "-2" -> Colon(k)
            [] OTHER -> Fail(set_error(k, c))
  BY Zenon DEF Take
<1> HIDE DEF n, moved
<1> DEFINE st == k.state
<1>5. CASE n \in States
  <2>1. n \notin {"UC", "EX", "MX", "ZX", "IX", "DE", "DF", "SB", "NU", "FA", "TR", "CE", "CB",
                  "-9", "-8", "-7", "-6", "-5", "-4", "-3", "-2"}
    BY <1>5, StatesAre
  <2>2. Moves(k.state, c, n)
    BY <1>3, <1>5, <2>1, Z3 DEF Causes
  <2>3. J = moved
    BY <1>4, <1>5, <2>1
  <2>4. J = [k EXCEPT !.state = n]
    BY <2>3 DEF moved
  <2> QED BY <1>5, <2>2, <2>4, OnMove
<1>6. ASSUME n \notin States PROVE Outcome(k, s, J)
  <2>1. CASE n = "UC"
    <3>1. k.state = "U4" /\ J = ReadUnicode(k, unit)
      BY <1>3, <1>4, <1>6, <2>1 DEF Causes
    <3> QED BY <3>1, OnUnicode
  <2>2. CASE n = "EX"
    <3>1. k.state = "ST" /\ J = BeginEscape(k)
      BY <1>3, <1>4, <1>6, <2>2 DEF Causes
    <3> QED BY <3>1, OnEscape
  <2>3. CASE n \in {"MX", "ZX", "IX"}
    <3>1. k.state \in {"VA", "AR"}
      BY <1>3, <1>6, <2>3 DEF Causes
    <3>2. \E x \in {"MI", "ZE", "IT"} : J = BeginNumber(k, x)
      BY <1>4, <1>6, <2>3
    <3> QED BY <3>1, <3>2, OnNumber
  <2>4. CASE n \in {"DE", "DF"}
    <3>1. k.state \in {"ZE", "IT"} /\ (n = "DF" => c = ".")
      BY <1>3, <1>6, <2>4 DEF Causes
    <3>2. \E x \in {"E1", "FX"}, mark \in {"", "."} : J = BecomeFloat(k, x, mark) /\ Marks(mark, c)
      BY <1>4, <1>6, <2>4, <3>1 DEF Marks
    <3> QED BY <3>1, <3>2, OnFloat
  <2>5. CASE n = "SB"
    <3>1. k.state \in {"OB", "KE", "VA", "AR"} /\ J = BeginScalar(parse_buffer_clear(k), "string", "ST")
      BY <1>3, <1>4, <1>6, <2>5 DEF Causes
    <3> QED BY <3>1, OnString
  <2>6. CASE n \in {"NU", "FA", "TR"}
    <3>1. k.state \in {"VA", "AR"}
      BY <1>3, <1>6, <2>6 DEF Causes
    <3>2. \E x \in {"null", "false", "true"}, y \in {"N1", "F1", "T1"} : J = BeginScalar(k, x, y)
      BY <1>4, <1>6, <2>6
    <3> QED BY <3>1, <3>2, OnWord
  <2>7. CASE n = "CE"
    <3>1. k.state = "C3" /\ J = EndComment(k)
      BY <1>3, <1>4, <1>6, <2>7 DEF Causes
    <3> QED BY <3>1, OnEndComment
  <2>8. CASE n = "CB"
    <3>1. k.state \in Blanks \cup InWord /\ (k.state \in Blanks => c \notin White) /\ J = BeginComment(k)
      BY <1>3, <1>4, <1>6, <2>8 DEF Causes
    <3> QED BY <3>1, OnComment
  <2>9. CASE n = "-9"
    <3>1. k.state = "OB" /\ J = EndEmptyObject(k)
      BY <1>3, <1>4, <1>6, <2>9 DEF Causes
    <3> QED BY <3>1, OnEndEmptyObject
  <2>10. CASE n \in {"-8", "-7"}
    <3>1. \E t, m : J = EndCompound(k, t, m) /\ Shuts(t, m, k.state)
      BY <1>3, <1>4, <1>6, <2>10 DEF Causes, Shuts
    <3>2. k.state \in {"OK", "AR"} => c \notin White
      BY <1>3, <1>6, <2>10 DEF Causes, Ended
    <3> QED BY <3>1, <3>2, OnEndCompound
  <2>11. CASE n \in {"-6", "-5"}
    <3>1. \E t, m, x : J = BeginCompound(k, t, m, x) /\ Opens(t, m, x)
      BY <1>4, <1>6, <2>11 DEF Opens
    <3>2. k.state \in {"GO", "VA", "AR"} /\ c \notin White
      BY <1>3, <1>6, <2>11 DEF Causes
    <3> QED BY <3>1, <3>2, OnBeginCompound
  <2>12. CASE n = "-4"
    <3>1. k.state = "ST" /\ J = EndString(k)
      BY <1>3, <1>4, <1>6, <2>12 DEF Causes
    <3> QED BY <3>1, OnEndString
  <2>13. CASE n = "-3"
    <3>1. k.state \in {"OK"} \cup Ended /\ (k.state = "OK" => c \notin White) /\ J = Comma(k)
      BY <1>3, <1>4, <1>6, <2>13 DEF Causes
    <3> QED BY <3>1, OnComma
  <2>14. CASE n = "-2"
    <3>1. k.state = "CO" /\ c \notin White /\ J = Colon(k)
      BY <1>3, <1>4, <1>6, <2>14 DEF Causes
    <3> QED BY <3>1, OnColon
  <2>15. CASE n \notin {"UC", "EX", "MX", "ZX", "IX", "DE", "DF", "SB", "NU", "FA", "TR", "CE", "CB",
                        "-9", "-8", "-7", "-6", "-5", "-4", "-3", "-2"}
    <3>1. J = Fail(set_error(k, c))
      BY <1>4, <1>6, <2>15
    <3> QED BY <3>1, OnError
  <2> QED BY <2>1, <2>2, <2>3, <2>4, <2>5, <2>6, <2>7, <2>8, <2>9, <2>10, <2>11, <2>12, <2>13,
     <2>14, <2>15
<1> QED BY <1>5, <1>6

\* Buffering the character leads to where the table is looked at, or fails.
LEMMA FilledByChar ==
  ASSUME NEW j, NEW c, NEW s, Good(j, s), j.events = <<>>, NEW k, k = add_char_to_parse_buffer(j, c)
  PROVE  /\ Keeps(k, j, ByAdd) /\ BufferOK(k) /\ k.ok \in BOOLEAN
         /\ k.ok => Filled(k, c, s)
<1>1. /\ Alive(j) /\ BufferOK(j) /\ j.comments \in BOOLEAN /\ MemoryOK(j) /\ ShapeOK(j)
      /\ HeldOK(j) /\ TopOK(j)
      /\ ActionsOK(s) /\ Together(j, s)
  BY DEF Good
<1>2. Sequence(j.buffer) /\ Len(j.buffer) \in Nat /\ (j.buffer = <<>> <=> Len(j.buffer) = 0)
  BY <1>1, SeqIs DEF BufferOK
<1>3. j.escaped \in BOOLEAN /\ j.comment \in BOOLEAN /\ (j.escaped => j.buffer # <<>>)
      /\ (j.escaped <=> j.state = "ES")
      /\ Len(j.buffer) >= Least(j.state) /\ (j.type = "none" => j.buffer = <<>>)
  <2>1. j.state = "ES" => Least(j.state) = 1
    BY DEF Least
  <2>2. j.state = "ES" => Len(j.buffer) # 0
    BY <1>1, <1>2, <2>1 DEF HeldOK
  <2> QED BY <1>1, <1>2, <2>2 DEF HeldOK, ShapeOK
<1>4. /\ Keeps(k, j, ByAdd)
      /\ BufferOK(k) /\ k.ok \in BOOLEAN
      /\ k.ok => /\ ~k.escaped /\ k.escaped \in BOOLEAN
                 /\ j.escaped => /\ Len(k.buffer) >= Len(j.buffer)
                                 /\ c = "u" => Len(k.buffer) >= Len(j.buffer) + 1
                 /\ ~j.escaped /\ ~j.comment /\ (j.type # "none" \/ c \notin White) =>
                      /\ Len(k.buffer) = Len(j.buffer) + 1 /\ Last(k.buffer) = Kept(c)
                      /\ k.buffer # <<>>
                 /\ ~j.escaped /\ (j.comment \/ (j.type = "none" /\ c \in White)) => k.buffer = j.buffer
  BY <1>1, <1>3, AddChar
<1>5. /\ Whole(k) /\ k.state = j.state /\ k.before = j.before /\ k.type = j.type /\ k.comment = j.comment
      /\ k.comments = j.comments /\ k.stack = j.stack /\ k.depth = j.depth /\ k.capacity = j.capacity
      /\ k.events = j.events /\ k.broken = j.broken
  BY <1>4 DEF Keeps, Fields, ByAdd
<1>6. ASSUME k.ok PROVE Filled(k, c, s)
  <2>1. Alive(k)
    BY <1>1, <1>4, <1>5, <1>6 DEF Alive, Sane
  <2>2. MemoryOK(k) /\ ShapeOK(k)
    BY <1>1, <1>5 DEF MemoryOK, ShapeOK
  <2>3. TopOK(k) /\ Together(k, s)
    <3>1. Entry(k) = Entry(j)
      BY <1>5 DEF Entry
    <3> QED BY <1>1, <1>5, <3>1 DEF TopOK, Together
  <2>4. Sequence(k.buffer) /\ Len(k.buffer) \in Nat /\ (k.buffer = <<>> <=> Len(k.buffer) = 0)
    BY <1>4, SeqIs DEF BufferOK
  <2>5. (j.escaped => j.type = "string") /\ (j.comment => j.type = "none") /\ (j.escaped => ~j.comment)
    BY <1>1, <1>3 DEF ShapeOK, InString, InComment
  <2>6. k.type = "none" => IF k.comment \/ c \in White THEN k.buffer = <<>>
                           ELSE Len(k.buffer) = 1 /\ k.buffer # <<>>
    <3> SUFFICES ASSUME j.type = "none"
                 PROVE  IF j.comment \/ c \in White THEN k.buffer = <<>>
                        ELSE Len(k.buffer) = 1 /\ k.buffer # <<>>
      BY <1>5
    <3>1. ~j.escaped /\ j.buffer = <<>>
      BY <1>3, <2>5
    <3>2. CASE j.comment \/ c \in White
      BY <1>4, <1>6, <3>1, <3>2
    <3>3. CASE ~(j.comment \/ c \in White)
      <4>1. Len(k.buffer) = Len(j.buffer) + 1
        BY <1>4, <1>6, <3>1, <3>3
      <4>2. Len(j.buffer) = 0
        BY <1>2, <3>1
      <4>3. Len(k.buffer) = 1
        BY <4>1, <4>2
      <4> QED BY <2>4, <3>3, <4>3
    <3> QED BY <3>2, <3>3
  <2>7. k.type # "none" /\ k.state # "ES" => Last(k.buffer) = Kept(c) /\ Len(k.buffer) >= Least(k.state) + 1
    <3> SUFFICES ASSUME j.type # "none", j.state # "ES"
                 PROVE  Last(k.buffer) = Kept(c) /\ Len(k.buffer) >= Least(j.state) + 1
      BY <1>5
    <3>1. Len(k.buffer) = Len(j.buffer) + 1 /\ Last(k.buffer) = Kept(c)
      BY <1>3, <1>4, <1>6, <2>5
    <3>2. Least(j.state) \in Nat
      BY DEF Least
    <3>3. Len(j.buffer) >= Least(j.state)
      BY <1>3
    <3> HIDE <1>3
    <3>4. Len(k.buffer) >= Least(j.state) + 1
      BY <1>2, <3>1, <3>2, <3>3
    <3> QED BY <3>1, <3>4
  <2>8. k.state = "ES" => Len(k.buffer) >= 1 /\ (c = "u" => Len(k.buffer) >= 2)
    <3> SUFFICES ASSUME j.state = "ES" PROVE Len(k.buffer) >= 1 /\ (c = "u" => Len(k.buffer) >= 2)
      BY <1>5
    <3>1. j.escaped /\ Len(j.buffer) >= 1
      BY <1>2, <1>3
    <3> QED BY <1>2, <1>4, <1>6, <2>4, <3>1
  <2>9. k.type # "none" => k.buffer # <<>>
    <3> SUFFICES ASSUME j.type # "none" PROVE k.buffer # <<>>
      BY <1>5
    <3>1. CASE j.state = "ES"
      BY <1>5, <2>4, <2>8, <3>1
    <3>2. CASE j.state # "ES"
      BY <1>3, <1>4, <1>6, <2>5, <3>2
    <3> QED BY <3>1, <3>2
  <2> QED BY <1>1, <1>4, <1>5, <1>6, <2>1, <2>2, <2>3, <2>6, <2>7, <2>8, <2>9 DEF Filled
<1> QED BY <1>4, <1>6

------------------------------------------------------------------------------------
(* The interface: a new parser, a character, the end of the text.                 *)

\* Returning false without anything else.
LEMMA FailedOutcome ==
  ASSUME NEW j, NEW s, Whole(j), BufferOK(j), j.broken = FALSE, j.events = <<>>, ActionsOK(s),
         NEW r, Keeps(r, j, ByFail), r.ok = FALSE
  PROVE  Outcome(j, s, r)
<1>1. Whole(r) /\ r.events = <<>> /\ r.broken = FALSE /\ r.buffer = j.buffer /\ r.room = j.room
  BY DEF Keeps, Fields, ByFail
<1>2. Told(s, r.events) = s
  BY <1>1, ToldNothing
<1>3. Safe(r, s)
  BY <1>1 DEF Safe, ActionsOK, BufferOK
<1> QED BY <1>1, <1>2, <1>3 DEF Outcome

\* JSON_parser_char brings about what a character must, whatever the character.
LEMMA CharOutcome ==
  ASSUME NEW j, NEW c, NEW s, NEW unit, Good(j, s), j.events = <<>>,
         NEW r, r = JSON_parser_char(j, c, unit)
  PROVE  Outcome(j, s, r)
<1>1. Whole(j) /\ BufferOK(j) /\ j.broken = FALSE /\ ActionsOK(s)
  BY DEF Good, Alive, Sane
<1> DEFINE fresh == [j EXCEPT !.events = <<>>]
<1>2. fresh = j
  BY <1>1 DEF Whole, Fields
<1> HIDE DEF fresh
<1>3. CASE c = "negative"
  <2>1. r = FailWith(j, "invalid char")
    BY <1>2, <1>3 DEF JSON_parser_char, fresh
  <2> QED BY <1>1, <2>1, Fails, FailedOutcome
<1>4. CASE c = "bad"
  <2>1. r = Fail(set_error(j, c))
    BY <1>2, <1>4 DEF JSON_parser_char, fresh
  <2> PICK e : set_error(j, c) = [j EXCEPT !.error = e]
    BY DEF set_error
  <2>2. Keeps(r, j, ByFail) /\ r.ok = FALSE
    BY <1>1, <2>1 DEF Fail, Whole, Keeps, Fields, ByFail
  <2> QED BY <1>1, <2>2, FailedOutcome
<1>5. CASE c \notin {"negative", "bad"}
  <2> DEFINE k == add_char_to_parse_buffer(j, c)
  <2>1. r = IF k.ok THEN Take(k, c, unit) ELSE k
    BY <1>2, <1>5 DEF JSON_parser_char, fresh, Then
  <2> HIDE DEF k
  <2>2. /\ Keeps(k, j, ByAdd) /\ BufferOK(k) /\ k.ok \in BOOLEAN
        /\ k.ok => Filled(k, c, s)
    BY FilledByChar DEF k
  <2>3. Whole(k) /\ k.events = <<>> /\ k.broken = FALSE /\ k.stack = j.stack
    BY <1>1, <2>2 DEF Keeps, Fields, ByAdd
  <2>4. CASE ~k.ok
    <3>1. Keeps(r, k, ByFail)
      BY <2>1, <2>3, <2>4, KeepsItself
    <3>2. Outcome(k, s, r)
      BY <1>1, <2>1, <2>2, <2>3, <2>4, <3>1, FailedOutcome
    <3> QED BY <2>3, <3>2 DEF Outcome
  <2>5. CASE k.ok
    <3>1. Outcome(k, s, r)
      BY <2>1, <2>2, <2>5, TakeOutcome
    <3> QED BY <2>3, <3>1 DEF Outcome
  <2> QED BY <2>4, <2>5
<1> QED BY <1>3, <1>4, <1>5

\* new_JSON_parser: the object is good, and no document has begun.
LEMMA NewParser ==
  ASSUME NEW config \in Configs, NEW j, j = new_JSON_parser(config)
  PROVE  /\ Good(j, NewActions) /\ j.events = <<>> /\ Doc(j.stack, NewActions) = Document!Blank
<1>1. config.depth \in 0..(StackSize - 1) /\ StackSize > 1 /\ config.comments \in BOOLEAN
      /\ config.memory \in Nat
      /\ StackSize \in Nat
  BY ConfigsAssumption, ParserAssumption
<1> DEFINE depth == IF config.depth = 0 THEN 1 ELSE config.depth
           cap == IF depth > 0 THEN depth ELSE StackSize
           dep == IF depth > 0 THEN depth ELSE -1
           blank == [state |-> "GO", before |-> "GO", type |-> "none", escaped |-> FALSE,
                comment |-> FALSE, comments |-> config.comments, surrogate |-> FALSE,
                error |-> "none", stack |-> <<>>,
                depth |-> dep,
                capacity |-> cap,
                buffer |-> <<>>, room |-> BufferSize, memory |-> config.memory,
                events |-> <<>>, ok |-> TRUE, broken |-> FALSE]
<1>2. j = push(blank, "DONE")
  BY Zenon DEF new_JSON_parser
<1>3. dep \in 1..(StackSize - 1) /\ cap = dep
  BY <1>1
<1> HIDE DEF dep, cap, depth
<1>4. /\ blank.stack = <<>> /\ blank.depth = dep /\ blank.capacity = dep /\ blank.broken = FALSE
      /\ Whole(blank)
  BY <1>3 DEF Whole, Fields
<1>5. /\ blank.state = "GO" /\ blank.before = "GO" /\ blank.type = "none" /\ blank.escaped = FALSE
      /\ blank.comment = FALSE /\ blank.comments \in BOOLEAN
      /\ blank.buffer = <<>> /\ blank.room = BufferSize /\ blank.memory \in Nat
      /\ blank.events = <<>> /\ blank.ok = TRUE
  BY <1>1
<1> HIDE DEF blank
<1>6. Slots(blank) = StackSize /\ StackSize \in Nat \ {0}
  BY <1>1, <1>3, <1>4 DEF Slots
<1> DEFINE fits == Len(blank.stack) - 1 <= blank.capacity /\ Len(blank.stack) < Slots(blank)
<1>7. fits /\ Len(blank.stack) = 0
  BY <1>3, <1>4, <1>6
<1> HIDE DEF fits
<1>8. j = [Check(blank, fits) EXCEPT !.stack = Append(@, "DONE")]
  <2>1. ~(blank.depth < 0) /\ blank.depth >= 0 /\ Len(blank.stack) - 1 # blank.depth
    BY <1>3, <1>4, <1>7
  <2> QED BY <1>2, <2>1 DEF push, fits
<1>9. Check(blank, fits) = blank
  BY <1>4, <1>7, CheckHolds DEF Sane
<1>10. j = [blank EXCEPT !.stack = <<"DONE">>]
  BY <1>4, <1>8, <1>9
<1>11. Keeps(j, blank, ByStack) /\ j.stack = <<"DONE">>
  BY <1>4, <1>10 DEF Whole, Keeps, Fields, ByStack
<1>12. /\ j.depth = dep /\ j.capacity = dep /\ j.broken = FALSE
       /\ j.state = "GO" /\ j.before = "GO" /\ j.type = "none" /\ j.escaped = FALSE
       /\ j.comment = FALSE /\ j.comments \in BOOLEAN
       /\ j.buffer = <<>> /\ j.room = BufferSize /\ j.memory \in Nat
       /\ j.events = <<>> /\ j.ok = TRUE /\ Whole(j)
  BY <1>4, <1>5, <1>11 DEF Keeps, Fields, ByStack
<1>13. StackOK(j.stack) /\ Len(j.stack) = 1 /\ Last(j.stack) = "DONE"
  BY <1>11 DEF StackOK, Modes, Last
<1>14. BufferOK(j) /\ Alive(j)
  BY <1>12, ParserAssumption, SeqEmpty DEF BufferOK, Alive, Sane
<1>15. MemoryOK(j)
  BY <1>3, <1>12, <1>13 DEF MemoryOK
<1>16. ShapeOK(j)
  BY <1>12, StatesAre, WordStates DEF ShapeOK, Blanks, InComment, InString
<1>17. HeldOK(j)
  <2>1. Least(j.state) = 0 /\ Len(j.buffer) = 0
    BY <1>12 DEF Least
  <2>2. j.escaped \in BOOLEAN /\ (j.escaped <=> j.state = "ES") /\ j.buffer = <<>>
    BY <1>12
  <2>3. Len(j.buffer) >= Least(j.state)
    BY <2>1
  <2> QED BY <2>2, <2>3 DEF HeldOK
<1>18. Entry(j) = "GO"
  BY <1>12 DEF Entry
<1>19. TopOK(j)
  BY <1>12, <1>13, <1>18 DEF TopOK, Words
<1>20. NewActions.open = <<>> /\ NewActions.named = FALSE /\ ActionsOK(NewActions)
  BY SeqEmpty DEF NewActions, ActionsOK
<1>21. Together(j, NewActions)
  <2>1. Follows(NewActions.open, j.stack)
    BY <1>13, <1>20, SeqEmpty DEF Follows
  <2> QED BY <1>12, <1>13, <1>18, <1>20, <2>1 DEF Together
<1>22. Doc(j.stack, NewActions) = Document!Blank
  <2>1. PathOf(j.stack) = <<>>
    <3>1. SubSeq(j.stack, 2, Len(j.stack)) = <<>>
      BY <1>11, <1>13
    <3> QED BY <3>1 DEF PathOf, Kinds
  <2> QED BY <1>20, <2>1 DEF Doc, Document!Blank
<1> QED BY <1>12, <1>14, <1>15, <1>16, <1>17, <1>19, <1>20, <1>21, <1>22 DEF Good

\* JSON_parser_done: a text is accepted only when DONE is all that is on the stack.
LEMMA DoneOutcome ==
  ASSUME NEW j, NEW s, Good(j, s), NEW r, r = JSON_parser_done(j)
  PROVE  /\ Safe(r, s) /\ r.ok \in BOOLEAN /\ Whole(r)
         /\ r.ok => r.stack = <<>> /\ j.stack = <<"DONE">>
<1>1. Whole(j) /\ BufferOK(j) /\ j.broken = FALSE /\ ActionsOK(s) /\ j.ok = TRUE /\ StackOK(j.stack)
  BY DEF Good, Alive, Sane, MemoryOK
<1> DEFINE end == IF j.state \in {"OK", "GO"} THEN pop(j, "DONE") ELSE Fail(j)
<1>2. r = IF end.ok THEN end ELSE FailWith(end, "unbalanced")
  BY DEF JSON_parser_done
<1> HIDE DEF end
<1>3. CASE end = Fail(j)
  <2>1. Keeps(end, j, ByFail) /\ end.ok = FALSE
    BY <1>1, <1>3, Fails DEF Keeps, ByOk, ByFail
  <2>2. Whole(end)
    BY <2>1 DEF Keeps
  <2>3. r = FailWith(end, "unbalanced")
    BY <1>2, <2>1
  <2>4. Keeps(r, end, ByFail) /\ r.ok = FALSE
    BY <2>2, <2>3, Fails
  <2>5. r.broken = FALSE /\ r.buffer = j.buffer /\ r.room = j.room /\ Whole(r)
    BY <1>1, <2>1, <2>4 DEF Keeps, Fields, ByFail
  <2> QED BY <1>1, <2>4, <2>5 DEF Safe, ActionsOK, BufferOK
<1>4. CASE end # Fail(j)
  <2>1. Last(j.stack) = "DONE" /\ end = [j EXCEPT !.stack = Front(@)]
    BY <1>4 DEF end, pop
  <2>2. Keeps(end, j, ByStack) /\ end.stack = Front(j.stack)
    BY <1>1, <2>1 DEF Whole, Keeps, Fields, ByStack
  <2>3. end.ok = TRUE /\ end.broken = FALSE /\ end.buffer = j.buffer /\ end.room = j.room /\ Whole(end)
    BY <1>1, <2>2 DEF Keeps, Fields, ByStack
  <2>4. r = end
    BY <1>2, <2>3
  <2>5. Len(j.stack) \in Nat \ {0} /\ Last(j.stack) = j.stack[Len(j.stack)] /\ j.stack \in Seq(Modes)
        /\ j.stack[1] = "DONE"
    BY <1>1, StackIs DEF StackOK, Last
  <2>6. Len(j.stack) = 1
    <3>1. \A i \in 2..Len(j.stack) : j.stack[i] # "DONE"
      BY <1>1 DEF StackOK
    <3>2. j.stack[Len(j.stack)] = "DONE"
      BY <2>1, <2>5
    <3> DEFINE n == Len(j.stack)
    <3>3. n \notin 2..n
      BY <3>1, <3>2
    <3>4. n \in Nat \ {0}
      BY <2>5
    <3> HIDE DEF n
    <3>5. n = 1
      BY <3>3, <3>4
    <3> QED BY <3>5 DEF n
  <2>7. j.stack = <<"DONE">>
    BY <2>5, <2>6
  <2>8. Front(j.stack) = <<>>
    BY <2>7 DEF Front
  <2> QED BY <1>1, <2>2, <2>3, <2>4, <2>7, <2>8 DEF Safe, ActionsOK, BufferOK
<1> QED BY <1>3, <1>4

------------------------------------------------------------------------------------
(* The theorems.                                                                  *)

\* The calls are made: they are forgotten.
LEMMA Cleared ==
  ASSUME NEW J, NEW s, Whole(J), NEW j, j = [J EXCEPT !.events = <<>>]
  PROVE  /\ Whole(j) /\ j.events = <<>> /\ j.stack = J.stack /\ j.ok = J.ok
         /\ Safe(J, s) => Safe(j, s)
         /\ Good(J, s) => Good(j, s)
<1>1. Keeps(j, J, ByEvents) /\ j.events = <<>>
  BY DEF Whole, Keeps, Fields, ByEvents
<1>2. /\ Whole(j) /\ j.state = J.state /\ j.before = J.before /\ j.type = J.type /\ j.escaped = J.escaped
      /\ j.comment = J.comment /\ j.comments = J.comments /\ j.stack = J.stack /\ j.depth = J.depth
      /\ j.capacity = J.capacity /\ j.buffer = J.buffer /\ j.room = J.room /\ j.memory = J.memory
      /\ j.ok = J.ok /\ j.broken = J.broken
  BY <1>1 DEF Keeps, Fields, ByEvents
<1>3. Safe(J, s) => Safe(j, s)
  BY <1>2 DEF Safe
<1>4. ASSUME Good(J, s) PROVE Good(j, s)
  <2>1. Alive(j) /\ BufferOK(j) /\ j.comments \in BOOLEAN /\ MemoryOK(j)
    BY <1>2, <1>4 DEF Good, Alive, Sane, BufferOK, MemoryOK
  <2>2. ShapeOK(j)
    BY <1>2, <1>4 DEF Good, ShapeOK
  <2>3. HeldOK(j)
    BY <1>2, <1>4 DEF Good, HeldOK
  <2>4. Entry(j) = Entry(J)
    BY <1>2 DEF Entry
  <2>5. TopOK(j)
    BY <1>2, <1>4, <2>4 DEF Good, TopOK
  <2>6. Together(j, s)
    BY <1>2, <1>4, <2>4 DEF Good, Together
  <2> QED BY <1>4, <2>1, <2>2, <2>3, <2>5, <2>6 DEF Good
<1> QED BY <1>1, <1>2, <1>3, <1>4

\* The document that the parser and the reader hold.
Shown == IF result = "rejected" THEN Document!Blank ELSE Doc(jc.stack, sa)

\* The program starts with a new parser and a reader that has nothing.
THEOREM InitIInv == Init => IInv /\ Shown = Document!Blank
<1> SUFFICES ASSUME Init PROVE IInv /\ Shown = Document!Blank
  OBVIOUS
<1>1. PICK config \in Configs : jc = new_JSON_parser(config)
  BY DEF Init
<1>2. sa = NewActions /\ result = "reading"
  BY DEF Init
<1>3. Good(jc, sa) /\ jc.events = <<>> /\ Doc(jc.stack, sa) = Document!Blank
  BY <1>1, <1>2, NewParser
<1>4. Safe(jc, sa)
  BY <1>3 DEF Good, Safe, Alive, Sane, BufferOK, ActionsOK
<1> QED BY <1>2, <1>3, <1>4 DEF IInv, Shown

\* A character keeps the invariant and tells the document what it must.
LEMMA ReadCharStep ==
  ASSUME IInv, NEW c, NEW unit, ReadChar(c, unit)
  PROVE  /\ IInv'
         /\ result = "reading"
         /\ \/ result' = "reading" /\ Tells(Shown, Shown')
            \/ result' = "rejected" /\ Shown' = Document!Blank
<1>1. result = "reading" /\ Good(jc, sa) /\ jc.events = <<>>
  BY DEF ReadChar, IInv
<1> DEFINE J == JSON_parser_char(jc, c, unit)
           r == Feed([jc |-> jc, sa |-> sa], c, unit)
<1>2. r.jc = [J EXCEPT !.events = <<>>] /\ r.sa = Told(sa, J.events)
  BY DEF Feed, Told
<1>3. jc' = r.jc /\ sa' = r.sa /\ result' = IF r.jc.ok THEN "reading" ELSE "rejected"
  BY DEF ReadChar
<1> HIDE DEF r
<1>4. Outcome(jc, sa, J)
  BY <1>1, CharOutcome
<1> HIDE DEF J
<1>5. Whole(J) /\ J.ok \in BOOLEAN /\ Safe(J, sa')
  BY <1>2, <1>3, <1>4 DEF Outcome
<1>6. jc' = [J EXCEPT !.events = <<>>] /\ result' = IF jc'.ok THEN "reading" ELSE "rejected"
  BY <1>2, <1>3
<1>7. jc'.events = <<>> /\ jc'.stack = J.stack /\ jc'.ok = J.ok /\ Safe(jc', sa')
  BY <1>5, <1>6, Cleared
<1>8. CASE J.ok
  <2>1. Good(J, sa') /\ Tells(Doc(jc.stack, sa), Doc(J.stack, sa'))
    BY <1>2, <1>3, <1>4, <1>8 DEF Outcome
  <2>2. Good(jc', sa')
    BY <1>5, <1>6, <2>1, Cleared
  <2>3. result' = "reading"
    BY <1>6, <1>7, <1>8
  <2>4. IInv'
    BY <1>7, <2>2, <2>3 DEF IInv
  <2>5. Shown = Doc(jc.stack, sa) /\ Shown' = Doc(J.stack, sa')
    BY <1>1, <1>7, <2>3 DEF Shown, Doc
  <2> QED BY <1>1, <2>1, <2>3, <2>4, <2>5
<1>9. CASE ~J.ok
  <2>1. result' = "rejected"
    BY <1>6, <1>7, <1>9
  <2>2. IInv'
    BY <1>7, <2>1 DEF IInv
  <2>3. Shown' = Document!Blank
    BY <2>1 DEF Shown, Document!Blank
  <2> QED BY <1>1, <2>1, <2>2, <2>3
<1> QED BY <1>5, <1>8, <1>9

\* So does the end of the text, which is accepted only when every container has ended.
LEMMA EndOfTextStep ==
  ASSUME IInv, EndOfText
  PROVE  /\ IInv'
         /\ result = "reading"
         /\ \/ result' = "accepted" /\ Shown.path = <<>> /\ Shown' = Shown
            \/ result' = "rejected" /\ Shown' = Document!Blank
<1>1. result = "reading" /\ Good(jc, sa)
  BY DEF EndOfText, IInv
<1>2. jc' = JSON_parser_done(jc) /\ sa' = sa /\ result' = IF jc'.ok THEN "accepted" ELSE "rejected"
  BY DEF EndOfText
<1>3. /\ Safe(jc', sa) /\ jc'.ok \in BOOLEAN
      /\ jc'.ok => jc'.stack = <<>> /\ jc.stack = <<"DONE">>
  BY <1>1, <1>2, DoneOutcome
<1>4. CASE jc'.ok
  <2>1. result' = "accepted" /\ jc'.stack = <<>> /\ jc.stack = <<"DONE">>
    BY <1>2, <1>3, <1>4
  <2>2. IInv'
    BY <1>2, <1>3, <2>1 DEF IInv
  <2>3. PathOf(<<>>) = <<>> /\ PathOf(<<"DONE">>) = <<>>
    <3>1. SubSeq(<<>>, 2, Len(<<>>)) = <<>> /\ SubSeq(<<"DONE">>, 2, Len(<<"DONE">>)) = <<>>
      OBVIOUS
    <3> QED BY <3>1 DEF PathOf, Kinds
  <2>4. PathOf(jc.stack) = <<>> /\ PathOf(jc'.stack) = <<>>
    BY <2>1, <2>3
  <2>5. Shown = Doc(jc.stack, sa) /\ Shown' = Doc(jc'.stack, sa)
    BY <1>1, <1>2, <2>1 DEF Shown, Doc
  <2>6. Doc(jc.stack, sa) = Doc(jc'.stack, sa) /\ Doc(jc.stack, sa).path = <<>>
    BY <2>4 DEF Doc
  <2> QED BY <1>1, <2>1, <2>2, <2>5, <2>6
<1>5. CASE ~jc'.ok
  <2>1. result' = "rejected"
    BY <1>2, <1>5
  <2>2. IInv'
    BY <1>2, <1>3, <2>1 DEF IInv
  <2>3. Shown' = Document!Blank
    BY <2>1 DEF Shown, Document!Blank
  <2> QED BY <1>1, <2>1, <2>2, <2>3
<1> QED BY <1>3, <1>4, <1>5

\* Every step keeps the invariant, and is one of the document or none.
LEMMA NextStep ==
  ASSUME IInv, [Next]_vars
  PROVE  /\ IInv'
         /\ \/ result' = result /\ Shown' = Shown
            \/ result = "reading" /\ result' = "reading" /\ Tells(Shown, Shown')
            \/ result = "reading" /\ result' = "accepted" /\ Shown.path = <<>> /\ Shown' = Shown
            \/ result = "reading" /\ result' = "rejected" /\ Shown' = Document!Blank
<1>1. CASE EndOfText
  BY <1>1, EndOfTextStep
<1>2. CASE \E c \in Classes \cup {"bad", "negative"} :
             \E unit \in IF c \in Classes THEN UnitsOf(c) ELSE {"one byte"} : ReadChar(c, unit)
  <2>1. PICK c, unit : ReadChar(c, unit)
    BY <1>2
  <2> QED BY <2>1, ReadCharStep
<1>3. CASE UNCHANGED vars
  BY <1>3 DEF vars, IInv, Shown, Doc
<1> QED BY <1>1, <1>2, <1>3 DEF Next

\* The invariant holds for ever, whatever the text and the configuration: json_spirit
\* reads character by character with what init_JSON_config allows.
THEOREM SpecIInv == Spec => []IInv
<1>1. Init => IInv
  BY InitIInv
<1>2. IInv /\ [Next]_vars => IInv'
  BY NextStep
<1> QED BY <1>1, <1>2, PTL DEF Spec

\* No assertion of the parser or of the reader fails, and neither the stack of modes nor
\* the buffer is used outside its array (JSON_parser.cpp, json_spirit_reader.cpp).
THEOREM JsonAssertsHold == Spec => []AssertsHold
<1>1. IInv => AssertsHold
  BY DEF IInv, Safe, AssertsHold
<1> QED BY <1>1, SpecIInv, PTL

\* While a text is read, the containers the reader is in are those the parser is in, so a
\* value is never put in the wrong one (json_calback, Semantic_actions).
THEOREM JsonReaderFollowsParser == Spec => []ReaderFollowsParser
<1>1. ASSUME IInv, result = "reading"
      PROVE  LET kinds == [i \in DOMAIN sa.open |-> sa.open[i].type]
             IN kinds = Path \/ (Path = <<>> /\ Len(sa.open) = 1)
  <2> DEFINE kinds == [i \in DOMAIN sa.open |-> sa.open[i].type]
  <2>1. StackOK(jc.stack) /\ Sequence(sa.open) /\ Together(jc, sa)
    BY <1>1 DEF IInv, Good, MemoryOK, ActionsOK
  <2>2. Path = PathOf(jc.stack)
    BY DEF Path, PathOf
  <2>3. DOMAIN sa.open = 1..Len(sa.open) /\ Len(sa.open) \in Nat
    BY <2>1, SeqIs
  <2>4. /\ PathOf(jc.stack) \in Seq(KindSet) /\ Len(PathOf(jc.stack)) = Len(jc.stack) - 1
        /\ \A i \in 1..(Len(jc.stack) - 1) : PathOf(jc.stack)[i] = KindOf(jc.stack[i + 1])
    BY <2>1, PathIs
  <2>5. CASE Follows(sa.open, jc.stack)
    <3>1. Len(sa.open) = Len(jc.stack) - 1
          /\ \A i \in 1..Len(sa.open) : sa.open[i].type = KindOf(jc.stack[i + 1])
      BY <2>5 DEF Follows
    <3>2. PathOf(jc.stack) = [i \in 1..Len(sa.open) |-> PathOf(jc.stack)[i]]
      BY <2>4, <3>1
    <3>3. \A i \in 1..Len(sa.open) : PathOf(jc.stack)[i] = sa.open[i].type
      BY <2>4, <3>1
    <3>4. kinds = [i \in 1..Len(sa.open) |-> sa.open[i].type]
      BY <2>3
    <3>5. kinds = PathOf(jc.stack)
      BY <3>2, <3>3, <3>4
    <3> QED BY <2>2, <3>5
  <2>6. CASE Len(jc.stack) = 1 /\ Len(sa.open) = 1
    <3>1. PathOf(jc.stack) = <<>>
      BY <2>4, <2>6
    <3> QED BY <2>2, <2>6, <3>1
  <2> QED BY <2>1, <2>5, <2>6 DEF Together
<1>2. IInv => ReaderFollowsParser
  BY <1>1 DEF ReaderFollowsParser
<1> QED BY <1>2, SpecIInv, PTL

\* The document that the parser and the reader hold is the one the refinement maps them
\* to.
LEMMA ShownIs ==
  Shown = IF result = "rejected"
          THEN [path |-> <<>>, pending |-> FALSE, begun |-> FALSE]
          ELSE [path |-> Path, pending |-> sa.named, begun |-> sa.open # <<>>]
BY DEF Shown, Doc, Path, PathOf, Document!Blank

\* What a character tells is a step Read of the document.
LEMMA ToldIsRead ==
  ASSUME result = "reading", result' = "reading", Tells(Shown, Shown')
  PROVE  Document!Read \/ Shown' = Shown
<1>1. CASE Shown' = Shown
  BY <1>1
<1>2. CASE \E e \in Document!Event :
             /\ Document!Legal(Shown, e)
             /\ \/ Shown' = Document!Apply(Shown, e)
                \/ \E f \in Document!Finish :
                     /\ Document!Legal(Document!Apply(Shown, e), f)
                     /\ Shown' = Document!Apply(Document!Apply(Shown, e), f)
  BY <1>2, ShownIs DEF Document!Read, Shown, Doc, Path, PathOf, Document!Blank
<1> QED BY <1>1, <1>2 DEF Tells

\* Every step maps to a step of the document or to none.
LEMMA StepIsADocument == IInv /\ [Next]_vars => [Document!Next]_(Document!vars)
<1> SUFFICES ASSUME IInv, [Next]_vars PROVE [Document!Next]_(Document!vars)
  OBVIOUS
<1>1. CASE result' = result /\ Shown' = Shown
  BY <1>1 DEF Document!vars, Shown, Doc, Path, PathOf, Document!Blank
<1>2. CASE result = "reading" /\ result' = "reading" /\ Tells(Shown, Shown')
  <2>1. CASE Document!Read
    BY <2>1 DEF Document!Next
  <2>2. CASE Shown' = Shown
    BY <1>1, <1>2, <2>2
  <2> QED BY <1>2, <2>1, <2>2, ToldIsRead
<1>3. CASE result = "reading" /\ result' = "accepted" /\ Shown.path = <<>> /\ Shown' = Shown
  <2>1. Document!Accept
    BY <1>3 DEF Document!Accept, Shown, Doc, Path, PathOf, Document!Blank
  <2> QED BY <2>1 DEF Document!Next
<1>4. CASE result = "reading" /\ result' = "rejected" /\ Shown' = Document!Blank
  <2>1. Document!Reject
    BY <1>4 DEF Document!Reject, Document!Blank
  <2> QED BY <2>1 DEF Document!Next
<1> QED BY <1>1, <1>2, <1>3, <1>4, NextStep

\* The calls to the callback are those of one well formed document, and a text is
\* accepted only when every container has ended: the reader implements JsonDocument.
THEOREM JsonIsADocument == Spec => IsADocument
<1>1. Init => Document!Init
  BY InitIInv, ShownIs DEF Init, Document!Init
<1> QED BY <1>1, StepIsADocument, SpecIInv, PTL DEF Spec, IsADocument, Document!Spec

------------------------------------------------------------------------------------
(* The messages.                                                                   *)

\* A message on its way carries the mapping of the writer, which has been declared; a
\* mapping that stopped half way is one whose first call has thrown.
DeclaredInv ==
  /\ wire # <<>> => declared["writer"] /\ sent.mapping = mapping["writer"]
  /\ declared["writer"] /\ Len(mapping["writer"]) < Len(fields) => "writer" \in threw
  /\ DOMAIN declared = Objects /\ DOMAIN mapping = Objects

\* No message is on its way at the beginning, and nothing is declared.
LEMMA SerialInitInv == SerialInit => DeclaredInv
BY DEF SerialInit, DeclaredInv, Objects

\* A call of the writer declares its mapping once: it throws in the call in which it
\* stops, and every later call finds the mapping as it was left.
LEMMA SerializeKeepsInv ==
  ASSUME DeclaredInv, Serialize
  PROVE  DeclaredInv'
<1> DEFINE all == FoldLeft(AddToSerialization, <<>>, [i \in DOMAIN fields |-> i])
           d == Declare("writer")
<1>1. d = IF declared["writer"] THEN [mapping |-> mapping["writer"], threw |-> FALSE]
          ELSE [mapping |-> all, threw |-> Len(all) < Len(fields)]
  BY Zenon DEF Declare
<1>2. /\ mapping' = [mapping EXCEPT !["writer"] = d.mapping]
      /\ declared' = [declared EXCEPT !["writer"] = TRUE]
      /\ fields' = fields /\ wire = <<>>
      /\ IF d.threw THEN threw' = threw \cup {"writer"} /\ wire' = wire
         ELSE threw' = threw /\ sent'.mapping = d.mapping
  <2> HIDE DEF all
  <2>1. IF d.threw THEN threw' = threw \cup {"writer"} /\ UNCHANGED <<wire, sent>>
        ELSE /\ wire' = write(SerializeMapping("writer", d.mapping))
             /\ sent' = [values |-> memory["writer"], mapping |-> d.mapping]
             /\ UNCHANGED threw
    BY Zenon DEF Serialize
  <2> HIDE DEF d
  <2>2. IF d.threw THEN threw' = threw \cup {"writer"} /\ wire' = wire
        ELSE threw' = threw /\ sent'.mapping = d.mapping
    BY <2>1
  <2> QED BY <2>2, Zenon DEF Serialize, d
<1> HIDE DEF all, d
<1>3. mapping'["writer"] = d.mapping /\ declared'["writer"] = TRUE
      /\ DOMAIN mapping' = Objects /\ DOMAIN declared' = Objects
  BY <1>2 DEF DeclaredInv, Objects
<1>4. CASE declared["writer"]
  <2>1. d.mapping = mapping["writer"] /\ d.threw = FALSE
    BY <1>1, <1>4
  <2> QED BY <1>2, <1>3, <1>4, <2>1 DEF DeclaredInv
<1>5. CASE ~declared["writer"]
  <2>1. d.mapping = all /\ d.threw = (Len(all) < Len(fields))
    BY <1>1, <1>5
  <2>2. CASE Len(all) < Len(fields)
    BY <1>2, <1>3, <2>1, <2>2 DEF DeclaredInv
  <2>3. CASE ~(Len(all) < Len(fields))
    BY <1>2, <1>3, <2>1, <2>3 DEF DeclaredInv
  <2> QED BY <2>2, <2>3
<1> QED BY <1>4, <1>5

\* Whatever the reader does, the writer's mapping stays as it is.
LEMMA UnserializeKeepsInv ==
  ASSUME DeclaredInv, Unserialize
  PROVE  DeclaredInv'
<1>1. UNCHANGED <<fields, wire, sent>> /\ threw \subseteq threw'
  BY DEF Unserialize
<1>2. /\ declared' = declared \/ declared' = [declared EXCEPT !["reader"] = TRUE]
      /\ mapping' = mapping \/ \E m : mapping' = [mapping EXCEPT !["reader"] = m]
  BY DEF Unserialize
<1>3. declared'["writer"] = declared["writer"] /\ mapping'["writer"] = mapping["writer"]
      /\ DOMAIN mapping' = Objects /\ DOMAIN declared' = Objects
  BY <1>2 DEF DeclaredInv, Objects
<1> QED BY <1>1, <1>3 DEF DeclaredInv

\* A message that lacks a declared field is never sent before a call of the writer has
\* thrown (Serializable::CallDeclareSerializeMappingIfNeeded sets its flag before the
\* declarations), for any classes and any values.
THEOREM ShortMessageIsAlwaysAnnounced == SerialSpec => []ShortMessageWasAnnounced
<1>1. SerialInit => DeclaredInv
  BY SerialInitInv
<1>2. DeclaredInv /\ [SerialNext]_serialVars => DeclaredInv'
  <2> SUFFICES ASSUME DeclaredInv, [SerialNext]_serialVars PROVE DeclaredInv'
    OBVIOUS
  <2>1. CASE Serialize
    BY <2>1, SerializeKeepsInv
  <2>2. CASE Unserialize
    BY <2>2, UnserializeKeepsInv
  <2>3. CASE Cut
    <3>1. UNCHANGED <<sent, fields, declared, mapping, threw>>
      BY <2>3 DEF Cut
    <3>2. wire # <<>>
      <4>1. PICK n \in 1 .. (Len(wire) - 1) : TRUE
        BY <2>3 DEF Cut
      <4>2. Len(<<>>) = 0
        BY SeqEmpty
      <4> QED BY <4>1, <4>2
    <3> QED BY <3>1, <3>2 DEF DeclaredInv
  <2>4. CASE Again
    BY <2>4 DEF Again, DeclaredInv
  <2>5. CASE UNCHANGED serialVars
    BY <2>5 DEF serialVars, DeclaredInv
  <2> QED BY <2>1, <2>2, <2>3, <2>4, <2>5 DEF SerialNext
<1>3. DeclaredInv => ShortMessageWasAnnounced
  BY DEF DeclaredInv, ShortMessageWasAnnounced
<1> QED BY <1>1, <1>2, <1>3, PTL DEF SerialSpec

===================================================================================
