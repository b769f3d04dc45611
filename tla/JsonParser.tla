------------------------------ MODULE JsonParser ------------------------------
(* The JSON parser of Json/JSON_parser.cpp: a push-down automaton fed one       *)
(* character at a time.  Every function of the source is an operator from the   *)
(* parser object jc to the object it leaves behind; jc.ok is what the function  *)
(* returned and jc.events the callback's calls made for the current character,  *)
(* in order.  A character is its class, the 32 columns of the source's table,   *)
(* or "bad" (a control character) or "negative" (below 0).  The buffer keeps    *)
(* Kept(c) of a character c: everything, or only that there was one.            *)
EXTENDS Integers, Sequences, SequencesExt

CONSTANTS
  StackSize,   \* JSON_PARSER_STACK_SIZE: the modes that fit in the object
  BufferSize,  \* JSON_PARSER_PARSE_BUFFER_SIZE: the characters that fit in it
  Kept(_)      \* what the model records of a buffered character

ASSUME ParserAssumption == StackSize \in Nat \ {0} /\ BufferSize \in Nat \ {0, 1}

White  == {"space", "white"}
Digits == {"0", "1-9"}
Hex    == Digits \cup {"a", "b", "c", "d", "e", "f", "ABCDF", "E"}
Classes == White \cup Hex \cup
  {"{", "}", "[", "]", ":", ",", "\"", "\\", "/", "+", "-", ".",
   "l", "n", "r", "s", "t", "u", "etc", "*"}
Chars  == Classes \cup {"bad", "negative"}

\* What the four hexadecimal digits of an escape stand for.
Units  == {"one byte", "two bytes", "three bytes", "high", "low"}

-------------------------------------------------------------------------------
(* The transition table: a row gives the next state, or the action (CB ... UC,  *)
(* -9 ... -2), of each class; a class it does not list is the error __.         *)

On(S, next) == [c \in S |-> next]
Row(f, g) == [c \in DOMAIN f \cup DOMAIN g |-> IF c \in DOMAIN f THEN f[c] ELSE g[c]]
Stay(st) == On(White, st)
Comment == On({"/"}, "CB")
\* After a value: blanks end it, a bracket or a comma goes on.
Closers == Row(On(White, "OK"), [c \in {"}", "]", ","} |->
             CASE c = "}" -> "-8" [] c = "]" -> "-7" [] OTHER -> "-3"])
Opening == [c \in {"{", "["} |-> IF c = "{" THEN "-6" ELSE "-5"]
Value == Row(Opening, [c \in {"\"", "-", "0", "1-9", "f", "n", "t"} |->
           CASE c = "\"" -> "SB" [] c = "-" -> "MX" [] c = "0" -> "ZX"
             [] c = "1-9" -> "IX" [] c = "f" -> "FA" [] c = "n" -> "NU"
             [] OTHER -> "TR"])
Exponent(next) == On({"e", "E"}, next)

state_transition_table == [
  GO |-> Row(Stay("GO"), Row(Opening, Comment)),
  OK |-> Row(Closers, Comment),
  OB |-> Row(Stay("OB"), Row(On({"}"}, "-9"), Row(On({"\""}, "SB"), Comment))),
  KE |-> Row(Stay("KE"), Row(On({"\""}, "SB"), Comment)),
  CO |-> Row(Stay("CO"), Row(On({":"}, "-2"), Comment)),
  VA |-> Row(Stay("VA"), Row(Value, Comment)),
  AR |-> Row(Stay("AR"), Row(On({"]"}, "-7"), Row(Value, Comment))),
  ST |-> Row(On({"\""}, "-4"), Row(On({"\\"}, "EX"), On(Classes \ {"white"}, "ST"))),
  ES |-> Row(On({"u"}, "U1"), On({"\"", "\\", "/", "b", "f", "n", "r", "t"}, "ST")),
  U1 |-> On(Hex, "U2"), U2 |-> On(Hex, "U3"), U3 |-> On(Hex, "U4"), U4 |-> On(Hex, "UC"),
  D1 |-> On({"\\"}, "D2"), D2 |-> On({"u"}, "U1"),
  MI |-> Row(On({"0"}, "ZE"), On({"1-9"}, "IT")),
  ZE |-> Row(Closers, Row(On({"."}, "DF"), Comment)),
  IT |-> Row(Closers, Row(On({"."}, "DF"), Row(On(Digits, "IT"), Row(Exponent("DE"), Comment)))),
  FX |-> Row(Closers, Row(On(Digits, "FR"), Exponent("E1"))),
  FR |-> Row(Closers, Row(On(Digits, "FR"), Row(Exponent("E1"), Comment))),
  E1 |-> Row(On({"+", "-"}, "E2"), On(Digits, "E3")),
  E2 |-> On(Digits, "E3"),
  E3 |-> Row(Closers, On(Digits, "E3")),
  T1 |-> On({"r"}, "T2"), T2 |-> On({"u"}, "T3"), T3 |-> Row(On({"e"}, "OK"), Comment),
  F1 |-> On({"a"}, "F2"), F2 |-> On({"l"}, "F3"), F3 |-> On({"s"}, "F4"),
  F4 |-> Row(On({"e"}, "OK"), Comment),
  N1 |-> On({"u"}, "N2"), N2 |-> On({"l"}, "N3"), N3 |-> Row(On({"l"}, "OK"), Comment),
  C1 |-> On({"*"}, "C2"),
  C2 |-> Row(On({"*"}, "C3"), On(Classes, "C2")),
  C3 |-> Row(On({"/"}, "CE"), Row(On({"*"}, "C3"), On(Classes, "C2")))]

States == DOMAIN state_transition_table
Modes  == {"ARRAY", "DONE", "KEY", "OBJECT"}
Scalars == {"integer", "float", "string", "null", "true", "false"}
EventTypes == Scalars \cup
  {"key", "object begin", "object end", "array begin", "array end"}

-------------------------------------------------------------------------------
(* Returning false, asserting, and the two memories of the object: the stack    *)
(* of modes and the parse buffer.                                               *)

Fail(jc) == [jc EXCEPT !.ok = FALSE]
FailWith(jc, e) == [jc EXCEPT !.ok = FALSE, !.error = e]
\* An assertion, or an access that must be in bounds, of the source.
Check(jc, P) == [jc EXCEPT !.broken = @ \/ ~P]
\* What follows a call that may have returned false.
Then(jc, F(_)) == IF jc.ok THEN F(jc) ELSE jc

set_error(jc, c) ==
  LET e == CASE jc.state = "GO" /\ c \in {"{", "}", "[", "]"} -> "unbalanced"
             [] jc.state \in {"OB", "KE"} -> "expected key"
             [] jc.state = "AR" -> "unbalanced"
             [] jc.state = "CO" -> "expected colon"
             [] jc.state \in {"U1", "U2", "U3", "U4", "D1", "D2"} -> "invalid unicode"
             [] jc.state \in {"T1", "T2", "T3", "F1", "F2", "F3", "F4", "N1", "N2", "N3"} ->
                  "invalid keyword"
             [] jc.state \in {"MI", "ZE", "IT", "FR", "E1", "E2", "E3"} -> "invalid number"
             [] OTHER -> "invalid char"
  IN [jc EXCEPT !.error = e]

\* The bytes behind jc->stack: the array of the object, or the block that replaced it.
Slots(jc) == IF jc.capacity <= StackSize THEN StackSize ELSE jc.capacity

\* jc->top is Len(jc.stack) - 1, so ++jc->top indexes Len(jc.stack).
push(jc, mode) ==
  LET top   == Len(jc.stack) - 1
      full  == jc.depth < 0 /\ top = jc.capacity
      grown == IF full THEN [jc EXCEPT !.capacity = 2 * @, !.memory = @ - 1] ELSE jc
  IN CASE full /\ jc.memory = 0 -> FailWith(jc, "out of memory")
       [] jc.depth >= 0 /\ top = jc.depth -> FailWith(jc, "nesting depth")
       [] OTHER -> [Check(grown, top <= jc.capacity /\ Len(jc.stack) < Slots(grown))
                     EXCEPT !.stack = Append(@, mode)]

pop(jc, mode) ==
  IF jc.stack = <<>> \/ Last(jc.stack) # mode
  THEN Fail(jc)
  ELSE [jc EXCEPT !.stack = Front(@)]

\* jc->stack[jc->top], which must exist.
Top(jc) == IF jc.stack = <<>> THEN "none" ELSE Last(jc.stack)

parse_buffer_clear(jc) == [jc EXCEPT !.buffer = <<>>]

parse_buffer_pop_back_char(jc) ==
  IF jc.buffer = <<>> THEN Check(jc, FALSE) ELSE [jc EXCEPT !.buffer = Front(@)]

\* The buffer also holds the final zero.
parse_buffer_push_back_char(jc, c) ==
  [Check(jc, Len(jc.buffer) + 2 <= jc.room) EXCEPT !.buffer = Append(@, Kept(c))]

\* Variant: the final zero is forgotten.
parse_buffer_reserve_for_OffByOne(jc) ==
  CASE Len(jc.buffer) + 1 <= jc.room -> jc
    [] OTHER -> IF jc.memory = 0 THEN FailWith(jc, "out of memory")
                ELSE [jc EXCEPT !.room = 2 * @, !.memory = @ - 1]

\* One doubling is enough: the buffer was within its capacity.
parse_buffer_reserve_for(jc) ==
  CASE Len(jc.buffer) + 2 <= jc.room -> jc
    [] OTHER -> IF jc.memory = 0 THEN FailWith(jc, "out of memory")
                ELSE [jc EXCEPT !.room = 2 * @, !.memory = @ - 1]

Callback(jc, type, text) ==
  [jc EXCEPT !.events = Append(@, [type |-> type, text |-> text])]

parse_parse_buffer(jc) ==
  parse_buffer_clear(IF jc.type = "none" THEN jc ELSE Callback(jc, jc.type, jc.buffer))

-------------------------------------------------------------------------------
(* Buffering one character.                                                     *)

Escapes == [b |-> "BS", f |-> "FF", n |-> "LF", r |-> "CR", t |-> "HT"]

add_escaped_char_to_parse_buffer(jc, c) ==
  LET bare == parse_buffer_pop_back_char(
                [Check(jc, Len(jc.buffer) + 2 <= jc.room) EXCEPT !.escaped = FALSE])
  IN CASE c \in DOMAIN Escapes -> parse_buffer_push_back_char(bare, Escapes[c])
       [] c \in {"\"", "\\", "/"} -> parse_buffer_push_back_char(bare, c)
       [] c = "u" -> parse_buffer_push_back_char(parse_buffer_push_back_char(bare, "\\"), "u")
       [] OTHER -> FailWith(bare, "invalid escape")

add_char_to_parse_buffer(jc, c) ==
  LET Add(roomy) == CASE roomy.escaped -> add_escaped_char_to_parse_buffer(roomy, c)
                      [] ~roomy.escaped /\ ~roomy.comment /\ (roomy.type # "none" \/ c \notin White) ->
                           parse_buffer_push_back_char(roomy, c)
                      [] OTHER -> roomy
  IN Then(parse_buffer_reserve_for(jc), Add)

\* The six characters of an escape become the bytes of its character; the first
\* half of a surrogate pair waits for the second.
decode_unicode_char(jc, unit) ==
  LET cut == IF Len(jc.buffer) < 6 THEN Check(jc, FALSE)
             ELSE [jc EXCEPT !.buffer = SubSeq(@, 1, Len(@) - 6)]
      Put(n) == [cut EXCEPT !.buffer = @ \o [i \in 1..n |-> Kept("etc")],
                            !.surrogate = FALSE]
  IN CASE jc.surrogate -> IF unit = "low" THEN Put(4) ELSE Fail(cut)
       [] ~jc.surrogate /\ unit = "high" -> [cut EXCEPT !.surrogate = TRUE]
       [] ~jc.surrogate /\ unit = "low"  -> Fail(cut)
       [] OTHER -> Put(CASE unit = "one byte" -> 1 [] unit = "two bytes" -> 2 [] OTHER -> 3)

-------------------------------------------------------------------------------
(* The actions of the table.                                                    *)

ReadUnicode(jc, unit) ==
  LET read == decode_unicode_char(jc, unit)
  IN IF ~read.ok THEN FailWith(read, "invalid unicode")
     ELSE [read EXCEPT !.state = IF read.surrogate THEN "D1" ELSE "ST"]

BeginEscape(jc) == [jc EXCEPT !.escaped = TRUE, !.state = "ES"]

BeginScalar(jc, type, state) ==
  [Check(jc, jc.type = "none") EXCEPT !.type = type, !.state = state]

BeginNumber(jc, state) == [jc EXCEPT !.type = "integer", !.state = state]

BecomeFloat(jc, state, mark) ==
  [Check(jc, jc.type \notin {"false", "true", "null", "string"}
               /\ (mark # "" => jc.buffer # <<>> /\ Last(jc.buffer) = Kept(mark)))
    EXCEPT !.type = "float", !.state = state]

EndComment(jc) ==
  [Check(jc, jc.buffer = <<>> /\ jc.type = "none")
    EXCEPT !.comment = FALSE, !.state = jc.before]

BeginComment(jc) ==
  LET Enter(left) ==
        [Check(left, left.buffer = <<>> /\ left.type # "string" /\ left.stack # <<>>)
          EXCEPT !.before = IF Top(left) \in {"ARRAY", "OBJECT"} /\ left.state \notin {"VA", "AR"}
                            THEN "OK" ELSE left.state,
                 !.type = "none", !.state = "C1", !.comment = TRUE]
  IN IF ~jc.comments THEN Fail(jc)
     ELSE Then(parse_parse_buffer(parse_buffer_pop_back_char(jc)), Enter)

EndEmptyObject(jc) ==
  LET Closed(left) == [left EXCEPT !.state = "OK"]
  IN Then(pop(Callback(parse_buffer_clear(jc), "object end", <<>>), "KEY"), Closed)

\* "}" and "]": the last value is emitted, then the end, then the mode is checked.
EndCompound(jc, event, mode) ==
  LET left == pop(Callback(parse_parse_buffer(parse_buffer_pop_back_char(jc)), event, <<>>), mode)
  IN IF ~left.ok THEN FailWith(left, "unbalanced")
     ELSE [left EXCEPT !.type = "none", !.state = "OK"]

BeginCompound(jc, event, mode, state) ==
  LET Opened(left) == [Check(left, left.type = "none") EXCEPT !.state = state]
  IN Then(push(Callback(parse_buffer_pop_back_char(jc), event, <<>>), mode), Opened)

EndString(jc) ==
  LET left == parse_buffer_pop_back_char(Check(jc, jc.type = "string" /\ jc.stack # <<>>))
  IN CASE Top(left) = "KEY" ->
            parse_buffer_clear(Callback([left EXCEPT !.type = "none", !.state = "CO"],
                                        "key", left.buffer))
       [] Top(left) \in {"ARRAY", "OBJECT"} ->
            [parse_parse_buffer(left) EXCEPT !.type = "none", !.state = "OK"]
       [] OTHER -> Fail(left)

Comma(jc) ==
  LET left == parse_parse_buffer(parse_buffer_pop_back_char(Check(jc, jc.stack # <<>>)))
      Turn(half) == push(half, "KEY")
      After(whole, state) == [Check(whole, whole.type # "string")
                               EXCEPT !.type = "none", !.state = state]
      ToKey(whole) == After(whole, "KE")
  IN CASE Top(left) = "OBJECT" -> Then(Then(pop(left, "OBJECT"), Turn), ToKey)
       [] Top(left) = "ARRAY" -> After(left, "VA")
       [] OTHER -> Fail(left)

Colon(jc) ==
  LET Turn(half) == push(half, "OBJECT")
      ToValue(whole) == [Check(whole, whole.type = "none") EXCEPT !.state = "VA"]
  IN Then(Then(pop(parse_buffer_pop_back_char(jc), "KEY"), Turn), ToValue)

\* state_transition_table[jc->state][next_class]
Next_state(jc, c) ==
  LET row == state_transition_table[jc.state] IN IF c \in DOMAIN row THEN row[c] ELSE "__"

Take(jc, c, unit) ==
  LET Do(next) ==
    CASE next \in States -> [jc EXCEPT !.state = next]
      [] next = "UC" -> ReadUnicode(jc, unit)
      [] next = "EX" -> BeginEscape(jc)
      [] next = "MX" -> BeginNumber(jc, "MI")
      [] next = "ZX" -> BeginNumber(jc, "ZE")
      [] next = "IX" -> BeginNumber(jc, "IT")
      [] next = "DE" -> BecomeFloat(jc, "E1", "")
      [] next = "DF" -> BecomeFloat(jc, "FX", ".")
      [] next = "SB" -> BeginScalar(parse_buffer_clear(jc), "string", "ST")
      [] next = "NU" -> BeginScalar(jc, "null", "N1")
      [] next = "FA" -> BeginScalar(jc, "false", "F1")
      [] next = "TR" -> BeginScalar(jc, "true", "T1")
      [] next = "CE" -> EndComment(jc)
      [] next = "CB" -> BeginComment(jc)
      [] next = "-9" -> EndEmptyObject(jc)
      [] next = "-8" -> EndCompound(jc, "object end", "OBJECT")
      [] next = "-7" -> EndCompound(jc, "array end", "ARRAY")
      [] next = "-6" -> BeginCompound(jc, "object begin", "KEY", "OB")
      [] next = "-5" -> BeginCompound(jc, "array begin", "ARRAY", "AR")
      [] next = "-4" -> EndString(jc)
      [] next = "-3" -> Comma(jc)
      [] next = "-2" -> Colon(jc)
      [] OTHER -> Fail(set_error(jc, c))
  IN Do(Next_state(jc, c))

-------------------------------------------------------------------------------
(* The interface.                                                               *)

\* A configuration gives the depth, whether comments are allowed and how many
\* allocations will still succeed once the object itself was allocated.
new_JSON_parser(config) ==
  LET depth == IF config.depth = 0 THEN 1 ELSE config.depth
      blank == [state |-> "GO", before |-> "GO", type |-> "none", escaped |-> FALSE,
                comment |-> FALSE, comments |-> config.comments, surrogate |-> FALSE,
                error |-> "none", stack |-> <<>>,
                depth |-> IF depth > 0 THEN depth ELSE -1,
                capacity |-> IF depth > 0 THEN depth ELSE StackSize,
                buffer |-> <<>>, room |-> BufferSize, memory |-> config.memory,
                events |-> <<>>, ok |-> TRUE, broken |-> FALSE]
  IN push(blank, "DONE")

\* init_JSON_config: one level less than the modes that fit in the object.
init_JSON_config == [depth |-> StackSize - 1, comments |-> FALSE, memory |-> 2]

JSON_parser_char(jc, c, unit) ==
  LET fresh == [jc EXCEPT !.events = <<>>]
      Took(filled) == Take(filled, c, unit)
  IN CASE c = "negative" -> FailWith(fresh, "invalid char")
       [] c = "bad" -> Fail(set_error(fresh, c))
       [] OTHER -> Then(add_char_to_parse_buffer(fresh, c), Took)

\* Variant: the mode on the stack is not looked at.
JSON_parser_done_AnyMode(jc) ==
  IF jc.state \in {"OK", "GO"} THEN jc ELSE FailWith(jc, "unbalanced")

JSON_parser_done(jc) ==
  LET end == IF jc.state \in {"OK", "GO"} THEN pop(jc, "DONE") ELSE Fail(jc)
  IN IF end.ok THEN end ELSE FailWith(end, "unbalanced")

===============================================================================
