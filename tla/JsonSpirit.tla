------------------------------- MODULE JsonSpirit -------------------------------
(* json_spirit: the values, and reading one from a text without Boost           *)
(* (json_spirit_value.cpp, json_spirit_reader.cpp).  read feeds JsonParser one  *)
(* character at a time and the callback builds the value in place.  The value   *)
(* under construction is the path from its root to current_p: the open member   *)
(* of Semantic_actions holds the containers stack_ points to, and current_p     *)
(* last; a container is put in its parent when it is left.                      *)
EXTENDS JsonParser

CONSTANT
  KeepItems    \* whether the model records what containers hold, and names

(* json_spirit::Value: a type, the text of a scalar, the items of a container.  *)
Scalar(type, text) == [type |-> type, text |-> text, items |-> <<>>]
Compound(type, items) == [type |-> type, text |-> <<>>, items |-> items]
Null == Scalar("null", <<>>)
Pair(name, value) == [name |-> name, value |-> value]

-------------------------------------------------------------------------------
(* Semantic_actions.  The named member is a history variable: a name was read   *)
(* since the last value, so name_ is the name of the value that comes.          *)

NewActions == [open |-> <<>>, name |-> <<>>, named |-> FALSE, broken |-> FALSE]

Current(s) == IF s.open = <<>> THEN "nothing" ELSE Last(s.open).type

Add(items, pair) == IF KeepItems THEN Append(items, pair) ELSE items

\* current_p must not be null, and name_ must be the one just read.
add_to_current(s, value) ==
  IF s.open = <<>> THEN [s EXCEPT !.broken = TRUE]
  ELSE [s EXCEPT
         !.open[Len(s.open)].items =
            Add(@, Pair(IF Current(s) = "array" THEN <<>> ELSE s.name, value)),
         !.broken = @ \/ (Current(s) = "object" /\ ~s.named),
         !.named = FALSE]

begin_compound(s, type) ==
  [s EXCEPT !.open = Append(@, [type |-> type, name |-> s.name, items |-> <<>>]),
            !.broken = @ \/ (Current(s) = "object" /\ ~s.named),
            !.named = FALSE]

\* The last open container goes into the one around it.
Leave(open) ==
  LET n == Len(open)
      name == IF open[n - 1].type = "array" THEN <<>> ELSE open[n].name
      up == [open[n - 1] EXCEPT !.items = Add(@, Pair(name, Compound(open[n].type, open[n].items)))]
  IN Append(SubSeq(open, 1, n - 2), up)

\* Variant: a container directly in the root is not left.
end_compound_OffByOne(s) == IF Len(s.open) > 2 THEN [s EXCEPT !.open = Leave(@)] ELSE s

\* The root is never left: current_p stays on it.
end_compound(s) == IF Len(s.open) > 1 THEN [s EXCEPT !.open = Leave(@)] ELSE s

new_name(s, text) ==
  [s EXCEPT !.broken = @ \/ Current(s) # "object", !.named = TRUE,
            !.name = IF KeepItems THEN text ELSE <<>>]

\* sscanf and strtod stop at the blanks that follow a number.
Number(text) == SelectSeq(text, LAMBDA c : c \notin White)

json_calback(s, e) ==
  CASE e.type = "array begin"  -> begin_compound(s, "array")
    [] e.type = "object begin" -> begin_compound(s, "object")
    [] e.type \in {"array end", "object end"} -> end_compound(s)
    [] e.type = "key" -> new_name(s, e.text)
    [] e.type = "null" -> add_to_current(s, Null)
    [] e.type \in {"true", "false"} -> add_to_current(s, Scalar("bool", <<e.type>>))
    [] e.type = "string" -> add_to_current(s, Scalar("string", e.text))
    [] OTHER -> add_to_current(s, Scalar(e.type, Number(e.text)))

\* What the caller's value is: what was built, or what it was when nothing was.
ValueBuilt(s, old) ==
  IF s.open = <<>> THEN old
  ELSE LET Shut(open, i) == Leave(open)
           root == FoldLeft(Shut, s.open, [i \in 1..(Len(s.open) - 1) |-> i])[1]
       IN Compound(root.type, root.items)

-------------------------------------------------------------------------------
(* read: the loop over the characters, on a parser configured by                *)
(* init_JSON_config.                                                            *)

Feed(r, c, unit) ==
  LET Called(jc) == [jc |-> [jc EXCEPT !.events = <<>>],
                     sa |-> FoldLeft(json_calback, r.sa, jc.events)]
  IN Called(JSON_parser_char(r.jc, c, unit))

read(text, old) ==
  LET Char(r, c) == IF r.jc.ok THEN Feed(r, c, "one byte") ELSE r
      Read(end) == [ok    |-> end.jc.ok /\ JSON_parser_done(end.jc).ok,
                    value |-> ValueBuilt(end.sa, old)]
  IN Read(FoldLeft(Char, [jc |-> new_JSON_parser(init_JSON_config), sa |-> NewActions], text))

===============================================================================
