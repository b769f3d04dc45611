----------------------------- MODULE Serialization -----------------------------
(* Objects sent as JSON texts: Serializable, StructuredMessage, SerializeValue   *)
(* and the writer of json_spirit.  A writer object serializes itself, the text   *)
(* may be cut short on its way, a reader object of the same class unserializes   *)
(* what arrives.  Each call runs under the reentrant lock of its object.         *)
EXTENDS JsonSpirit

CONSTANTS
  Declarations,  \* the classes: the sequences of fields DeclareSerializeMapping adds
  InnerFields,   \* the fields of the class of a nested object
  ValuesOf(_),   \* the values a writer's field of a type is tried with
  OldValuesOf(_) \* the values a reader's field of a type may have before

VARIABLES
  indented,      \* StructuredMessage::Indented
  fields,        \* the class of both objects: a sequence of [key, type]
  partial,       \* PartialUnserializationAllowed of the reader
  memory,        \* the values of the fields, of "writer" and of "reader"
  declared,      \* SerializationDeclared
  mapping,       \* SerialiseMapping: the indexes of the fields added to it
  threw,         \* the objects one of whose calls threw an exception
  wire,          \* the text on its way; <<>> when there is none
  whole,         \* it was not cut
  sent,          \* memory["writer"] when it was serialized, and the fields it carries
  before,        \* memory["reader"] when it was received
  outcome        \* of the last Unserialize: "none", "returned", "threw" or "aborted"

serialVars == <<indented, fields, partial, memory, declared, mapping, threw, wire, whole, sent, before, outcome>>
Objects == {"writer", "reader"}

-------------------------------------------------------------------------------
(* The writer of json_spirit: strings go out between quotes as they are.         *)

Spaces(n) == IF indented THEN [i \in 1..n |-> "space"] ELSE <<>>
NewLine == IF indented THEN <<"white">> ELSE <<>>
Literals == [null |-> <<"n", "u", "l", "l">>, true |-> <<"t", "r", "u", "e">>,
          false |-> <<"f", "a", "l", "s", "e">>]

\* A container whose items have been written as texts.
\* Variant: the end of the container is taken one place too early.
output_array_or_obj_EarlyEnd(v, level, texts) ==
  LET Name(item) == IF v.type = "array" THEN <<>>
                    ELSE <<"\"">> \o item.name \o <<"\"">> \o Spaces(1) \o <<":">> \o Spaces(1)
      n == Len(v.items)
      Item(text, i) == text \o Spaces(4 * (level + 1)) \o Name(v.items[i]) \o texts[i]
                         \o (IF i # n - 1 THEN <<",">> ELSE <<>>) \o NewLine
      start == IF v.type = "array" THEN "[" ELSE "{"
      end   == IF v.type = "array" THEN "]" ELSE "}"
  IN FoldLeft(Item, <<start>> \o NewLine, [i \in 1..n |-> i]) \o Spaces(4 * level) \o <<end>>

output_array_or_obj(v, level, texts) ==
  LET Name(item) == IF v.type = "array" THEN <<>>
                    ELSE <<"\"">> \o item.name \o <<"\"">> \o Spaces(1) \o <<":">> \o Spaces(1)
      n == Len(v.items)
      Item(text, i) == text \o Spaces(4 * (level + 1)) \o Name(v.items[i]) \o texts[i]
                         \o (IF i # n THEN <<",">> ELSE <<>>) \o NewLine
      start == IF v.type = "array" THEN "[" ELSE "{"
      end   == IF v.type = "array" THEN "]" ELSE "}"
  IN FoldLeft(Item, <<start>> \o NewLine, [i \in 1..n |-> i]) \o Spaces(4 * level) \o <<end>>

output_scalar(v) ==
  CASE v.type = "string" -> <<"\"">> \o v.text \o <<"\"">>
    [] v.type = "bool" -> Literals[v.text[1]]
    [] v.type = "null" -> Literals["null"]
    [] OTHER -> v.text

\* What lies on a path of indexes into a value; a level of the path is one of the text.
Inner(v, path) == LET Item(u, i) == u.items[i].value IN FoldLeft(Item, v, path)

write(v) ==
  LET output[path \in Seq(Nat)] ==
        LET u == Inner(v, path)
        IN IF u.type \in {"object", "array"}
           THEN output_array_or_obj(u, Len(path), [i \in DOMAIN u.items |-> output[Append(path, i)]])
           ELSE output_scalar(u)
  IN output[<<>>]

-------------------------------------------------------------------------------
(* SerializeValue: from a field to a value.  A string that reads as JSON becomes  *)
(* what it reads as.                                                             *)

FromString(text) ==
  LET Took(r) == IF r.ok THEN r.value ELSE Scalar("string", text) IN Took(read(text, Null))

\* What the operator= of a type stores.  A long and a double have a part that does
\* not travel: the high half, and the digits after the sixth.  A double without a
\* fraction is written as an integer.
ValueOf(type, low) ==
  CASE type \in {"int", "short", "long"} -> Scalar("integer", low)
    [] type = "double" -> Scalar(IF "." \in Range(low) THEN "float" ELSE "integer", low)
    [] type = "bool" -> Scalar("bool", low)
    [] type \in {"string", "char*"} -> FromString(low)

\* A list, a vector or a SimpleList of integers.
EncodeList(low) ==
  Compound("array", [i \in DOMAIN low |-> Pair(<<>>, ValueOf("int", low[i]))])

EncodeScalar(type, v) ==
  IF type = "list" THEN EncodeList(v.low) ELSE ValueOf(type, v.low)

\* StructuredMessage::Put: appended, whatever the object holds already.
Put(msg, key, v) ==
  Compound("object", Append(IF msg.type = "object" THEN msg.items ELSE <<>>, Pair(key, v)))

Encode(type, v) ==
  IF type # "object" THEN EncodeScalar(type, v)
  ELSE LET PutField(msg, i) == Put(msg, InnerFields[i].key, EncodeScalar(InnerFields[i].type, v.low[i]))
       IN FoldLeft(PutField, Null, [i \in DOMAIN InnerFields |-> i])

-------------------------------------------------------------------------------
(* From a value to a field.  The getters assert the type of the value; decoding  *)
(* gives the new value of the field and what happened: "going", "threw" or        *)
(* "aborted".                                                                    *)

Got(v, status) == [value |-> v, status |-> status]
New(old, low) == Got([old EXCEPT !.low = low], "going")

\* get_int, get_str ...: the assertion on the type of the value.
Getter(types, v, old, new) == IF v.type \in types THEN new ELSE Got(old, "aborted")

DecodeList(v, old) ==
  IF v.type # "array" THEN Got(old, "threw")
  ELSE IF \E i \in DOMAIN v.items : v.items[i].value.type # "integer"
       THEN Got(old, "aborted")
       ELSE New(old, [i \in DOMAIN v.items |-> v.items[i].value.text])

DecodeScalar(type, v, old) ==
  CASE type \in {"int", "short", "long"} -> Getter({"integer"}, v, old, New(old, v.text))
    [] type = "double" -> Getter({"integer", "float"}, v, old, Got([low |-> v.text, high |-> "none"], "going"))
    [] type = "bool" -> Getter({"bool"}, v, old, New(old, v.text))
    [] type = "string" -> IF v.type = "null" THEN New(old, <<>>)
                          ELSE Getter({"string"}, v, old, New(old, v.text))
    [] type = "char*" -> Getter({"string"}, v, old, New(old, v.text))
    [] type = "list" -> DecodeList(v, old)

\* StructuredMessage::Find: the first pair of that name, as it is spelt.
Find(msg, key) ==
  IF msg.type # "object" THEN 0
  ELSE LET named == {i \in DOMAIN msg.items : msg.items[i].name = key}
       IN IF named = {} THEN 0 ELSE CHOOSE i \in named : \A j \in named : i <= j

\* Serializable::Unserialize( const SerializeValue& ), of a nested object: every
\* key must be there, whatever its PartialUnserializationAllowed.
DecodeObject(v, old) ==
  LET Field(got, i) ==
        IF got.status # "going" THEN got
        ELSE LET at == Find(v, InnerFields[i].key)
                 one == DecodeScalar(InnerFields[i].type, v.items[at].value, got.value.low[i])
             IN IF at = 0 THEN Got(got.value, "threw")
                ELSE Got([got.value EXCEPT !.low[i] = one.value], one.status)
  IN FoldLeft(Field, Got(old, "going"), [i \in DOMAIN InnerFields |-> i])

Decode(type, v, old) == IF type = "object" THEN DecodeObject(v, old) ELSE DecodeScalar(type, v, old)

-------------------------------------------------------------------------------
(* Serializable: the mapping, declared at the first call that needs it.          *)

LowerCase(key) == [i \in DOMAIN key |-> CASE key[i] = "ABCDF" -> "a" [] key[i] = "E" -> "e" [] OTHER -> key[i]]

\* Create refuses a key the mapping holds already, in any case of letters.
Create(added, i) ==
  \A j \in Range(added) : LowerCase(fields[j].key) # LowerCase(fields[i].key)

\* AddToSerialization throws for a type it does not support, too; nothing is added
\* after an exception.
AddToSerialization(added, i) ==
  IF Len(added) = i - 1 /\ fields[i].type # "unsigned int" /\ Create(added, i)
  THEN Append(added, i) ELSE added

\* Variant: the exception of a declaration is caught.
Declare_Silent(o) ==
  LET all == FoldLeft(AddToSerialization, <<>>, [i \in DOMAIN fields |-> i])
  IN IF declared[o] THEN [mapping |-> mapping[o], threw |-> FALSE]
     ELSE [mapping |-> all, threw |-> FALSE]

\* CallDeclareSerializeMappingIfNeeded: the flag is set before the declarations,
\* an exception leaves the mapping as far as it got.
Declare(o) ==
  LET all == FoldLeft(AddToSerialization, <<>>, [i \in DOMAIN fields |-> i])
  IN IF declared[o] THEN [mapping |-> mapping[o], threw |-> FALSE]
     ELSE [mapping |-> all, threw |-> Len(all) < Len(fields)]

SerializeMapping(o, map) ==
  LET Field(msg, i) == Put(msg, fields[i].key, Encode(fields[i].type, memory[o][i]))
  IN FoldLeft(Field, Null, map)

\* Variant: every exception is swallowed.
UnserializeMapping_Swallows(msg, map, old) ==
  LET Field(got, i) ==
        IF got.status # "going" THEN got
        ELSE LET at == Find(msg, fields[i].key)
                 one == Decode(fields[i].type, msg.items[at].value, got.value[i])
                 status == IF at = 0 THEN "threw" ELSE one.status
             IN [value  |-> IF at = 0 THEN got.value ELSE [got.value EXCEPT ![i] = one.value],
                 status |-> IF status = "threw" THEN "going" ELSE status]
  IN FoldLeft(Field, Got(old, "going"), map)

\* Unserialize( const SimpleString& ): the fields of the mapping in order.
UnserializeMapping(msg, map, old) ==
  LET Field(got, i) ==
        IF got.status # "going" THEN got
        ELSE LET at == Find(msg, fields[i].key)
                 one == Decode(fields[i].type, msg.items[at].value, got.value[i])
                 status == IF at = 0 THEN "threw" ELSE one.status
             IN [value  |-> IF at = 0 THEN got.value ELSE [got.value EXCEPT ![i] = one.value],
                 status |-> IF status = "threw" /\ partial THEN "going" ELSE status]
  IN FoldLeft(Field, Got(old, "going"), map)

-------------------------------------------------------------------------------
Nothing == [values |-> <<>>, mapping |-> <<>>]

Memories(Of(_)) ==
  LET Field(S, f) == {Append(m, v) : m \in S, v \in Of(f.type)}
  IN FoldLeft(Field, {<<>>}, fields)

SerialInit ==
  /\ indented \in BOOLEAN /\ fields \in Declarations /\ partial \in BOOLEAN
  /\ \E w \in Memories(ValuesOf), r \in Memories(OldValuesOf) :
       memory = [o \in Objects |-> IF o = "writer" THEN w ELSE r]
  /\ declared = [o \in Objects |-> FALSE] /\ mapping = [o \in Objects |-> <<>>]
  /\ threw = {} /\ wire = <<>> /\ whole = TRUE
  /\ sent = Nothing /\ before = <<>> /\ outcome = "none"

\* Serializable::Serialize and its conversion to a text.
Serialize ==
  /\ wire = <<>>
  /\ LET d == Declare("writer")
     IN /\ mapping' = [mapping EXCEPT !["writer"] = d.mapping]
        /\ IF d.threw
           THEN /\ threw' = threw \cup {"writer"}
                /\ UNCHANGED <<wire, sent>>
           ELSE /\ wire' = write(SerializeMapping("writer", d.mapping))
                /\ sent' = [values |-> memory["writer"], mapping |-> d.mapping]
                /\ UNCHANGED threw
  /\ declared' = [declared EXCEPT !["writer"] = TRUE]
  /\ whole' = TRUE
  /\ UNCHANGED <<indented, fields, partial, memory, before, outcome>>

\* The end of the text is lost.
Cut ==
  /\ whole /\ outcome = "none"
  /\ \E n \in 1..(Len(wire) - 1) : wire' = SubSeq(wire, 1, n)
  /\ whole' = FALSE
  /\ UNCHANGED <<indented, fields, partial, memory, declared, mapping, threw, sent, before, outcome>>

\* Serializable::Unserialize( const SimpleString& ).  A text that is not JSON is
\* refused, unless it began like an object.
Unserialize ==
  /\ wire # <<>> /\ outcome = "none"
  /\ LET r == read(wire, Null)
         d == Declare("reader")
         u == UnserializeMapping(r.value, d.mapping, memory["reader"])
         Throws == /\ threw' = threw \cup {"reader"} /\ outcome' = "threw"
     IN IF ~r.ok /\ r.value.type # "object"
        THEN Throws /\ UNCHANGED <<memory, declared, mapping>>
        ELSE /\ declared' = [declared EXCEPT !["reader"] = TRUE]
             /\ mapping' = [mapping EXCEPT !["reader"] = d.mapping]
             /\ IF d.threw THEN Throws /\ UNCHANGED memory
                ELSE /\ memory' = [memory EXCEPT !["reader"] = u.value]
                     /\ IF u.status = "threw" THEN Throws
                        ELSE /\ outcome' = IF u.status = "going" THEN "returned" ELSE u.status
                             /\ UNCHANGED threw
  /\ before' = memory["reader"]
  /\ UNCHANGED <<indented, fields, partial, wire, whole, sent>>

\* The next message.
Again ==
  /\ wire # <<>> /\ outcome \in {"returned", "threw"}
  /\ wire' = <<>> /\ outcome' = "none" /\ sent' = Nothing /\ before' = <<>> /\ whole' = TRUE
  /\ UNCHANGED <<indented, fields, partial, memory, declared, mapping, threw>>

SerialNext == Serialize \/ Cut \/ Unserialize \/ Again
SerialSpec == SerialInit /\ [][SerialNext]_serialVars

-------------------------------------------------------------------------------
(* Properties.                                                                   *)

\* What travels as it is: not the strings that hold a quote, a backslash or a line
\* end, nor those that read as JSON, except the empty one in a SimpleString.
PortableString(s) ==
  /\ Range(s) \cap {"\"", "\\", "white"} = {}
  /\ s = <<>> \/ ~read(s, Null).ok
Portable(type, v) ==
  CASE type = "string" -> PortableString(v.low)
    [] type = "char*" -> PortableString(v.low) /\ v.low # <<>>
    [] type \in {"long", "double"} -> v.high = "none"
    [] OTHER -> TRUE

Same(i) == memory["reader"][i] = sent.values[i]

(* A message that arrives whole, and that no field of it breaks, gives the       *)
(* reader the values the writer had: what is written, read, parsed and decoded    *)
(* is what was encoded, compact or indented.                                     *)
RoundTrip ==
  (outcome # "none" /\ whole /\ threw = {}
     /\ \A i \in DOMAIN fields : Portable(fields[i].type, sent.values[i]))
  => outcome = "returned" /\ \A i \in DOMAIN fields : \/ Same(i)
                                                      \/ fields[i].type = "long" /\ before[i].high # "none"

(* A message cut anywhere never leaves in a simple field a value that was        *)
(* neither there before nor sent: a number, a string or a Boolean is taken only   *)
(* when its end was read.  When the call returns and partial messages are not     *)
(* allowed, every simple field has the value sent.  (A list may be short.)       *)
CutNeverCorrupts ==
  (outcome # "none" /\ ~whole /\ \A i \in DOMAIN fields : Portable(fields[i].type, sent.values[i]))
  => \A i \in DOMAIN fields :
       fields[i].type \in {"int", "short", "bool", "double", "string", "char*"} =>
         \/ Same(i)
         \/ memory["reader"][i] = before[i] /\ (outcome = "returned" => partial \/ i \notin Range(mapping["reader"]))

(* A message that lacks a declared field (an unsupported type, or a key declared *)
(* twice, stopped the declarations) is never sent before a call of that object    *)
(* has thrown an exception.                                                      *)
ShortMessageWasAnnounced ==
  wire # <<>> /\ Len(sent.mapping) < Len(fields) => "writer" \in threw

===============================================================================
