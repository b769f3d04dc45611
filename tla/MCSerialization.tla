---------------------------- MODULE MCSerialization ----------------------------
(* Two objects of one class, their fields of every type of value that the       *)
(* encoding tells apart, and every cut of the message.                          *)
EXTENDS Serialization

MCKept(c) == c

Field(key, type) == [key |-> key, type |-> type]
V(low) == [low |-> low, high |-> "none"]
W(low) == [low |-> low, high |-> "some"]

MCInner == <<Field(<<"a">>, "int"), Field(<<"b">>, "string")>>

MCDeclarations == {
  <<Field(<<"a">>, "int"), Field(<<"b">>, "string"), Field(<<"c">>, "bool")>>,
  <<Field(<<"a">>, "double"), Field(<<"b">>, "object")>>,
  <<Field(<<"a">>, "list"), Field(<<"b">>, "long")>>,
  <<Field(<<"a">>, "char*"), Field(<<"b">>, "short")>>,
  <<Field(<<"a">>, "int"), Field(<<"ABCDF">>, "bool")>>,
  <<Field(<<"b">>, "bool"), Field(<<"a">>, "unsigned int"), Field(<<"c">>, "bool")>>}

MCValuesOf(type) ==
  CASE type \in {"int", "short", "unsigned int"} -> {V(<<"0">>), V(<<"-", "1-9", "0">>)}
    [] type = "long" -> {V(<<"0">>), W(<<"1-9">>)}
    [] type = "double" -> {V(<<"1-9">>), V(<<"1-9", ".", "0", "e", "-", "0">>), W(<<"0">>)}
    [] type = "bool" -> {V(<<"true">>), V(<<"false">>)}
    [] type = "string" -> {V(<<>>), V(<<"t", ":">>), V(<<"space">>), V(<<"[", "]">>), V(<<"\"">>)}
    [] type = "char*" -> {V(<<>>), V(<<"t">>)}
    [] type = "list" -> {V(<<>>), V(<< <<"1-9">>, <<"0">> >>)}
    [] type = "object" -> {V(<<V(<<"0">>), V(<<"t">>)>>), V(<<V(<<"1-9">>), V(<<>>)>>)}

MCOldValuesOf(type) ==
  CASE type \in {"int", "short", "unsigned int"} -> {V(<<"1-9">>)}
    [] type = "long" -> MCValuesOf("long")
    [] type = "double" -> {W(<<"0">>)}
    [] type = "bool" -> {V(<<"true">>)}
    [] type \in {"string", "char*"} -> {V(<<"etc">>)}
    [] type = "list" -> {V(<< <<"0">> >>)}
    [] type = "object" -> {V(<<V(<<"0">>), V(<<"etc">>)>>)}
===============================================================================
