----------------------------- MODULE MCJsonReader -----------------------------
(* Any text whose scalars have at most MaxBuffer characters, for parsers of a   *)
(* stack of four modes and of a buffer so short that it must grow.              *)
EXTENDS JsonReader

\* Only that a character was buffered.
MCKept(c) == "x"

MCConfigs ==
  {[depth |-> 0, comments |-> FALSE, memory |-> 0],
   [depth |-> 2, comments |-> TRUE,  memory |-> 1],
   [depth |-> 3, comments |-> FALSE, memory |-> 1]}
===============================================================================
