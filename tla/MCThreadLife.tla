---------------------------- MODULE MCThreadLife ----------------------------
(* Instances of ThreadLife for TLC. The owner and the peers are model     *)
(* values; the children are numbered in the order of their creation.      *)
EXTENDS ThreadLife

CONSTANTS o1, p1, p2

TwoPeers == {p1, p2}
Nobody   == {}

StartStop == {"start", "stop"}
AllCalls  == {"start", "stop", "join", "destroy"}

Polling          == {"poll"}
PollingOrWaiting == {"poll", "wait"}
AnyRun           == {"poll", "wait", "finish", "stop", "join"}

=============================================================================
