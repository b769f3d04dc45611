--------------------------- MODULE MCTrackingMemory ---------------------------
(* Two threads, three blocks, up to two clients at a time.                       *)
EXTENDS TrackingMemory
===============================================================================
