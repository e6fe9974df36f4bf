------------------------------ MODULE MCCxQueue -----------------------------
(* Three slots, their ids and one value that is not an id: the ring wraps,  *)
(* fills, drains and holds duplicates.                                      *)
EXTENDS CxQueue

MCCapacity == 3
MCItems == 0 .. 3
=============================================================================
