------------------------------- MODULE CxFifo -------------------------------
(***************************************************************************)
(* What include/queue.h promises its users: a bounded first-in-first-out   *)
(* pool that starts full with 0 .. Capacity-1 (the free state ids of a     *)
(* CX).  An item offered to a full pool is dropped and taking from an      *)
(* empty one yields Empty.  CxQueue shows that the ring of src/queue.c     *)
(* implements this module.                                                 *)
(***************************************************************************)
EXTENDS Integers, Sequences

CONSTANTS Capacity,   \* int32_t capacity of the pool
          Items       \* the int32_t values users put in

Empty == -1           \* dequeue and front of an empty pool

VARIABLES fifo,       \* the items, oldest first
          ret         \* what the last call returned

avars == <<fifo, ret>>

AInit == /\ fifo = [i \in 1 .. Capacity |-> i - 1]
         /\ ret = Empty

AEnqueue(item) ==
    /\ fifo' = IF Len(fifo) = Capacity THEN fifo ELSE Append(fifo, item)
    /\ ret' = ret

ADequeue ==
    \/ /\ fifo = << >>
       /\ ret' = Empty
       /\ fifo' = fifo
    \/ /\ fifo # << >>
       /\ ret' = Head(fifo)
       /\ fifo' = Tail(fifo)

AFront ==
    /\ ret' = IF fifo = << >> THEN Empty ELSE Head(fifo)
    /\ fifo' = fifo

ANext == \/ \E item \in Items : AEnqueue(item)
         \/ ADequeue
         \/ AFront

ASpec == AInit /\ [][ANext]_avars
=============================================================================
