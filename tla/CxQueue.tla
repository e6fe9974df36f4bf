------------------------------ MODULE CxQueue -------------------------------
(***************************************************************************)
(* src/queue.c: the ring buffer that holds the free state ids of a CX      *)
(* (avail_state_ids in include/cx_kern_structs.h).  One action per         *)
(* exported function; a call is one step because the code takes no lock    *)
(* and its users call it from one thread at a time.                        *)
(***************************************************************************)
EXTENDS Integers, Sequences

CONSTANTS Capacity,   \* int32_t capacity passed to make_queue
          Items       \* the int32_t values users enqueue

ASSUME CapacityAssumption == Capacity \in Nat \ {0}
ASSUME ItemsAssumption == Items \subseteq Int /\ 0 .. Capacity - 1 \subseteq Items

Empty == -1           \* what dequeue and front return on an empty queue
Index == 0 .. Capacity - 1

VARIABLES arr, front, rear, size,  \* the fields of queue_t
          ret                      \* value returned by the last call

ring == <<arr, front, rear, size>>
vars == <<arr, front, rear, size, ret>>

isFull  == size = Capacity
isEmpty == size = 0

\* Fault: the index wraps one slot late.
succ_late(i) == (i + 1) % (Capacity + 1)

succ(i) == (i + 1) % Capacity

\* make_queue: rear starts at capacity - 1, so that enqueueing 0 .. capacity-1
\* fills the slots 0 .. capacity-1 in order and rear comes back to capacity - 1.
make_queue ==
    /\ arr = [i \in Index |-> i]
    /\ front = 0
    /\ rear = Capacity - 1
    /\ size = Capacity
    /\ ret = Empty

\* Faults: no test for a full ring; the item is written before rear moves.
enqueue_unchecked(item) ==
    /\ rear' = succ(rear)
    /\ arr' = [arr EXCEPT ![rear'] = item]
    /\ size' = IF isFull THEN size ELSE size + 1
    /\ UNCHANGED <<front, ret>>
enqueue_before(item) ==
    \/ /\ isFull
       /\ UNCHANGED vars
    \/ /\ ~isFull
       /\ arr' = [arr EXCEPT ![rear] = item]
       /\ rear' = succ(rear)
       /\ size' = size + 1
       /\ UNCHANGED <<front, ret>>

enqueue(item) ==
    \/ /\ isFull
       /\ UNCHANGED vars
    \/ /\ ~isFull
       /\ rear' = succ(rear)
       /\ arr' = [arr EXCEPT ![rear'] = item]
       /\ size' = size + 1
       /\ UNCHANGED <<front, ret>>

dequeue ==
    \/ /\ isEmpty
       /\ ret' = Empty
       /\ UNCHANGED ring
    \/ /\ ~isEmpty
       /\ ret' = arr[front]
       /\ front' = succ(front)
       /\ size' = size - 1
       /\ UNCHANGED <<arr, rear>>

peek ==               \* int32_t front(queue_t *)
    /\ ret' = IF isEmpty THEN Empty ELSE arr[front]
    /\ UNCHANGED ring

Init == make_queue
Next == \/ \E item \in Items : enqueue(item)
        \/ dequeue
        \/ peek

Spec == Init /\ [][Next]_vars
-----------------------------------------------------------------------------
TypeOK == /\ arr \in [Index -> Items]
          /\ front \in Index
          /\ rear \in Index
          /\ size \in 0 .. Capacity
          /\ ret \in Items \cup {Empty}

(***************************************************************************)
(* The refinement mapping: the live items are the size slots that start    *)
(* at front and wrap around the end of the array.                          *)
(***************************************************************************)
slot(k) == (front + k) % Capacity
live == [k \in 1 .. size |-> arr[slot(k - 1)]]

Abstract == INSTANCE CxFifo WITH fifo <- live

\* The ring behaves as the bounded FIFO of CxFifo: enqueue (16-23), dequeue
\* (25-33), front (35-40) and the initial fill of make_queue (60-64) agree
\* with Append, Tail, Head on the wrapped-around window.
ImplementsFifo == Abstract!ASpec

\* front, rear and size never drift apart: the slot after rear is the slot
\* size places after front, so size alone tells a full ring from an empty one.
RearIsLast == succ(rear) = slot(size)
=============================================================================
