--------------------------- MODULE CxQueueProofs ----------------------------
(***************************************************************************)
(* The ring of src/queue.c keeps its shape and implements the bounded FIFO *)
(* of CxFifo, for every capacity and every set of items.                   *)
(***************************************************************************)
EXTENDS CxQueue, SequenceTheorems, TLAPS

\* A sum that has wrapped at most once is reduced by one subtraction.
LEMMA WrapOnce ==
    \A i \in Index, k \in 0 .. Capacity :
        (i + k) % Capacity = IF i + k < Capacity THEN i + k ELSE i + k - Capacity
  BY CapacityAssumption DEF Index

\* The successor of a slot is a slot, reached by one step or by wrapping.
LEMMA SuccValue ==
    \A i \in Index : /\ succ(i) = IF i + 1 < Capacity THEN i + 1 ELSE 0
                     /\ succ(i) \in Index
  BY CapacityAssumption DEF succ, Index

\* The k-th slot after front, for k up to the capacity, spelled out.
LEMMA SlotValue ==
    ASSUME TypeOK, NEW k \in 0 .. Capacity
    PROVE  /\ slot(k) = IF front + k < Capacity THEN front + k
                                                ELSE front + k - Capacity
           /\ slot(k) \in Index
  <1>1. slot(k) = IF front + k < Capacity THEN front + k
                                          ELSE front + k - Capacity
    BY WrapOnce DEF slot, TypeOK
  <1> QED
    BY <1>1, CapacityAssumption DEF TypeOK, Index

\* The slots of one lap are distinct.
LEMMA SlotInjective ==
    ASSUME TypeOK, NEW j \in 0 .. Capacity - 1, NEW k \in 0 .. Capacity - 1,
           slot(j) = slot(k)
    PROVE  j = k
  <1>1. (IF front + j < Capacity THEN front + j ELSE front + j - Capacity)
        = (IF front + k < Capacity THEN front + k ELSE front + k - Capacity)
    BY SlotValue, CapacityAssumption
  <1> QED
    BY <1>1, CapacityAssumption DEF TypeOK, Index

LiveWindow == /\ live \in Seq(Items)
              /\ Len(live) = size
              /\ \A k \in 1 .. size : live[k] = arr[slot(k - 1)]

\* The live window is a sequence of items of length size.
LEMMA LiveIsSeq == TypeOK => LiveWindow
  <1> SUFFICES ASSUME TypeOK PROVE LiveWindow
    OBVIOUS
  <1>1. ASSUME NEW k \in 1 .. size PROVE arr[slot(k - 1)] \in Items
    BY <1>1, SlotValue, CapacityAssumption DEF TypeOK
  <1>2. size \in Nat
    BY CapacityAssumption DEF TypeOK
  <1>3. live \in [1 .. size -> Items]
    BY <1>1 DEF live
  <1> QED
    BY <1>2, <1>3 DEF live, LiveWindow
-----------------------------------------------------------------------------
Inv == TypeOK /\ RearIsLast

LEMMA InitInv == Init => Inv
  <1> SUFFICES ASSUME Init PROVE Inv
    OBVIOUS
  <1>1. TypeOK
    BY CapacityAssumption, ItemsAssumption
    DEF Init, make_queue, TypeOK, Index
  <1>2. RearIsLast
    BY <1>1, CapacityAssumption, WrapOnce
    DEF Init, make_queue, RearIsLast, succ, slot
  <1> QED
    BY <1>1, <1>2 DEF Inv

LEMMA EnqueueInv == ASSUME Inv, NEW item \in Items, enqueue(item) PROVE Inv'
  <1>1. CASE isFull
    BY <1>1 DEF Inv, TypeOK, RearIsLast, enqueue, isFull, vars, succ, slot
  <1>2. CASE ~isFull
    <2>1. /\ rear' = succ(rear) /\ arr' = [arr EXCEPT ![rear'] = item]
          /\ size' = size + 1 /\ front' = front /\ ret' = ret
      BY <1>2 DEF enqueue
    <2>2. rear' \in Index
      BY <2>1, SuccValue DEF Inv, TypeOK
    <2>3. TypeOK'
      BY <1>2, <2>1, <2>2, CapacityAssumption DEF Inv, TypeOK, isFull
    <2>4. size \in 0 .. Capacity - 1
      BY <1>2, CapacityAssumption DEF Inv, TypeOK, isFull
    <2>5. rear' = slot(size)
      BY <2>1 DEF Inv, RearIsLast
    <2>6. succ(slot(size)) = slot(size + 1)
      <3>1. /\ slot(size) \in Index
            /\ slot(size) = IF front + size < Capacity
                            THEN front + size ELSE front + size - Capacity
            /\ slot(size + 1) = IF front + (size + 1) < Capacity
                                THEN front + (size + 1)
                                ELSE front + (size + 1) - Capacity
        BY <2>4, SlotValue, CapacityAssumption DEF Inv
      <3>2. succ(slot(size)) = IF slot(size) + 1 < Capacity
                               THEN slot(size) + 1 ELSE 0
        BY <3>1, SuccValue
      <3> QED
        BY <2>4, <3>1, <3>2, CapacityAssumption DEF Inv, TypeOK, Index
    <2>7. RearIsLast'
      BY <2>1, <2>5, <2>6 DEF RearIsLast, succ, slot
    <2> QED
      BY <2>3, <2>7 DEF Inv
  <1> QED
    BY <1>1, <1>2

LEMMA DequeueInv == ASSUME Inv, dequeue PROVE Inv'
  <1>1. CASE isEmpty
    BY <1>1 DEF Inv, TypeOK, RearIsLast, dequeue, isEmpty, ring, succ, slot
  <1>2. CASE ~isEmpty
    <2>1. /\ ret' = arr[front] /\ front' = succ(front)
          /\ size' = size - 1 /\ arr' = arr /\ rear' = rear
      BY <1>2 DEF dequeue
    <2>2. size \in 1 .. Capacity
      BY <1>2, CapacityAssumption DEF Inv, TypeOK, isEmpty
    <2>3. TypeOK'
      BY <2>1, <2>2, SuccValue, CapacityAssumption DEF Inv, TypeOK
    <2>4. (succ(front) + (size - 1)) % Capacity = slot(size)
      <3>1. /\ succ(front) \in Index
            /\ succ(front) = IF front + 1 < Capacity THEN front + 1 ELSE 0
        BY SuccValue DEF Inv, TypeOK
      <3>2. (succ(front) + (size - 1)) % Capacity
              = IF succ(front) + (size - 1) < Capacity
                THEN succ(front) + (size - 1)
                ELSE succ(front) + (size - 1) - Capacity
        BY <2>2, <3>1, WrapOnce, CapacityAssumption
      <3>3. slot(size) = IF front + size < Capacity
                         THEN front + size ELSE front + size - Capacity
        BY <2>2, SlotValue, CapacityAssumption DEF Inv
      <3> QED
        BY <2>2, <3>1, <3>2, <3>3, CapacityAssumption DEF Inv, TypeOK, Index
    <2>5. RearIsLast'
      BY <2>1, <2>4 DEF Inv, RearIsLast, succ, slot
    <2> QED
      BY <2>3, <2>5 DEF Inv
  <1> QED
    BY <1>1, <1>2

LEMMA PeekInv == ASSUME Inv, peek PROVE Inv'
  BY DEF Inv, TypeOK, RearIsLast, peek, isEmpty, ring, succ, slot

\* queue.c keeps its fields in range and rear on the last live slot, whatever
\* the calls: the ring's type invariant and RearIsLast for every capacity.
THEOREM RingInvariant == Spec => [](TypeOK /\ RearIsLast)
  <1>1. Inv /\ [Next]_vars => Inv'
    <2> SUFFICES ASSUME Inv, [Next]_vars PROVE Inv'
      OBVIOUS
    <2>1. ASSUME NEW item \in Items, enqueue(item) PROVE Inv'
      BY <2>1, EnqueueInv
    <2>2. CASE dequeue
      BY <2>2, DequeueInv
    <2>3. CASE peek
      BY <2>3, PeekInv
    <2>4. CASE UNCHANGED vars
      BY <2>4 DEF vars, Inv, TypeOK, RearIsLast, succ, slot
    <2> QED
      BY <2>1, <2>2, <2>3, <2>4 DEF Next
  <1> QED
    BY InitInv, <1>1, PTL DEF Spec, Inv

\* The slot after rear is always the one size places after front, so size alone
\* tells a full ring from an empty one, for every capacity.
THEOREM RearAndSizeAgree == Spec => []RearIsLast
BY RingInvariant, PTL
-----------------------------------------------------------------------------
\* The initial ring is the full pool 0 .. Capacity-1 of the abstract FIFO.
LEMMA InitRefines == Init => Abstract!AInit
  <1> SUFFICES ASSUME Init PROVE Abstract!AInit
    OBVIOUS
  <1>1. TypeOK
    BY InitInv DEF Inv
  <1>2. \A k \in 1 .. Capacity : arr[slot(k - 1)] = k - 1
    BY <1>1, SlotValue, CapacityAssumption DEF Init, make_queue, Index
  <1>3. live = [k \in 1 .. Capacity |-> k - 1]
    BY <1>2 DEF live, Init, make_queue
  <1> QED
    BY <1>3 DEF Abstract!AInit, Abstract!Empty, Empty, Init, make_queue

\* enqueue appends to the live window, or drops the item when it is full.
LEMMA EnqueueRefines ==
    ASSUME Inv, Inv', NEW item \in Items, enqueue(item)
    PROVE  Abstract!AEnqueue(item)
  <1>1. CASE isFull
    <2>1. live' = live /\ ret' = ret
      BY <1>1 DEF live, slot, enqueue, vars, isFull
    <2> QED
      BY <1>1, <2>1, LiveIsSeq DEF Inv, LiveWindow, Abstract!AEnqueue, isFull
  <1>2. CASE ~isFull
    <2>1. /\ rear' = slot(size) /\ arr' = [arr EXCEPT ![slot(size)] = item]
          /\ size' = size + 1 /\ front' = front /\ ret' = ret
      BY <1>2 DEF enqueue, Inv, RearIsLast
    <2>2. size \in 0 .. Capacity - 1
      BY <1>2, CapacityAssumption DEF Inv, TypeOK, isFull
    <2>3. ASSUME NEW k \in 1 .. size PROVE arr'[slot(k - 1)] = arr[slot(k - 1)]
      <3>1. slot(k - 1) # slot(size) /\ slot(k - 1) \in Index
        BY <2>2, SlotInjective, SlotValue, CapacityAssumption DEF Inv
      <3> QED
        BY <2>1, <3>1 DEF Inv, TypeOK
    <2>4. arr'[slot(size)] = item
      BY <2>1, <2>2, SlotValue, CapacityAssumption DEF Inv, TypeOK
    <2>5. \A k \in Int : slot(k)' = slot(k)
      BY <2>1 DEF slot
    <2>6. /\ live' \in Seq(Items) /\ Len(live') = size + 1
          /\ \A k \in 1 .. size + 1 : live'[k] = arr'[slot(k - 1)]
      <3>1. LiveWindow'
        BY LiveIsSeq, PTL DEF Inv
      <3> QED
        BY <2>1, <2>5, <3>1 DEF LiveWindow
    <2>7. live' = Append(live, item)
      <3>1. Append(live, item) \in Seq(Items) /\ Len(Append(live, item)) = size + 1
        BY LiveIsSeq, AppendProperties DEF Inv, LiveWindow
      <3>2. ASSUME NEW k \in 1 .. size + 1
            PROVE  live'[k] = Append(live, item)[k]
        <4>1. /\ live \in Seq(Items) /\ Len(live) = size
              /\ \A i \in 1 .. size : live[i] = arr[slot(i - 1)]
          BY LiveIsSeq DEF Inv, LiveWindow
        <4>2. live'[k] = arr'[slot(k - 1)]
          BY <2>6
        <4>3. CASE k = size + 1
          <5>1. k - 1 = size /\ Append(live, item)[k] = item
            BY <4>1, <4>3, <2>2, AppendProperties
          <5> QED
            BY <4>2, <5>1, <2>4
        <4>4. CASE k # size + 1
          <5>1. k \in 1 .. size
            BY <4>4, <2>2
          <5>2. Append(live, item)[k] = live[k]
            BY <4>1, <5>1, <2>2, AppendProperties
          <5> QED
            BY <4>1, <4>2, <5>1, <5>2, <2>3
        <4> QED
          BY <4>3, <4>4
      <3> QED
        BY <2>6, <3>1, <3>2, SeqEqual
    <2> QED
      BY <1>2, <2>1, <2>2, <2>7, LiveIsSeq DEF Inv, LiveWindow, Abstract!AEnqueue
  <1> QED
    BY <1>1, <1>2

\* The item at front is the head of the live window.
LEMMA FrontIsHead ==
    ASSUME Inv, ~isEmpty
    PROVE  live # << >> /\ Head(live) = arr[front] /\ size \in 1 .. Capacity
  <1>1. size \in 1 .. Capacity
    BY CapacityAssumption DEF Inv, TypeOK, isEmpty
  <1>2. slot(0) = front
    BY SlotValue, CapacityAssumption DEF Inv, TypeOK, Index
  <1>3. live # << >>
    BY <1>1, LiveIsSeq, EmptySeq DEF Inv, LiveWindow
  <1>4. live[1] = arr[slot(1 - 1)]
    BY <1>1, LiveIsSeq DEF Inv, LiveWindow
  <1> QED
    BY <1>1, <1>2, <1>3, <1>4

LEMMA EmptyLive == ASSUME Inv, isEmpty PROVE live = << >>
  <1>1. live \in Seq(Items) /\ Len(live) = 0
    BY LiveIsSeq DEF Inv, LiveWindow, isEmpty
  <1> QED
    BY <1>1, EmptySeq

\* dequeue removes the head of the live window, or answers Empty.
LEMMA DequeueRefines == ASSUME Inv, Inv', dequeue PROVE Abstract!ADequeue
  <1>1. CASE isEmpty
    <2>1. live' = live /\ ret' = Empty
      BY <1>1 DEF live, slot, dequeue, ring
    <2> QED
      BY <1>1, <2>1, EmptyLive DEF Abstract!ADequeue, Abstract!Empty, Empty
  <1>2. CASE ~isEmpty
    <2>1. /\ ret' = arr[front] /\ front' = succ(front)
          /\ size' = size - 1 /\ arr' = arr
      BY <1>2 DEF dequeue
    <2>2. size \in 1 .. Capacity /\ live # << >> /\ Head(live) = arr[front]
      BY <1>2, FrontIsHead
    <2>3. LiveWindow'
      BY LiveIsSeq, PTL DEF Inv
    <2>4. ASSUME NEW k \in 1 .. size - 1 PROVE slot(k - 1)' = slot(k)
      <3>1. /\ succ(front) \in Index
            /\ succ(front) = IF front + 1 < Capacity THEN front + 1 ELSE 0
        BY SuccValue DEF Inv, TypeOK
      <3>2. slot(k - 1)' = IF succ(front) + (k - 1) < Capacity
                           THEN succ(front) + (k - 1)
                           ELSE succ(front) + (k - 1) - Capacity
        BY <2>1, <2>2, <3>1, WrapOnce, CapacityAssumption DEF slot
      <3>3. slot(k) = IF front + k < Capacity
                      THEN front + k ELSE front + k - Capacity
        BY <2>2, SlotValue, CapacityAssumption DEF Inv
      <3> QED
        BY <2>2, <3>1, <3>2, <3>3, CapacityAssumption DEF Inv, TypeOK, Index
    <2>5. live' = Tail(live)
      <3>1. /\ live' \in Seq(Items) /\ Len(live') = size - 1
            /\ \A k \in 1 .. size - 1 : live'[k] = arr[slot(k - 1)']
        BY <2>1, <2>3 DEF LiveWindow
      <3>2. /\ Tail(live) \in Seq(Items) /\ Len(Tail(live)) = size - 1
            /\ \A k \in 1 .. size - 1 : Tail(live)[k] = live[k + 1]
        BY <2>2, LiveIsSeq, HeadTailProperties DEF Inv, LiveWindow
      <3>3. ASSUME NEW k \in 1 .. size - 1 PROVE live'[k] = Tail(live)[k]
        <4>1. live[k + 1] = arr[slot((k + 1) - 1)] /\ (k + 1) - 1 = k
          BY <2>2, LiveIsSeq DEF Inv, LiveWindow
        <4> QED
          BY <2>4, <3>1, <3>2, <4>1
      <3> QED
        BY <3>1, <3>2, <3>3, SeqEqual
    <2> QED
      BY <2>1, <2>2, <2>5 DEF Abstract!ADequeue
  <1> QED
    BY <1>1, <1>2

\* front() reads the head of the live window and changes nothing.
LEMMA PeekRefines == ASSUME Inv, peek PROVE Abstract!AFront
  <1>1. live' = live
    BY DEF live, slot, peek, ring
  <1>2. CASE isEmpty
    BY <1>1, <1>2, EmptyLive DEF peek, Abstract!AFront, Abstract!Empty, Empty
  <1>3. CASE ~isEmpty
    BY <1>1, <1>3, FrontIsHead DEF peek, Abstract!AFront
  <1> QED
    BY <1>2, <1>3

\* src/queue.c implements the bounded FIFO pool: every behaviour of the ring
\* is, through the live window, a behaviour of CxFifo.
THEOREM QueueImplementsFifo == Spec => ImplementsFifo
  <1>1. Inv /\ Inv' /\ [Next]_vars => [Abstract!ANext]_(Abstract!avars)
    <2> SUFFICES ASSUME Inv, Inv', [Next]_vars
                 PROVE  [Abstract!ANext]_(Abstract!avars)
      OBVIOUS
    <2>1. ASSUME NEW item \in Items, enqueue(item) PROVE Abstract!ANext
      BY <2>1, EnqueueRefines DEF Abstract!ANext
    <2>2. CASE dequeue
      BY <2>2, DequeueRefines DEF Abstract!ANext
    <2>3. CASE peek
      BY <2>3, PeekRefines DEF Abstract!ANext
    <2>4. CASE UNCHANGED vars
      BY <2>4 DEF vars, Abstract!avars, live, slot
    <2> QED
      BY <2>1, <2>2, <2>3, <2>4 DEF Next
  <1>2. Spec => []Inv
    BY RingInvariant, PTL DEF Inv
  <1> QED
    BY InitRefines, <1>1, <1>2, PTL DEF Spec, ImplementsFifo, Abstract!ASpec
=============================================================================
