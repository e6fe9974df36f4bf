---------------------------- MODULE CxVectorProofs --------------------------
(***************************************************************************)
(* Virtual vector contexts keep their registers while they are moved word  *)
(* by word, for every number of contexts and states and every size of the  *)
(* register file.                                                          *)
(***************************************************************************)
EXTENDS CxVector, TLAPS

File == [Regs -> [Lanes -> UWord]]

LEMMA Sizes == /\ NUM_REGS \in Nat /\ 1 <= NUM_REGS /\ NUM_REGS <= 4
               /\ VL \in Nat /\ 1 <= VL
               /\ STATE_SIZE \in Nat /\ STATE_SIZE = VL * NUM_REGS
               /\ 1 <= STATE_SIZE /\ STATE_SIZE < 65536
<1>1. /\ NUM_REGS \in {1, 2, 3, 4}
      /\ VL \in Nat /\ 1 <= VL
    BY VectorAssumption
<1>2. /\ STATE_SIZE = VL * NUM_REGS
      /\ STATE_SIZE < 65536
    BY VectorAssumption DEF STATE_SIZE
<1> QED
    BY <1>1, <1>2

\* The status word carries the size and the dc bits unharmed.
LEMMA StatusDecodes ==
    ASSUME NEW size \in Nat, size < 65536, NEW dc \in CX_CS
    PROVE  /\ GET_CX_STATE_SIZE(cx_stctxs(size, dc, 1)) = size
           /\ GET_CX_DATA_CLEAN(cx_stctxs(size, dc, 1)) = dc
<1>1. dc \in {0, 1, 2, 3}
    BY DEF CX_CS, CX_OFF, CX_PRECLEAN, CX_CLEAN, CX_DIRTY
<1>2. cx_stctxs(size, dc, 1) = size + 67108864 * dc + 268435456
    BY <1>1 DEF cx_stctxs
<1> QED
    BY <1>1, <1>2 DEF GET_CX_STATE_SIZE, GET_CX_DATA_CLEAN, GET_BITS

LEMMA Euclid ==
    ASSUME NEW k \in Nat
    PROVE  /\ k \div VL \in Nat
           /\ k % VL \in Lanes
           /\ k = VL * (k \div VL) + (k % VL)
BY Sizes DEF Lanes

\* A product of a smaller factor leaves room for a lane.
LEMMA Room ==
    ASSUME NEW r \in Nat, NEW n \in Nat, r < n
    PROVE  VL * r + VL <= VL * n
<1>1. PICK d \in Nat : n = r + 1 + d
    <2>1. n - r - 1 \in Nat /\ n = r + 1 + (n - r - 1)
        OBVIOUS
    <2> QED
        BY <2>1
<1>2. VL * n = VL * r + VL + VL * d
    BY <1>1, Sizes
<1>3. VL * d \in Nat /\ VL * r \in Nat
    BY Sizes
<1> QED
    BY <1>2, <1>3, Sizes

\* Every word of the state lies in one lane of one register, ...
LEMMA Located ==
    ASSUME NEW k \in Words
    PROVE  /\ k \div VL \in Regs
           /\ k % VL \in Lanes
           /\ reg_of(k) = k \div VL
           /\ k = VL * (k \div VL) + (k % VL)
<1> DEFINE q == k \div VL
<1>1. /\ k \in Nat /\ k < VL * NUM_REGS
    BY Sizes DEF Words
<1>2. /\ q \in Nat
      /\ k % VL \in Lanes
      /\ k = VL * q + (k % VL)
    BY <1>1, Euclid
<1> HIDE DEF q
<1>3. q < NUM_REGS
    <2>1. SUFFICES ASSUME NUM_REGS <= q PROVE FALSE
        BY <1>2, Sizes
    <2>2. VL * NUM_REGS <= VL * q
        <3>1. CASE NUM_REGS = q
            BY <3>1, <1>2, Sizes
        <3>2. CASE NUM_REGS < q
            <4>1. VL * NUM_REGS + VL <= VL * q
                BY <3>2, <1>2, Room, Sizes
            <4>2. VL * NUM_REGS \in Nat /\ VL * q \in Nat
                BY <1>2, Sizes
            <4> QED
                BY <4>1, <4>2, Sizes
        <3> QED
            BY <2>1, <3>1, <3>2, <1>2, Sizes
    <2>3. VL * q \in Nat /\ VL * NUM_REGS \in Nat /\ k % VL \in Nat
        BY <1>2, Sizes DEF Lanes
    <2> QED
        BY <2>2, <2>3, <1>1, <1>2
<1>4. q \in Regs /\ q % 4 = q
    BY <1>2, <1>3, Sizes DEF Regs
<1> QED
    BY <1>2, <1>4 DEF reg_of, q

\* ... and every lane of every register is a word of it.
LEMMA Indexed ==
    ASSUME NEW r \in Regs, NEW i \in Lanes
    PROVE  \E k \in Words : k \div VL = r /\ k % VL = i
<1> DEFINE k == VL * r + i
<1>1. /\ r \in Nat /\ r < NUM_REGS
      /\ i \in Nat /\ i < VL
    BY Sizes DEF Regs, Lanes
<1>2. VL * r \in Nat /\ VL * r + VL <= VL * NUM_REGS
    BY <1>1, Room, Sizes
<1>3. k \in Nat /\ k < VL * NUM_REGS
    BY <1>1, <1>2, Sizes
<1>4. k \in Words
    BY <1>3, Sizes DEF Words
<1> DEFINE q == k \div VL
           l == k % VL
<1>5. /\ q \in Nat /\ l \in Nat /\ l < VL
      /\ VL * r + i = VL * q + l
    BY <1>3, Euclid, Sizes DEF Lanes
<1> HIDE DEF q, l, k
<1>6. VL * q \in Nat
    BY <1>5, Sizes
<1>7. ~(q < r)
    BY <1>1, <1>2, <1>5, <1>6, Room, Sizes
<1>8. ~(r < q)
    BY <1>1, <1>2, <1>5, <1>6, Room, Sizes
<1>9. q = r
    BY <1>1, <1>5, <1>7, <1>8
<1>10. l = i
    BY <1>1, <1>2, <1>5, <1>9
<1> QED
    BY <1>4, <1>9, <1>10 DEF q, l

\* A register file is known by its words.
LEMMA WordsDetermine ==
    ASSUME NEW f \in File, NEW g \in File, words(f) = words(g)
    PROVE  f = g
<1>1. ASSUME NEW r \in Regs, NEW i \in Lanes
      PROVE  f[r][i] = g[r][i]
    <2>1. PICK k \in Words : k \div VL = r /\ k % VL = i
        BY Indexed
    <2>2. words(f)[k] = f[r][i] /\ words(g)[k] = g[r][i]
        BY <2>1 DEF words
    <2> QED
        BY <2>2
<1>2. ASSUME NEW r \in Regs PROVE f[r] = g[r]
    BY <1>1 DEF File
<1> QED
    BY <1>2 DEF File

LEMMA FileWords == ASSUME NEW f \in File
                   PROVE  words(f) \in [Words -> UWord]
BY Located DEF words, File

\* What CX_READ_STATE and CX_WRITE_STATE do to the words of a context.
LEMMA ReadWord ==
    ASSUME NEW c \in Context, NEW k \in Words
    PROVE  vector_read_state_func(c, k) = words(c.regs)[k]
<1>1. ~(k >= STATE_SIZE)
    BY Sizes DEF Words
<1>2. reg_of(k) = k \div VL
    BY Located
<1> QED
    BY <1>1, <1>2 DEF vector_read_state_func, idx_of, words

LEMMA WriteWord ==
    ASSUME NEW c \in Context, NEW k \in Words, NEW w \in UWord
    PROVE  LET d == vector_write_state_func(c, k, w)
           IN  /\ d \in Context
               /\ d.dc = c.dc
               /\ words(d.regs) = [words(c.regs) EXCEPT ![k] = w]
<1> DEFINE q == k \div VL
           l == k % VL
           d == vector_write_state_func(c, k, w)
           f == [c.regs EXCEPT ![q][l] = w]
<1>1. ~(k >= STATE_SIZE)
    BY Sizes DEF Words
<1>2. /\ q \in Regs /\ l \in Lanes
      /\ reg_of(k) = q
    BY Located
<1>3. d = [c EXCEPT !.regs = f]
    BY <1>1, <1>2 DEF vector_write_state_func, idx_of
<1>4. c.regs \in File /\ c.dc \in CX_CS /\ c = [dc |-> c.dc, regs |-> c.regs]
    BY DEF Context, File
<1>5. f \in File
    BY <1>2, <1>4 DEF File
<1>6. d = [dc |-> c.dc, regs |-> f]
    BY <1>3, <1>4
<1>7. ASSUME NEW j \in Words
      PROVE  words(f)[j] = IF j = k THEN w ELSE words(c.regs)[j]
    <2>1. /\ j \div VL \in Regs /\ j % VL \in Lanes
          /\ j = VL * (j \div VL) + (j % VL)
          /\ k = VL * (k \div VL) + (k % VL)
        BY Located
    <2>2. words(f)[j] = f[j \div VL][j % VL] /\ words(c.regs)[j] = c.regs[j \div VL][j % VL]
        BY DEF words
    <2>3. CASE j = k
        BY <2>2, <2>3, <1>2, <1>4 DEF File
    <2>4. CASE j # k
        <3>1. j \div VL # q \/ j % VL # l
            BY <2>1, <2>4
        <3> QED
            BY <3>1, <2>1, <2>2, <2>4, <1>2, <1>4 DEF File
    <2> QED
        BY <2>3, <2>4
<1>8. words(f) = [words(c.regs) EXCEPT ![k] = w]
    BY <1>7 DEF words
<1> HIDE DEF f
<1> QED
    BY <1>4, <1>5, <1>6, <1>8 DEF Context, File

\* Writing PRECLEAN leaves the registers and a DIRTY context, CLEAN a CLEAN one;
\* the status word gives size and dc back.
LEMMA StatusFuncs ==
    ASSUME NEW c \in Context
    PROVE  /\ vector_write_status_func(c, status(CX_PRECLEAN)) = [c EXCEPT !.dc = CX_DIRTY]
           /\ vector_write_status_func(c, status(CX_CLEAN)) = [c EXCEPT !.dc = CX_CLEAN]
           /\ GET_CX_STATE_SIZE(vector_read_status_func(c)) = STATE_SIZE
           /\ GET_CX_DATA_CLEAN(vector_read_status_func(c)) = c.dc
<1>1. \A dc \in CX_CS : /\ GET_CX_STATE_SIZE(status(dc)) = STATE_SIZE
                        /\ GET_CX_DATA_CLEAN(status(dc)) = dc
    BY StatusDecodes, Sizes DEF status
<1>2. CX_PRECLEAN \in CX_CS /\ CX_CLEAN \in CX_CS /\ CX_PRECLEAN # CX_CLEAN /\ c.dc \in CX_CS
    BY DEF CX_CS, CX_PRECLEAN, CX_CLEAN, Context
<1>3. vector_read_status_func(c) = status(c.dc)
    BY DEF vector_read_status_func, status
<1> QED
    BY <1>1, <1>2, <1>3 DEF vector_write_status_func, reset_func
-----------------------------------------------------------------------------
(***************************************************************************)
(* The invariant.  A move is described by how far it has come: the words   *)
(* below move.next are the same in the CXU and in the image.               *)
(***************************************************************************)

\* Loaded contexts are open, in one slot each, and report CLEAN or DIRTY.
OneSlot ==
    \A s \in Slots : resident[s] # None =>
        /\ resident[s] \in opened
        /\ cxu[s].dc \in {CX_CLEAN, CX_DIRTY}
        /\ \A t \in Slots : resident[t] = resident[s] => t = s

Copied(s, v) == \A k \in Words : k < move.next => image[v][k] = words(cxu[s].regs)[k]

Saving == /\ move.slot \in Slots
          /\ resident[move.slot] # None
          /\ cxu[move.slot].dc = CX_DIRTY
          /\ Copied(move.slot, resident[move.slot])

Restoring == /\ move.slot \in Slots
             /\ resident[move.slot] = None
             /\ move.to \in opened
             /\ ~loaded(move.to)
             /\ Copied(move.slot, move.to)

MoveOK == /\ move.phase = "idle" => move = NoMove
          /\ move.phase = "save" => Saving
          /\ move.phase = "restore" => Restoring

\* A context out of the CXU has its registers in its image.
Kept == \A v \in opened : ~loaded(v) => image[v] = words(regs[v])
InSlot == \A s \in Slots : resident[s] # None => cxu[s].regs = regs[resident[s]]

VInv == TypeOK /\ OneSlot /\ MoveOK /\ Kept /\ InSlot /\ CleanMatchesImage

LEMMA InvImplies == VInv => RegistersFollow
BY NoneAssumption DEF VInv, Kept, InSlot, RegistersFollow, loaded, TypeOK

LEMMA StatusValues == /\ CX_OFF # CX_CLEAN /\ CX_OFF # CX_DIRTY
                      /\ CX_CLEAN # CX_DIRTY /\ {CX_OFF, CX_CLEAN, CX_DIRTY} \subseteq CX_CS
BY DEF CX_CS, CX_OFF, CX_CLEAN, CX_DIRTY, CX_PRECLEAN

LEMMA Zeros == /\ 0 \in UWord /\ 0 \in Words
               /\ off_context \in Context
               /\ off_context.regs \in File
               /\ [k \in Words |-> 0] = words(off_context.regs)
<1>1. 0 \in UWord
    BY HalfAssumption DEF UWord
<1>2. 0 \in Words
    BY Sizes DEF Words
<1> QED
    BY <1>1, <1>2, Located DEF off_context, Context, File, words, CX_CS

LEMMA InitInv == Init => VInv
<1> SUFFICES ASSUME Init PROVE VInv
    OBVIOUS
<1> USE DEF Init
<1>1. TypeOK
    BY Zeros DEF TypeOK, NoMove, File
<1>2. OneSlot /\ InSlot /\ CleanMatchesImage /\ Kept
    BY DEF OneSlot, InSlot, CleanMatchesImage, Kept
<1>3. MoveOK
    BY DEF MoveOK, NoMove
<1> QED
    BY <1>1, <1>2, <1>3 DEF VInv

\* A step that leaves the slot of the move, its words and its contexts alone
\* leaves the move as it was.
LEMMA MoveUntouched ==
    ASSUME VInv, UNCHANGED move,
           move # NoMove => /\ cxu'[move.slot] = cxu[move.slot]
                            /\ resident'[move.slot] = resident[move.slot]
                            /\ resident[move.slot] # None =>
                                  image'[resident[move.slot]] = image[resident[move.slot]]
                            /\ move.to \in opened => /\ image'[move.to] = image[move.to]
                                                     /\ move.to \in opened'
                                                     /\ ~loaded(move.to) => ~loaded(move.to)'
    PROVE  MoveOK'
<1>1. move.phase = "idle" => move = NoMove
    BY DEF VInv, MoveOK
<1>2. ASSUME move.phase = "save" PROVE Saving'
    <2>1. Saving /\ move # NoMove
        BY <1>2 DEF VInv, MoveOK, NoMove
    <2> QED
        BY <2>1 DEF Saving, Copied
<1>3. ASSUME move.phase = "restore" PROVE Restoring'
    <2>1. Restoring /\ move # NoMove
        BY <1>3 DEF VInv, MoveOK, NoMove
    <2> QED
        BY <2>1 DEF Restoring, Copied
<1>4. NoMove' = NoMove
    BY DEF NoMove
<1> QED
    BY <1>1, <1>2, <1>3, <1>4 DEF MoveOK

LEMMA OpenKeeps ==
    ASSUME VInv, NEW v \in Virts, NEW s \in Slots, cx_open(v, s)
    PROVE  VInv'
<1> USE DEF cx_open
<1> DEFINE c == [cxu[s] EXCEPT !.dc = CX_DIRTY]
<1>1. /\ cxu[s] \in Context
      /\ cxu' = [cxu EXCEPT ![s] = c]
    BY StatusFuncs DEF VInv, TypeOK
<1>2. c \in Context /\ c.dc = CX_DIRTY /\ c.regs = cxu[s].regs /\ c.regs \in File
    BY <1>1, StatusValues DEF Context, File
<1> HIDE DEF c
<1>3. cxu'[s] = c /\ \A t \in Slots : t # s => cxu'[t] = cxu[t]
    BY <1>1, <1>2 DEF VInv, TypeOK
<1>4. v # None /\ ~loaded(v)
    BY NoneAssumption DEF VInv, OneSlot, loaded
<1>5. TypeOK'
    BY <1>1, <1>2, <1>3 DEF VInv, TypeOK, File
<1>6. OneSlot'
    <2> SUFFICES ASSUME NEW t \in Slots, resident'[t] # None
                 PROVE  /\ resident'[t] \in opened'
                        /\ cxu'[t].dc \in {CX_CLEAN, CX_DIRTY}
                        /\ \A u \in Slots : resident'[u] = resident'[t] => u = t
        BY DEF OneSlot
    <2>1. CASE t = s
        BY <2>1, <1>2, <1>3, <1>4 DEF VInv, TypeOK, loaded
    <2>2. CASE t # s
        BY <2>2, <1>3, <1>4 DEF VInv, OneSlot, TypeOK, loaded
    <2> QED
        BY <2>1, <2>2
<1>7. MoveOK'
    <2>1. ASSUME move # NoMove PROVE move.slot \in Slots
        BY <2>1 DEF VInv, MoveOK, TypeOK, Saving, Restoring
    <2>2. ASSUME move # NoMove
          PROVE  /\ cxu'[move.slot] = cxu[move.slot]
                 /\ resident'[move.slot] = resident[move.slot]
        BY <2>1, <2>2, <1>3 DEF VInv, TypeOK
    <2>3. ASSUME move.to \in opened, ~loaded(move.to) PROVE ~loaded(move.to)'
        BY <2>3 DEF loaded, VInv, TypeOK
    <2> QED
        BY <2>2, <2>3, MoveUntouched
<1>8. Kept'
    <2> SUFFICES ASSUME NEW u \in opened', ~loaded(u)' PROVE image[u] = words(regs'[u])
        BY DEF Kept, words
    <2>1. u # v
        BY DEF VInv, TypeOK, loaded
    <2>2. u \in opened /\ u \in Virts /\ regs'[u] = regs[u]
        BY <2>1 DEF VInv, TypeOK
    <2>3. ~loaded(u)
        BY <1>4, <2>2, NoneAssumption DEF VInv, TypeOK, loaded
    <2> QED
        BY <2>2, <2>3 DEF VInv, Kept
<1>9. InSlot'
    BY <1>2, <1>3, <1>4 DEF VInv, InSlot, OneSlot, TypeOK, loaded
<1>10. CleanMatchesImage'
    BY <1>2, <1>3, <1>4, StatusValues DEF VInv, CleanMatchesImage, TypeOK, words
<1> QED
    BY <1>5, <1>6, <1>7, <1>8, <1>9, <1>10 DEF VInv

\* A context that is CLEAN can be dropped: its image has its registers.
LEMMA EvictKeeps ==
    ASSUME VInv, NEW s \in Slots, evict(s)
    PROVE  VInv'
<1> USE DEF evict
<1> DEFINE v == resident[s]
           m == [slot |-> s, to |-> None, phase |-> "save", next |-> 0]
<1>1. GET_CX_DATA_CLEAN(vector_read_status_func(cxu[s])) = cxu[s].dc
    BY StatusFuncs DEF VInv, TypeOK
<1>2. /\ v \in opened /\ v \in Virts
      /\ cxu[s].dc \in {CX_CLEAN, CX_DIRTY}
      /\ \A t \in Slots : resident[t] = v => t = s
    BY DEF VInv, OneSlot, TypeOK
<1>3. CASE cxu[s].dc = CX_DIRTY
    <2>1. move' = m /\ resident' = resident
        BY <1>1, <1>3
    <2>2. TypeOK'
        BY <2>1, Zeros DEF VInv, TypeOK
    <2>3. OneSlot' /\ Kept' /\ InSlot' /\ CleanMatchesImage'
        BY <2>1 DEF VInv, OneSlot, Kept, InSlot, CleanMatchesImage, loaded, words
    <2>4. Saving'
        BY <2>1, <1>3 DEF Saving, Copied, Words
    <2> QED
        BY <2>1, <2>2, <2>3, <2>4 DEF VInv, MoveOK
<1>4. CASE cxu[s].dc # CX_DIRTY
    <2>1. move' = NoMove /\ resident' = [resident EXCEPT ![s] = None]
        BY <1>1, <1>4
    <2>2. TypeOK'
        BY <2>1, Zeros DEF VInv, TypeOK, NoMove
    <2>3. OneSlot' /\ InSlot' /\ CleanMatchesImage'
        BY <2>1 DEF VInv, OneSlot, InSlot, CleanMatchesImage, TypeOK, words
    <2>4. MoveOK'
        BY <2>1 DEF MoveOK, NoMove
    <2>5. image[v] = words(regs[v])
        BY <1>2, <1>4 DEF VInv, CleanMatchesImage, InSlot
    <2>6. Kept'
        BY <2>1, <2>5 DEF VInv, Kept, TypeOK, loaded, words
    <2> QED
        BY <2>2, <2>3, <2>4, <2>6 DEF VInv
<1> QED
    BY <1>3, <1>4

LEMMA SaveKeeps ==
    ASSUME VInv, save_word
    PROVE  VInv'
<1> USE DEF save_word
<1> DEFINE s == move.slot
           k == move.next
           v == resident[s]
           last == k + 1 = STATE_SIZE
<1>1. /\ Saving /\ s \in Slots /\ k \in Words /\ v \in Virts
      /\ cxu[s] \in Context /\ cxu[s].regs \in File
    BY DEF VInv, MoveOK, Saving, TypeOK, Context, File
<1>2. /\ image' = [image EXCEPT ![v][k] = words(cxu[s].regs)[k]]
      /\ move' = IF last THEN NoMove ELSE [move EXCEPT !.next = k + 1]
      /\ resident' = IF last THEN [resident EXCEPT ![s] = None] ELSE resident
    BY <1>1, ReadWord, StatusFuncs
<1>3. /\ v \in opened
      /\ \A t \in Slots : resident[t] = v => t = s
    BY <1>1 DEF VInv, OneSlot, Saving
<1>4. words(cxu[s].regs) \in [Words -> UWord]
    BY <1>1, FileWords
<1>5. /\ \A u \in Virts : u # v => image'[u] = image[u]
      /\ \A j \in Words : image'[v][j] = IF j = k THEN words(cxu[s].regs)[k] ELSE image[v][j]
      /\ image' \in [Virts -> [Words -> UWord]]
    BY <1>1, <1>2, <1>4 DEF VInv, TypeOK
<1>6. \A j \in Words : j < k + 1 => image'[v][j] = words(cxu[s].regs)[j]
    BY <1>1, <1>5 DEF Saving, Copied, Words
<1>7. TypeOK'
    <2>1. k \in Nat /\ k < STATE_SIZE
        BY <1>1, Sizes DEF Words
    <2>2. ~last => k + 1 \in Words
        BY <2>1, Sizes DEF Words
    <2>3. move' \in [slot : Slots \cup {None}, to : Virts \cup {None},
                     phase : {"idle", "save", "restore"}, next : Words]
        BY <1>2, <2>2, Zeros DEF VInv, TypeOK, NoMove
    <2> QED
        BY <1>2, <1>5, <2>3 DEF VInv, TypeOK
<1>8. OneSlot'
    BY <1>2 DEF VInv, OneSlot, TypeOK
<1>9. InSlot'
    BY <1>2 DEF VInv, InSlot, TypeOK
<1>10. CleanMatchesImage'
    BY <1>1, <1>2, <1>3, <1>5, StatusValues
       DEF VInv, CleanMatchesImage, TypeOK, words, Saving
<1>11. ASSUME last PROVE image'[v] = words(regs[v])
    <2>1. \A j \in Words : j < k + 1
        BY <1>11, Sizes DEF Words
    <2>2. image'[v] \in [Words -> UWord]
        BY <1>1, <1>5
    <2>3. image'[v] = words(cxu[s].regs)
        BY <1>4, <1>6, <2>1, <2>2
    <2> QED
        BY <2>3, <1>1 DEF VInv, InSlot, Saving
<1>12. Kept'
    <2> SUFFICES ASSUME NEW u \in opened, ~loaded(u)' PROVE image'[u] = words(regs[u])
        BY DEF Kept, words
    <2>1. CASE u = v
        BY <2>1, <1>1, <1>2, <1>11 DEF loaded
    <2>2. CASE u # v
        BY <2>2, <1>2, <1>5 DEF VInv, Kept, TypeOK, loaded
    <2> QED
        BY <2>1, <2>2
<1>13. MoveOK'
    <2>1. CASE last
        BY <2>1, <1>2 DEF MoveOK, NoMove
    <2>2. CASE ~last
        <3>1. /\ move'.slot = s /\ move'.phase = "save" /\ move'.next = k + 1
              /\ resident' = resident
            BY <2>2, <1>2 DEF VInv, TypeOK
        <3>2. Saving'
            BY <3>1, <1>1, <1>6 DEF Saving, Copied, words
        <3> QED
            BY <3>1, <3>2 DEF MoveOK
    <2> QED
        BY <2>1, <2>2
<1> QED
    BY <1>7, <1>8, <1>9, <1>10, <1>12, <1>13 DEF VInv

LEMMA RestoreKeeps ==
    ASSUME VInv, NEW v \in Virts, NEW s \in Slots, restore(v, s)
    PROVE  VInv'
<1> USE DEF restore
<1>1. TypeOK'
    BY Zeros DEF VInv, TypeOK
<1>2. OneSlot' /\ Kept' /\ InSlot' /\ CleanMatchesImage'
    BY DEF VInv, OneSlot, Kept, InSlot, CleanMatchesImage, loaded, words
<1>3. Restoring'
    BY DEF Restoring, Copied, Words, loaded
<1> QED
    BY <1>1, <1>2, <1>3 DEF VInv, MoveOK

LEMMA RestoreWordKeeps ==
    ASSUME VInv, restore_word
    PROVE  VInv'
<1> USE DEF restore_word
<1> DEFINE s == move.slot
           k == move.next
           v == move.to
           w == image[v][k]
           c == vector_write_state_func(cxu[s], k, w)
           d == [c EXCEPT !.dc = CX_CLEAN]
           last == k + 1 = STATE_SIZE
<1>1. /\ Restoring /\ s \in Slots /\ k \in Words /\ v \in opened /\ v \in Virts
      /\ cxu[s] \in Context /\ cxu[s].regs \in File
      /\ image[v] \in [Words -> UWord] /\ w \in UWord
    BY DEF VInv, MoveOK, Restoring, TypeOK, Context, File
<1>2. /\ c \in Context
      /\ words(c.regs) = [words(cxu[s].regs) EXCEPT ![k] = w]
    BY <1>1, WriteWord
<1>3. /\ cxu' = [cxu EXCEPT ![s] = IF last THEN d ELSE c]
      /\ move' = IF last THEN NoMove ELSE [move EXCEPT !.next = k + 1]
      /\ resident' = IF last THEN [resident EXCEPT ![s] = v] ELSE resident
    BY <1>1, <1>2, StatusFuncs
<1> HIDE DEF c
<1>4. /\ d \in Context /\ d.dc = CX_CLEAN /\ d.regs = c.regs /\ c.regs \in File
    BY <1>2, StatusValues DEF Context, File
<1> HIDE DEF d
<1>5. /\ cxu'[s] = IF last THEN d ELSE c
      /\ \A t \in Slots : t # s => cxu'[t] = cxu[t]
      /\ cxu' \in [Slots -> Context]
    BY <1>1, <1>2, <1>3, <1>4 DEF VInv, TypeOK
<1>6. words(cxu[s].regs) \in [Words -> UWord]
    BY <1>1, FileWords
<1>7. ASSUME NEW j \in Words, j < k + 1 PROVE image[v][j] = words(c.regs)[j]
    <2>1. j = k \/ (j < k /\ j # k)
        BY <1>1, <1>7, Sizes DEF Words
    <2>2. words(c.regs)[j] = IF j = k THEN w ELSE words(cxu[s].regs)[j]
        BY <1>1, <1>2, <1>6
    <2>3. j < k => image[v][j] = words(cxu[s].regs)[j]
        BY <1>1 DEF Restoring, Copied
    <2> QED
        BY <2>1, <2>2, <2>3
<1>8. /\ resident[s] = None /\ ~loaded(v) /\ v # None
    BY <1>1, NoneAssumption DEF Restoring
<1>9. ASSUME last PROVE words(c.regs) = image[v] /\ c.regs = regs[v]
    <2>1. \A j \in Words : j < k + 1
        BY <1>9, Sizes DEF Words
    <2>2. words(c.regs) \in [Words -> UWord]
        BY <1>4, FileWords
    <2>3. words(c.regs) = image[v]
        BY <1>1, <1>7, <2>1, <2>2
    <2>4. image[v] = words(regs[v]) /\ regs[v] \in File
        BY <1>1, <1>8 DEF VInv, Kept, TypeOK, File
    <2> QED
        BY <2>3, <2>4, <1>4, WordsDetermine
<1>10. TypeOK'
    <2>1. k \in Nat /\ k < STATE_SIZE
        BY <1>1, Sizes DEF Words
    <2>2. ~last => k + 1 \in Words
        BY <2>1, Sizes DEF Words
    <2>3. move' \in [slot : Slots \cup {None}, to : Virts \cup {None},
                     phase : {"idle", "save", "restore"}, next : Words]
        BY <1>3, <2>2, Zeros DEF VInv, TypeOK, NoMove
    <2>4. resident' \in [Slots -> Virts \cup {None}]
        BY <1>1, <1>3 DEF VInv, TypeOK
    <2> QED
        BY <1>5, <2>3, <2>4 DEF VInv, TypeOK
<1>11. CASE last
    <2>1. resident' = [resident EXCEPT ![s] = v] /\ cxu'[s] = d /\ move' = NoMove
        BY <1>3, <1>5, <1>11
    <2>2. OneSlot'
        <3> SUFFICES ASSUME NEW t \in Slots, resident'[t] # None
                     PROVE  /\ resident'[t] \in opened'
                            /\ cxu'[t].dc \in {CX_CLEAN, CX_DIRTY}
                            /\ \A u \in Slots : resident'[u] = resident'[t] => u = t
            BY DEF OneSlot
        <3>1. CASE t = s
            BY <3>1, <2>1, <1>1, <1>4, <1>8 DEF VInv, TypeOK, loaded
        <3>2. CASE t # s
            BY <3>2, <2>1, <1>5, <1>8 DEF VInv, OneSlot, TypeOK, loaded
        <3> QED
            BY <3>1, <3>2
    <2>3. InSlot'
        BY <2>1, <1>4, <1>5, <1>9, <1>11 DEF VInv, InSlot, TypeOK
    <2>4. CleanMatchesImage'
        <3> SUFFICES ASSUME NEW t \in Slots, resident'[t] # None, cxu'[t].dc = CX_CLEAN
                     PROVE  image[resident'[t]] = words(cxu'[t].regs)
            BY DEF CleanMatchesImage, words
        <3>1. CASE t = s
            BY <3>1, <2>1, <1>1, <1>4, <1>9, <1>11 DEF VInv, TypeOK
        <3>2. CASE t # s
            BY <3>2, <2>1, <1>5 DEF VInv, CleanMatchesImage, TypeOK
        <3> QED
            BY <3>1, <3>2
    <2>5. Kept'
        <3> SUFFICES ASSUME NEW u \in opened, ~loaded(u)' PROVE image[u] = words(regs[u])
            BY DEF Kept, words
        <3>1. ~loaded(u)
            <4>1. u \in Virts /\ u # None
                BY NoneAssumption DEF VInv, TypeOK
            <4> QED
                BY <4>1, <2>1, <1>8 DEF VInv, TypeOK, loaded
        <3> QED
            BY <3>1 DEF VInv, Kept
    <2>6. MoveOK'
        BY <2>1 DEF MoveOK, NoMove
    <2> QED
        BY <1>10, <2>2, <2>3, <2>4, <2>5, <2>6 DEF VInv
<1>12. CASE ~last
    <2>1. /\ resident' = resident /\ cxu'[s] = c
          /\ move'.slot = s /\ move'.to = v /\ move'.phase = "restore" /\ move'.next = k + 1
        BY <1>3, <1>5, <1>12 DEF VInv, TypeOK
    <2>2. OneSlot' /\ InSlot'
        BY <2>1, <1>5, <1>8 DEF VInv, OneSlot, InSlot
    <2>3. Kept'
        BY <2>1 DEF VInv, Kept, loaded, words
    <2>4. CleanMatchesImage'
        <3> SUFFICES ASSUME NEW t \in Slots, resident[t] # None, cxu'[t].dc = CX_CLEAN
                     PROVE  image[resident[t]] = words(cxu'[t].regs)
            BY <2>1 DEF CleanMatchesImage, words
        <3>1. cxu'[t] = cxu[t]
            BY <1>5, <1>8
        <3> QED
            BY <3>1 DEF VInv, CleanMatchesImage
    <2>5. Restoring'
        BY <2>1, <1>1, <1>7 DEF Restoring, Copied, loaded, words
    <2> QED
        BY <1>10, <2>1, <2>2, <2>3, <2>4, <2>5 DEF VInv, MoveOK
<1> QED
    BY <1>11, <1>12

LEMMA CloseKeeps ==
    ASSUME VInv, NEW v \in Virts, cx_close(v)
    PROVE  VInv'
<1> USE DEF cx_close
<1>1. /\ \A u \in Virts : u # v => image'[u] = image[u] /\ regs'[u] = regs[u]
      /\ v # None
    BY NoneAssumption DEF VInv, TypeOK
<1>2. \A t \in Slots : /\ resident[t] = v => resident'[t] = None
                       /\ resident[t] # v => resident'[t] = resident[t]
    OBVIOUS
<1>3. \A t \in Slots : resident'[t] # None => resident'[t] = resident[t] /\ resident[t] # v
    BY <1>2
<1>4. TypeOK'
    <2>1. image' \in [Virts -> [Words -> UWord]]
        BY Zeros DEF VInv, TypeOK
    <2>2. regs' \in [Virts -> File]
        BY Zeros DEF VInv, TypeOK, File
    <2> QED
        BY <2>1, <2>2 DEF VInv, TypeOK, File
<1>5. OneSlot'
    BY <1>2, <1>3 DEF VInv, OneSlot
<1>6. InSlot' /\ CleanMatchesImage'
    BY <1>1, <1>3 DEF VInv, InSlot, CleanMatchesImage, TypeOK, words
<1>7. Kept'
    BY <1>1, <1>2 DEF VInv, Kept, TypeOK, loaded, words
<1>8. MoveOK'
    <2>1. ASSUME move # NoMove
          PROVE  /\ move.to # v /\ resident[move.slot] # v
                 /\ move.slot \in Slots
        BY <2>1 DEF moving, VInv, MoveOK, TypeOK, Saving, Restoring
    <2>2. ASSUME move # NoMove
          PROVE  /\ cxu'[move.slot] = cxu[move.slot]
                 /\ resident'[move.slot] = resident[move.slot]
                 /\ resident[move.slot] # None =>
                       image'[resident[move.slot]] = image[resident[move.slot]]
        BY <2>1, <2>2, <1>1, <1>2 DEF VInv, TypeOK
    <2>3. ASSUME move # NoMove, move.to \in opened
          PROVE  /\ image'[move.to] = image[move.to]
                 /\ move.to \in opened'
                 /\ ~loaded(move.to) => ~loaded(move.to)'
        BY <2>1, <2>3, <1>1, <1>2, NoneAssumption DEF VInv, TypeOK, loaded
    <2> QED
        BY <2>2, <2>3, MoveUntouched
<1> QED
    BY <1>4, <1>5, <1>6, <1>7, <1>8 DEF VInv

\* A custom function marks the context DIRTY or leaves it as it is.
LEMMA ComputeKeeps ==
    ASSUME VInv, NEW s \in Slots, NEW c \in Context, c.dc = CX_DIRTY \/ c = cxu[s],
           Compute(s, c)
    PROVE  VInv'
<1> USE DEF Compute
<1> DEFINE v == resident[s]
<1>1. /\ v \in opened /\ v \in Virts /\ v # None
      /\ \A t \in Slots : resident[t] = v => t = s
    BY DEF VInv, OneSlot, TypeOK
<1>2. /\ cxu'[s] = c /\ \A t \in Slots : t # s => cxu'[t] = cxu[t]
      /\ regs'[v] = c.regs /\ \A u \in Virts : u # v => regs'[u] = regs[u]
    BY <1>1 DEF VInv, TypeOK
<1>3. TypeOK'
    BY <1>1 DEF VInv, TypeOK, Context
<1>4. OneSlot'
    BY <1>2 DEF VInv, OneSlot
<1>5. InSlot'
    BY <1>1, <1>2 DEF VInv, InSlot, TypeOK
<1>6. CleanMatchesImage'
    <2> SUFFICES ASSUME NEW t \in Slots, resident[t] # None, cxu'[t].dc = CX_CLEAN
                 PROVE  image[resident[t]] = words(cxu'[t].regs)
        BY DEF CleanMatchesImage, words
    <2>1. cxu'[t] = cxu[t]
        BY <1>2, StatusValues
    <2> QED
        BY <2>1 DEF VInv, CleanMatchesImage
<1>7. Kept'
    BY <1>1, <1>2 DEF VInv, Kept, TypeOK, loaded, words
<1>8. MoveOK'
    <2>1. ASSUME move # NoMove PROVE cxu'[move.slot] = cxu[move.slot]
        <3>1. move.slot \in Slots
            BY <2>1 DEF VInv, MoveOK, TypeOK, Saving, Restoring
        <3> QED
            BY <3>1, <1>2
    <2> QED
        BY <2>1, MoveUntouched DEF loaded
<1> QED
    BY <1>3, <1>4, <1>5, <1>6, <1>7, <1>8 DEF VInv

LEMMA FunctionsMark ==
    ASSUME VInv, NEW s \in Slots, NEW a \in Regs, NEW b \in Regs
    PROVE  /\ \A c \in {add_func(cxu[s], a, b), set_inc_func(cxu[s], a), set2_func(cxu[s], a)} :
                 c \in Context /\ c.dc = CX_DIRTY
           /\ reset_func(cxu[s]) \in Context /\ reset_func(cxu[s]) = cxu[s]
<1>1. cxu[s] \in Context /\ cxu[s].regs \in File /\ CX_DIRTY \in CX_CS
    BY StatusValues DEF VInv, TypeOK, Context, File
<1>2. \A n \in Nat : n % (2 * Half) \in UWord
    BY HalfAssumption DEF UWord
<1>3. \A i \in Lanes : /\ i \in Nat /\ 2 \in Nat
                       /\ (cxu[s].regs[a][i] + cxu[s].regs[b][i]) \in Nat
    BY <1>1, HalfAssumption, Sizes DEF File, Lanes, UWord
<1>4. ASSUME NEW l \in [Lanes -> UWord]
      PROVE  set_reg(cxu[s], a, l) \in Context /\ set_reg(cxu[s], a, l).dc = CX_DIRTY
    BY <1>1 DEF set_reg, Context, File
<1>5. /\ [i \in Lanes |-> (cxu[s].regs[a][i] + cxu[s].regs[b][i]) % (2 * Half)]
            \in [Lanes -> UWord]
      /\ [i \in Lanes |-> i % (2 * Half)] \in [Lanes -> UWord]
      /\ [i \in Lanes |-> 2 % (2 * Half)] \in [Lanes -> UWord]
    BY <1>2, <1>3
<1> QED
    BY <1>1, <1>4, <1>5 DEF add_func, set_inc_func, set2_func, reset_func

LEMMA NextInv == VInv /\ [Next]_vars => VInv'
<1> SUFFICES ASSUME VInv, [Next]_vars PROVE VInv'
    OBVIOUS
<1>1. CASE UNCHANGED vars
    <2> USE <1>1 DEF vars
    <2>1. TypeOK' /\ OneSlot' /\ InSlot'
        BY DEF VInv, TypeOK, OneSlot, InSlot
    <2>2. Kept' /\ CleanMatchesImage'
        BY DEF VInv, Kept, CleanMatchesImage, loaded, words
    <2>3. MoveOK'
        BY MoveUntouched DEF loaded
    <2> QED
        BY <2>1, <2>2, <2>3 DEF VInv
<1>2. ASSUME NEW v \in Virts, NEW s \in Slots, cx_open(v, s) \/ restore(v, s) PROVE VInv'
    BY <1>2, OpenKeeps, RestoreKeeps
<1>3. ASSUME NEW s \in Slots, evict(s) PROVE VInv'
    BY <1>3, EvictKeeps
<1>4. CASE save_word \/ restore_word
    BY <1>4, SaveKeeps, RestoreWordKeeps
<1>5. ASSUME NEW v \in Virts, cx_close(v) PROVE VInv'
    BY <1>5, CloseKeeps
<1>6. ASSUME NEW s \in Slots, NEW a \in Regs, NEW b \in Regs,
             \/ Compute(s, add_func(cxu[s], a, b))
             \/ Compute(s, set_inc_func(cxu[s], a))
             \/ Compute(s, set2_func(cxu[s], a))
      PROVE  VInv'
    BY <1>6, FunctionsMark, ComputeKeeps
<1>7. ASSUME NEW s \in Slots, Compute(s, reset_func(cxu[s])) PROVE VInv'
    <2>1. 0 \in Regs
        BY Sizes DEF Regs
    <2> QED
        BY <1>7, <2>1, FunctionsMark, ComputeKeeps
<1> QED
    BY <1>1, <1>2, <1>3, <1>4, <1>5, <1>6, <1>7 DEF Next

\* The invariant holds in every reachable state, in the middle of a move too.
THEOREM VectorInvariant == Spec => []VInv
BY InitInv, NextInv, PTL DEF Spec

\* Contexts, images and moves stay well formed for every size of the file.
THEOREM VectorTypeCorrect == Spec => []TypeOK
<1>1. VInv => TypeOK
    BY DEF VInv
<1> QED
    BY <1>1, VectorInvariant, PTL

\* The registers of an open context are found whole in its slot or in its
\* image, however the words of other contexts are being moved.
THEOREM RegistersAreFollowed == Spec => []RegistersFollow
BY InvImplies, VectorInvariant, PTL

\* A context that reports CLEAN equals its image word by word.
THEOREM CleanIsImage == Spec => []CleanMatchesImage
<1>1. VInv => CleanMatchesImage
    BY DEF VInv
<1> QED
    BY <1>1, VectorInvariant, PTL
=============================================================================
