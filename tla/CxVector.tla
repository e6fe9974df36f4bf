------------------------------ MODULE CxVector ------------------------------
(***************************************************************************)
(* Virtual contexts on the states of the vector CXU.  A context is too     *)
(* large to move in one step: the operating system, outside src/ and       *)
(* modelled from how the tests use it (vector_test.c: check_vector_regs_   *)
(* valid, virt_types.c, ctx_test.c:89-93), reads and writes it one word    *)
(* per CX_READ_STATE or CX_WRITE_STATE, for GET_CX_STATE_SIZE words, while *)
(* contexts loaded in other states go on computing.                        *)
(***************************************************************************)
EXTENDS Vector

CONSTANTS Virts,      \* the virtual contexts
          Slots,      \* the states of the CXU
          None        \* no virtual context, no slot

ASSUME NoneAssumption == None \notin Virts \cup Slots

VARIABLES cxu,        \* the contexts in the CXU, by slot
          resident,   \* the virtual context in each slot
          image,      \* the kernel's copy: STATE_SIZE words per virtual context
          opened,
          move,       \* the kernel's switch under way: slot, incoming, phase, next word
          regs        \* history: the registers as each context's functions left them

vars == <<cxu, resident, image, opened, move, regs>>
NoMove == [slot |-> None, to |-> None, phase |-> "idle", next |-> 0]

Init == /\ cxu = [s \in Slots |-> off_context]
        /\ resident = [s \in Slots |-> None]
        /\ image = [v \in Virts |-> [k \in Words |-> 0]]
        /\ opened = {}
        /\ move = NoMove
        /\ regs = [v \in Virts |-> off_context.regs]

loaded(v) == \E s \in Slots : resident[s] = v
moving(v) == move # NoMove /\ v \in {move.to, resident[move.slot]}
status(dc) == cx_stctxs(STATE_SIZE, dc, 1)

\* cx_open of a state nobody holds: the kernel writes PRECLEAN.
cx_open(v, s) ==
    /\ v \notin opened
    /\ resident[s] = None
    /\ move.slot # s
    /\ cxu' = [cxu EXCEPT ![s] = vector_write_status_func(@, status(CX_PRECLEAN))]
    /\ resident' = [resident EXCEPT ![s] = v]
    /\ opened' = opened \cup {v}
    /\ regs' = [regs EXCEPT ![v] = cxu'[s].regs]
    /\ UNCHANGED <<image, move>>

\* cx_open when all states are held, and a switch: first the eviction.
evict(s) ==
    /\ move = NoMove
    /\ resident[s] # None
    /\ LET dirty == GET_CX_DATA_CLEAN(vector_read_status_func(cxu[s])) = CX_DIRTY
       IN  /\ move' = IF dirty
                      THEN [slot |-> s, to |-> None, phase |-> "save", next |-> 0]
                      ELSE NoMove
           /\ resident' = IF dirty THEN resident ELSE [resident EXCEPT ![s] = None]
    /\ UNCHANGED <<cxu, image, opened, regs>>

save_word ==
    /\ move.phase = "save"
    /\ LET s == move.slot
           k == move.next
           last == k + 1 = GET_CX_STATE_SIZE(vector_read_status_func(cxu[s]))
       IN  /\ image' = [image EXCEPT ![resident[s]][k] = vector_read_state_func(cxu[s], k)]
           /\ move' = IF last THEN NoMove ELSE [move EXCEPT !.next = k + 1]
           /\ resident' = IF last THEN [resident EXCEPT ![s] = None] ELSE resident
    /\ UNCHANGED <<cxu, opened, regs>>

restore(v, s) ==
    /\ move = NoMove
    /\ v \in opened
    /\ ~loaded(v)
    /\ resident[s] = None
    /\ move' = [slot |-> s, to |-> v, phase |-> "restore", next |-> 0]
    /\ UNCHANGED <<cxu, resident, image, opened, regs>>

\* After the last word the status word is written CLEAN.
restore_word ==
    /\ move.phase = "restore"
    /\ LET s == move.slot
           k == move.next
           c == vector_write_state_func(cxu[s], k, image[move.to][k])
           last == k + 1 = GET_CX_STATE_SIZE(vector_read_status_func(cxu[s]))
       IN  /\ cxu' = [cxu EXCEPT ![s] =
                        IF last THEN vector_write_status_func(c, status(CX_CLEAN)) ELSE c]
           /\ move' = IF last THEN NoMove ELSE [move EXCEPT !.next = k + 1]
           /\ resident' = IF last THEN [resident EXCEPT ![s] = move.to] ELSE resident
    /\ UNCHANGED <<image, opened, regs>>

\* A context closes, and its copy is freed, while the kernel is not moving it.
cx_close(v) ==
    /\ v \in opened
    /\ ~moving(v)
    /\ opened' = opened \ {v}
    /\ image' = [image EXCEPT ![v] = [k \in Words |-> 0]]
    /\ regs' = [regs EXCEPT ![v] = off_context.regs]
    /\ resident' = [s \in Slots |-> IF resident[s] = v THEN None ELSE resident[s]]
    /\ UNCHANGED <<cxu, move>>

\* A custom function on a loaded context that the kernel is not moving.
Compute(s, c) ==
    /\ resident[s] # None
    /\ move.slot # s
    /\ cxu' = [cxu EXCEPT ![s] = c]
    /\ regs' = [regs EXCEPT ![resident[s]] = c.regs]
    /\ UNCHANGED <<resident, image, opened, move>>

Next == \/ \E v \in Virts, s \in Slots : cx_open(v, s) \/ restore(v, s)
        \/ \E s \in Slots : evict(s)
        \/ save_word
        \/ restore_word
        \/ \E v \in Virts : cx_close(v)
        \/ \E s \in Slots, a, b \in Regs : Compute(s, add_func(cxu[s], a, b))
        \/ \E s \in Slots, a \in Regs : Compute(s, set_inc_func(cxu[s], a))
        \/ \E s \in Slots, a \in Regs : Compute(s, set2_func(cxu[s], a))
        \/ \E s \in Slots : Compute(s, reset_func(cxu[s]))

Spec == Init /\ [][Next]_vars
-----------------------------------------------------------------------------
TypeOK == /\ cxu \in [Slots -> Context]
          /\ resident \in [Slots -> Virts \cup {None}]
          /\ image \in [Virts -> [Words -> UWord]]
          /\ opened \subseteq Virts
          /\ move \in [slot : Slots \cup {None}, to : Virts \cup {None},
                       phase : {"idle", "save", "restore"}, next : Words]
          /\ regs \in [Virts -> [Regs -> [Lanes -> UWord]]]

\* The words of the state in the order the kernel reads them.
words(file) == [k \in Words |-> file[k \div VL][k % VL]]

\* A context's registers are found whole where the kernel keeps them, in its
\* slot or in its image, also while other contexts are half moved.
RegistersFollow ==
    \A v \in opened :
        \/ \E s \in Slots : resident[s] = v /\ cxu[s].regs = regs[v]
        \/ ~loaded(v) /\ image[v] = words(regs[v])

\* A loaded context that reports CLEAN "matches saved copy" word by word
\* (testbench.c:24), so that evicting it may skip the save.
CleanMatchesImage ==
    \A s \in Slots :
        resident[s] # None /\ cxu[s].dc = CX_CLEAN
            => image[resident[s]] = words(cxu[s].regs)

\* Writing PRECLEAN leaves a context reset ("hw update to reset state",
\* vector_func.c:110): one that was just opened has zero registers.
OpenResets ==
    [][\A v \in Virts : v \notin opened /\ v \in opened' => regs'[v] = off_context.regs]_vars
=============================================================================
