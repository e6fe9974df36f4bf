------------------------------- MODULE Vector -------------------------------
(***************************************************************************)
(* zoo/vector/vector_func.c: the vector CXU.  A context is dc and a file   *)
(* of NUM_REGS registers of VL unsigned words; a custom function names its *)
(* registers by index and always returns 0.                                *)
(***************************************************************************)
EXTENDS CxWords

CONSTANTS NUM_REGS,   \* CX_VECTOR_NUM_REGS, 4 in the code
          VL          \* CX_VECTOR_VL, 32 in the code

\* reg_of has two bits, the status word sixteen for the size of the state.
ASSUME VectorAssumption == /\ NUM_REGS \in 1 .. 4
                           /\ VL \in Nat \ {0}
                           /\ VL * NUM_REGS < 65536

Regs == 0 .. NUM_REGS - 1
Lanes == 0 .. VL - 1
UWord == 0 .. 2 * Half - 1
STATE_SIZE == VL * NUM_REGS
Words == 0 .. STATE_SIZE - 1

Context == [dc : CX_CS, regs : [Regs -> [Lanes -> UWord]]]

\* init_cx_func_vector; the registers are static storage.
off_context == [dc |-> CX_OFF, regs |-> [r \in Regs |-> [i \in Lanes |-> 0]]]

set_reg(c, a, v) == [dc |-> CX_DIRTY, regs |-> [c.regs EXCEPT ![a] = v]]

\* Faults: the context is not marked dirty; the lanes hold sums of full width.
add_func_unmarked(c, a, b) ==
    [c EXCEPT !.regs[a] = [i \in Lanes |-> (c.regs[a][i] + c.regs[b][i]) % (2 * Half)]]
add_func_wide(c, a, b) == set_reg(c, a, [i \in Lanes |-> c.regs[a][i] + c.regs[b][i]])

add_func(c, a, b) ==
    set_reg(c, a, [i \in Lanes |-> (c.regs[a][i] + c.regs[b][i]) % (2 * Half)])
set_inc_func(c, a) == set_reg(c, a, [i \in Lanes |-> i % (2 * Half)])
set2_func(c, a) == set_reg(c, a, [i \in Lanes |-> 2 % (2 * Half)])

\* The loops of reset_func evaluate every word and assign none.
reset_func(c) == c

vector_read_status_func(c) == cx_stctxs(STATE_SIZE, c.dc, 1)

\* PRECLEAN runs reset_func once per register and ends DIRTY.
vector_write_status_func(c, value) ==
    LET dc == GET_CX_DATA_CLEAN(value)
    IN  IF dc = CX_PRECLEAN THEN [reset_func(c) EXCEPT !.dc = CX_DIRTY]
                            ELSE [c EXCEPT !.dc = dc]

\* Fault: the register index is taken modulo the lanes, not divided by them.
reg_of_modulo(index) == (index % VL) % 4

\* Where word index of the state lives.
reg_of(index) == (index \div VL) % 4
idx_of(index) == index % VL

vector_read_state_func(c, index) ==
    IF index >= STATE_SIZE THEN -1 ELSE c.regs[reg_of(index)][idx_of(index)]

vector_write_state_func(c, index, value) ==
    IF index >= STATE_SIZE THEN c
    ELSE [c EXCEPT !.regs[reg_of(index)][idx_of(index)] = value]
=============================================================================
