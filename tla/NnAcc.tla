-------------------------------- MODULE NnAcc -------------------------------
(***************************************************************************)
(* zoo/nn_acc/nn_acc_func.c: the neural-network accumulator CXU.  Contexts *)
(* and outcomes have the form of Mulacc's.                                 *)
(***************************************************************************)
EXTENDS CxWords

Outcome(r, c) == [ret |-> r, ctx |-> c]

nn_acc_func(c, a, b) ==
    LET sum == Wrap(c.data + Wrap(a * b))
    IN  Outcome(sum, [dc |-> CX_DIRTY, data |-> sum])

reset_func(c) == Outcome(0, [c EXCEPT !.data = 0])

\* Fault: the accumulator is clamped and the context not marked dirty.
relu_func_unmarked(c) ==
    LET pos == IF c.data < 0 THEN 0 ELSE c.data
    IN  Outcome(pos, [c EXCEPT !.data = pos])

relu_func(c) ==
    LET pos == IF c.data < 0 THEN 0 ELSE c.data
    IN  Outcome(pos, [dc |-> CX_DIRTY, data |-> pos])

CX_NN_ACC_NUM_FUNCS == 3
cx_func_nn_acc(cf, c, a, b) ==
    CASE cf = 0 -> nn_acc_func(c, a, b)
      [] cf = 1 -> reset_func(c)
      [] cf = 2 -> relu_func(c)

\* System functions 1020-1023 on the one word of state.
CX_NN_ACC_STATE_SIZE == 1
nn_acc_read_status_func(c) == cx_stctxs(CX_NN_ACC_STATE_SIZE, c.dc, 1)

nn_acc_write_status_func(c, value) ==
    LET dc == GET_CX_DATA_CLEAN(value)
    IN  IF dc = CX_PRECLEAN
        THEN [reset_func(c).ctx EXCEPT !.dc = CX_DIRTY]
        ELSE [c EXCEPT !.dc = dc]

nn_acc_read_state_func(c, index) == IF index = 0 THEN c.data ELSE -1

nn_acc_write_state_func(c, index, value) ==
    IF index = 0 THEN [c EXCEPT !.data = value] ELSE c

off_context == [dc |-> CX_OFF, data |-> 0]    \* init_cx_func_nn_acc
=============================================================================
