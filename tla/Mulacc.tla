------------------------------- MODULE Mulacc -------------------------------
(***************************************************************************)
(* zoo/mulacc/mulacc_func.c: the multiply-accumulate CXU.  A context is    *)
(* one state of one instance: dc, the two status bits that change, and     *)
(* data, the accumulator.  A custom function maps a context and two        *)
(* operands to its return value and the context it leaves.                 *)
(***************************************************************************)
EXTENDS CxWords

CX_MULACC_NUM_STATES == 2
CX_MULACC_STATE_SIZE == 1

Context == [dc : CX_CS, data : Word]

off_context == [dc |-> CX_OFF, data |-> 0]    \* init_cx_func_mulacc

Outcome(r, c) == [ret |-> r, ctx |-> c]

\* Fault: the product is added at full width.
mac_func_wide(c, a, b) ==
    Outcome(c.data + a * b, [dc |-> CX_DIRTY, data |-> c.data + a * b])

mac_func(c, a, b) ==
    LET sum == Wrap(c.data + Wrap(a * b))
    IN  Outcome(sum, [dc |-> CX_DIRTY, data |-> sum])

reset_func(c) == Outcome(0, [c EXCEPT !.data = 0])

zero_mac_func(c, a, b) ==
    Outcome(Wrap(c.data + Wrap(a * b)), [dc |-> CX_CLEAN, data |-> 0])

read_acc_func(c) == Outcome(c.data, [dc |-> CX_CLEAN, data |-> 0])

do_nothing(c) == Outcome(0, c)

\* The dispatch table of the custom functions 0 .. CX_MULACC_NUM_FUNCS - 1.
CX_MULACC_NUM_FUNCS == 5
cx_func_mulacc(cf, c, a, b) ==
    CASE cf = 0 -> mac_func(c, a, b)
      [] cf = 1 -> reset_func(c)
      [] cf = 2 -> do_nothing(c)
      [] cf = 3 -> zero_mac_func(c, a, b)
      [] cf = 4 -> read_acc_func(c)

\* System functions 1020-1023.  The status word reports the size of the
\* context and its dc bits.
mulacc_read_status_func(c) == cx_stctxs(CX_MULACC_STATE_SIZE, c.dc, 1)

\* Faults: PRECLEAN does not end DIRTY; PRECLEAN does not reset the data.
mulacc_write_status_func_stays(c, value) ==
    LET dc == GET_CX_DATA_CLEAN(value)
    IN  IF dc = CX_PRECLEAN THEN [dc |-> dc, data |-> 0] ELSE [c EXCEPT !.dc = dc]
mulacc_write_status_func_keeps(c, value) ==
    LET dc == GET_CX_DATA_CLEAN(value)
    IN  [c EXCEPT !.dc = IF dc = CX_PRECLEAN THEN CX_DIRTY ELSE dc]

\* Writing PRECLEAN resets the accumulator and ends DIRTY within the call;
\* the other three values are stored as they are.
mulacc_write_status_func(c, value) ==
    LET dc == GET_CX_DATA_CLEAN(value)
    IN  IF dc = CX_PRECLEAN
        THEN [reset_func(c).ctx EXCEPT !.dc = CX_DIRTY]
        ELSE [c EXCEPT !.dc = dc]

mulacc_read_state_func(c, index) == IF index = 0 THEN c.data ELSE -1

\* Fault: the value never reaches the accumulator.
mulacc_write_state_func_drops(c, index, value) == c

mulacc_write_state_func(c, index, value) ==
    IF index = 0 THEN [c EXCEPT !.data = value] ELSE c
=============================================================================
