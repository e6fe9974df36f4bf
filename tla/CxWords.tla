------------------------------- MODULE CxWords ------------------------------
(***************************************************************************)
(* include/utils.h: the machine words the runtime and the CXUs exchange.   *)
(* Selector (cx_selidx_t):       cx_id 0..7, state_id 16..23, version      *)
(* 28..30.  Context status word (cx_stctxs_t): state_size 0..15, dc        *)
(* 26..27, version 28..30.  Both are built with their reserved bits zero.  *)
(***************************************************************************)
EXTENDS Integers

CONSTANT Half         \* int32_t is -Half .. Half-1; Half = 2^31 in the code
ASSUME HalfAssumption == Half \in Nat \ {0}

Word == -Half .. Half - 1

\* The value an int32_t holds after an assignment that overflows it: signed
\* overflow in the CXU sources wraps on the two's-complement hosts they build for.
Wrap(x) == ((x + Half) % (2 * Half)) - Half

NUM_CX == 8
MCX_VERSION == 1
CX_LEGACY == 0

\* enum CX_CS
CX_OFF == 0
CX_PRECLEAN == 1
CX_CLEAN == 2
CX_DIRTY == 3
CX_CS == {CX_OFF, CX_PRECLEAN, CX_CLEAN, CX_DIRTY}

\* GET_BITS(word, start_bit, n), given 2^start_bit and 2^n.
GET_BITS(word, low, span) == (word \div low) % span

GET_CX_ID(sel)          == GET_BITS(sel, 1, 256)
GET_CX_STATE(sel)       == GET_BITS(sel, 65536, 256)
GET_CX_DATA_CLEAN(word) == GET_BITS(word, 67108864, 4)
GET_CX_STATE_SIZE(word) == GET_BITS(word, 1, 65536)

\* The .idx view of the two unions, their fields cut to the declared widths.
cx_selidx(cx_id, state_id, version) ==
    (cx_id % 256) + 65536 * (state_id % 256) + 268435456 * (version % 8)
cx_stctxs(state_size, dc, version) ==
    (state_size % 65536) + 67108864 * (dc % 4) + 268435456 * (version % 8)
=============================================================================
