---------------------------- MODULE MulaccProofs ----------------------------
(***************************************************************************)
(* Facts about the words of utils.h and about the functions of the mulacc  *)
(* that the proofs about the components rest on.                           *)
(***************************************************************************)
EXTENDS Mulacc, TLAPS

\* The status word carries the size and the dc bits unharmed.
LEMMA StatusDecodes ==
    ASSUME NEW size \in Nat, size < 65536, NEW dc \in CX_CS
    PROVE  /\ GET_CX_STATE_SIZE(cx_stctxs(size, dc, 1)) = size
           /\ GET_CX_DATA_CLEAN(cx_stctxs(size, dc, 1)) = dc
<1>1. dc \in {0, 1, 2, 3}
    BY DEF CX_CS, CX_OFF, CX_PRECLEAN, CX_CLEAN, CX_DIRTY
<1>2. cx_stctxs(size, dc, 1) = size + 67108864 * dc + 268435456
    BY <1>1 DEF cx_stctxs
<1> QED
    BY <1>1, <1>2 DEF GET_CX_STATE_SIZE, GET_CX_DATA_CLEAN, GET_BITS

LEMMA WrapInWord == \A n \in Int : Wrap(n) \in Word
BY HalfAssumption DEF Wrap, Word

LEMMA ZeroInWord == 0 \in Word
BY HalfAssumption DEF Word

\* A bare member of the enum, read as a status word, has its dc bits clear.
LEMMA StatusBits ==
    GET_CX_DATA_CLEAN(CX_PRECLEAN) = CX_OFF /\ GET_CX_DATA_CLEAN(CX_DIRTY) = CX_OFF
BY DEF GET_CX_DATA_CLEAN, GET_BITS, CX_PRECLEAN, CX_DIRTY, CX_OFF

\* A status write leaves a context, whatever word is written.
LEMMA WriteStatusInContext ==
    ASSUME NEW c \in Context, NEW w \in Nat
    PROVE  mulacc_write_status_func(c, w) \in Context
<1>1. w \div 67108864 \in Nat
    OBVIOUS
<1>2. \A n \in Nat : n % 4 \in {0, 1, 2, 3}
    OBVIOUS
<1>3. GET_CX_DATA_CLEAN(w) \in CX_CS
    BY <1>1, <1>2 DEF GET_CX_DATA_CLEAN, GET_BITS, CX_CS, CX_OFF, CX_PRECLEAN,
                      CX_CLEAN, CX_DIRTY
<1> QED
    BY <1>3, ZeroInWord DEF mulacc_write_status_func, reset_func, Outcome, Context,
                            CX_CS

\* A custom function leaves a context.
LEMMA ComputeInContext ==
    ASSUME NEW cf \in 0 .. CX_MULACC_NUM_FUNCS - 1, NEW c \in Context,
           NEW a \in Int, NEW b \in Int
    PROVE  cx_func_mulacc(cf, c, a, b).ctx \in Context
<1>1. c.data \in Int /\ c.data \in Word /\ a * b \in Int
    BY HalfAssumption DEF Context, Word
<1>2. Wrap(a * b) \in Int
    BY <1>1, WrapInWord, HalfAssumption DEF Word
<1>3. Wrap(c.data + Wrap(a * b)) \in Word
    BY <1>1, <1>2, WrapInWord
<1>4. cf \in {0, 1, 2, 3, 4}
    BY DEF CX_MULACC_NUM_FUNCS
<1> QED
    BY <1>1, <1>3, <1>4, ZeroInWord DEF cx_func_mulacc, mac_func, reset_func,
       do_nothing, zero_mac_func, read_acc_func, Outcome, Context, CX_CS,
       CX_DIRTY, CX_CLEAN
=============================================================================
