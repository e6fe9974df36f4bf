----------------------------- MODULE CxDispatch -----------------------------
(***************************************************************************)
(* zoo/exports.c and the CX_* macros of utils.h: a custom instruction      *)
(* picks a function pointer by the CX of the selector and the function id, *)
(* calls it, and turns what it returns into a value and flags.  The helper *)
(* that does so is the emulator's, outside src/; it is modelled from       *)
(* tests/if_flag_test.c, utils.h and exports.c.  A program has opened one  *)
(* context and runs one instruction after the other.                       *)
(*                                                                         *)
(* The contexts are accumulators; the vector CXs 4 and 5 have the table    *)
(* form of mulacc's and their words are CxVector's subject.                *)
(***************************************************************************)
EXTENDS Mulacc, Scalar
NN == INSTANCE NnAcc

CONSTANTS XLEN,       \* bits of a word
          Pow2,       \* the powers of two up to 2^XLEN, as a function
          Cxs,        \* the CXs a program opens
          CFs,        \* the function ids of its instructions, 10-bit immediates
          Operands,   \* the operands of each CX's instructions
          Few,        \* the operands while a flag is raised, and where no function of the CX runs
          Garbage     \* results of a function that returns none, or that is not one

P == INSTANCE PExt

Cx == 0 .. NUM_CX - 1

\* muldiv, addsub, mulacc, p-ext, vector twice, max, nn_acc
registered(mulacc) == [c \in Cx |->
    <<CX_MULDIV_NUM_FUNCS, CX_ADDSUB_NUM_FUNCS, mulacc, P!CX_PEXT_NUM_FUNCS, 4, 4,
      CX_MAX_NUM_FUNCS, NN!CX_NN_ACC_NUM_FUNCS>>[c + 1]]

\* Fault: mulacc is registered with one function too many.
num_cfs_mulacc == registered(CX_MULACC_NUM_FUNCS + 1)

num_cfs == registered(CX_MULACC_NUM_FUNCS)
num_states == [c \in Cx |-> IF c \in {2, 4, 5, 7} THEN 2 ELSE 0]
stateful(c) == num_states[c] # 0

MAX_CF_IDS == 1024

\* A word has four narrow lanes, and Pow2 is what its comment says.
ASSUME PowersAssumption ==
    /\ XLEN \in Nat \ {0} /\ XLEN % 4 = 0
    /\ Pow2 \in [0 .. XLEN -> Nat \ {0}]
    /\ Pow2[0] = 1 /\ Pow2[1] = 2 /\ Pow2[XLEN] = 2 * Half
    /\ \A i, j \in 0 .. XLEN : i + j <= XLEN => Pow2[i + j] = Pow2[i] * Pow2[j]
ASSUME DispatchAssumption ==
    /\ Half >= 19
    /\ Cxs \subseteq Cx \ {4, 5}
    /\ CFs \subseteq 0 .. MAX_CF_IDS - 1
    /\ Operands \in [Cxs -> SUBSET Word]
    /\ Few \subseteq Word /\ Garbage \subseteq Word

SYSTEM == 1020 .. MAX_CF_IDS - 1

\* The initialisers of each function array.  The arrays of the stateless CXs end
\* there; init_cx_func_* fills the others up to the system functions.
initialisers == [c \in Cx |-> <<2, 7, 5, 6, 4, 4, 1, 3>>[c + 1]]

\* What the array of c holds at cf once cx_init_funcs has run.
entry(c, cf) ==
    CASE cf < initialisers[c] -> IF c = 1 /\ cf = 1 THEN "NULL" ELSE "function"
      [] cf >= initialisers[c] /\ stateful(c) -> IF cf \in SYSTEM THEN "system" ELSE "undefined"
      [] cf >= initialisers[c] /\ ~stateful(c) -> "outside"

VARIABLES cx,         \* the CX whose context the program opened and selected
          valid,      \* the selector is open; CX_INVALID_SELECTOR after a close
          ctx,        \* that context, when the CX is stateful
          cxs,        \* CX_STATUS, the flags raised
          call,       \* the instruction that has just run
          written     \* history: the data last written back and not used since

vars == <<cx, valid, ctx, cxs, call, written>>

NoCall == [cf |-> -1]
NoValue == INT32_MAX + 1
Call(cf, a, b, e, r, rd) == [cf |-> cf, a |-> a, b |-> b, entry |-> e, r |-> r, rd |-> rd]

\* The system functions of the two accumulators.
read_status(c) == IF cx = 7 THEN NN!nn_acc_read_status_func(c) ELSE mulacc_read_status_func(c)
write_status(c, dc) == IF cx = 7 THEN NN!nn_acc_write_status_func(c, cx_stctxs(1, dc, 1))
                                 ELSE mulacc_write_status_func(c, cx_stctxs(1, dc, 1))
read_state(c, index) == IF cx = 7 THEN NN!nn_acc_read_state_func(c, index)
                                  ELSE mulacc_read_state_func(c, index)
write_state(c, index, value) == IF cx = 7 THEN NN!nn_acc_write_state_func(c, index, value)
                                          ELSE mulacc_write_state_func(c, index, value)

Init == /\ cx \in Cxs
        /\ valid = TRUE
        /\ ctx = write_status(off_context, CX_PRECLEAN)
        /\ cxs = {}
        /\ call = NoCall
        /\ written = NoValue
-----------------------------------------------------------------------------
unsigned(a) == a % (2 * Half)
signed(u) == Wrap(u)

\* What an entry that is no function of the CX may return: the undefined functions
\* -1, a call past the array whatever follows it does.
stray(cf) == IF entry(cx, cf) = "undefined" THEN {-1} ELSE Garbage

\* What the entry at cf may return, and the context it leaves.
outcomes(cf, a, b) ==
    LET stateless(rs) == {Outcome(r, ctx) : r \in rs}
    IN  IF entry(cx, cf) # "function" THEN stateless(stray(cf))
        ELSE CASE cx = 0 -> stateless({cx_func_muldiv(cf, a, b)})
               [] cx = 1 -> stateless({cx_func_addsub(cf, a, b)})
               [] cx = 2 -> {cx_func_mulacc(cf, ctx, a, b)}
               [] cx = 3 -> stateless({signed(r) : r \in P!cx_func_pext(cf, unsigned(a), unsigned(b))})
               [] cx = 6 -> stateless({max_func(a, b)})
               [] cx = 7 -> {NN!cx_func_nn_acc(cf, ctx, a, b)}

raise(flags) == cxs' = cxs \cup flags

\* The selector's table entry is CX_INVALID_SELECTOR: no function is looked up.
Refused(cf, a, b) ==
    /\ ~valid
    /\ raise({"IV", "IC", "IS"})
    /\ call' = Call(cf, a, b, "refused", -1, -1)
    /\ UNCHANGED <<cx, valid, ctx, written>>

off(cf) == stateful(cx) /\ ctx.dc = CX_OFF /\ cf \notin SYSTEM
in_range(cf) == cf < num_cfs[cx] \/ (stateful(cx) /\ cf \in SYSTEM)

\* A NULL entry is not called (utils.h:36).
NullEntry(cf, a, b) ==
    /\ valid
    /\ in_range(cf)
    /\ entry(cx, cf) = "NULL"
    /\ raise({"IF"})
    /\ call' = Call(cf, a, b, "NULL", -1, -1)
    /\ UNCHANGED <<cx, valid, ctx, written>>

\* An id past num_cfs raises IF and falls through to the call (if_flag_test.c:13):
\* of an undefined function, or, when the CX is stateless, of whatever memory lies
\* past its array (exports.c:46-47), from which any word may come back.
FallThrough(cf, a, b) ==
    /\ valid
    /\ ~in_range(cf)
    /\ \E o \in outcomes(cf, a, b) :
          /\ ctx' = o.ctx
          /\ raise({"IF"} \cup flags_of(o.ret) \cup IF off(cf) THEN {"OF"} ELSE {})
          /\ call' = Call(cf, a, b, entry(cx, cf), o.ret, value_of(o.ret))
    /\ UNCHANGED <<cx, valid, written>>

custom(cf) == /\ valid
              /\ in_range(cf)
              /\ cf \notin SYSTEM
              /\ entry(cx, cf) # "NULL"

\* A context that is OFF raises OF; whether its function runs then is the
\* emulator's choice.
Stopped(cf, a, b) ==
    /\ custom(cf)
    /\ off(cf)
    /\ raise({"OF"})
    /\ call' = Call(cf, a, b, "refused", -1, -1)
    /\ UNCHANGED <<cx, valid, ctx, written>>

Function(cf, a, b) ==
    /\ custom(cf)
    /\ (cx = 0 /\ cf = 1) => div_defined(a, b)
    /\ \E o \in outcomes(cf, a, b) :
          /\ ctx' = o.ctx
          /\ raise(flags_of(o.ret) \cup IF off(cf) THEN {"OF"} ELSE {})
          /\ call' = Call(cf, a, b, entry(cx, cf), o.ret, value_of(o.ret))
    /\ written' = NoValue
    /\ UNCHANGED <<cx, valid>>

system(cf) == valid /\ stateful(cx) /\ cf \in SYSTEM

\* CX_WRITE_STATE(index, value), id 1020.  The function ends without a return
\* for index 0, so its result is whatever the build leaves in the register.
CX_WRITE_STATE(index, value) ==
    /\ system(1020)
    /\ ctx' = write_state(ctx, index, value)
    /\ \E r \in IF index = 0 THEN Garbage ELSE {-1} :
          /\ raise(flags_of(r))
          /\ call' = Call(1020, index, value, entry(cx, 1020), r, value_of(r))
    /\ written' = IF index = 0 THEN value ELSE written
    /\ UNCHANGED <<cx, valid>>

\* CX_READ_STATE(index), id 1021: the macro passes the index first, the
\* accumulators take it from the second operand, 0.
CX_READ_STATE(index) ==
    /\ system(1021)
    /\ LET r == read_state(ctx, 0)
       IN  /\ raise(flags_of(r))
           /\ call' = Call(1021, index, 0, entry(cx, 1021), r, value_of(r))
    /\ UNCHANGED <<cx, valid, ctx, written>>

\* CX_WRITE_STATUS(status), id 1022
CX_WRITE_STATUS(dc) ==
    /\ system(1022)
    /\ ctx' = write_status(ctx, dc)
    /\ call' = Call(1022, dc, 0, entry(cx, 1022), 0, 0)
    /\ written' = IF dc = CX_PRECLEAN THEN NoValue ELSE written
    /\ UNCHANGED <<cx, valid, cxs>>

\* CX_READ_STATUS(), id 1023
CX_READ_STATUS ==
    /\ system(1023)
    /\ LET r == read_status(ctx)
       IN  call' = Call(1023, 0, 0, entry(cx, 1023), r, r)
    /\ UNCHANGED <<cx, valid, ctx, cxs, written>>

\* cx_close: the selector the program keeps names a closed entry.
cx_close ==
    /\ valid
    /\ valid' = FALSE
    /\ UNCHANGED <<cx, ctx, cxs, call, written>>

\* cx_open and cx_sel of the same CX again; the kernel calls write_status of a
\* stateful CX without a check of its table.
cx_open ==
    /\ ~valid
    /\ valid' = TRUE
    /\ ctx' = write_status(ctx, CX_PRECLEAN)
    /\ call' = IF stateful(cx) THEN Call(1022, CX_PRECLEAN, 0, entry(cx, 1022), 0, 0) ELSE NoCall
    /\ written' = NoValue
    /\ UNCHANGED <<cx, cxs>>

cx_error_clear ==
    /\ cxs' = {}
    /\ UNCHANGED <<cx, valid, ctx, call, written>>

\* The program takes the result and goes on.
Continue ==
    /\ call # NoCall
    /\ call' = NoCall
    /\ UNCHANGED <<cx, valid, ctx, cxs, written>>

NoFunction(cf, a, b) == \/ Refused(cf, a, b)
                        \/ NullEntry(cf, a, b)
                        \/ FallThrough(cf, a, b)
                        \/ Stopped(cf, a, b)
Inputs == IF cxs = {} THEN Operands[cx] ELSE Few

Next ==
    \/ /\ call = NoCall
       /\ \/ \E cf \in CFs : \/ \E a, b \in Inputs : Function(cf, a, b)
                             \/ \E a, b \in Few : NoFunction(cf, a, b)
          \/ \E index \in 0 .. 1, value \in Inputs : CX_WRITE_STATE(index, value)
          \/ \E index \in 0 .. 1 : CX_READ_STATE(index)
          \/ \E dc \in CX_CS : CX_WRITE_STATUS(dc)
          \/ CX_READ_STATUS
          \/ cx_close
          \/ cx_open
          \/ cx_error_clear
    \/ Continue

Spec == Init /\ [][Next]_vars
-----------------------------------------------------------------------------
TypeOK == /\ cx \in Cxs
          /\ valid \in BOOLEAN
          /\ ctx \in Context
          /\ cxs \subseteq cx_status_t
          /\ written \in Word \cup {NoValue}
          /\ call # NoCall => call.rd \in Word \/ call.cf = 1023

\* An instruction whose entry is NULL, undefined or past the end of a function
\* array never runs without a flag, and cx_open, which checks nothing, finds the
\* write_status function of every stateful CX: num_cfs, num_states, the lengths of
\* the arrays and what init_cx_func_* fills in agree, in six files.
WildCallsShow ==
    call # NoCall /\ call.entry \in {"NULL", "undefined", "outside"} => "IF" \in cxs

\* A result without a flag is the exact one, up to the width of a word; when it
\* is lost to a reserved word, a flag says so (utils.h:31-53).
ScalarsExact ==
    LET a == call.a
        b == call.b
        same(v, w) == (v - w) % (2 * Half) = 0
        abs(v) == IF v < 0 THEN -v ELSE v
        exact(x) == CASE cx = 0 /\ call.cf = 0 -> same(x, a * b)
                      [] cx = 0 /\ call.cf = 1 -> /\ abs(a - x * b) < abs(b)
                                                 /\ abs(x * b) <= abs(a)
                      [] cx = 1 /\ call.cf = 0 -> same(x, a + b)
                      [] cx = 1 /\ call.cf = 2 -> same(x, a - b)
                      [] cx = 1 /\ call.cf = 4 -> same(x, a + b + 1000)
                      [] cx = 6 -> x \in {a, b} /\ a <= x /\ b <= x
                      [] OTHER -> FALSE
    IN  call # NoCall /\ call.entry = "function" /\ cx \in {0, 1, 6} =>
            IF call.r \in Reserved THEN cxs \cap {"IF", "OP", "CU"} # {}
                                   ELSE exact(call.rd)

\* The lanes of a packed operation do not reach into one another.
LanesAreIndependent ==
    call # NoCall /\ call.entry = "function" /\ cx = 3 =>
        P!lanes_ok(call.cf, unsigned(call.a), unsigned(call.b), unsigned(call.r))

\* Data written back with CX_WRITE_STATE, and marked CLEAN or DIRTY, is what
\* CX_READ_STATE gives until it is computed on; a reserved word at least shows
\* as a flag.
ReadBack ==
    call # NoCall /\ call.cf = 1021 /\ call.entry = "system" /\ written # NoValue =>
        call.rd = written \/ (written \in Reserved /\ cxs \cap {"IF", "OP", "CU"} # {})
=============================================================================
