------------------------------- MODULE Scalar -------------------------------
(***************************************************************************)
(* zoo/addsub, zoo/muldiv and zoo/max: the stateless CXUs, one expression  *)
(* a function.                                                             *)
(***************************************************************************)
EXTENDS CxFlags

add_func(a, b) == Wrap(a + b)
sub_func(a, b) == Wrap(a - b)
add_1000(a, b) == Wrap(a + b + 1000)

\* Custom function 1 is a NULL pointer; 3, 5 and 6 return reserved results.
CX_ADDSUB_NUM_FUNCS == 7
cx_func_addsub(cf, a, b) ==
    CASE cf = 0 -> add_func(a, b)
      [] cf = 2 -> sub_func(a, b)
      [] cf = 3 -> FUNC_SENTINEL_IF_INVALID_RET_0
      [] cf = 4 -> add_1000(a, b)
      [] cf = 5 -> FUNC_SENTINEL_OP_POS
      [] cf = 6 -> FUNC_SENTINEL_CU_CUSTOM_BIT(0)

mul_func(a, b) == Wrap(a * b)

\* Fault: the quotient is rounded down.
div_func_floor(a, b) == IF b > 0 THEN a \div b ELSE (-a) \div (-b)

\* C's division: towards zero.  Undefined for b = 0 and for INT_MIN / -1.
div_func(a, b) ==
    LET abs(x) == IF x < 0 THEN -x ELSE x
        q == abs(a) \div abs(b)
    IN  IF (a < 0) = (b < 0) THEN q ELSE -q
div_defined(a, b) == b # 0 /\ ~(a = INT32_MIN /\ b = -1)

CX_MULDIV_NUM_FUNCS == 2
cx_func_muldiv(cf, a, b) == IF cf = 0 THEN mul_func(a, b) ELSE div_func(a, b)

CX_MAX_NUM_FUNCS == 1
max_func(a, b) == IF a > b THEN a ELSE b
=============================================================================
