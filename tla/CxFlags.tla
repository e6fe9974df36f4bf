------------------------------- MODULE CxFlags ------------------------------
(***************************************************************************)
(* include/utils.h: the results a CXU function may not return as values.   *)
(* They lie at the two ends of int32_t and are turned into flags of the    *)
(* CX_STATUS register (cx_status_t).  The words are those of CxWords; an   *)
(* end of the range holds up to 19 reserved words, so Half >= 19.          *)
(***************************************************************************)
EXTENDS CxWords

INT32_MAX == Half - 1
INT32_MIN == -Half

FUNC_SENTINEL_OP_POS == INT32_MAX
FUNC_SENTINEL_IF_INVALID_RET_0 == INT32_MAX - 1
FUNC_SENTINEL_CU_CUSTOM_BIT(n) == IF n < 16 THEN INT32_MAX - 2 - n ELSE INT32_MIN + n - 14
FUNC_SENTINEL_OP_NEG == INT32_MIN
FUNC_SENTINEL_OP_DOMAIN == INT32_MIN + 1
FUNC_SENTINEL_IF_INVALID_RET_NEG1 == INT32_MIN + 18

OpResults == {FUNC_SENTINEL_OP_POS, FUNC_SENTINEL_OP_NEG, FUNC_SENTINEL_OP_DOMAIN}
IfResults == {FUNC_SENTINEL_IF_INVALID_RET_0, FUNC_SENTINEL_IF_INVALID_RET_NEG1}
CuResults == {FUNC_SENTINEL_CU_CUSTOM_BIT(n) : n \in 0 .. 31}
Reserved == OpResults \cup IfResults \cup CuResults

cx_status_t == {"IV", "IC", "IS", "OF", "IF", "OP", "CU"}

\* What the program gets, and the flags it finds raised, when a function
\* returns r.
flags_of(r) == CASE r \in OpResults -> {"OP"}
                 [] r \in IfResults -> {"IF"}
                 [] r \in CuResults -> {"CU"}
                 [] OTHER -> {}
value_of(r) == IF r \notin Reserved THEN r
               ELSE IF r \in {FUNC_SENTINEL_OP_POS, FUNC_SENTINEL_OP_NEG} THEN r
               ELSE IF r = FUNC_SENTINEL_IF_INVALID_RET_0 THEN 0 ELSE -1
=============================================================================
