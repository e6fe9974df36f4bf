------------------------------ MODULE CxPrivate -----------------------------
(***************************************************************************)
(* What virtualised contexts promise (tests/virtualization.c, ctx_test.c): *)
(* every open context owns an accumulator of its own, which starts at 0    *)
(* and changes only by the context's own custom functions, whatever the    *)
(* number of contexts that share the hardware states.                      *)
(***************************************************************************)
EXTENDS CxWords

CONSTANTS Virts,      \* the virtual contexts
          Operands

VARIABLES acc,        \* the accumulator of each open context
          out         \* what the last custom function returned

avars == <<acc, out>>
open == DOMAIN acc

AInit == acc = << >> /\ out = 0

AOpen(v) == /\ v \notin open
            /\ acc' = [w \in open \cup {v} |-> IF w = v THEN 0 ELSE acc[w]]
            /\ out' = out

AClose(v) == /\ v \in open
             /\ acc' = [w \in open \ {v} |-> acc[w]]
             /\ out' = out

\* A function leaves value in the accumulator of v and returns result.
AUse(v, value, result) == /\ v \in open
                          /\ acc' = [acc EXCEPT ![v] = value]
                          /\ out' = result

Mac(v, a, b) == LET sum == Wrap(acc[v] + Wrap(a * b)) IN AUse(v, sum, sum)
Relu(v) == LET pos == IF acc[v] < 0 THEN 0 ELSE acc[v] IN AUse(v, pos, pos)
Read(v) == AUse(v, acc[v], acc[v])
Nothing(v) == AUse(v, acc[v], 0)

ANext == \E v \in Virts :
            \/ AOpen(v)
            \/ AClose(v)
            \/ \E a, b \in Operands : Mac(v, a, b)
            \/ Relu(v)
            \/ Read(v)
            \/ Nothing(v)

ASpec == AInit /\ [][ANext]_avars
=============================================================================
