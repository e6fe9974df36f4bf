---------------------------- MODULE MCCxDispatch ----------------------------
(* Words of eight bits: p-ext on pairs of 128 of them, with every low half    *)
(* and eight high ones; the scalar CXUs on words at both ends and around      *)
(* zero; the accumulators on four whose products and sums stay few and meet   *)
(* reserved words.                                                            *)
EXTENDS CxDispatch

MCHalf == 128
MCXlen == 8
MCPow2 == [i \in 0 .. MCXlen |-> 2^i]
MCCxs == {0, 1, 2, 3, 6, 7}
MCCFs == 0 .. 7 \cup {500} \cup 1019 .. 1023
MCFew == {-128, 0, 8, 16}
Ends == -128 .. -125 \cup -17 .. -15 \cup -3 .. 3 \cup 15 .. 17 \cup 124 .. 127
Packed == {w \in -128 .. 127 : (w % 256) \div 16 \in {0, 1, 4, 7, 8, 11, 14, 15}}
MCOperands == [c \in MCCxs |-> CASE c = 3 -> Packed
                                 [] c \in {0, 1, 6} -> Ends
                                 [] c \in {2, 7} -> MCFew]
MCGarbage == {0, -1, 127, 126, -120}
=============================================================================
