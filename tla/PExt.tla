--------------------------------- MODULE PExt -------------------------------
(***************************************************************************)
(* zoo/p-ext/p-ext_func.c: packed arithmetic.  A word of XLEN bits holds   *)
(* XLEN/n lanes of n bits; the source has n = 16 and n = 8 with XLEN = 32, *)
(* here n = XLEN/2 and n = XLEN/4.  Words and masks are naturals below     *)
(* 2^XLEN, the int32_t operands their two's-complement readings.           *)
(***************************************************************************)
EXTENDS Integers

CONSTANTS XLEN,
          Pow2        \* Pow2[i] = 2^i, for i up to XLEN

\* The value an n-bit signed variable takes when assigned v.
int_n(v, n) == LET f == v % Pow2[n] IN IF f >= Pow2[n - 1] THEN f - Pow2[n] ELSE f

\* GET_BITS of lane i, assigned to a signed lane variable.
lane(x, i, n) == int_n((x \div Pow2[i * n]) % Pow2[n], n)

\* Fault: the mask is not applied, and the sign of v runs into the lanes above.
put_unmasked(acc, v, i, n) == (acc + v * Pow2[i * n]) % Pow2[XLEN]

\* result |= (v << i * n) & mask: the low n bits of v, which may be negative, in
\* the bits of lane i, which are clear in acc.
put(acc, v, i, n) == acc + (v % Pow2[n]) * Pow2[i * n]

\* The loop the six functions share, f[i] being the value for lane i: two rounds
\* for the wide lanes, four for the narrow ones.
pack(f, n) ==
    LET pair == put(put(0, f[0], 0, n), f[1], 1, n)
    IN  IF n = XLEN \div 2 THEN pair ELSE put(put(pair, f[2], 2, n), f[3], 3, n)

LanesOf(n) == 0 .. XLEN \div n - 1

add_func(x, y, n)  == pack([i \in LanesOf(n) |-> int_n(lane(x, i, n) + lane(y, i, n), n)], n)
smul_func(x, y, n) == pack([i \in LanesOf(n) |-> int_n(lane(x, i, n) * lane(y, i, n), n)], n)

\* sa keeps 8 bits for the wide lanes (counts up to 8 * XLEN - 1) and 4 for the
\* narrow ones (XLEN \div 2 - 1); a shift of an int by XLEN or more is undefined
\* and leaves whatever count the build applies.
sa_bits(y, n) == IF n = XLEN \div 2 THEN y % (8 * XLEN) ELSE y % (XLEN \div 2)
sra_func(x, count, n) == pack([i \in LanesOf(n) |-> lane(x, i, n) \div Pow2[count]], n)
sra(x, y, n) == {sra_func(x, count, n) :
                    count \in IF sa_bits(y, n) < XLEN THEN {sa_bits(y, n)}
                                                      ELSE 0 .. XLEN - 1}

CX_PEXT_NUM_FUNCS == 6
width(cf) == IF cf < 3 THEN XLEN \div 2 ELSE XLEN \div 4

\* The three operations, on wide lanes (0 to 2) and on narrow ones (3 to 5).
cx_func_pext(cf, x, y) ==
    CASE cf % 3 = 0 -> {add_func(x, y, width(cf))}
      [] cf % 3 = 1 -> sra(x, y, width(cf))
      [] cf % 3 = 2 -> {smul_func(x, y, width(cf))}
-----------------------------------------------------------------------------
\* Each lane of the result is the operation on the same lane of the operands,
\* wrapped to the lane; a defined shift fills with the sign.
lanes_ok(cf, x, y, result) ==
    LET n == width(cf)
        L(w, i) == lane(w, i, n)
        same(v, w) == (v - w) % Pow2[n] = 0
        shifted(r, v, count) == r * Pow2[count] <= v /\ v < (r + 1) * Pow2[count]
    IN  \A i \in LanesOf(n) :
            CASE cf % 3 = 0 -> same(L(result, i), L(x, i) + L(y, i))
              [] cf % 3 = 1 -> sa_bits(y, n) < XLEN =>
                                   shifted(L(result, i), L(x, i), sa_bits(y, n))
              [] cf % 3 = 2 -> same(L(result, i), L(x, i) * L(y, i))
=============================================================================
