--------------------------- MODULE CxDispatchProofs --------------------------
(***************************************************************************)
(* Proofs about CxDispatch, and the arithmetic of Scalar and PExt they     *)
(* need, for every width of word, every set of operands and every choice   *)
(* of CXs.                                                                 *)
(***************************************************************************)
EXTENDS CxDispatch, MulaccProofs

-----------------------------------------------------------------------------
(* Division and remainder *)

LEMMA DivMod ==
    ASSUME NEW b \in Nat \ {0}, NEW x \in Int
    PROVE  /\ x \div b \in Int
           /\ x % b \in 0 .. b - 1
           /\ x = b * (x \div b) + (x % b)
OBVIOUS

LEMMA DivUnique ==
    ASSUME NEW b \in Nat \ {0}, NEW q \in Int, NEW r \in 0 .. b - 1
    PROVE  (b * q + r) \div b = q /\ (b * q + r) % b = r
OBVIOUS

\* Adding a multiple of b changes nothing modulo b.
LEMMA MultipleMod ==
    ASSUME NEW b \in Nat \ {0}, NEW v \in Int, NEW k \in Int
    PROVE  /\ (v + b * k) % b = v % b
           /\ ((v + b * k) - v) % b = 0
<1> DEFINE q == v \div b
           r == v % b
<1>1. q \in Int /\ r \in 0 .. b - 1 /\ v = b * q + r
    BY DivMod
<1> HIDE DEF q, r
<1>2. q + k \in Int /\ v + b * k = b * (q + k) + r
    BY <1>1
<1>3. (v + b * k) % b = r /\ v % b = r
    BY <1>1, <1>2, DivUnique
<1>4. 0 \in 0 .. b - 1 /\ (v + b * k) - v = b * k + 0
    BY <1>1
<1>5. ((v + b * k) - v) % b = 0
    BY <1>4, DivUnique
<1> QED
    BY <1>3, <1>5

\* Words that are equal modulo b differ by a multiple of b.
LEMMA EqualMod ==
    ASSUME NEW b \in Nat \ {0}, NEW v \in Int, NEW w \in Int, v % b = w % b
    PROVE  (v - w) % b = 0
<1> DEFINE q == (v \div b) - (w \div b)
<1>1. q \in Int /\ v = w + b * q
    BY DivMod
<1> HIDE DEF q
<1> QED
    BY <1>1, MultipleMod

-----------------------------------------------------------------------------
(* Words *)

\* Assigning x to an int32_t keeps it modulo the width, and keeps a word as it is.
LEMMA WrapSame ==
    ASSUME NEW x \in Int
    PROVE  /\ Wrap(x) \in Word
           /\ (Wrap(x) - x) % (2 * Half) = 0
           /\ x \in Word => Wrap(x) = x
<1> DEFINE W == 2 * Half
           q == (x + Half) \div W
           r == (x + Half) % W
           k == -q
<1>1. W \in Nat \ {0} /\ x + Half \in Int
    BY HalfAssumption
<1>2. Wrap(x) = r - Half
    BY DEF Wrap
<1> HIDE DEF W
<1>3. q \in Int /\ r \in 0 .. W - 1 /\ x + Half = W * q + r
    BY <1>1, DivMod
<1> HIDE DEF q, r
<1>4. k \in Int /\ Wrap(x) = x + W * k
    BY <1>1, <1>2, <1>3, HalfAssumption
<1> HIDE DEF k
<1>5. (Wrap(x) - x) % W = 0
    BY <1>1, <1>4, MultipleMod
<1>6. ASSUME x \in Word PROVE Wrap(x) = x
    <2>1. x + Half \in 0 .. W - 1 /\ x + Half = W * 0 + (x + Half)
        BY <1>1, <1>6, HalfAssumption DEF Word, W
    <2>2. r = x + Half
        BY <1>1, <2>1, DivUnique DEF r
    <2> QED
        BY <1>2, <2>2, HalfAssumption
<1> QED
    BY <1>5, <1>6, WrapInWord DEF W

\* A word read as unsigned and back.
LEMMA SignedUnsigned ==
    ASSUME NEW u \in 0 .. 2 * Half - 1
    PROVE  signed(u) \in Word /\ unsigned(signed(u)) = u
<1>1. CASE u < Half
    <2>1. Wrap(u) = u
        BY <1>1, HalfAssumption DEF Wrap
    <2> QED
        BY <1>1, <2>1, HalfAssumption DEF signed, unsigned, Word
<1>2. CASE u >= Half
    <2>1. u \in Int /\ Half \in Nat /\ Half > 0
        BY HalfAssumption
    <2>2. u + Half = (2 * Half) * 1 + (u - Half) /\ u - Half \in 0 .. 2 * Half - 1
        BY <1>2, <2>1
    <2>3. 2 * Half \in Nat \ {0} /\ 1 \in Int
        BY <2>1
    <2>4. (u + Half) % (2 * Half) = u - Half
        BY <2>2, <2>3, DivUnique
    <2>5. Wrap(u) = u - 2 * Half
        BY <2>1, <2>4 DEF Wrap
    <2>6. u - 2 * Half = (2 * Half) * (-1) + u
        BY <2>1
    <2>7. (u - 2 * Half) % (2 * Half) = u
        BY <2>3, <2>6, DivUnique
    <2> QED
        BY <1>2, <2>1, <2>5, <2>7 DEF signed, unsigned, Word
<1> QED
    BY <1>1, <1>2, HalfAssumption

-----------------------------------------------------------------------------
(* Lanes *)

Wide == XLEN \div 2
Narrow == XLEN \div 4

LEMMA Widths ==
    /\ Narrow \in Nat \ {0} /\ Wide = Narrow + Narrow /\ XLEN = Wide + Wide
    /\ P!LanesOf(Wide) = {0, 1} /\ P!LanesOf(Narrow) = {0, 1, 2, 3}
<1>1. Narrow \in Nat \ {0} /\ XLEN = 4 * Narrow /\ Wide = 2 * Narrow
    BY PowersAssumption DEF Narrow, Wide
<1>2. XLEN \div Wide = 2 /\ XLEN \div Narrow = 4
    <2>1. XLEN = Wide * 2 + 0 /\ XLEN = Narrow * 4 + 0 /\ Wide \in Nat \ {0}
        BY <1>1
    <2>2. (Wide * 2 + 0) \div Wide = 2 /\ (Narrow * 4 + 0) \div Narrow = 4
        BY <1>1, <2>1, DivUnique
    <2> QED
        BY <2>1, <2>2
<1>3. P!LanesOf(Wide) = 0 .. 1 /\ P!LanesOf(Narrow) = 0 .. 3
    BY <1>2 DEF P!LanesOf
<1> QED
    BY <1>1, <1>3

\* A span and its half, and the places of the lanes.
LEMMA Spans ==
    /\ \A i \in 0 .. XLEN : Pow2[i] \in Nat \ {0}
    /\ \A n \in {Wide, Narrow} : Pow2[n - 1] \in Nat \ {0} /\ Pow2[n] = 2 * Pow2[n - 1]
    /\ \A n \in {Wide, Narrow} : Pow2[0 * n] = 1 /\ Pow2[1 * n] = Pow2[n]
    /\ Pow2[2 * Narrow] = Pow2[Narrow] * Pow2[Narrow] /\ Pow2[3 * Narrow] = Pow2[Narrow] * Pow2[Narrow] * Pow2[Narrow]
    /\ 2 * Half = Pow2[Wide] * Pow2[Wide] /\ Pow2[Wide] = Pow2[Narrow] * Pow2[Narrow]
<1>1. \A i, j \in 0 .. XLEN : i + j <= XLEN => Pow2[i + j] = Pow2[i] * Pow2[j]
    BY PowersAssumption
<1>2. \A i \in 0 .. XLEN : Pow2[i] \in Nat \ {0}
    BY PowersAssumption
<1>3. Narrow \in Nat \ {0} /\ Wide = Narrow + Narrow /\ XLEN = Wide + Wide
    BY Widths
<1>4. ASSUME NEW n \in {Wide, Narrow}
      PROVE  /\ Pow2[n - 1] \in Nat \ {0} /\ Pow2[n] = 2 * Pow2[n - 1]
             /\ Pow2[0 * n] = 1 /\ Pow2[1 * n] = Pow2[n]
    <2>1. n \in 1 .. XLEN
        BY <1>3
    <2>2. n - 1 \in 0 .. XLEN /\ 1 \in 0 .. XLEN /\ 1 + (n - 1) = n /\ 0 * n = 0 /\ 1 * n = n
        BY <2>1, PowersAssumption
    <2>3. Pow2[1 + (n - 1)] = Pow2[1] * Pow2[n - 1]
        BY <2>1, <2>2, <1>1
    <2> QED
        BY <2>2, <2>3, <1>2, PowersAssumption
<1>5. /\ Pow2[Narrow + Narrow] = Pow2[Narrow] * Pow2[Narrow]
      /\ Pow2[Wide + Wide] = Pow2[Wide] * Pow2[Wide]
      /\ Pow2[Wide + Narrow] = Pow2[Wide] * Pow2[Narrow]
    BY <1>1, <1>3
<1>6. 2 * Narrow = Narrow + Narrow /\ 3 * Narrow = Wide + Narrow
    BY <1>3
<1> QED
    BY <1>2, <1>3, <1>4, <1>5, <1>6, PowersAssumption

\* The digits of a number of two or of four digits.
LEMMA TwoDigits ==
    ASSUME NEW b \in Nat \ {0}, NEW d0 \in 0 .. b - 1, NEW d1 \in 0 .. b - 1
    PROVE  /\ d0 + d1 * b \in 0 .. b * b - 1
           /\ ((d0 + d1 * b) \div 1) % b = d0
           /\ ((d0 + d1 * b) \div b) % b = d1
<1>1. d0 + d1 * b = b * d1 + d0 /\ b * d1 \in Int /\ d0 \in Int /\ d1 \in Int
    OBVIOUS
<1>2. (b * d1 + d0) % b = d0 /\ (b * d1 + d0) \div b = d1
    BY <1>1, DivUnique
<1>3. d1 = b * 0 + d1 /\ (b * 0 + d1) % b = d1
    BY DivUnique
<1>4. b * d1 + d0 \in 0 .. b * b - 1
    <2>1. b * d1 <= b * (b - 1) /\ b * d1 >= 0
        OBVIOUS
    <2> QED
        BY <2>1
<1>5. (b * d1 + d0) \div 1 = b * d1 + d0
    OBVIOUS
<1> QED
    BY <1>1, <1>2, <1>3, <1>4, <1>5

\* w has the four digits d0 to d3 in base b.
HasDigits(w, b, d0, d1, d2, d3) ==
    /\ w \in 0 .. (b * b) * (b * b) - 1
    /\ (w \div 1) % b = d0
    /\ (w \div b) % b = d1
    /\ (w \div (b * b)) % b = d2
    /\ (w \div (b * b * b)) % b = d3

LEMMA FourDigits ==
    ASSUME NEW b \in Nat \ {0},
           NEW d0 \in 0 .. b - 1, NEW d1 \in 0 .. b - 1,
           NEW d2 \in 0 .. b - 1, NEW d3 \in 0 .. b - 1,
           NEW w, w = d0 + d1 * b + d2 * (b * b) + d3 * (b * b * b)
    PROVE  HasDigits(w, b, d0, d1, d2, d3)
<1> DEFINE c == b * b
           lo == d0 + d1 * b
           hi == d2 + d3 * b
<1>1. /\ lo \in 0 .. c - 1 /\ (lo \div 1) % b = d0 /\ (lo \div b) % b = d1
      /\ hi \in 0 .. c - 1 /\ (hi \div 1) % b = d2 /\ (hi \div b) % b = d3
    BY TwoDigits
<1>2. c \in Nat \ {0} /\ w = lo + hi * c
    OBVIOUS
<1>3. w \in 0 .. c * c - 1 /\ w % c = lo /\ w \div c = hi
    <2> HIDE DEF lo, hi, c
    <2>1. w = c * hi + lo /\ lo \in Int /\ hi \in Int
        BY <1>1, <1>2
    <2> QED
        BY <1>1, <1>2, <2>1, TwoDigits, DivUnique
<1>4. (w \div b) % b = d1
    <2>1. w = b * (d1 + b * hi) + d0
        OBVIOUS
    <2>2. w \div b = d1 + b * hi
        BY <2>1, DivUnique
    <2>3. (b * hi + d1) % b = d1 /\ d1 + b * hi = b * hi + d1
        BY DivUnique
    <2> QED
        BY <2>2, <2>3
<1>5. (w \div 1) % b = d0
    <2> DEFINE q == d1 + b * hi
    <2>1. w = b * q + d0 /\ w \in Int /\ q \in Int
        OBVIOUS
    <2> HIDE DEF q
    <2>2. w % b = d0
        BY <2>1, DivUnique
    <2>3. w \div 1 = w
        BY <2>1
    <2> QED
        BY <2>2, <2>3
<1>6. (w \div (b * b)) % b = d2
    BY <1>1, <1>3
<1>7. (w \div (b * b * b)) % b = d3
    <2>1. w = (b * b * b) * d3 + (d0 + d1 * b + d2 * (b * b)) /\ b * b * b \in Nat \ {0}
        OBVIOUS
    <2>2. d0 + d1 * b + d2 * (b * b) \in 0 .. b * b * b - 1
        OBVIOUS
    <2>3. w \div (b * b * b) = d3
        BY <2>1, <2>2, DivUnique
    <2>4. (b * 0 + d3) % b = d3 /\ d3 = b * 0 + d3
        BY DivUnique
    <2> QED
        BY <2>3, <2>4
<1> QED
    BY <1>3, <1>4, <1>5, <1>6, <1>7 DEF HasDigits

\* What a signed lane variable keeps of a value.
LEMMA LaneValue ==
    ASSUME NEW n \in {Wide, Narrow}, NEW v \in Int
    PROVE  /\ P!int_n(v, n) \in -Pow2[n - 1] .. Pow2[n - 1] - 1
           /\ (P!int_n(v, n) - v) % Pow2[n] = 0
           /\ P!int_n(v % Pow2[n], n) = P!int_n(v, n)
           /\ v \in -Pow2[n - 1] .. Pow2[n - 1] - 1 => P!int_n(v, n) = v
<1> DEFINE b == Pow2[n]
           h == Pow2[n - 1]
           q == v \div b
           r == v % b
<1>1. b \in Nat \ {0} /\ h \in Nat \ {0} /\ b = 2 * h
    BY Spans
<1>2. P!int_n(v, n) = IF r >= h THEN r - b ELSE r
    BY DEF P!int_n
<1>3. P!int_n(r, n) = IF r % b >= h THEN (r % b) - b ELSE r % b
    BY DEF P!int_n
<1> HIDE DEF b, h
<1>4. q \in Int /\ r \in 0 .. b - 1 /\ v = b * q + r
    BY <1>1, DivMod
<1> HIDE DEF q, r
<1>5. r % b = r
    <2>1. r = b * 0 + r
        BY <1>1, <1>4
    <2> QED
        BY <2>1, <1>1, <1>4, DivUnique
<1>6. P!int_n(v, n) \in -h .. h - 1
    BY <1>1, <1>2, <1>4
<1>7. (P!int_n(v, n) - v) % b = 0
    <2>1. CASE r >= h
        <3> DEFINE k == -q - 1
        <3>1. k \in Int /\ P!int_n(v, n) = v + b * k
            BY <1>1, <1>2, <1>4, <2>1
        <3> HIDE DEF k
        <3> QED
            BY <3>1, <1>1, MultipleMod
    <2>2. CASE ~(r >= h)
        <3> DEFINE k == -q
        <3>1. k \in Int /\ P!int_n(v, n) = v + b * k
            BY <1>1, <1>2, <1>4, <2>2
        <3> HIDE DEF k
        <3> QED
            BY <3>1, <1>1, MultipleMod
    <2> QED
        BY <2>1, <2>2
<1>8. ASSUME v \in -h .. h - 1 PROVE P!int_n(v, n) = v
    <2>1. CASE v >= 0
        <3>1. v = b * 0 + v /\ v \in 0 .. b - 1
            BY <1>1, <1>8, <2>1
        <3>2. r = v
            BY <3>1, <1>1, DivUnique DEF r
        <3> QED
            BY <3>2, <1>1, <1>2, <1>8
    <2>2. CASE v < 0
        <3>1. v = b * (-1) + (v + b) /\ v + b \in 0 .. b - 1
            BY <1>1, <1>8, <2>2
        <3>2. r = v + b
            BY <3>1, <1>1, DivUnique DEF r
        <3> QED
            BY <3>2, <1>1, <1>2, <1>8, <2>2
    <2> QED
        BY <2>1, <2>2
<1> QED
    BY <1>2, <1>3, <1>5, <1>6, <1>7, <1>8 DEF b, h, r

\* pack puts the value for each lane into that lane.
LEMMA PackedLanes ==
    ASSUME NEW n \in {Wide, Narrow}, NEW f \in [P!LanesOf(n) -> Int]
    PROVE  /\ P!pack(f, n) \in 0 .. 2 * Half - 1
           /\ \A i \in P!LanesOf(n) : P!lane(P!pack(f, n), i, n) = P!int_n(f[i], n)
<1> DEFINE b == Pow2[n]
           w == P!pack(f, n)
<1>1. b \in Nat \ {0} /\ Pow2[0 * n] = 1 /\ Pow2[1 * n] = b
    BY Spans, Widths
<1>2. \A i \in P!LanesOf(n) : f[i] \in Int /\ f[i] % b \in 0 .. b - 1
    BY <1>1, DivMod
<1>3. ASSUME NEW i \in P!LanesOf(n), (w \div Pow2[i * n]) % b = f[i] % b
      PROVE  P!lane(w, i, n) = P!int_n(f[i], n)
    <2>1. P!lane(w, i, n) = P!int_n(f[i] % b, n)
        BY <1>3 DEF P!lane
    <2> QED
        BY <2>1, <1>2, LaneValue
<1>4. CASE n = Wide
    <2> DEFINE d0 == f[0] % b
               d1 == f[1] % b
    <2>1. 2 * Half = b * b /\ P!LanesOf(n) = {0, 1}
        BY <1>4, Spans, Widths
    <2>2. d0 \in 0 .. b - 1 /\ d1 \in 0 .. b - 1
        BY <1>2, <2>1
    <2>3. w = d0 + d1 * b
        <3>1. w = (0 + d0 * 1) + d1 * b
            BY <1>1, <1>4 DEF P!pack, P!put, Wide
        <3> QED
            BY <3>1, <1>1, <2>2
    <2> HIDE DEF d0, d1, b, w
    <2>4. w \in 0 .. b * b - 1 /\ (w \div 1) % b = d0 /\ (w \div b) % b = d1
        BY <1>1, <2>2, <2>3, TwoDigits
    <2> QED
        BY <1>1, <1>3, <2>1, <2>4 DEF w, b, d0, d1
<1>5. CASE n = Narrow
    <2> DEFINE d == [i \in 0 .. 3 |-> f[i] % b]
    <2>1. Pow2[2 * n] = b * b /\ Pow2[3 * n] = b * b * b /\ n # Wide
        BY <1>5, Spans, Widths
    <2>2. 2 * Half = (b * b) * (b * b) /\ P!LanesOf(n) = {0, 1, 2, 3}
        BY <1>5, Spans, Widths
    <2>3. d \in [0 .. 3 -> 0 .. b - 1]
        BY <1>2, <2>2
    <2>4. w = d[0] + d[1] * b + d[2] * (b * b) + d[3] * (b * b * b)
        <3>1. w = (((0 + d[0] * 1) + d[1] * b) + d[2] * (b * b)) + d[3] * (b * b * b)
            BY <1>1, <2>1 DEF P!pack, P!put, Wide
        <3> HIDE DEF d
        <3> QED
            BY <3>1, <1>1, <2>3
    <2>5. ASSUME NEW i \in {0, 1, 2, 3} PROVE d[i] = f[i] % b
        OBVIOUS
    <2> HIDE DEF d, b, w
    <2>6. /\ w \in 0 .. (b * b) * (b * b) - 1
          /\ (w \div 1) % b = d[0] /\ (w \div b) % b = d[1]
          /\ (w \div (b * b)) % b = d[2] /\ (w \div (b * b * b)) % b = d[3]
        <3>1. b \in Nat \ {0}
            BY <1>1
        <3>2. d[0] \in 0 .. b - 1 /\ d[1] \in 0 .. b - 1 /\ d[2] \in 0 .. b - 1 /\ d[3] \in 0 .. b - 1
            BY <2>3
        <3>3. HasDigits(w, b, d[0], d[1], d[2], d[3])
            BY <3>1, <3>2, <2>4, FourDigits
        <3> QED
            BY <3>3 DEF HasDigits
    <2>7. ASSUME NEW i \in {0, 1, 2, 3}
          PROVE  (w \div Pow2[i * n]) % b = f[i] % b
        BY <1>1, <2>1, <2>5, <2>6 DEF b
    <2> QED
        BY <1>3, <2>2, <2>6, <2>7 DEF w, b
<1> QED
    BY <1>4, <1>5

\* A lane of a word holds a value of its width.
LEMMA LaneInRange ==
    ASSUME NEW n \in {Wide, Narrow}, NEW x \in Nat, NEW i \in P!LanesOf(n)
    PROVE  P!lane(x, i, n) \in -Pow2[n - 1] .. Pow2[n - 1] - 1
<1> DEFINE p == Pow2[i * n]
           b == Pow2[n]
           v == (x \div p) % b
<1>1. i * n \in 0 .. XLEN
    BY Widths
<1>2. p \in Nat \ {0} /\ b \in Nat \ {0}
    BY <1>1, Spans, Widths
<1>3. P!lane(x, i, n) = P!int_n(v, n)
    BY DEF P!lane
<1> HIDE DEF p, b
<1>4. x \div p \in Int
    BY <1>2, DivMod
<1>5. v \in Int
    BY <1>2, <1>4, DivMod
<1> HIDE DEF v
<1> QED
    BY <1>3, <1>5, LaneValue

\* An arithmetic shift right keeps a value in the range of its lane, and is the
\* quotient by a power of two rounded down.
LEMMA ShiftInRange ==
    ASSUME NEW p \in Nat \ {0}, NEW h \in Nat \ {0}, NEW v \in -h .. h - 1
    PROVE  /\ v \div p \in -h .. h - 1
           /\ (v \div p) * p <= v /\ v < (v \div p + 1) * p
<1> DEFINE q == v \div p
           r == v % p
<1>1. q \in Int /\ r \in 0 .. p - 1 /\ v = p * q + r
    BY DivMod
<1> HIDE DEF q, r
<1>2. q * p <= v /\ v < (q + 1) * p
    BY <1>1
<1>3. q >= -h
    <2> SUFFICES ASSUME q <= -h - 1 PROVE FALSE
        BY <1>1
    <2>1. p * (q + 1) <= p * (-h)
        BY <1>1
    <2>2. p * (-h) <= -h
        OBVIOUS
    <2> QED
        BY <1>1, <1>2, <2>1, <2>2
<1>4. q <= h - 1
    <2> SUFFICES ASSUME q >= h PROVE FALSE
        BY <1>1
    <2>1. p * q >= p * h
        BY <1>1
    <2>2. p * h >= h
        OBVIOUS
    <2> QED
        BY <1>1, <2>1, <2>2
<1> QED
    BY <1>1, <1>2, <1>3, <1>4 DEF q

\* lanes_ok, unfolded for each of the three operations.
LEMMA LanesOk ==
    ASSUME NEW cf \in Nat, NEW x, NEW y, NEW r
    PROVE  LET n == P!width(cf)
               L(w, i) == P!lane(w, i, n)
           IN  /\ cf % 3 = 0 =>
                      (P!lanes_ok(cf, x, y, r) <=>
                          \A i \in P!LanesOf(n) : (L(r, i) - (L(x, i) + L(y, i))) % Pow2[n] = 0)
               /\ cf % 3 = 1 =>
                      (P!lanes_ok(cf, x, y, r) <=>
                          \A i \in P!LanesOf(n) : P!sa_bits(y, n) < XLEN =>
                              /\ L(r, i) * Pow2[P!sa_bits(y, n)] <= L(x, i)
                              /\ L(x, i) < (L(r, i) + 1) * Pow2[P!sa_bits(y, n)])
               /\ cf % 3 = 2 =>
                      (P!lanes_ok(cf, x, y, r) <=>
                          \A i \in P!LanesOf(n) : (L(r, i) - (L(x, i) * L(y, i))) % Pow2[n] = 0)
<1> DEFINE n == P!width(cf)
           m == cf % 3
           S == P!sa_bits(y, n) < XLEN
           A(i) == (P!lane(r, i, n) - (P!lane(x, i, n) + P!lane(y, i, n))) % Pow2[n] = 0
           B(i) == /\ P!lane(r, i, n) * Pow2[P!sa_bits(y, n)] <= P!lane(x, i, n)
                   /\ P!lane(x, i, n) < (P!lane(r, i, n) + 1) * Pow2[P!sa_bits(y, n)]
           C(i) == (P!lane(r, i, n) - (P!lane(x, i, n) * P!lane(y, i, n))) % Pow2[n] = 0
<1>1. P!lanes_ok(cf, x, y, r) <=>
          \A i \in P!LanesOf(n) : CASE m = 0 -> A(i) [] m = 1 -> (S => B(i)) [] m = 2 -> C(i)
    BY Zenon DEF P!lanes_ok
<1> HIDE DEF m, n, A, B, C, S
<1>2. m = 0 => (P!lanes_ok(cf, x, y, r) <=> \A i \in P!LanesOf(n) : A(i))
    BY <1>1
<1>3. m = 1 => (P!lanes_ok(cf, x, y, r) <=> \A i \in P!LanesOf(n) : S => B(i))
    BY <1>1
<1>4. m = 2 => (P!lanes_ok(cf, x, y, r) <=> \A i \in P!LanesOf(n) : C(i))
    BY <1>1
<1> QED
    BY <1>2, <1>3, <1>4, Zenon DEF m, n, A, B, C, S

\* Each function of the p-ext CXU computes lane by lane (p-ext_func.c).
LEMMA PextLanes ==
    ASSUME NEW cf \in 0 .. P!CX_PEXT_NUM_FUNCS - 1,
           NEW x \in 0 .. 2 * Half - 1, NEW y \in 0 .. 2 * Half - 1,
           NEW r \in P!cx_func_pext(cf, x, y)
    PROVE  r \in 0 .. 2 * Half - 1 /\ P!lanes_ok(cf, x, y, r)
<1> DEFINE n == P!width(cf)
           h == Pow2[n - 1]
           X(i) == P!lane(x, i, n)
           Y(i) == P!lane(y, i, n)
<1>1. cf \in 0 .. 5 /\ n \in {Wide, Narrow} /\ x \in Nat /\ y \in Nat
    BY HalfAssumption DEF P!width, P!CX_PEXT_NUM_FUNCS, Wide, Narrow
<1>2. h \in Nat \ {0}
    BY <1>1, Spans
<1>3. \A i \in P!LanesOf(n) : X(i) \in -h .. h - 1 /\ Y(i) \in -h .. h - 1
    BY <1>1, LaneInRange
<1>4. cf \in Nat
    BY <1>1
<1> HIDE DEF n, h, X, Y
<1>5. ASSUME NEW f \in [P!LanesOf(n) -> -h .. h - 1], r = P!pack(f, n)
      PROVE  r \in 0 .. 2 * Half - 1 /\ \A i \in P!LanesOf(n) : P!lane(r, i, n) = f[i]
    <2>1. f \in [P!LanesOf(n) -> Int]
        BY <1>2, <1>5
    <2>2. r \in 0 .. 2 * Half - 1 /\ \A i \in P!LanesOf(n) : P!lane(r, i, n) = P!int_n(f[i], n)
        BY <1>1, <1>5, <2>1, PackedLanes
    <2>3. \A i \in P!LanesOf(n) : f[i] \in Int /\ P!int_n(f[i], n) = f[i]
        BY <1>1, <1>2, <1>5, LaneValue DEF h
    <2> QED
        BY <2>2, <2>3
<1>6. CASE cf % 3 = 0
    <2> DEFINE f == [i \in P!LanesOf(n) |-> P!int_n(X(i) + Y(i), n)]
    <2>1. \A i \in P!LanesOf(n) : /\ X(i) + Y(i) \in Int
                                  /\ f[i] \in -h .. h - 1
                                  /\ (f[i] - (X(i) + Y(i))) % Pow2[n] = 0
        <3> SUFFICES ASSUME NEW i \in P!LanesOf(n)
                     PROVE  /\ X(i) + Y(i) \in Int
                            /\ P!int_n(X(i) + Y(i), n) \in -h .. h - 1
                            /\ (P!int_n(X(i) + Y(i), n) - (X(i) + Y(i))) % Pow2[n] = 0
            OBVIOUS
        <3> DEFINE v == X(i) + Y(i)
        <3>1. v \in Int
            BY <1>2, <1>3
        <3> HIDE DEF v
        <3>2. P!int_n(v, n) \in -h .. h - 1 /\ (P!int_n(v, n) - v) % Pow2[n] = 0
            BY <1>1, <3>1, LaneValue DEF h
        <3> QED
            BY <3>1, <3>2 DEF v
    <2>2. r = P!pack(f, n)
        BY <1>6, <1>1 DEF P!cx_func_pext, P!add_func, n, X, Y
    <2>3. f \in [P!LanesOf(n) -> -h .. h - 1]
        BY <2>1
    <2> HIDE DEF f
    <2>4. r \in 0 .. 2 * Half - 1 /\ \A i \in P!LanesOf(n) : P!lane(r, i, n) = f[i]
        BY <1>5, <2>2, <2>3
    <2>5. P!lanes_ok(cf, x, y, r) <=>
              \A i \in P!LanesOf(n) : (P!lane(r, i, n) - (X(i) + Y(i))) % Pow2[n] = 0
        BY <1>6, <1>4, LanesOk, Zenon DEF n, X, Y
    <2> QED
        BY <2>1, <2>4, <2>5
<1>7. CASE cf % 3 = 2
    <2> DEFINE f == [i \in P!LanesOf(n) |-> P!int_n(X(i) * Y(i), n)]
    <2>1. \A i \in P!LanesOf(n) : /\ X(i) * Y(i) \in Int
                                  /\ f[i] \in -h .. h - 1
                                  /\ (f[i] - (X(i) * Y(i))) % Pow2[n] = 0
        <3> SUFFICES ASSUME NEW i \in P!LanesOf(n)
                     PROVE  /\ X(i) * Y(i) \in Int
                            /\ P!int_n(X(i) * Y(i), n) \in -h .. h - 1
                            /\ (P!int_n(X(i) * Y(i), n) - (X(i) * Y(i))) % Pow2[n] = 0
            OBVIOUS
        <3> DEFINE v == X(i) * Y(i)
        <3>1. v \in Int
            BY <1>2, <1>3
        <3> HIDE DEF v
        <3>2. P!int_n(v, n) \in -h .. h - 1 /\ (P!int_n(v, n) - v) % Pow2[n] = 0
            BY <1>1, <3>1, LaneValue DEF h
        <3> QED
            BY <3>1, <3>2 DEF v
    <2>2. r = P!pack(f, n)
        BY <1>7, <1>1 DEF P!cx_func_pext, P!smul_func, n, X, Y
    <2>3. f \in [P!LanesOf(n) -> -h .. h - 1]
        BY <2>1
    <2> HIDE DEF f
    <2>4. r \in 0 .. 2 * Half - 1 /\ \A i \in P!LanesOf(n) : P!lane(r, i, n) = f[i]
        BY <1>5, <2>2, <2>3
    <2>5. P!lanes_ok(cf, x, y, r) <=>
              \A i \in P!LanesOf(n) : (P!lane(r, i, n) - (X(i) * Y(i))) % Pow2[n] = 0
        BY <1>7, <1>4, LanesOk, Zenon DEF n, X, Y
    <2> QED
        BY <2>1, <2>4, <2>5
<1>8. CASE cf % 3 = 1
    <2>1. P!sa_bits(y, n) \in Nat
        <3>1. 8 * XLEN \in Nat \ {0} /\ XLEN \div 2 \in Nat \ {0} /\ y \in Int
            BY <1>1, Widths DEF Wide
        <3>2. ASSUME NEW b \in Nat \ {0} PROVE y % b \in Nat
            BY <3>1, DivMod
        <3>3. y % (8 * XLEN) \in Nat /\ y % (XLEN \div 2) \in Nat
            BY <3>1, <3>2
        <3> QED
            BY <3>3 DEF P!sa_bits
    <2>2. PICK count \in 0 .. XLEN - 1 :
              /\ r = P!sra_func(x, count, n)
              /\ P!sa_bits(y, n) < XLEN => count = P!sa_bits(y, n)
        BY <1>8, <1>1, <2>1, PowersAssumption DEF P!cx_func_pext, P!sra, n
    <2> DEFINE p == Pow2[count]
               f == [i \in P!LanesOf(n) |-> X(i) \div p]
    <2>3. p \in Nat \ {0}
        BY <2>2, Spans, PowersAssumption
    <2>4. r = P!pack(f, n)
        BY <2>2 DEF P!sra_func, X
    <2> HIDE DEF p
    <2>5. \A i \in P!LanesOf(n) : /\ X(i) \div p \in -h .. h - 1
                                  /\ (X(i) \div p) * p <= X(i)
                                  /\ X(i) < (X(i) \div p + 1) * p
        BY <1>2, <1>3, <2>3, ShiftInRange
    <2>6. f \in [P!LanesOf(n) -> -h .. h - 1] /\ \A i \in P!LanesOf(n) : f[i] = X(i) \div p
        BY <2>5
    <2> HIDE DEF f
    <2>7. r \in 0 .. 2 * Half - 1 /\ \A i \in P!LanesOf(n) : P!lane(r, i, n) = f[i]
        BY <1>5, <2>4, <2>6
    <2>8. ASSUME NEW i \in P!LanesOf(n), P!sa_bits(y, n) < XLEN
          PROVE  /\ P!lane(r, i, n) * Pow2[P!sa_bits(y, n)] <= X(i)
                 /\ X(i) < (P!lane(r, i, n) + 1) * Pow2[P!sa_bits(y, n)]
        BY <2>2, <2>5, <2>6, <2>7, <2>8 DEF p
    <2>9. P!lanes_ok(cf, x, y, r) <=>
              \A i \in P!LanesOf(n) : P!sa_bits(y, n) < XLEN =>
                  /\ P!lane(r, i, n) * Pow2[P!sa_bits(y, n)] <= X(i)
                  /\ X(i) < (P!lane(r, i, n) + 1) * Pow2[P!sa_bits(y, n)]
        BY <1>8, <1>4, LanesOk, Zenon DEF n, X
    <2> QED
        BY <2>7, <2>8, <2>9
<1> QED
    BY <1>1, <1>6, <1>7, <1>8

-----------------------------------------------------------------------------
(* The scalar functions, and the flags *)

\* C's division: the quotient times the divisor does not pass the dividend, and
\* leaves less than the divisor; it is a word wherever it is defined.
LEMMA DivFunc ==
    ASSUME NEW a \in Word, NEW b \in Word, div_defined(a, b)
    PROVE  LET abs(v) == IF v < 0 THEN -v ELSE v
               x == div_func(a, b)
           IN  /\ x \in Word
               /\ abs(a - x * b) < abs(b)
               /\ abs(x * b) <= abs(a)
<1> DEFINE abs(v) == IF v < 0 THEN -v ELSE v
           m == abs(a)
           d == abs(b)
           q == m \div d
           r == m % d
           x == div_func(a, b)
<1>1. /\ a \in Int /\ b \in Int /\ b # 0 /\ Half \in Nat /\ Half > 0
      /\ -Half <= a /\ a < Half /\ -Half <= b /\ b < Half
      /\ ~(a = -Half /\ b = -1)
    BY HalfAssumption DEF Word, div_defined, INT32_MIN
<1>2. /\ m \in Nat /\ d \in Nat \ {0} /\ m <= Half
      /\ m = IF a < 0 THEN -a ELSE a
      /\ d = IF b < 0 THEN -b ELSE b
    BY <1>1
<1>3. x = IF (a < 0) = (b < 0) THEN q ELSE -q
    BY DEF div_func
<1> HIDE DEF m, d, x
<1>4. q \in Int /\ r \in 0 .. d - 1 /\ m = d * q + r
    <2>1. m \in Int /\ d \in Nat \ {0}
        BY <1>2
    <2> QED
        BY <2>1, DivMod
<1> HIDE DEF q, r
<1>5. q \in Nat
    <2> SUFFICES ASSUME q <= -1 PROVE FALSE
        BY <1>4
    <2>1. d * q <= d * (-1)
        BY <1>2, <1>4
    <2> QED
        BY <1>2, <1>4, <2>1
<1>6. d * q <= m /\ m - d * q < d /\ d * q \in Nat
    BY <1>2, <1>4, <1>5
<1>7. x * b = (IF a < 0 THEN -(d * q) ELSE d * q) /\ x \in Int
    <2>1. CASE a < 0 /\ b < 0
        BY <2>1, <1>1, <1>2, <1>3, <1>5
    <2>2. CASE a < 0 /\ ~(b < 0)
        BY <2>2, <1>1, <1>2, <1>3, <1>5
    <2>3. CASE ~(a < 0) /\ b < 0
        BY <2>3, <1>1, <1>2, <1>3, <1>5
    <2>4. CASE ~(a < 0) /\ ~(b < 0)
        BY <2>4, <1>1, <1>2, <1>3, <1>5
    <2> QED
        BY <2>1, <2>2, <2>3, <2>4
<1>8. abs(a - x * b) < abs(b) /\ abs(x * b) <= abs(a)
    <2> DEFINE p == d * q
               y == x * b
    <2>1. p \in Nat /\ p <= m /\ m - p < d /\ y = (IF a < 0 THEN -p ELSE p)
        BY <1>6, <1>7
    <2> HIDE DEF p, y
    <2>2. abs(a - y) < abs(b) /\ abs(y) <= abs(a)
        BY <1>1, <1>2, <2>1
    <2> QED
        BY <2>2 DEF y
<1>9. x \in Word
    <2>1. q <= m
        <3>1. q <= d * q
            BY <1>2, <1>5
        <3> QED
            BY <3>1, <1>2, <1>5, <1>6
    <2>2. CASE q < Half
        BY <2>2, <1>1, <1>3, <1>5 DEF Word
    <2>3. CASE q >= Half
        <3>1. q = Half /\ m = Half
            BY <2>1, <2>3, <1>1, <1>2, <1>5
        <3>2. a = -Half
            BY <3>1, <1>1, <1>2
        <3>3. d = 1
            <4> SUFFICES ASSUME d >= 2 PROVE FALSE
                BY <1>2
            <4>1. d * q >= 2 * q
                BY <1>2, <1>5
            <4> QED
                BY <3>1, <4>1, <1>1, <1>6
        <3>4. b = 1
            BY <3>2, <3>3, <1>1, <1>2
        <3> QED
            BY <3>1, <3>2, <3>4, <1>1, <1>3 DEF Word
    <2> QED
        BY <2>2, <2>3, <1>1, <1>5
<1> QED
    BY <1>8, <1>9 DEF x

\* A result is itself, or a reserved word that raises a flag.
LEMMA ResultFlags ==
    ASSUME NEW r
    PROVE  /\ flags_of(r) \subseteq cx_status_t
           /\ r \in Reserved => flags_of(r) \cap {"IF", "OP", "CU"} # {}
           /\ r \notin Reserved => value_of(r) = r
           /\ r \in Word => value_of(r) \in Word
<1>1. flags_of(r) \in {{}, {"OP"}, {"IF"}, {"CU"}} /\ (r \in Reserved => flags_of(r) # {})
    BY DEF flags_of, Reserved
<1>2. -1 \in Word /\ 0 \in Word
    BY HalfAssumption DEF Word
<1> QED
    BY <1>1, <1>2 DEF value_of, cx_status_t

-----------------------------------------------------------------------------
(* The tables *)

LEMMA Tables ==
    /\ Cx = {0, 1, 2, 3, 4, 5, 6, 7}
    /\ \A c \in Cx : stateful(c) <=> c \in {2, 4, 5, 7}
    /\ \A c \in Cx : num_cfs[c] = initialisers[c]
    /\ num_cfs[0] = 2 /\ num_cfs[1] = 7 /\ num_cfs[2] = 5 /\ num_cfs[3] = 6
    /\ num_cfs[4] = 4 /\ num_cfs[5] = 4 /\ num_cfs[6] = 1 /\ num_cfs[7] = 3
<1>1. Cx = {0, 1, 2, 3, 4, 5, 6, 7}
    BY DEF Cx, NUM_CX
<1>2. \A c \in Cx : stateful(c) <=> c \in {2, 4, 5, 7}
    BY DEF stateful, num_states
<1>3. /\ num_cfs[0] = 2 /\ num_cfs[1] = 7 /\ num_cfs[2] = 5 /\ num_cfs[3] = 6
      /\ num_cfs[4] = 4 /\ num_cfs[5] = 4 /\ num_cfs[6] = 1 /\ num_cfs[7] = 3
    BY <1>1 DEF num_cfs, registered, CX_MULDIV_NUM_FUNCS, CX_ADDSUB_NUM_FUNCS,
       CX_MULACC_NUM_FUNCS, P!CX_PEXT_NUM_FUNCS, CX_MAX_NUM_FUNCS, NN!CX_NN_ACC_NUM_FUNCS
<1>4. /\ initialisers[0] = 2 /\ initialisers[1] = 7 /\ initialisers[2] = 5
      /\ initialisers[3] = 6 /\ initialisers[4] = 4 /\ initialisers[5] = 4
      /\ initialisers[6] = 1 /\ initialisers[7] = 3
    BY <1>1 DEF initialisers
<1> QED
    BY <1>1, <1>2, <1>3, <1>4

\* The entries of the system functions are those of a stateful CX.
LEMMA SystemEntries ==
    ASSUME NEW c \in Cx, stateful(c), NEW cf \in SYSTEM
    PROVE  entry(c, cf) = "system"
<1>1. cf \in 1020 .. 1023 /\ ~(cf < initialisers[c]) /\ cf >= initialisers[c]
    BY Tables DEF SYSTEM, MAX_CF_IDS
<1> QED
    BY <1>1 DEF entry

\* An entry a custom instruction may call is a function.
\* An id past num_cfs is past the initialisers of its array too, so what is called
\* is an undefined function or nothing of the CX.
LEMMA UnknownEntries ==
    ASSUME cx \in Cxs, NEW cf \in CFs, ~in_range(cf)
    PROVE  entry(cx, cf) \in {"undefined", "outside"}
<1>1. cx \in {0, 1, 2, 3, 6, 7} /\ cx \in Cx /\ cf \in Nat
    BY Tables, DispatchAssumption DEF MAX_CF_IDS
<1>2. ~(cf < initialisers[cx]) /\ cf >= initialisers[cx]
    BY <1>1, Tables DEF in_range
<1>3. ~(stateful(cx) /\ cf \in SYSTEM)
    BY DEF in_range
<1>4. entry(cx, cf) = IF stateful(cx) THEN "undefined" ELSE "outside"
    BY <1>2, <1>3 DEF entry
<1> QED
    BY <1>4

LEMMA CustomEntries ==
    ASSUME cx \in Cxs, NEW cf \in CFs, custom(cf)
    PROVE  /\ cx \in {0, 1, 2, 3, 6, 7}
           /\ cf \in Nat /\ cf < num_cfs[cx] /\ cf < initialisers[cx]
           /\ ~(cx = 1 /\ cf = 1)
           /\ entry(cx, cf) = "function"
<1>1. cx \in {0, 1, 2, 3, 6, 7} /\ cx \in Cx /\ cf \in Nat
    BY Tables, DispatchAssumption DEF MAX_CF_IDS
<1>2. cf < num_cfs[cx] /\ cf < initialisers[cx]
    BY <1>1, Tables DEF custom, in_range
<1>3. ~(cf >= initialisers[cx])
    BY <1>1, <1>2, Tables
<1>4. entry(cx, cf) = IF cx = 1 /\ cf = 1 THEN "NULL" ELSE "function"
    BY <1>2, <1>3 DEF entry
<1> QED
    BY <1>1, <1>2, <1>4 DEF custom

-----------------------------------------------------------------------------
(* What a function returns and leaves *)

LEMMA NnComputeInContext ==
    ASSUME NEW cf \in 0 .. 2, NEW c \in Context, NEW a \in Word, NEW b \in Word
    PROVE  NN!cx_func_nn_acc(cf, c, a, b).ctx \in Context /\ NN!cx_func_nn_acc(cf, c, a, b).ret \in Word
<1>1. c.data \in Int /\ c.data \in Word /\ a * b \in Int
    BY HalfAssumption DEF Context, Word
<1>2. NN!Wrap(a * b) \in Word
    BY <1>1, WrapInWord DEF Wrap, NN!Wrap
<1>3. c.data + NN!Wrap(a * b) \in Int
    BY <1>1, <1>2, HalfAssumption DEF Word
<1>4. NN!Wrap(c.data + NN!Wrap(a * b)) \in Word
    BY <1>3, WrapInWord DEF Wrap, NN!Wrap
<1> QED
    BY <1>1, <1>4, ZeroInWord DEF NN!cx_func_nn_acc, NN!nn_acc_func, NN!reset_func,
       NN!relu_func, NN!Outcome, Context, CX_CS, NN!CX_DIRTY, CX_DIRTY

LEMMA MulaccReturnsWord ==
    ASSUME NEW cf \in 0 .. 4, NEW c \in Context, NEW a \in Word, NEW b \in Word
    PROVE  cx_func_mulacc(cf, c, a, b).ret \in Word
<1>1. c.data \in Int /\ c.data \in Word /\ a * b \in Int
    BY HalfAssumption DEF Context, Word
<1>2. c.data + Wrap(a * b) \in Int
    BY <1>1, WrapInWord, HalfAssumption DEF Word
<1>3. Wrap(c.data + Wrap(a * b)) \in Word
    BY <1>2, WrapInWord
<1> QED
    BY <1>1, <1>3, ZeroInWord DEF cx_func_mulacc, mac_func, reset_func,
       do_nothing, zero_mac_func, read_acc_func, Outcome

\* What a result of the functions of muldiv, addsub and max must be.
exactly(c, cf, a, b, x) ==
    LET same(v, w) == (v - w) % (2 * Half) = 0
        abs(v) == IF v < 0 THEN -v ELSE v
    IN  CASE c = 0 /\ cf = 0 -> same(x, a * b)
          [] c = 0 /\ cf = 1 -> abs(a - x * b) < abs(b) /\ abs(x * b) <= abs(a)
          [] c = 1 /\ cf = 0 -> same(x, a + b)
          [] c = 1 /\ cf = 2 -> same(x, a - b)
          [] c = 1 /\ cf = 4 -> same(x, a + b + 1000)
          [] c = 6 -> x \in {a, b} /\ a <= x /\ b <= x
          [] OTHER -> FALSE

LEMMA MuldivResults ==
    ASSUME NEW cf \in {0, 1}, NEW a \in Word, NEW b \in Word,
           cf = 1 => div_defined(a, b), NEW r, r = cx_func_muldiv(cf, a, b)
    PROVE  r \in Word /\ exactly(0, cf, a, b, r)
<1>1. CASE cf = 0
    <2> DEFINE p == a * b
    <2>1. p \in Int
        BY HalfAssumption DEF Word
    <2>2. r = Wrap(p)
        BY <1>1 DEF cx_func_muldiv, mul_func
    <2> HIDE DEF p
    <2>3. r \in Word /\ (r - p) % (2 * Half) = 0
        BY <2>1, <2>2, WrapSame
    <2>4. exactly(0, 0, a, b, r) <=> (r - a * b) % (2 * Half) = 0
        BY DEF exactly
    <2> QED
        BY <1>1, <2>3, <2>4 DEF p
<1>2. CASE cf = 1
    <2>1. r = div_func(a, b)
        BY <1>2 DEF cx_func_muldiv
    <2>2. cf # 0
        BY <1>2
    <2>3. exactly(0, 1, a, b, r) <=> LET abs(v) == IF v < 0 THEN -v ELSE v
                                     IN  abs(a - r * b) < abs(b) /\ abs(r * b) <= abs(a)
        BY DEF exactly
    <2> QED
        BY <1>2, <2>1, <2>3, DivFunc, Zenon
<1> QED
    BY <1>1, <1>2

LEMMA AddsubResults ==
    ASSUME NEW cf \in 0 .. 6, cf # 1, NEW a \in Word, NEW b \in Word,
           NEW r, r = cx_func_addsub(cf, a, b)
    PROVE  r \in Word /\ (r \in Reserved \/ exactly(1, cf, a, b, r))
<1>1. CASE cf \in {3, 5, 6}
    <2>1. /\ r \in {FUNC_SENTINEL_IF_INVALID_RET_0, FUNC_SENTINEL_OP_POS,
                   FUNC_SENTINEL_CU_CUSTOM_BIT(0)}
        BY <1>1 DEF cx_func_addsub
    <2>2. r \in Reserved
        BY <2>1 DEF Reserved, OpResults, IfResults, CuResults
    <2>3. r \in Word
        BY <2>1, DispatchAssumption, HalfAssumption DEF Word, INT32_MAX, INT32_MIN,
           FUNC_SENTINEL_IF_INVALID_RET_0, FUNC_SENTINEL_OP_POS, FUNC_SENTINEL_CU_CUSTOM_BIT
    <2> QED
        BY <2>2, <2>3
<1>2. CASE cf \in {0, 2, 4}
    <2> DEFINE s == IF cf = 0 THEN a + b ELSE IF cf = 2 THEN a - b ELSE a + b + 1000
    <2>1. s \in Int
        BY HalfAssumption DEF Word
    <2>2. r = Wrap(s)
        BY <1>2 DEF cx_func_addsub, add_func, sub_func, add_1000
    <2>3. exactly(1, cf, a, b, r) <=> (r - s) % (2 * Half) = 0
        BY <1>2 DEF exactly
    <2> HIDE DEF s
    <2> QED
        BY <2>1, <2>2, <2>3, WrapSame
<1> QED
    BY <1>1, <1>2

LEMMA MaxResults ==
    ASSUME NEW a \in Word, NEW b \in Word, NEW cf, NEW r, r = max_func(a, b)
    PROVE  r \in Word /\ exactly(6, cf, a, b, r)
<1>1. r \in {a, b} /\ a <= r /\ b <= r
    BY HalfAssumption DEF max_func, Word
<1>2. 6 # 0 /\ 6 # 1
    OBVIOUS
<1> QED
    BY <1>1, <1>2 DEF exactly

\* What the function of a custom instruction returns, and the context it leaves.
LEMMA FunctionResults ==
    ASSUME cx \in Cxs, ctx \in Context, NEW cf \in CFs, custom(cf),
           NEW a \in Word, NEW b \in Word, (cx = 0 /\ cf = 1) => div_defined(a, b),
           NEW o \in outcomes(cf, a, b)
    PROVE  /\ o.ctx \in Context /\ o.ret \in Word
           /\ cx \in {0, 1, 6} => o.ret \in Reserved \/ exactly(cx, cf, a, b, o.ret)
           /\ cx = 3 => P!lanes_ok(cf, unsigned(a), unsigned(b), unsigned(o.ret))
<1>1. /\ cx \in {0, 1, 2, 3, 6, 7} /\ cf \in Nat /\ cf < num_cfs[cx]
      /\ ~(cx = 1 /\ cf = 1) /\ entry(cx, cf) = "function"
    BY CustomEntries
<1>2. CASE cx = 0
    <2>1. cf \in {0, 1}
        BY <1>1, <1>2, Tables
    <2>2. o = Outcome(cx_func_muldiv(cf, a, b), ctx)
        BY <1>1, <1>2, SMT DEF outcomes
    <2>3. o.ret = cx_func_muldiv(cf, a, b) /\ o.ctx = ctx
        BY <2>2 DEF Outcome
    <2> QED
        BY <1>2, <2>1, <2>3, MuldivResults
<1>3. CASE cx = 1
    <2>1. cf \in 0 .. 6 /\ cf # 1
        BY <1>1, <1>3, Tables
    <2>2. o = Outcome(cx_func_addsub(cf, a, b), ctx)
        BY <1>1, <1>3, SMT DEF outcomes
    <2>3. o.ret = cx_func_addsub(cf, a, b) /\ o.ctx = ctx
        BY <2>2 DEF Outcome
    <2> QED
        BY <1>3, <2>1, <2>3, AddsubResults
<1>4. CASE cx = 2
    <2>1. cf \in 0 .. CX_MULACC_NUM_FUNCS - 1 /\ cf \in 0 .. 4
        BY <1>1, <1>4, Tables DEF CX_MULACC_NUM_FUNCS
    <2>2. o = cx_func_mulacc(cf, ctx, a, b)
        BY <1>1, <1>4, SMT DEF outcomes
    <2>3. a \in Int /\ b \in Int
        BY HalfAssumption DEF Word
    <2>4. o.ctx \in Context /\ o.ret \in Word
        BY <2>1, <2>2, <2>3, ComputeInContext, MulaccReturnsWord
    <2> QED
        BY <1>4, <2>4
<1>5. CASE cx = 3
    <2>1. cf \in 0 .. P!CX_PEXT_NUM_FUNCS - 1
        BY <1>1, <1>5, Tables DEF P!CX_PEXT_NUM_FUNCS
    <2>2. PICK r \in P!cx_func_pext(cf, unsigned(a), unsigned(b)) : o = Outcome(signed(r), ctx)
        BY <1>1, <1>5, SMT DEF outcomes
    <2>3. unsigned(a) \in 0 .. 2 * Half - 1 /\ unsigned(b) \in 0 .. 2 * Half - 1
        <3>1. 2 * Half \in Nat \ {0} /\ a \in Int /\ b \in Int
            BY HalfAssumption DEF Word
        <3> DEFINE W == 2 * Half
        <3> HIDE DEF W
        <3>2. a % W \in 0 .. W - 1 /\ b % W \in 0 .. W - 1
            BY <3>1, DivMod DEF W
        <3> QED
            BY <3>2 DEF W, unsigned
    <2>4. r \in 0 .. 2 * Half - 1 /\ P!lanes_ok(cf, unsigned(a), unsigned(b), r)
        BY <2>1, <2>2, <2>3, PextLanes
    <2>5. o.ret = signed(r) /\ o.ctx = ctx
        BY <2>2 DEF Outcome
    <2>6. o.ret \in Word /\ unsigned(o.ret) = r
        BY <2>4, <2>5, SignedUnsigned
    <2>7. P!lanes_ok(cf, unsigned(a), unsigned(b), unsigned(o.ret))
        BY <2>4, <2>6, Zenon
    <2> QED
        BY <1>5, <2>5, <2>6, <2>7
<1>6. CASE cx = 6
    <2>1. o = Outcome(max_func(a, b), ctx)
        BY <1>1, <1>6, SMT DEF outcomes
    <2>2. o.ret = max_func(a, b) /\ o.ctx = ctx
        BY <2>1 DEF Outcome
    <2> QED
        BY <1>6, <2>2, MaxResults
<1>7. CASE cx = 7
    <2>1. cf \in 0 .. 2
        BY <1>1, <1>7, Tables
    <2>2. o = NN!cx_func_nn_acc(cf, ctx, a, b)
        BY <1>1, <1>7, SMT DEF outcomes
    <2>3. o.ctx \in Context /\ o.ret \in Word
        BY <2>1, <2>2, NnComputeInContext
    <2> QED
        BY <1>7, <2>3
<1> QED
    BY <1>1, <1>2, <1>3, <1>4, <1>5, <1>6, <1>7

\* The system functions of the two accumulators are alike: PRECLEAN resets the
\* data, any other status leaves it; the state is the data.
LEMMA SystemFunctions ==
    ASSUME NEW c \in Context
    PROVE  /\ \A dc \in CX_CS : write_status(c, dc) \in Context
           /\ \A dc \in CX_CS \ {CX_PRECLEAN} : write_status(c, dc).data = c.data
           /\ read_state(c, 0) = c.data
           /\ \A v \in Word : write_state(c, 0, v) \in Context /\ write_state(c, 0, v).data = v
           /\ \A v \in Word : write_state(c, 1, v) = c
<1>1. ASSUME NEW dc \in CX_CS
      PROVE  GET_CX_DATA_CLEAN(cx_stctxs(1, dc, 1)) = dc
    BY StatusDecodes
<1>2. ASSUME NEW dc \in CX_CS
      PROVE  write_status(c, dc) \in Context /\ (dc # CX_PRECLEAN => write_status(c, dc).data = c.data)
    <2> DEFINE w == cx_stctxs(1, dc, 1)
    <2>1. write_status(c, dc) = mulacc_write_status_func(c, w)
        <3> HIDE DEF w
        <3>1. NN!nn_acc_write_status_func(c, w) = mulacc_write_status_func(c, w)
            BY DEF mulacc_write_status_func, NN!nn_acc_write_status_func,
               GET_CX_DATA_CLEAN, NN!GET_CX_DATA_CLEAN, GET_BITS, NN!GET_BITS, reset_func,
               NN!reset_func, Outcome, NN!Outcome, CX_PRECLEAN, NN!CX_PRECLEAN, CX_DIRTY, NN!CX_DIRTY
        <3> QED
            BY <3>1 DEF write_status, w
    <2> HIDE DEF w
    <2>2. GET_CX_DATA_CLEAN(w) = dc
        BY <1>1 DEF w
    <2>3. c = [dc |-> c.dc, data |-> c.data] /\ c.data \in Word
        BY DEF Context
    <2>4. CASE dc = CX_PRECLEAN
        <3>1. write_status(c, dc) = [dc |-> CX_DIRTY, data |-> 0]
            BY <2>1, <2>2, <2>3, <2>4 DEF mulacc_write_status_func, reset_func, Outcome
        <3> QED
            BY <3>1, <2>4, ZeroInWord DEF Context, CX_CS
    <2>5. CASE dc # CX_PRECLEAN
        <3>1. write_status(c, dc) = [c EXCEPT !.dc = dc]
            BY <2>1, <2>2, <2>5 DEF mulacc_write_status_func
        <3>2. [c EXCEPT !.dc = dc] = [dc |-> dc, data |-> c.data]
            BY <2>3
        <3> QED
            BY <3>1, <3>2, <2>3 DEF Context
    <2> QED
        BY <2>4, <2>5
<1>3. /\ read_state(c, 0) = c.data
      /\ \A v \in Word : write_state(c, 0, v) \in Context /\ write_state(c, 0, v).data = v
      /\ \A v \in Word : write_state(c, 1, v) = c
    BY DEF read_state, write_state, mulacc_read_state_func, mulacc_write_state_func,
       NN!nn_acc_read_state_func, NN!nn_acc_write_state_func, Context
<1> QED
    BY <1>2, <1>3

-----------------------------------------------------------------------------
(* The inductive invariant *)

\* What holds of the context and the flags; the data written back and not used
\* since is in the context.
StateOK ==
    /\ cx \in Cxs
    /\ valid \in BOOLEAN
    /\ ctx \in Context
    /\ cxs \subseteq cx_status_t
    /\ written \in Word \cup {NoValue}
    /\ written # NoValue => ctx.data = written

\* What holds of the instruction that has just run.
CallOK ==
    /\ call # NoCall => call.rd \in Word \/ call.cf = 1023
    /\ WildCallsShow
    /\ ScalarsExact
    /\ LanesAreIndependent
    /\ ReadBack

DInv == StateOK /\ CallOK

\* No instruction has run, or one that ran no custom function and read no state.
LEMMA QuietCall ==
    /\ call' = NoCall => CallOK'
    /\ \A cf, a, b, e, r, rd :
           /\ call' = Call(cf, a, b, e, r, rd)
           /\ e # "function"
           /\ e \in {"NULL", "undefined", "outside"} => "IF" \in cxs'
           /\ rd \in Word \/ cf = 1023
           /\ ~(cf = 1021 /\ e = "system")
           => CallOK'
<1>1. call' = NoCall => CallOK'
    BY SMT DEF CallOK, WildCallsShow, ScalarsExact, LanesAreIndependent, ReadBack
<1>2. ASSUME NEW cf, NEW a, NEW b, NEW e, NEW r, NEW rd,
             call' = Call(cf, a, b, e, r, rd),
             e # "function", e \in {"NULL", "undefined", "outside"} => "IF" \in cxs',
             rd \in Word \/ cf = 1023,
             ~(cf = 1021 /\ e = "system")
      PROVE  CallOK'
    <2>1. call'.cf = cf /\ call'.entry = e /\ call'.rd = rd
        BY <1>2 DEF Call
    <2> QED
        BY <1>2, <2>1, SMT DEF CallOK, WildCallsShow, ScalarsExact, LanesAreIndependent, ReadBack
<1> QED
    BY <1>1, <1>2

LEMMA InputsAreWords ==
    ASSUME cx \in Cxs
    PROVE  Inputs \subseteq Word
BY DispatchAssumption DEF Inputs

LEMMA FunctionInv ==
    ASSUME StateOK, NEW cf \in CFs, NEW a \in Inputs, NEW b \in Inputs, Function(cf, a, b)
    PROVE  DInv'
<1>1. a \in Word /\ b \in Word /\ cx \in Cxs /\ ctx \in Context
    BY InputsAreWords DEF StateOK
<1>2. PICK o \in outcomes(cf, a, b) :
          /\ ctx' = o.ctx
          /\ raise(flags_of(o.ret) \cup IF off(cf) THEN {"OF"} ELSE {})
          /\ call' = Call(cf, a, b, entry(cx, cf), o.ret, value_of(o.ret))
    BY DEF Function
<1>3. /\ custom(cf) /\ ((cx = 0 /\ cf = 1) => div_defined(a, b))
      /\ cx' = cx /\ valid' = valid /\ written' = NoValue
    BY DEF Function
<1>4. entry(cx, cf) = "function"
    BY <1>1, <1>3, CustomEntries
<1>5. /\ o.ctx \in Context /\ o.ret \in Word
      /\ cx \in {0, 1, 6} => o.ret \in Reserved \/ exactly(cx, cf, a, b, o.ret)
      /\ cx = 3 => P!lanes_ok(cf, unsigned(a), unsigned(b), unsigned(o.ret))
    BY <1>1, <1>3, FunctionResults
<1>6. /\ cxs' = cxs \cup (flags_of(o.ret) \cup IF off(cf) THEN {"OF"} ELSE {})
      /\ flags_of(o.ret) \subseteq cx_status_t
      /\ o.ret \in Reserved => flags_of(o.ret) \cap {"IF", "OP", "CU"} # {}
      /\ o.ret \notin Reserved => value_of(o.ret) = o.ret
      /\ value_of(o.ret) \in Word
    BY <1>2, <1>5, ResultFlags DEF raise
<1>7. /\ call'.cf = cf /\ call'.a = a /\ call'.b = b /\ call'.entry = "function"
      /\ call'.r = o.ret /\ call'.rd = value_of(o.ret)
    BY <1>2, <1>4 DEF Call
<1>8. StateOK'
    BY <1>2, <1>3, <1>5, <1>6 DEF StateOK, cx_status_t
<1>9. CallOK'
    <2>1. WildCallsShow' /\ ReadBack'
        BY <1>3, <1>7 DEF WildCallsShow, ReadBack
    <2>2. LanesAreIndependent'
        BY <1>3, <1>5, <1>7 DEF LanesAreIndependent
    <2>3. ScalarsExact'
        <3>1. o.ret \in Reserved => cxs' \cap {"IF", "OP", "CU"} # {}
            BY <1>6
        <3>2. cx \in {0, 1, 6} /\ o.ret \notin Reserved => exactly(cx, cf, a, b, value_of(o.ret))
            BY <1>5, <1>6
        <3> QED
            BY <1>3, <1>7, <3>1, <3>2, SMT DEF ScalarsExact, exactly
    <2> QED
        BY <2>1, <2>2, <2>3, <1>6, <1>7 DEF CallOK
<1> QED
    BY <1>8, <1>9 DEF DInv

LEMMA NoFunctionInv ==
    ASSUME StateOK, NEW cf \in CFs, NEW a, NEW b, NoFunction(cf, a, b)
    PROVE  DInv'
<1>1. -1 \in Word /\ cx \in Cxs /\ cf \in Int
    BY HalfAssumption, DispatchAssumption DEF Word, StateOK, MAX_CF_IDS
<1>2. CASE Refused(cf, a, b) \/ NullEntry(cf, a, b) \/ Stopped(cf, a, b)
    <2>1. /\ \/ call' = Call(cf, a, b, "refused", -1, -1)
             \/ call' = Call(cf, a, b, "NULL", -1, -1) /\ "IF" \in cxs'
          /\ UNCHANGED <<cx, valid, ctx, written>>
          /\ cxs' \subseteq cxs \cup {"IV", "IC", "IS", "OF", "IF"}
        BY <1>2 DEF Refused, NullEntry, Stopped, raise
    <2>2. StateOK'
        BY <2>1 DEF StateOK, cx_status_t
    <2>3. CallOK'
        BY <1>1, <2>1, QuietCall
    <2> QED
        BY <2>2, <2>3 DEF DInv
<1>3. CASE FallThrough(cf, a, b)
    <2>1. PICK o \in outcomes(cf, a, b) :
              /\ ctx' = o.ctx
              /\ raise({"IF"} \cup flags_of(o.ret) \cup IF off(cf) THEN {"OF"} ELSE {})
              /\ call' = Call(cf, a, b, entry(cx, cf), o.ret, value_of(o.ret))
        BY <1>3 DEF FallThrough
    <2>2. /\ ~in_range(cf)
          /\ UNCHANGED <<cx, valid, written>>
        BY <1>3 DEF FallThrough
    <2>3. entry(cx, cf) \in {"undefined", "outside"}
        BY <1>1, <2>2, UnknownEntries
    <2>4. \E v \in Garbage \cup {-1} : o = Outcome(v, ctx)
        BY <2>3 DEF outcomes, stray
    <2>5. o.ret \in Word /\ o.ctx = ctx
        BY <1>1, <2>4, DispatchAssumption DEF Outcome
    <2>6. flags_of(o.ret) \subseteq cx_status_t /\ value_of(o.ret) \in Word
        BY <2>5, ResultFlags
    <2>7. "IF" \in cxs' /\ cxs' \subseteq cxs \cup cx_status_t
        BY <2>1, <2>6 DEF raise, cx_status_t
    <2>8. StateOK'
        BY <2>1, <2>2, <2>5, <2>7 DEF StateOK
    <2>9. CallOK'
        BY <2>1, <2>3, <2>6, <2>7, QuietCall
    <2> QED
        BY <2>8, <2>9 DEF DInv
<1> QED
    BY <1>2, <1>3 DEF NoFunction

LEMMA WriteStateInv ==
    ASSUME StateOK, NEW index \in 0 .. 1, NEW value \in Inputs, CX_WRITE_STATE(index, value)
    PROVE  DInv'
<1>1. value \in Word /\ cx \in Cxs /\ cx \in Cx /\ ctx \in Context
    BY InputsAreWords, DispatchAssumption DEF StateOK
<1>2. /\ stateful(cx) /\ 1020 \in SYSTEM
      /\ ctx' = write_state(ctx, index, value)
      /\ written' = IF index = 0 THEN value ELSE written
      /\ cx' = cx /\ valid' = valid
    BY DEF CX_WRITE_STATE, system
<1>3. PICK r \in IF index = 0 THEN Garbage ELSE {-1} :
          /\ raise(flags_of(r))
          /\ call' = Call(1020, index, value, entry(cx, 1020), r, value_of(r))
    BY DEF CX_WRITE_STATE
<1>4. r \in Word
    BY <1>3, DispatchAssumption, HalfAssumption DEF Word
<1>5. entry(cx, 1020) = "system" /\ value_of(r) \in Word /\ flags_of(r) \subseteq cx_status_t
    BY <1>1, <1>2, <1>4, SystemEntries, ResultFlags
<1>6. ctx' \in Context /\ (index = 0 => ctx'.data = value) /\ (index = 1 => ctx' = ctx)
    BY <1>1, <1>2, SystemFunctions
<1>7. StateOK'
    BY <1>1, <1>2, <1>3, <1>5, <1>6 DEF StateOK, raise
<1>8. call' = Call(1020, index, value, "system", r, value_of(r))
    BY <1>3, <1>5
<1> QED
    BY <1>5, <1>7, <1>8, QuietCall DEF DInv

LEMMA ReadStateInv ==
    ASSUME StateOK, NEW index, CX_READ_STATE(index)
    PROVE  DInv'
<1> DEFINE r == read_state(ctx, 0)
<1>1. cx \in Cxs /\ cx \in Cx /\ ctx \in Context
    BY DispatchAssumption DEF StateOK
<1>2. /\ stateful(cx) /\ 1021 \in SYSTEM
      /\ raise(flags_of(r))
      /\ call' = Call(1021, index, 0, entry(cx, 1021), r, value_of(r))
      /\ UNCHANGED <<cx, valid, ctx, written>>
    BY DEF CX_READ_STATE, system
<1> HIDE DEF r
<1>3. r = ctx.data /\ r \in Word
    BY <1>1, SystemFunctions DEF r, Context
<1>4. /\ entry(cx, 1021) = "system" /\ value_of(r) \in Word
      /\ flags_of(r) \subseteq cx_status_t
      /\ r \in Reserved => flags_of(r) \cap {"IF", "OP", "CU"} # {}
      /\ r \notin Reserved => value_of(r) = r
    BY <1>1, <1>2, <1>3, SystemEntries, ResultFlags
<1>5. StateOK'
    BY <1>2, <1>4 DEF StateOK, raise
<1>6. call'.cf = 1021 /\ call'.entry = "system" /\ call'.rd = value_of(r)
    BY <1>2, <1>4 DEF Call
<1>7. ReadBack'
    BY <1>2, <1>3, <1>4, <1>6 DEF ReadBack, StateOK, raise
<1> QED
    BY <1>4, <1>5, <1>6, <1>7 DEF DInv, CallOK, WildCallsShow, ScalarsExact, LanesAreIndependent

LEMMA WriteStatusInv ==
    ASSUME StateOK, NEW dc \in CX_CS, CX_WRITE_STATUS(dc)
    PROVE  DInv'
<1>1. cx \in Cxs /\ cx \in Cx /\ ctx \in Context
    BY DispatchAssumption DEF StateOK
<1>2. /\ stateful(cx) /\ 1022 \in SYSTEM
      /\ ctx' = write_status(ctx, dc)
      /\ call' = Call(1022, dc, 0, entry(cx, 1022), 0, 0)
      /\ written' = IF dc = CX_PRECLEAN THEN NoValue ELSE written
      /\ UNCHANGED <<cx, valid, cxs>>
    BY DEF CX_WRITE_STATUS, system
<1>3. ctx' \in Context /\ (dc # CX_PRECLEAN => ctx'.data = ctx.data)
    BY <1>1, <1>2, SystemFunctions
<1>4. StateOK'
    BY <1>2, <1>3 DEF StateOK
<1>5. call' = Call(1022, dc, 0, "system", 0, 0)
    BY <1>1, <1>2, SystemEntries
<1> QED
    BY <1>4, <1>5, QuietCall, ZeroInWord DEF DInv

LEMMA ReadStatusInv ==
    ASSUME StateOK, CX_READ_STATUS
    PROVE  DInv'
<1>1. cx \in Cx /\ stateful(cx) /\ 1023 \in SYSTEM
    BY DispatchAssumption DEF StateOK, CX_READ_STATUS, system
<1>2. /\ call' = Call(1023, 0, 0, "system", read_status(ctx), read_status(ctx))
      /\ UNCHANGED <<cx, valid, ctx, cxs, written>>
    BY <1>1, SystemEntries DEF CX_READ_STATUS
<1>3. StateOK'
    BY <1>2 DEF StateOK
<1> QED
    BY <1>2, <1>3, QuietCall DEF DInv

LEMMA OpenAgainInv ==
    ASSUME StateOK, cx_open
    PROVE  DInv'
<1>1. cx \in Cx /\ ctx \in Context /\ 1022 \in SYSTEM /\ CX_PRECLEAN \in CX_CS
    BY DispatchAssumption DEF StateOK, CX_CS, SYSTEM, MAX_CF_IDS
<1>2. /\ ctx' = write_status(ctx, CX_PRECLEAN) /\ valid' = TRUE /\ written' = NoValue
      /\ call' = IF stateful(cx) THEN Call(1022, CX_PRECLEAN, 0, entry(cx, 1022), 0, 0) ELSE NoCall
      /\ UNCHANGED <<cx, cxs>>
    BY DEF cx_open
<1>3. ctx' \in Context
    BY <1>1, <1>2, SystemFunctions
<1>4. StateOK'
    BY <1>2, <1>3 DEF StateOK
<1>5. call' = NoCall \/ call' = Call(1022, CX_PRECLEAN, 0, "system", 0, 0)
    BY <1>1, <1>2, SystemEntries
<1> QED
    BY <1>4, <1>5, QuietCall, ZeroInWord DEF DInv

-----------------------------------------------------------------------------
LEMMA InitDInv == Init => DInv
<1> SUFFICES ASSUME Init PROVE DInv
    OBVIOUS
<1>1. off_context \in Context /\ CX_PRECLEAN \in CX_CS
    BY ZeroInWord DEF off_context, Context, CX_CS
<1>2. StateOK
    BY <1>1, SystemFunctions DEF Init, StateOK
<1>3. CallOK
    BY SMT DEF Init, CallOK, WildCallsShow, ScalarsExact, LanesAreIndependent, ReadBack
<1> QED
    BY <1>2, <1>3 DEF DInv

LEMMA NextDInv == DInv /\ [Next]_vars => DInv'
<1> SUFFICES ASSUME DInv, [Next]_vars PROVE DInv'
    OBVIOUS
<1>1. StateOK /\ CallOK
    BY DEF DInv
<1>2. ASSUME UNCHANGED <<cx, valid, ctx, cxs, call, written>> PROVE DInv'
    <2>1. StateOK'
        BY <1>1, <1>2 DEF StateOK
    <2>2. CallOK'
        BY <1>1, <1>2, SMT DEF CallOK, WildCallsShow, ScalarsExact, LanesAreIndependent, ReadBack
    <2> QED
        BY <2>1, <2>2 DEF DInv
<1>3. ASSUME call' = NoCall, StateOK' PROVE DInv'
    BY <1>3, QuietCall DEF DInv
<1>4. CASE call = NoCall /\ cx_close
    <2>1. call' = NoCall /\ StateOK'
        BY <1>1, <1>4 DEF cx_close, StateOK
    <2> QED
        BY <1>3, <2>1
<1>5. CASE call = NoCall /\ cx_error_clear
    <2>1. call' = NoCall /\ StateOK'
        BY <1>1, <1>5 DEF cx_error_clear, StateOK
    <2> QED
        BY <1>3, <2>1
<1>6. CASE Continue
    <2>1. call' = NoCall /\ StateOK'
        BY <1>1, <1>6 DEF Continue, StateOK
    <2> QED
        BY <1>3, <2>1
<1>7. CASE \E cf \in CFs : \/ \E a, b \in Inputs : Function(cf, a, b)
                           \/ \E a, b \in Few : NoFunction(cf, a, b)
    BY <1>1, <1>7, FunctionInv, NoFunctionInv
<1>8. CASE \/ \E index \in 0 .. 1, value \in Inputs : CX_WRITE_STATE(index, value)
           \/ \E index \in 0 .. 1 : CX_READ_STATE(index)
           \/ \E dc \in CX_CS : CX_WRITE_STATUS(dc)
           \/ CX_READ_STATUS
           \/ cx_open
    BY <1>1, <1>8, WriteStateInv, ReadStateInv, WriteStatusInv, ReadStatusInv, OpenAgainInv
<1> QED
    BY <1>2, <1>4, <1>5, <1>6, <1>7, <1>8 DEF Next, vars

LEMMA DInvAlways == Spec => []DInv
BY InitDInv, NextDInv, PTL DEF Spec

\* Every variable keeps its type, and a result its word, for every CX and operand.
THEOREM TypesKept == Spec => []TypeOK
<1>1. DInv => TypeOK
    BY DEF DInv, StateOK, CallOK, TypeOK
<1> QED
    BY <1>1, DInvAlways, PTL

\* The tables of exports.c and the arrays of the CXUs agree: a NULL entry, an
\* undefined function and a call past the end of an array always show as IF, and
\* cx_open never makes such a call.
THEOREM WildCallsFlagged == Spec => []WildCallsShow
<1>1. DInv => WildCallsShow
    BY DEF DInv, CallOK
<1> QED
    BY <1>1, DInvAlways, PTL

\* muldiv, addsub and max: a result without a flag is exact, for every width.
THEOREM Exact == Spec => []ScalarsExact
<1>1. DInv => ScalarsExact
    BY DEF DInv, CallOK
<1> QED
    BY <1>1, DInvAlways, PTL

\* p-ext: no lane reaches into another, for every word of four narrow lanes.
THEOREM LanesKept == Spec => []LanesAreIndependent
<1>1. DInv => LanesAreIndependent
    BY DEF DInv, CallOK
<1> QED
    BY <1>1, DInvAlways, PTL

\* The accumulators give back what was written to them.
THEOREM ReadsBack == Spec => []ReadBack
<1>1. DInv => ReadBack
    BY DEF DInv, CallOK
<1> QED
    BY <1>1, DInvAlways, PTL
=============================================================================
