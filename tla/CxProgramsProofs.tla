---------------------------- MODULE CxProgramsProofs --------------------------
(***************************************************************************)
(* Every example closes what it opens, however many threads it creates;    *)
(* what the examples do are steps of CxKernel, so that whatever is proved  *)
(* of it holds of them; a program that ends leaves nothing behind in the   *)
(* kernel; and no assert of the examples fails, for every number of        *)
(* threads and entries and in every interleaving.  The first half is about *)
(* the names that hold selectors (Block, Holdings), the second about what  *)
(* they stand for (the ledger: Books, Balanced, Corr).                     *)
(***************************************************************************)
EXTENDS CxPrograms, CxKernelProofs

-----------------------------------------------------------------------------
(* Blocks: sequences of calls that may run with the names in H held and end *)
(* with those in G                                                          *)

\* The calls that leave a selector open under a new name.
opens(i) == i.op \in {"place", "open_cx"} \/ (i.op = "open" /\ i.ok)

\* A mac has operands of the model; a worker opens, closes and creates nothing.
Works(i) == i.op = "mac" => {i.a, i.b} \subseteq Operands
Worker(body) == /\ Len(body) \in Nat
                /\ \A j \in 1 .. Len(body) : body[j].op \in {"sel", "mac"} /\ Works(body[j])

\* An instruction whose arguments are those of a call of the model.
Proper(i) ==
    /\ i.op \in {"open", "place", "open_cx", "open_unknown"} => i.x \in Names
    /\ i.op = "open" => i.type \in CX_SHARE_T /\ i.ok \in BOOLEAN
    /\ i.op = "open_cx" => i.cx \in Stateless
    /\ i.op = "create" => i.t \in 1 .. N /\ Worker(i.body)
    /\ Works(i)

\* The instruction i, at a point where the names in H hold an open selector, may
\* run and leaves those in G.
Takes(i, H, G) ==
    /\ Proper(i)
    /\ i.op \in {"open", "place", "open_cx", "open_unknown"} => i.x \notin H
    /\ i.op = "close" => i.x \in H
    /\ G = IF opens(i) THEN H \cup {i.x} ELSE IF i.op = "close" THEN H \ {i.x} ELSE H

\* h lists the names held before each call of a, and after the last.
Trace(h, a, H, G) ==
    /\ h[1] = H /\ h[Len(a) + 1] = G
    /\ \A j \in 1 .. Len(a) : Takes(a[j], h[j], h[j + 1])

Block(a, H, G) == (\E S : a \in Seq(S)) /\ \E h : Trace(h, a, H, G)

\* A block runs after a block.
LEMMA Together ==
    ASSUME NEW a, NEW b, NEW H, NEW M, NEW G, Block(a, H, M), Block(b, M, G)
    PROVE  Block(a \o b, H, G)
<1>1. PICK Sa, ha : a \in Seq(Sa) /\ Trace(ha, a, H, M)
    BY DEF Block
<1>2. PICK Sb, hb : b \in Seq(Sb) /\ Trace(hb, b, M, G)
    BY DEF Block
<1> DEFINE S == Sa \cup Sb
           m == Len(a)
           n == Len(b)
           h == [j \in 1 .. m + n + 1 |-> IF j <= m THEN ha[j] ELSE hb[j - m]]
<1>3. a \in Seq(S) /\ b \in Seq(S) /\ m \in Nat /\ n \in Nat
    BY <1>1, <1>2
<1>4. /\ a \o b \in Seq(S) /\ Len(a \o b) = m + n
      /\ \A j \in 1 .. m + n : (a \o b)[j] = IF j <= m THEN a[j] ELSE b[j - m]
    BY <1>3, ConcatProperties
<1>5. Trace(h, a \o b, H, G)
    <2>1. h[1] = H
        BY <1>1, <1>2, <1>3 DEF Trace
    <2>2. h[m + n + 1] = G
        BY <1>1, <1>2, <1>3 DEF Trace
    <2>3. ASSUME NEW j \in 1 .. m + n
          PROVE  Takes((a \o b)[j], h[j], h[j + 1])
        <3>1. CASE j <= m
            <4>1. Takes(a[j], ha[j], ha[j + 1])
                BY <1>1, <1>3, <3>1 DEF Trace
            <4>2. h[j] = ha[j] /\ h[j + 1] = ha[j + 1]
                BY <1>1, <1>2, <1>3, <3>1 DEF Trace
            <4> QED
                BY <1>4, <3>1, <4>1, <4>2
        <3>2. CASE ~(j <= m)
            <4>1. j - m \in 1 .. n /\ (j + 1) - m = (j - m) + 1
                BY <1>3, <3>2
            <4>2. Takes(b[j - m], hb[j - m], hb[(j - m) + 1])
                BY <1>2, <4>1 DEF Trace
            <4>3. h[j] = hb[j - m] /\ h[j + 1] = hb[(j - m) + 1]
                BY <1>3, <3>2, <4>1
            <4> QED
                BY <1>4, <3>2, <4>2, <4>3
        <3> QED
            BY <3>1, <3>2
    <2> HIDE DEF h
    <2> QED
        BY <1>4, <2>1, <2>2, <2>3 DEF Trace
<1> QED
    BY <1>4, <1>5 DEF Block

\* Instructions that leave the names held as they are.
Quiet(i) == \A H : Takes(i, H, H)

\* What one open, of any kind, does to the names held.
LEMMA Opening ==
    ASSUME NEW x \in Names, NEW H, x \notin H
    PROVE  /\ \A type \in CX_SHARE_T : Takes(Open(x, type), H, H \cup {x})
           /\ \A type \in CX_SHARE_T : Takes(OpenFull(x, type), H, H)
           /\ Takes(OpenUnknown(x), H, H)
           /\ \A at : Takes(Place(x, at), H, H \cup {x})
           /\ \A cx \in Stateless : Takes(OpenCx(x, cx), H, H \cup {x})
BY DEF Takes, Proper, Works, opens, Open, OpenFull, OpenUnknown, Place, OpenCx

\* What one close does to them.
LEMMA Closing ==
    ASSUME NEW H, NEW x \in H
    PROVE  Takes(Close(x), H, H \ {x})
BY DEF Takes, Proper, Works, opens, Close

\* The calls that open and close nothing, kind by kind.
LEMMA QuietSel == Quiet(SelLegacy) /\ \A x : Quiet(Sel(x))
BY DEF Quiet, Takes, Proper, Works, opens, Sel, SelLegacy

\* The asserts on selectors and on their words.
LEMMA QuietSame ==
    \A x, y, r : /\ Quiet(SameSel(x, y, r)) /\ Quiet(SelWord(x))
                /\ Quiet(SameId(x, y)) /\ Quiet(SameState(x, y, r))
BY DEF Quiet, Takes, Proper, Works, opens, SelWord, SameId, SameState, SameSel

\* The calls of stateless CXs.
LEMMA QuietFn == \A cf, a, b, r : Quiet(Fn(cf, a, b, r)) /\ Quiet(Printed(cf, a, b))
BY DEF Quiet, Takes, Proper, Works, opens, Fn, Printed

\* The calls of mac.
LEMMA QuietMac == \A a, b \in {2, 3, 5} : (\A r : Quiet(Mac(a, b, r))) /\ Quiet(Work(a, b))
BY ProgramAssumption DEF Quiet, Takes, Proper, Works, opens, Mac, Work

\* The other quiet calls.
LEMMA QuietOthers ==
    /\ Quiet(Clear) /\ Quiet(NoError) /\ Quiet(Add)
    /\ \A r : Quiet(Read(r)) /\ Quiet(Square(r)) /\ Quiet(Total(r)) /\ Quiet(Join(r))
BY DEF Quiet, Takes, Proper, Works, opens, Clear, NoError, Add, Read, Square, Total, Join

\* To create a worker opens and closes nothing.
LEMMA QuietCreate ==
    ASSUME NEW t \in 1 .. N, NEW body, Worker(body)
    PROVE  Quiet(Create(t, body))
BY DEF Quiet, Takes, Proper, Works, opens, Create

\* Opening and Closing with the names after the call given.
LEMMA Opened ==
    ASSUME NEW x \in Names, NEW H, x \notin H, NEW G, G = H \cup {x},
           NEW type \in CX_SHARE_T
    PROVE  Takes(Open(x, type), H, G)
BY Opening

\* A block of one open on the state of another selector,
LEMMA Placed ==
    ASSUME NEW x \in Names, NEW H, x \notin H, NEW G, G = H \cup {x}, NEW at
    PROVE  Takes(Place(x, at), H, G)
BY Opening

\* of one open of a stateless CX,
LEMMA OpenedCx ==
    ASSUME NEW x \in Names, NEW H, x \notin H, NEW G, G = H \cup {x}, NEW cx \in Stateless
    PROVE  Takes(OpenCx(x, cx), H, G)
BY Opening

\* of one close.
LEMMA Closed ==
    ASSUME NEW H, NEW x \in H, NEW G, G = H \ {x}
    PROVE  Takes(Close(x), H, G)
BY Closing

\* A sequence that leaves the names held as they are.
LEMMA QuietBlock ==
    ASSUME NEW S, NEW a \in Seq(S), \A j \in 1 .. Len(a) : Quiet(a[j]), NEW H
    PROVE  Block(a, H, H)
<1> DEFINE h == [j \in 1 .. Len(a) + 1 |-> H]
<1>1. Len(a) \in Nat
    OBVIOUS
<1>2. Trace(h, a, H, H)
    <2>1. \A j \in 1 .. Len(a) : j \in 1 .. Len(a) + 1 /\ j + 1 \in 1 .. Len(a) + 1
        BY <1>1
    <2>2. h[1] = H /\ h[Len(a) + 1] = H
        BY <1>1
    <2>3. \A j \in 1 .. Len(a) : Takes(a[j], h[j], h[j + 1])
        BY <2>1 DEF Quiet
    <2> QED
        BY <2>2, <2>3 DEF Trace
<1> QED
    BY <1>2 DEF Block

\* One call is a block.
LEMMA OneCall ==
    ASSUME NEW i, NEW H, NEW G, Takes(i, H, G)
    PROVE  Block(<<i>>, H, G)
<1> DEFINE a == <<i>>
           h == <<H, G>>
<1>1. a \in Seq({i}) /\ Len(a) = 1 /\ a[1] = i /\ h[1] = H /\ h[2] = G
    OBVIOUS
<1> HIDE DEF a, h
<1>2. Trace(h, a, H, G)
    BY <1>1 DEF Trace
<1>3. Block(a, H, G)
    BY <1>1, <1>2 DEF Block
<1> QED
    BY <1>3 DEF a

\* Opens and closes of different names in a row.
LEMMA OpensBlock ==
    ASSUME NEW n \in Nat, NEW xs \in [1 .. n -> Names], NEW H, NEW G,
           \A i \in 1 .. n : xs[i] \notin H,
           \A i, j \in 1 .. n : xs[i] = xs[j] => i = j,
           G = H \cup {xs[i] : i \in 1 .. n}, NEW type \in CX_SHARE_T
    PROVE  Block([i \in 1 .. n |-> Open(xs[i], type)], H, G)
<1> DEFINE a == [i \in 1 .. n |-> Open(xs[i], type)]
           h == [j \in 1 .. n + 1 |-> H \cup {xs[i] : i \in 1 .. j - 1}]
           S == {Open(xs[i], type) : i \in 1 .. n}
<1>1. a \in Seq(S) /\ Len(a) = n
    OBVIOUS
<1>2. h[1] = H /\ h[n + 1] = G
    <2>1. 1 .. 1 - 1 = {} /\ 1 .. (n + 1) - 1 = 1 .. n
        OBVIOUS
    <2> QED
        BY <2>1
<1>3. ASSUME NEW j \in 1 .. n
      PROVE  Takes(a[j], h[j], h[j + 1])
    <2>1. h[j + 1] = h[j] \cup {xs[j]}
        <3>1. 1 .. (j + 1) - 1 = (1 .. j - 1) \cup {j} /\ j \in 1 .. n + 1 /\ j + 1 \in 1 .. n + 1
            OBVIOUS
        <3>2. {xs[i] : i \in (1 .. j - 1) \cup {j}} = {xs[i] : i \in 1 .. j - 1} \cup {xs[j]}
            OBVIOUS
        <3> QED
            BY <3>1, <3>2
    <2>2. xs[j] \notin h[j] /\ xs[j] \in Names
        OBVIOUS
    <2>3. a[j] = Open(xs[j], type)
        OBVIOUS
    <2> HIDE DEF h, a
    <2> QED
        BY <2>1, <2>2, <2>3, Opened
<1> HIDE DEF h, a, S
<1>4. Trace(h, a, H, G)
    BY <1>1, <1>2, <1>3 DEF Trace
<1> QED
    BY <1>1, <1>4 DEF Block, a

\* Closes in a row, by the names in an array.
LEMMA ClosesBlock ==
    ASSUME NEW n \in Nat, NEW xs \in [1 .. n -> Names], NEW H, NEW G,
           \A i \in 1 .. n : xs[i] \in H,
           \A i, j \in 1 .. n : xs[i] = xs[j] => i = j,
           G = H \ {xs[i] : i \in 1 .. n}
    PROVE  Block([i \in 1 .. n |-> Close(xs[i])], H, G)
<1> DEFINE a == [i \in 1 .. n |-> Close(xs[i])]
           h == [j \in 1 .. n + 1 |-> H \ {xs[i] : i \in 1 .. j - 1}]
           S == {Close(xs[i]) : i \in 1 .. n}
<1>1. a \in Seq(S) /\ Len(a) = n
    OBVIOUS
<1>2. h[1] = H /\ h[n + 1] = G
    <2>1. 1 .. 1 - 1 = {} /\ 1 .. (n + 1) - 1 = 1 .. n
        OBVIOUS
    <2> QED
        BY <2>1
<1>3. ASSUME NEW j \in 1 .. n
      PROVE  Takes(a[j], h[j], h[j + 1])
    <2>1. h[j + 1] = h[j] \ {xs[j]}
        <3>1. 1 .. (j + 1) - 1 = (1 .. j - 1) \cup {j} /\ j \in 1 .. n + 1 /\ j + 1 \in 1 .. n + 1
            OBVIOUS
        <3>2. {xs[i] : i \in (1 .. j - 1) \cup {j}} = {xs[i] : i \in 1 .. j - 1} \cup {xs[j]}
            OBVIOUS
        <3> QED
            BY <3>1, <3>2
    <2>2. xs[j] \in h[j]
        OBVIOUS
    <2>3. a[j] = Close(xs[j])
        OBVIOUS
    <2> HIDE DEF h, a
    <2> QED
        BY <2>1, <2>2, <2>3, Closed
<1> HIDE DEF h, a, S
<1>4. Trace(h, a, H, G)
    BY <1>1, <1>2, <1>3 DEF Trace
<1> QED
    BY <1>1, <1>4 DEF Block, a

\* Opens and Closes on a list of different names.
LEMMA OpensOf ==
    ASSUME NEW xs \in Seq(Labels), NEW H, NEW G, \A i \in 1 .. Len(xs) : xs[i] \notin H,
           \A i, j \in 1 .. Len(xs) : xs[i] = xs[j] => i = j,
           G = H \cup {xs[i] : i \in 1 .. Len(xs)}, NEW type \in CX_SHARE_T
    PROVE  Block(Opens(xs, type), H, G)
<1>1. PICK n \in Nat : n = Len(xs) /\ xs \in [1 .. n -> Names]
    BY LenProperties DEF Names
<1>2. Block([i \in 1 .. n |-> Open(xs[i], type)], H, G)
    BY <1>1, OpensBlock
<1> QED
    BY <1>1, <1>2 DEF Opens

\* Closes(xs) of two, three and four names.
LEMMA ClosesOf ==
    ASSUME NEW xs \in Seq(Labels), NEW H, NEW G, \A i \in 1 .. Len(xs) : xs[i] \in H,
           \A i, j \in 1 .. Len(xs) : xs[i] = xs[j] => i = j,
           G = H \ {xs[i] : i \in 1 .. Len(xs)}
    PROVE  Block(Closes(xs), H, G)
<1>1. PICK n \in Nat : n = Len(xs) /\ xs \in [1 .. n -> Names]
    BY LenProperties DEF Names
<1>2. Block([i \in 1 .. n |-> Close(xs[i])], H, G)
    BY <1>1, ClosesBlock
<1> QED
    BY <1>1, <1>2 DEF Closes

\* The two names most examples open and close.
LEMMA PairBlocks ==
    /\ Block(Opens(AB, NO), {}, {"A", "B"}) /\ Block(Opens(AB, INTRA), {}, {"A", "B"})
    /\ Block(Closes(AB), {"A", "B"}, {})
<1>1. /\ AB \in Seq(Labels) /\ Len(AB) = 2 /\ \A i, j \in 1 .. 2 : AB[i] = AB[j] => i = j
      /\ {AB[i] : i \in 1 .. 2} = {"A", "B"}
    BY DEF AB, Labels
<1>2. ASSUME NEW type \in CX_SHARE_T
      PROVE  Block(Opens(AB, type), {}, {"A", "B"})
    BY <1>1, OpensOf
<1>4. NO \in CX_SHARE_T /\ INTRA \in CX_SHARE_T
    BY DEF NO, INTRA, CX_SHARE_T
<1>3. Block(Closes(AB), {"A", "B"}, {})
    BY <1>1, ClosesOf
<1> QED
    BY <1>2, <1>3, <1>4

-----------------------------------------------------------------------------
(* The calls the examples are written with *)

\* The arguments the examples give, and the calls they make.
Marks == Labels \cup {LEGACY}
Numbers == {2, 3, 5}

QuietCalls == UNION
    {{Sel(x) : x \in Marks}, {SelWord(x) : x \in Marks},
     {SameId(x, y) : x \in Marks, y \in Marks},
     {SameState(x, y, r) : x \in Marks, y \in Marks, r \in BOOLEAN},
     {SameSel(x, y, r) : x \in Marks, y \in Marks, r \in BOOLEAN},
     {Fn(cf, a, b, r) : cf \in Nat, a \in Numbers, b \in Numbers, r \in Nat},
     {Printed(cf, a, b) : cf \in Nat, a \in Numbers, b \in Numbers},
     {Mac(a, b, r) : a \in Numbers, b \in Numbers, r \in Nat},
     {Work(a, b) : a \in Numbers, b \in Numbers},
     {Read(r) : r \in Nat}, {Clear, NoError, SelLegacy}}
Calls == UNION
    {QuietCalls, {Open(x, type) : x \in Labels, type \in CX_SHARE_T},
     {OpenFull(x, type) : x \in Labels, type \in CX_SHARE_T},
     {OpenUnknown(x) : x \in Labels},
     {Place(x, at) : x \in Labels, at \in Labels},
     {OpenCx(x, cx) : x \in Labels, cx \in Stateless}, {Close(x) : x \in Labels}}

\* The calls are in these sets.
LEMMA InQuiet ==
    /\ \A x \in Marks : Sel(x) \in QuietCalls /\ SelWord(x) \in QuietCalls
    /\ \A x, y \in Marks : SameId(x, y) \in QuietCalls
    /\ \A x, y \in Marks, r \in BOOLEAN :
          SameState(x, y, r) \in QuietCalls /\ SameSel(x, y, r) \in QuietCalls
    /\ \A cf \in Nat, a, b \in Numbers, r \in Nat : Fn(cf, a, b, r) \in QuietCalls
    /\ \A cf \in Nat, a, b \in Numbers : Printed(cf, a, b) \in QuietCalls
    /\ \A a, b \in Numbers, r \in Nat : Mac(a, b, r) \in QuietCalls
    /\ \A a, b \in Numbers : Work(a, b) \in QuietCalls
    /\ \A r \in Nat : Read(r) \in QuietCalls
    /\ Clear \in QuietCalls /\ NoError \in QuietCalls /\ SelLegacy \in QuietCalls
BY DEF QuietCalls

\* A sequence of n calls of a set is one of its sequences.
LEMMA InCalls ==
    /\ \A i \in QuietCalls : i \in Calls
    /\ \A x \in Labels, type \in CX_SHARE_T : Open(x, type) \in Calls /\ OpenFull(x, type) \in Calls
    /\ \A x \in Labels : OpenUnknown(x) \in Calls
    /\ \A x, y \in Labels : Place(x, y) \in Calls
    /\ \A x \in Labels, cx \in Stateless : OpenCx(x, cx) \in Calls
    /\ \A x \in Labels : Close(x) \in Calls
BY DEF Calls

\* A sequence of quiet calls is a block for any names held.
LEMMA QuietCallsAre == \A i \in QuietCalls : Quiet(i)
BY QuietSel, QuietSame, QuietFn, QuietMac, QuietOthers DEF QuietCalls, Numbers

\* The names, operands and CXs of the examples are where the sets expect them.
LEMMA TheLabels ==
    /\ \A x \in {"A", "A0", "B", "C", "D", "M", "T"} : x \in Labels /\ x \in Marks /\ x \in Names
    /\ LEGACY \in Marks
    /\ 2 \in Numbers /\ 3 \in Numbers /\ 5 \in Numbers
    /\ NO \in CX_SHARE_T /\ INTRA \in CX_SHARE_T /\ CX_INTER_VIRT \in CX_SHARE_T
    /\ addsub \in Stateless /\ muldiv \in Stateless
BY DEF Labels, Marks, Names, Numbers, NO, INTRA, CX_SHARE_T, Stateless

\* Quiet calls may run with any names held.
LEMMA QuietCallsBlock ==
    ASSUME NEW a \in Seq(QuietCalls), NEW H
    PROVE  Block(a, H, H)
BY QuietBlock, QuietCallsAre, ElementOfSeq

-----------------------------------------------------------------------------
(* examples/cx_open.c *)

\* cx_open.c closes what it opens.
LEMMA CxOpenFile == Block(program("cx_open.c"), {}, {})
<1> DEFINE H == {"A", "B"}
           full == <<OpenFull("C", NO), Sel("A"), Mac(5, 5, 25), Sel("B"), Mac(3, 3, 9),
                     Sel("A"), Mac(5, 3, 40), Sel("B"), Mac(5, 3, 24)>>
           hold == <<H, H, H, H, H, H, H, H, H, H>>
<1>1. Block(full, H, H)
    <2>1. full \in Seq(Calls)
        BY TheLabels, InCalls, InQuiet
    <2>2. "C" \notin H
        OBVIOUS
    <2> HIDE DEF H
    <2>3. Takes(OpenFull("C", NO), H, H)
        BY <2>2, TheLabels, Opening
    <2>4. \A j \in 1 .. 9 : Takes(full[j], hold[j], hold[j + 1])
        BY <2>3, QuietSel, QuietMac DEF Quiet
    <2>5. Trace(hold, full, H, H)
        BY <2>4 DEF Trace
    <2> HIDE DEF full, hold
    <2> QED
        BY <2>1, <2>5 DEF Block
<1>2. Block(Opens(AB, NO), {}, H) /\ Block(Closes(AB), H, {})
    BY PairBlocks
<1> HIDE DEF H, full
<1>3. Block(Opens(AB, NO) \o full, {}, H)
    BY <1>1, <1>2, Together
<1>4. Block((Opens(AB, NO) \o full) \o Closes(AB), {}, {})
    BY <1>2, <1>3, Together
<1>5. Block(exclusive_open_3, {}, {})
    BY <1>4 DEF exclusive_open_3, full
<1> QED
    BY <1>5 DEF program

-----------------------------------------------------------------------------
(* examples/intra_virt.c *)

\* The asserts of intra_open_6 on the words of the selectors.
LEMMA IntraOpen6Asserts ==
    <<SameId("A", "B"), SameId("B", "C"), SameId("C", "D"), SameState("A", "B", TRUE),
      SameState("B", "C", FALSE), SameState("C", "D", TRUE)>> \in Seq(QuietCalls)
<1> DEFINE i1 == SameId("A", "B")           i2 == SameId("B", "C")
           i3 == SameId("C", "D")           s1 == SameState("A", "B", TRUE)
           s2 == SameState("B", "C", FALSE) s3 == SameState("C", "D", TRUE)
<1>1. i1 \in QuietCalls /\ i2 \in QuietCalls /\ i3 \in QuietCalls
    BY TheLabels, InQuiet
<1>2. TRUE \in BOOLEAN /\ FALSE \in BOOLEAN
    OBVIOUS
<1>3. s1 \in QuietCalls /\ s2 \in QuietCalls /\ s3 \in QuietCalls
    BY Zenon, <1>2, TheLabels, InQuiet
<1> HIDE DEF i1, i2, i3, s1, s2, s3
<1>4. <<i1, i2, i3, s1, s2, s3>> \in Seq(QuietCalls)
    BY <1>1, <1>3
<1> QED
    BY Zenon, <1>4 DEF i1, i2, i3, s1, s2, s3

\* Its calls of mac.
LEMMA IntraOpen6Calls ==
           <<Sel("A"), Mac(5, 5, 25), Sel("B"), Mac(5, 3, 15), Sel("A"), Mac(2, 2, 29),
             Sel("C"), Mac(5, 2, 10), Sel("D"), Mac(3, 2, 6), Sel("C"), Mac(2, 2, 14),
             Mac(5, 5, 39), Sel("A"), Mac(3, 3, 38), Sel("C"), Mac(5, 5, 64), Sel("B"),
             Mac(3, 3, 24)>> \in Seq(QuietCalls)
BY TheLabels, InQuiet

\* The opens of intra_open_6, two of them on the state of another.
LEMMA IntraOpen6Opens ==
    Block(<<Open("A", INTRA), Place("B", "A"), Open("C", INTRA), Place("D", "C")>>,
          {}, {"A", "B", "C", "D"})
<1> DEFINE a == <<Open("A", INTRA), Place("B", "A"), Open("C", INTRA), Place("D", "C")>>
           h == <<{}, {"A"}, {"A", "B"}, {"A", "B", "C"}, {"A", "B", "C", "D"}>>
<1>1. a \in Seq(Calls)
    BY TheLabels, InCalls
<1>2. /\ Takes(Open("A", INTRA), {}, {"A"})
      /\ Takes(Place("B", "A"), {"A"}, {"A", "B"})
      /\ Takes(Open("C", INTRA), {"A", "B"}, {"A", "B", "C"})
      /\ Takes(Place("D", "C"), {"A", "B", "C"}, {"A", "B", "C", "D"})
    BY TheLabels, Opened, Placed
<1>3. Trace(h, a, {}, {"A", "B", "C", "D"})
    BY <1>2 DEF Trace
<1> HIDE DEF a, h
<1>4. Block(a, {}, {"A", "B", "C", "D"})
    BY <1>1, <1>3 DEF Block
<1> QED
    BY <1>4 DEF a

\* The return to CX_LEGACY.
LEMMA LastCall == Block(<<Sel(LEGACY)>>, {}, {})
BY QuietSel, OneCall DEF Quiet

\* The four names of intra_open_2, _3 and _6.
LEMMA FourBlocks ==
    /\ Block(Opens(ABCD, INTRA), {}, {"A", "B", "C", "D"})
    /\ Block(Opens(<<"B", "C", "D">>, INTRA), {"A"}, {"A", "B", "C", "D"})
    /\ Block(Closes(ABCD), {"A", "B", "C", "D"}, {})
    /\ Block(Closes(<<"A", "B", "C">>), {"A", "B", "C"}, {})
<1> DEFINE xs == <<"B", "C", "D">>
           ys == <<"A", "B", "C">>
<1>1. /\ ABCD \in Seq(Labels) /\ Len(ABCD) = 4
      /\ \A i, j \in 1 .. 4 : ABCD[i] = ABCD[j] => i = j
      /\ {ABCD[i] : i \in 1 .. 4} = {"A", "B", "C", "D"}
    BY DEF ABCD, Labels
<1>2. /\ xs \in Seq(Labels) /\ Len(xs) = 3
      /\ \A i, j \in 1 .. 3 : xs[i] = xs[j] => i = j
      /\ {xs[i] : i \in 1 .. 3} = {"B", "C", "D"} /\ \A i \in 1 .. 3 : xs[i] # "A"
    BY DEF Labels
<1>3. /\ ys \in Seq(Labels) /\ Len(ys) = 3
      /\ \A i, j \in 1 .. 3 : ys[i] = ys[j] => i = j
      /\ {ys[i] : i \in 1 .. 3} = {"A", "B", "C"}
    BY DEF Labels
<1> HIDE DEF xs, ys
<1>4. Block(Opens(ABCD, INTRA), {}, {"A", "B", "C", "D"})
    BY <1>1, TheLabels, OpensOf
<1>5. Block(Opens(xs, INTRA), {"A"}, {"A", "B", "C", "D"})
    BY <1>2, TheLabels, OpensOf
<1>6. Block(Closes(ABCD), {"A", "B", "C", "D"}, {})
    BY <1>1, ClosesOf
<1>7. Block(Closes(ys), {"A", "B", "C"}, {})
    BY <1>3, ClosesOf
<1> QED
    BY <1>4, <1>5, <1>6, <1>7 DEF xs, ys

\* intra_open_3 to _6 close what they open.
LEMMA IntraOpen3 == Block(intra_open_3, {}, {})
<1> DEFINE H == {"A", "B", "C", "D"}
           first == <<Open("A", NO)>>
           run == <<SameId("A", "B"), SameId("B", "C"), SameId("C", "D"), Sel("B"),
              Mac(5, 5, 25), Sel("C"), Mac(3, 3, 9), Sel("D"), Mac(5, 3, 15), Sel("B"), Mac(3, 3, 34),
              Sel("C"), Mac(3, 3, 18), Sel("D"), Mac(3, 5, 30), Sel("B"), Mac(3, 3, 43)>>
           others == <<"B", "C", "D">>
<1>1. run \in Seq(QuietCalls)
    BY TheLabels, InQuiet
<1>2. Takes(Open("A", NO), {}, {"A"})
    BY TheLabels, Opened
<1>3. Block(first, {}, {"A"})
    BY <1>2, OneCall
<1>4. Block(Opens(others, INTRA), {"A"}, H) /\ Block(Closes(ABCD), H, {})
    BY FourBlocks
<1> HIDE DEF H, first, run, others
<1>6. Block(first \o Opens(others, INTRA), {}, H)
    BY <1>3, <1>4, Together
<1>7. Block(run, H, H)
    BY <1>1, QuietCallsBlock
<1>8. Block((first \o Opens(others, INTRA)) \o run, {}, H)
    BY <1>6, <1>7, Together
<1>9. Block(((first \o Opens(others, INTRA)) \o run) \o Closes(ABCD), {}, {})
    BY <1>4, <1>8, Together
<1> QED
    BY <1>9 DEF intra_open_3, first, run, others

\* intra_open_4 closes what it opens,
LEMMA IntraOpen4 == Block(intra_open_4, {}, {})
<1> DEFINE ABC == {"A", "B", "C"}
           run == <<Open("A", NO), Open("B", INTRA), Sel("A"), Mac(5, 5, 25),
                    Open("C", INTRA), Sel("C"), Read(0)>>
           h == <<{}, {"A"}, {"A", "B"}, {"A", "B"}, {"A", "B"}, ABC, ABC, ABC>>
           xs == <<"A", "B", "C">>
<1>1. run \in Seq(Calls)
    BY TheLabels, InCalls, InQuiet
<1>2. /\ Takes(Open("A", NO), {}, {"A"}) /\ Takes(Open("B", INTRA), {"A"}, {"A", "B"})
      /\ Takes(Open("C", INTRA), {"A", "B"}, ABC)
    BY TheLabels, Opened
<1>3. Block(Closes(xs), ABC, {})
    BY FourBlocks
<1> HIDE DEF ABC
<1>4. Trace(h, run, {}, ABC)
    <2>1. Quiet(Sel("A")) /\ Quiet(Mac(5, 5, 25)) /\ Quiet(Sel("C")) /\ Quiet(Read(0))
        BY QuietSel, QuietMac, QuietOthers
    <2> QED
        BY <1>2, <2>1 DEF Trace, Quiet
<1> HIDE DEF run, h, xs
<1>5. Block(run, {}, ABC)
    BY <1>1, <1>4 DEF Block
<1>6. Block(run \o Closes(xs), {}, {})
    BY <1>3, <1>5, Together
<1> QED
    BY <1>6 DEF intra_open_4, run, xs

\* and so does intra_open_5,
LEMMA IntraOpen5 == Block(intra_open_5, {}, {})
<1> DEFINE ABC == {"A", "B", "C"}
           run == <<Open("A", NO), Open("B", INTRA), Sel("B"), Mac(5, 5, 25),
                    Open("C", INTRA), Read(25), SelWord("B"), Mac(5, 3, 40), Sel("C"),
                    Read(0), Mac(5, 3, 15)>>
           h == <<{}, {"A"}, {"A", "B"}, {"A", "B"}, {"A", "B"}, ABC, ABC, ABC, ABC, ABC,
                  ABC, ABC>>
           xs == <<"A", "B", "C">>
           last == <<Sel(LEGACY)>>
<1>1. run \in Seq(Calls)
    BY TheLabels, InCalls, InQuiet
<1>2. /\ Takes(Open("A", NO), {}, {"A"}) /\ Takes(Open("B", INTRA), {"A"}, {"A", "B"})
      /\ Takes(Open("C", INTRA), {"A", "B"}, ABC)
    BY TheLabels, Opened
<1>3. Block(Closes(xs), ABC, {}) /\ Block(last, {}, {})
    BY FourBlocks, LastCall
<1> HIDE DEF ABC
<1>4. Trace(h, run, {}, ABC)
    <2>1. /\ Quiet(Sel("B")) /\ Quiet(Mac(5, 5, 25)) /\ Quiet(Read(25))
          /\ Quiet(SelWord("B")) /\ Quiet(Mac(5, 3, 40)) /\ Quiet(Sel("C"))
          /\ Quiet(Read(0)) /\ Quiet(Mac(5, 3, 15))
        BY QuietSel, QuietSame, QuietMac, QuietOthers
    <2> QED
        BY <1>2, <2>1 DEF Trace, Quiet
<1> HIDE DEF run, h, xs, last
<1>5. Block(run, {}, ABC)
    BY <1>1, <1>4 DEF Block
<1>6. Block(run \o Closes(xs), {}, {})
    BY <1>3, <1>5, Together
<1>7. Block((run \o Closes(xs)) \o last, {}, {})
    BY <1>3, <1>6, Together
<1> QED
    BY <1>7 DEF intra_open_5, run, xs, last

\* and intra_open_6.
LEMMA IntraOpen6 == Block(intra_open_6, {}, {})
<1> DEFINE H == {"A", "B", "C", "D"}
           first == <<Open("A", INTRA), Place("B", "A"), Open("C", INTRA), Place("D", "C")>>
           words == <<SameId("A", "B"), SameId("B", "C"), SameId("C", "D"),
             SameState("A", "B", TRUE), SameState("B", "C", FALSE), SameState("C", "D", TRUE)>>
           run == <<Sel("A"), Mac(5, 5, 25), Sel("B"), Mac(5, 3, 15), Sel("A"), Mac(2, 2, 29),
             Sel("C"), Mac(5, 2, 10), Sel("D"), Mac(3, 2, 6), Sel("C"), Mac(2, 2, 14),
             Mac(5, 5, 39), Sel("A"), Mac(3, 3, 38), Sel("C"), Mac(5, 5, 64), Sel("B"),
             Mac(3, 3, 24)>>
           last == <<Sel(LEGACY)>>
<1>1. run \in Seq(QuietCalls) /\ words \in Seq(QuietCalls)
    BY IntraOpen6Calls, IntraOpen6Asserts
<1>2. intra_open_6 = (((first \o words) \o run) \o Closes(ABCD)) \o last
    BY DEF intra_open_6
<1>3. Block(first, {}, H) /\ Block(Closes(ABCD), H, {}) /\ Block(last, {}, {})
    BY IntraOpen6Opens, FourBlocks, LastCall
<1> HIDE DEF H, first, words, run, last
<1>4. Block(words, H, H) /\ Block(run, H, H)
    BY <1>1, QuietCallsBlock
<1>5. Block(first \o words, {}, H)
    BY <1>3, <1>4, Together
<1>6. Block((first \o words) \o run, {}, H)
    BY <1>4, <1>5, Together
<1>7. Block(((first \o words) \o run) \o Closes(ABCD), {}, {})
    BY <1>3, <1>6, Together
<1>8. Block((((first \o words) \o run) \o Closes(ABCD)) \o last, {}, {})
    BY <1>3, <1>7, Together
<1> QED
    BY <1>2, <1>8, Zenon

\* intra_virt.c closes what it opens.
LEMMA IntraVirtFile == Block(program("intra_virt.c"), {}, {})
<1>1. Block(intra_open_1, {}, {})
    BY PairBlocks, Together DEF intra_open_1
<1>2. Block(intra_open_2, {}, {})
    BY FourBlocks, Together DEF intra_open_2
<1>3. Block(intra_open_1 \o intra_open_2, {}, {})
    BY <1>1, <1>2, Together
<1>4. Block(intra_open_1 \o intra_open_2 \o intra_open_3, {}, {})
    BY <1>3, IntraOpen3, Together
<1>5. Block(intra_open_1 \o intra_open_2 \o intra_open_3 \o intra_open_4, {}, {})
    BY <1>4, IntraOpen4, Together
<1>6. Block(intra_open_1 \o intra_open_2 \o intra_open_3 \o intra_open_4
            \o intra_open_5, {}, {})
    BY <1>5, IntraOpen5, Together
<1>7. Block(intra_open_1 \o intra_open_2 \o intra_open_3 \o intra_open_4
            \o intra_open_5 \o intra_open_6, {}, {})
    BY <1>6, IntraOpen6, Together
<1> QED
    BY <1>7 DEF program

-----------------------------------------------------------------------------
(* examples/state.c, state_test.c *)

\* state.c closes what it opens.
LEMMA StateFile == Block(program("state.c"), {}, {})
<1> DEFINE H == {"A", "B"}
           run == <<Clear, Sel("A"), Work(3, 3), NoError, Clear, Sel("B"), Work(5, 5),
                    NoError, Clear, Sel("A"), Work(3, 3), NoError, Clear, Sel("B"),
                    Work(3, 5), NoError>>
           last == <<Sel(LEGACY)>>
<1>1. run \in Seq(QuietCalls)
    BY TheLabels, InQuiet
<1>2. Block(Opens(AB, NO), {}, H) /\ Block(Closes(AB), H, {}) /\ Block(last, {}, {})
    BY PairBlocks, LastCall
<1> HIDE DEF H, run, last
<1>3. Block(run, H, H)
    BY <1>1, QuietCallsBlock
<1>4. Block(Opens(AB, NO) \o run, {}, H)
    BY <1>2, <1>3, Together
<1>5. Block((Opens(AB, NO) \o run) \o Closes(AB), {}, {})
    BY <1>2, <1>4, Together
<1>6. Block(((Opens(AB, NO) \o run) \o Closes(AB)) \o last, {}, {})
    BY <1>2, <1>5, Together
<1>7. Block(state, {}, {})
    BY <1>6 DEF state, run, last
<1>8. Block(last \o state, {}, {})
    BY <1>2, <1>7, Together
<1> QED
    BY <1>8 DEF program, last

\* state_test.c closes what it opens.
LEMMA StateTestFile == Block(program("state_test.c"), {}, {})
<1> DEFINE H == {"A", "B"}
           HA == {"A"}
           HB == {"B"}
           HT == {"B", "T"}
           first == <<SelLegacy, NoError, Open("A", NO), SelLegacy, Clear, Sel("A"),
                      SelWord("A"), Mac(3, 5, 15), NoError, Close("A")>>
           h1 == <<{}, {}, {}, HA, HA, HA, HA, HA, HA, HA, {}>>
           run == <<Clear, Sel("A"), SelWord("A"), Mac(3, 3, 9), NoError, Clear, Sel("B"),
                    SelWord("B"), Mac(5, 5, 25), NoError, Close("A"), Open("T", NO),
                    Close("T"), Open("T", NO), Close("T"), Open("T", NO), Close("T"),
                    Close("B"), OpenUnknown("T"), Sel(LEGACY)>>
           h2 == <<H, H, H, H, H, H, H, H, H, H, H, HB, HT, HB, HT, HB, HT, HB, {}, {}, {}>>
           last == <<Sel(LEGACY)>>
<1>1. first \in Seq(Calls) /\ run \in Seq(Calls)
    BY TheLabels, InCalls, InQuiet
<1>2. /\ Takes(Open("A", NO), {}, HA) /\ Takes(Close("A"), HA, {}) /\ Takes(Close("A"), H, HB)
      /\ Takes(Open("T", NO), HB, HT) /\ Takes(Close("T"), HT, HB) /\ Takes(Close("B"), HB, {})
      /\ Takes(OpenUnknown("T"), {}, {})
    BY TheLabels, Opened, Closed, Opening
<1>3. /\ Quiet(SelLegacy) /\ Quiet(Sel("A")) /\ Quiet(SelWord("A"))
      /\ Quiet(Mac(3, 5, 15)) /\ Quiet(Mac(3, 3, 9)) /\ Quiet(Sel("B")) /\ Quiet(SelWord("B"))
      /\ Quiet(Mac(5, 5, 25)) /\ Quiet(Sel(LEGACY)) /\ Quiet(Clear) /\ Quiet(NoError)
    BY QuietSel, QuietSame, QuietMac, QuietOthers
<1>4. Block(Opens(AB, NO), {}, H) /\ Block(last, {}, {})
    BY PairBlocks, LastCall
<1> HIDE DEF H, HA, HB, HT
<1>5. Trace(h1, first, {}, {})
    BY <1>2, <1>3 DEF Trace, Quiet
<1>6. Trace(h2, run, H, {})
    BY <1>2, <1>3 DEF Trace, Quiet
<1> HIDE DEF h1, h2, first, run, last
<1>7. Block(first, {}, {}) /\ Block(run, H, {})
    BY <1>1, <1>5, <1>6 DEF Block
<1>8. Block(first \o Opens(AB, NO), {}, H)
    BY <1>4, <1>7, Together
<1>9. Block((first \o Opens(AB, NO)) \o run, {}, {})
    BY <1>7, <1>8, Together
<1>10. Block(state_test, {}, {})
    BY <1>9 DEF state_test, first, run
<1>11. Block(last \o state_test, {}, {})
    BY <1>4, <1>10, Together
<1> QED
    BY <1>11 DEF program, last

-----------------------------------------------------------------------------
(* examples/stateless.c, example.c *)

\* What test() of stateless.c holds when it comes to its closes.
LEMMA TestTrace ==
    ASSUME NEW same1 \in QuietCalls, NEW same2 \in QuietCalls
    PROVE  Block(<<OpenCx("M", muldiv), OpenCx("A", addsub), same1,
                   OpenCx("A0", addsub), same2, Sel("A"), Fn(0, 3, 5, 8), Sel("M"),
                   Fn(0, 3, 5, 15), Sel("A"), Fn(0, 3, 3, 6), Sel("A0"), Fn(0, 5, 5, 10)>>,
                 {}, {"A", "A0", "M"})
<1> DEFINE run == <<OpenCx("M", muldiv), OpenCx("A", addsub), same1,
                   OpenCx("A0", addsub), same2, Sel("A"), Fn(0, 3, 5, 8), Sel("M"),
                   Fn(0, 3, 5, 15), Sel("A"), Fn(0, 3, 3, 6), Sel("A0"), Fn(0, 5, 5, 10)>>
           HM == {"M"}
           HA == {"A", "M"}
           H == {"A", "A0", "M"}
           h == <<{}, HM, HA, HA, H, H, H, H, H, H, H, H, H, H>>
<1>1. run \in Seq(Calls)
    BY TheLabels, InCalls, InQuiet
<1>2. /\ Takes(OpenCx("M", muldiv), {}, HM) /\ Takes(OpenCx("A", addsub), HM, HA)
      /\ Takes(OpenCx("A0", addsub), HA, H)
    BY TheLabels, OpenedCx
<1>3. /\ Quiet(same1) /\ Quiet(same2) /\ Quiet(Sel("A")) /\ Quiet(Sel("M")) /\ Quiet(Sel("A0"))
      /\ Quiet(Fn(0, 3, 5, 8)) /\ Quiet(Fn(0, 3, 5, 15)) /\ Quiet(Fn(0, 3, 3, 6))
      /\ Quiet(Fn(0, 5, 5, 10))
    BY QuietSel, QuietFn, QuietCallsAre
<1> HIDE DEF HM, HA, H
<1>4. Trace(h, run, {}, H)
    BY <1>2, <1>3 DEF Trace, Quiet
<1> HIDE DEF run, h
<1>5. Block(run, {}, H)
    BY <1>1, <1>4 DEF Block
<1> QED
    BY <1>5 DEF run, H

\* stateless.c closes what it opens.
LEMMA StatelessFile == Block(program("stateless.c"), {}, {})
<1> DEFINE H == {"A", "A0", "M"}
           run(t1, t2) == <<OpenCx("M", muldiv), OpenCx("A", addsub), t1,
                   OpenCx("A0", addsub), t2, Sel("A"), Fn(0, 3, 5, 8), Sel("M"),
                   Fn(0, 3, 5, 15), Sel("A"), Fn(0, 3, 3, 6), Sel("A0"), Fn(0, 5, 5, 10)>>
           s1 == SameSel("A", "M", FALSE)
           s2 == SameSel("A0", "A", TRUE)
           xs == <<"A0", "A", "M">>
           last == <<Sel(LEGACY)>>
<1>1. s1 \in QuietCalls /\ s2 \in QuietCalls
    BY TheLabels, InQuiet
<1> HIDE DEF s1, s2
<1>2. Block(run(s1, s2), {}, H)
    BY <1>1, TestTrace, Zenon
<1>3. /\ xs \in Seq(Labels) /\ Len(xs) = 3
      /\ \A i, j \in 1 .. 3 : xs[i] = xs[j] => i = j
      /\ {xs[i] : i \in 1 .. 3} = H
    BY DEF Labels
<1> HIDE DEF run, xs
<1>4. Block(Closes(xs), H, {})
    BY <1>3, ClosesOf
<1>5. Block(last, {}, {})
    BY LastCall
<1> HIDE DEF H, last
<1>6. Block(run(s1, s2) \o Closes(xs), {}, {})
    BY <1>2, <1>4, Together
<1>7. Block((run(s1, s2) \o Closes(xs)) \o last, {}, {})
    BY <1>5, <1>6, Together
<1>8. Block(test, {}, {})
    BY <1>7, Zenon DEF test, run, s1, s2, xs, last
<1> QED
    BY <1>8 DEF program

\* example.c closes what it opens.
LEMMA ExampleFile == Block(program("example.c"), {}, {})
<1> DEFINE HA == {"A"}
           H == {"A", "B"}
           first == <<OpenCx("A", addsub), OpenCx("B", muldiv)>>
           h == <<{}, HA, H>>
           run == <<Clear, Sel("A"), Printed(0, 3, 5), NoError, Clear, Sel("B"),
                    Printed(0, 3, 5), NoError, Clear, Sel("A"), Printed(2, 3, 5),
                    Printed(4, 3, 5), NoError>>
           xs == <<"B", "A">>
           last == <<Sel(LEGACY)>>
<1>1. first \in Seq(Calls) /\ run \in Seq(QuietCalls)
    BY TheLabels, InCalls, InQuiet
<1>2. Takes(OpenCx("A", addsub), {}, HA) /\ Takes(OpenCx("B", muldiv), HA, H)
    BY TheLabels, OpenedCx
<1>3. /\ xs \in Seq(Labels) /\ Len(xs) = 2
      /\ \A i, j \in 1 .. 2 : xs[i] = xs[j] => i = j
      /\ {xs[i] : i \in 1 .. 2} = H
    BY DEF Labels
<1> HIDE DEF xs
<1>4. Block(Closes(xs), H, {}) /\ Block(last, {}, {})
    BY <1>3, ClosesOf, LastCall
<1> HIDE DEF HA, H
<1>5. Trace(h, first, {}, H)
    BY <1>2 DEF Trace
<1> HIDE DEF h, first, run, last
<1>6. Block(first, {}, H) /\ Block(run, H, H)
    BY <1>1, <1>5, QuietCallsBlock DEF Block
<1>7. Block(first \o run, {}, H)
    BY <1>6, Together
<1>8. Block((first \o run) \o Closes(xs), {}, {})
    BY <1>4, <1>7, Together
<1>9. Block(((first \o run) \o Closes(xs)) \o last, {}, {})
    BY <1>4, <1>8, Together
<1>10. Block(my_cx_test, {}, {})
    BY <1>9 DEF my_cx_test, first, run, xs, last
<1>11. Block(last \o my_cx_test, {}, {})
    BY <1>4, <1>10, Together
<1> QED
    BY <1>11 DEF program, last

-----------------------------------------------------------------------------
(* examples/threaded_test.c *)

\* The two functions given to pthread_create are workers.
LEMMA WorkersWork ==
    /\ Worker(cx_mac_thread_1)
    /\ \A t \in 1 .. N : Worker(cx_mac_thread_2(t))
<1>1. Worker(cx_mac_thread_1)
    BY ProgramAssumption DEF Worker, Works, cx_mac_thread_1, Work
<1>2. ASSUME NEW t \in 1 .. N
      PROVE  Worker(cx_mac_thread_2(t))
    <2> DEFINE first == <<Sel(sels(t))>>
               loop == [i \in 1 .. N |-> Work(t - 1, t - 1)]
               S == {Sel(sels(t)), Work(t - 1, t - 1)}
    <2>1. N \in Nat /\ t - 1 \in Operands
        BY ProgramAssumption
    <2>2. first \in Seq(S) /\ loop \in Seq(S)
        BY <2>1
    <2>3. \A i \in S : i.op \in {"sel", "mac"} /\ Works(i)
        BY <2>1 DEF Works, Sel, Work
    <2> HIDE DEF first, loop, S
    <2>4. first \o loop \in Seq(S)
        BY <2>2, ConcatProperties
    <2>5. Worker(first \o loop)
        BY <2>3, <2>4, LenProperties, ElementOfSeq DEF Worker
    <2> QED
        BY <2>5 DEF cx_mac_thread_2, first, loop
<1> QED
    BY <1>1, <1>2

\* One quiet call per thread.
LEMMA QuietThreads ==
    ASSUME NEW a, a = [t \in 1 .. N |-> a[t]], \A t \in 1 .. N : Quiet(a[t]), NEW H
    PROVE  Block(a, H, H)
<1> DEFINE S == {a[t] : t \in 1 .. N}
<1>1. N \in Nat
    BY ProgramAssumption
<1>2. a \in [1 .. N -> S]
    OBVIOUS
<1>3. a \in Seq(S) /\ Len(a) = N
    BY <1>1, <1>2
<1> HIDE DEF S
<1> QED
    BY <1>3, QuietBlock

\* To wait for the threads opens and closes nothing.
LEMMA JoinAllBlock == ASSUME NEW H PROVE Block(JoinAll, H, H)
<1>1. /\ JoinAll = [t \in 1 .. N |-> JoinAll[t]]
      /\ \A t \in 1 .. N : JoinAll[t] = Join(t)
    BY DEF JoinAll, ForThreads
<1> QED
    BY <1>1, QuietOthers, QuietThreads

\* multi_thread_1 closes what it opens, for every number of threads.
LEMMA MultiThread1 == Block(multi_thread_1, {}, {})
<1> DEFINE H == {"A", "B"}
           first == <<Open("A", INTRA), Open("B", NO), Sel("B")>>
           h == <<{}, {"A"}, H, H>>
           workers == [t \in 1 .. N |-> Create(t, cx_mac_thread_1)]
           result == <<Read(N * 5 * 5)>>
<1>1. first \in Seq(Calls)
    BY TheLabels, InCalls, InQuiet
<1>2. Takes(Open("A", INTRA), {}, {"A"}) /\ Takes(Open("B", NO), {"A"}, H) /\ Quiet(Sel("B"))
    BY TheLabels, Opened, QuietSel
<1>3. Block(Closes(AB), H, {})
    BY PairBlocks
<1>4. Block(result, H, H)
    <2>1. Takes(Read(N * 5 * 5), H, H)
        BY QuietOthers DEF Quiet
    <2> QED
        BY <2>1, OneCall
<1> HIDE DEF H
<1>5. Trace(h, first, {}, H)
    BY <1>2 DEF Trace, Quiet
<1>6. Block(workers, H, H)
    <2>1. \A t \in 1 .. N : Quiet(workers[t])
        BY WorkersWork, QuietCreate
    <2> QED
        BY <2>1, QuietThreads
<1> HIDE DEF h, first, workers, result
<1>7. Block(first, {}, H) /\ Block(JoinAll, H, H)
    BY <1>1, <1>5, JoinAllBlock DEF Block
<1>8. Block(first \o workers, {}, H)
    BY <1>6, <1>7, Together
<1>9. Block((first \o workers) \o JoinAll, {}, H)
    BY <1>7, <1>8, Together
<1>10. Block(((first \o workers) \o JoinAll) \o result, {}, H)
    BY <1>4, <1>9, Together
<1>11. Block((((first \o workers) \o JoinAll) \o result) \o Closes(AB), {}, {})
    BY <1>3, <1>10, Together
<1> QED
    BY <1>11 DEF multi_thread_1, ForThreads, first, workers, result

\* multi_thread_2 closes what it opens, for every number of threads.
LEMMA MultiThread2 == Block(multi_thread_2, {}, {})
<1> DEFINE H == {"A"} \cup {sels(t) : t \in 1 .. N}
           xs == [t \in 1 .. N |-> sels(t)]
           first == <<Open("A", NO)>>
           opening == [t \in 1 .. N |-> Open(sels(t), INTRA)]
           workers == [t \in 1 .. N |-> Create(t, cx_mac_thread_2(t))]
           sum == [i \in 1 .. 2 * N |-> IF i % 2 = 1 THEN Sel(sels((i + 1) \div 2)) ELSE Add]
           squares == [t \in 1 .. N |-> Square(t - 1)]
           result == <<Total(N)>>
           closing == [t \in 1 .. N |-> Close(sels(t))]
           last == <<Close("A")>>
<1>0. N \in Nat /\ 2 * N \in Nat
    BY ProgramAssumption
<1>1. /\ xs \in [1 .. N -> Names]
      /\ \A i \in 1 .. N : xs[i] = sels(i) /\ xs[i] # "A"
      /\ \A i, j \in 1 .. N : xs[i] = xs[j] => i = j
    BY NamesAssumption DEF Names, Labels
<1>2. H = {"A"} \cup {xs[t] : t \in 1 .. N} /\ {"A"} = H \ {xs[t] : t \in 1 .. N}
    BY <1>1
<1>3. Block(opening, {"A"}, H)
    <2>1. opening = [t \in 1 .. N |-> Open(xs[t], INTRA)]
        OBVIOUS
    <2> HIDE DEF H, xs, opening
    <2>2. Block([t \in 1 .. N |-> Open(xs[t], INTRA)], {"A"}, H)
        BY <1>0, <1>1, <1>2, TheLabels, OpensBlock
    <2> QED
        BY <2>1, <2>2
<1>4. Block(closing, H, {"A"})
    <2>1. closing = [t \in 1 .. N |-> Close(xs[t])]
        OBVIOUS
    <2>2. \A t \in 1 .. N : xs[t] \in H
        OBVIOUS
    <2> HIDE DEF H, xs, closing
    <2>3. Block([t \in 1 .. N |-> Close(xs[t])], H, {"A"})
        BY <1>0, <1>1, <1>2, <2>2, ClosesBlock
    <2> QED
        BY <2>1, <2>3
<1>5. Block(workers, H, H)
    <2>1. \A t \in 1 .. N : Quiet(workers[t])
        BY WorkersWork, QuietCreate
    <2> HIDE DEF H
    <2> QED
        BY <2>1, QuietThreads
<1>6. Block(sum, H, H)
    <2> DEFINE S == {sum[i] : i \in 1 .. 2 * N}
    <2>1. \A i \in 1 .. 2 * N : Quiet(sum[i])
        BY QuietSel, QuietOthers
    <2>2. sum \in [1 .. 2 * N -> S]
        OBVIOUS
    <2> HIDE DEF H, S, sum
    <2>3. sum \in Seq(S) /\ Len(sum) = 2 * N
        BY <1>0, <2>2
    <2> QED
        BY <2>1, <2>3, QuietBlock
<1>7. Block(first, {}, {"A"}) /\ Block(last, {"A"}, {})
    <2>1. Takes(Open("A", NO), {}, {"A"}) /\ Takes(Close("A"), {"A"}, {})
        BY TheLabels, Opened, Closed
    <2> QED
        BY <2>1, OneCall
<1>8. Block(result, H, H)
    <2>1. Takes(Total(N), H, H)
        BY QuietOthers DEF Quiet
    <2> QED
        BY <2>1, OneCall
<1>10. Block(squares, H, H)
    <2>1. \A t \in 1 .. N : Quiet(squares[t])
        BY QuietOthers
    <2> HIDE DEF H
    <2> QED
        BY <2>1, QuietThreads
<1> HIDE DEF H, first, opening, workers, sum, squares, result, closing, last, xs
<1>9. Block(JoinAll, H, H)
    BY JoinAllBlock
<1>11. Block(first \o opening, {}, H)
    BY <1>3, <1>7, Together
<1>12. Block((first \o opening) \o workers, {}, H)
    BY <1>5, <1>11, Together
<1>13. Block(((first \o opening) \o workers) \o JoinAll, {}, H)
    BY <1>9, <1>12, Together
<1>14. Block((((first \o opening) \o workers) \o JoinAll) \o sum, {}, H)
    BY <1>6, <1>13, Together
<1>15. Block(((((first \o opening) \o workers) \o JoinAll) \o sum) \o squares, {}, H)
    BY <1>10, <1>14, Together
<1>16. Block((((((first \o opening) \o workers) \o JoinAll) \o sum) \o squares) \o result,
             {}, H)
    BY <1>8, <1>15, Together
<1>17. Block(((((((first \o opening) \o workers) \o JoinAll) \o sum) \o squares) \o result)
             \o closing, {}, {"A"})
    BY <1>4, <1>16, Together
<1>18. Block((((((((first \o opening) \o workers) \o JoinAll) \o sum) \o squares) \o result)
             \o closing) \o last, {}, {})
    BY <1>7, <1>17, Together
<1> QED
    BY <1>18 DEF multi_thread_2, ForThreads, first, opening, workers, sum, squares, result,
       closing, last

\* threaded_test.c closes what it opens.
LEMMA ThreadedTestFile == Block(program("threaded_test.c"), {}, {})
BY MultiThread1, MultiThread2, Together DEF program

\* Every main function of examples/ opens a selector under a name that holds none,
\* closes only what is open, and closes all of it, for every number of threads.
THEOREM ExamplesClose == \A file \in Files : Block(program(file), {}, {})
BY ProgramAssumption, CxOpenFile, IntraVirtFile, StateFile, StateTestFile, StatelessFile,
   ExampleFile, ThreadedTestFile

-----------------------------------------------------------------------------
(* The types of what the threads run and keep *)

allvars == <<vars, kvars, pvars>>
P == code[main]
k == pc[main]

\* The names that hold an open selector before each instruction of a program,
\* and before the next one of main.
held(prog) == CHOOSE h : Trace(h, prog, {}, {})
L == held(P)[k]

\* Main runs an example, the other threads run workers or nothing yet.
PTypes ==
    /\ \E file \in Files : P = program(file)
    /\ DOMAIN code = Threads
    /\ \A t \in 1 .. N : Worker(code[t])
    /\ pc \in [Threads -> Nat \ {0}]
    /\ k <= Len(P) + 1
    /\ var \in [Names -> Virts \cup Stateless \cup {None}]
    /\ uses \in [Stateless -> Int]
    /\ failed \in BOOLEAN
    /\ unit = "mulacc"

\* The names the program holds are those of the open selectors, one for one, and
\* of the openings of the stateless CXs.
Holdings ==
    /\ L \subseteq Names
    /\ \A x \in L : var[x] \in opened \cup Stateless
    /\ \A x, y \in L : var[x] \in opened /\ var[x] = var[y] => x = y
    /\ \A v \in opened : \E x \in L : var[x] = v
    /\ \A c \in Stateless : uses[c] = Cardinality({x \in L : var[x] = c})

\* The inductive invariant: a failed assert ends the program, so what it holds is
\* only known while none has failed.
PInv == PTypes /\ KInv /\ (AssertsHold => Holdings)

\* main is a thread, and none of those it creates.
LEMMA MainOfThreads == main \in Threads /\ main \notin 1 .. N
BY ProgramAssumption DEF Threads

\* held lists the names main holds, from none to none.
LEMMA MainIsBalanced ==
    ASSUME PTypes
    PROVE  /\ Len(P) \in Nat
           /\ held(P)[1] = {} /\ held(P)[Len(P) + 1] = {}
           /\ \A j \in 1 .. Len(P) : Proper(P[j]) /\ Takes(P[j], held(P)[j], held(P)[j + 1])
<1>1. Block(P, {}, {})
    BY ExamplesClose DEF PTypes
<1>2. Trace(held(P), P, {}, {}) /\ Len(P) \in Nat
    BY <1>1 DEF Block, held
<1> QED
    BY <1>2 DEF Trace, Takes

\* What a thread's next instruction may be.
LEMMA NextInstruction ==
    ASSUME PTypes, NEW t \in Threads, ~ended(t)
    PROVE  /\ Works(next(t))
           /\ t # main => next(t).op \in {"sel", "mac"}
           /\ t = main => next(t) = P[k] /\ k \in 1 .. Len(P) /\ Len(P) \in Nat
<1>1. CASE t = main
    <2>1. Len(P) \in Nat /\ k \in Nat \ {0} /\ ~(k > Len(P)) /\ next(t) = P[k]
        BY <1>1, MainIsBalanced DEF PTypes, ended, P, k, next
    <2>2. k \in 1 .. Len(P)
        BY <2>1
    <2>3. Works(P[k])
        BY <2>2, MainIsBalanced DEF Proper
    <2> QED
        BY <1>1, <2>1, <2>2, <2>3
<1>2. CASE t # main
    <2>1. t \in 1 .. N /\ Worker(code[t])
        BY <1>2 DEF Threads, PTypes
    <2>2. pc[t] \in Nat \ {0} /\ Len(code[t]) \in Nat /\ ~(pc[t] > Len(code[t]))
        BY <2>1 DEF PTypes, Worker, ended
    <2>3. pc[t] \in 1 .. Len(code[t])
        BY <2>2
    <2> QED
        BY <1>2, <2>1, <2>3 DEF Worker, next
<1> QED
    BY <1>1, <1>2

\* Only main opens, closes and creates.
LEMMA OnlyMain ==
    ASSUME PTypes, NEW t \in Threads, NEW op, runs(t, op), op \notin {"sel", "mac"}
    PROVE  t = main /\ P[k].op = op /\ next(t) = P[k] /\ k \in 1 .. Len(P) /\ Len(P) \in Nat
BY NextInstruction DEF runs

-----------------------------------------------------------------------------
(* The steps of the threads *)

\* A step that goes to the next instruction of t.
LEMMA AdvanceTypes ==
    ASSUME PTypes, NEW t \in Threads, ~ended(t), advance(t), code' = code,
           var' \in [Names -> Virts \cup Stateless \cup {None}],
           uses' \in [Stateless -> Int], failed' \in BOOLEAN, unit' = unit
    PROVE  PTypes' /\ P' = P /\ k' = IF t = main THEN k + 1 ELSE k
<1>1. pc' = [pc EXCEPT ![t] = @ + 1] /\ pc \in [Threads -> Nat \ {0}] /\ main \in Threads
    BY MainOfThreads DEF advance, PTypes
<1>2. pc' \in [Threads -> Nat \ {0}] /\ k' = IF t = main THEN k + 1 ELSE k
    BY <1>1 DEF k
<1>3. P' = P
    BY DEF P
<1>4. k' <= Len(P) + 1
    <2>1. CASE t = main
        <3>1. k \in 1 .. Len(P) /\ Len(P) \in Nat
            BY <2>1, NextInstruction
        <3> QED
            BY <2>1, <3>1, <1>2
    <2>2. CASE t # main
        BY <2>2, <1>2 DEF PTypes
    <2> QED
        BY <2>1, <2>2
<1> QED
    BY <1>2, <1>3, <1>4 DEF PTypes, Worker, Works

\* To create a thread gives it a worker.
LEMMA CreateTypes ==
    ASSUME PTypes, NEW t \in Threads, create(t)
    PROVE  PTypes' /\ t = main /\ P' = P /\ k' = k + 1 /\ P[k].op = "create" /\ k \in 1 .. Len(P)
<1>1. t = main /\ P[k].op = "create" /\ next(t) = P[k] /\ k \in 1 .. Len(P) /\ Len(P) \in Nat
    BY OnlyMain DEF create
<1> DEFINE new == P[k].t
           body == P[k].body
<1>2. new \in 1 .. N /\ new # main /\ new \in Threads /\ main \in Threads /\ Worker(body)
    BY <1>1, MainIsBalanced, MainOfThreads DEF Proper, Threads
<1>3. /\ code' = [code EXCEPT ![new] = body]
      /\ pc' = [pc EXCEPT ![main] = @ + 1, ![new] = 1]
      /\ UNCHANGED <<var, uses, failed, unit>>
    BY <1>1 DEF create, stateless, asserts, vars
<1> HIDE DEF new, body
<1>4. DOMAIN code' = Threads /\ \A u \in Threads : code'[u] = IF u = new THEN body ELSE code[u]
    BY <1>2, <1>3 DEF PTypes
<1>5. P' = P
    BY <1>2, <1>4 DEF P
<1>6. pc' \in [Threads -> Nat \ {0}] /\ k' = k + 1
    BY <1>2, <1>3 DEF PTypes, k
<1>7. \A u \in 1 .. N : Worker(code'[u])
    BY <1>2, <1>4 DEF PTypes, Threads
<1>8. k' <= Len(P') + 1
    BY <1>1, <1>5, <1>6
<1> QED
    BY <1>1, <1>3, <1>4, <1>5, <1>6, <1>7, <1>8 DEF PTypes, Worker, Works

\* open, place and close are the system calls.
LEMMA OpenStep ==
    ASSUME PTypes, KInv, NEW t \in Threads, open(t)
    PROVE  KNext /\ PTypes' /\ P' = P /\ t = main /\ k' = k + 1
<1>1. t = main /\ P[k].op = "open" /\ next(t) = P[k] /\ k \in 1 .. Len(P) /\ Len(P) \in Nat
    BY OnlyMain DEF open
<1>2. P[k].x \in Names /\ P[k].type \in CX_SHARE_T /\ P[k].ok \in BOOLEAN
    BY <1>1, MainIsBalanced DEF Proper
<1>3. PICK v \in Virts :
          \/ /\ \/ OpenFree(v, P[k].type)
                \/ \E s \in States : OpenShared(v, P[k].type, s)
             /\ var' = [var EXCEPT ![P[k].x] = v]
          \/ /\ OpenFails(v, P[k].type)
             /\ var' = [var EXCEPT ![P[k].x] = None]
    BY <1>1 DEF open
<1>4. unit' = unit /\ uses' = uses /\ code' = code /\ failed' \in BOOLEAN /\ advance(t)
    BY DEF open, OpenFree, OpenShared, OpenFails, attach, cx_open, vars, stateless, asserts, assert
<1>5. var' \in [Names -> Virts \cup Stateless \cup {None}]
    BY <1>3 DEF PTypes
<1>6. KNext
    BY <1>2, <1>3 DEF KNext
<1> QED
    BY <1>1, <1>4, <1>5, <1>6, AdvanceTypes DEF PTypes, open, runs

\* An open on the state of another selector is a step of the kernel,
LEMMA PlaceStep ==
    ASSUME PTypes, KInv, NEW t \in Threads, place(t)
    PROVE  KNext /\ PTypes' /\ P' = P /\ t = main /\ k' = k + 1
<1>1. t = main /\ P[k].op = "place" /\ next(t) = P[k] /\ k \in 1 .. Len(P) /\ Len(P) \in Nat
    BY OnlyMain DEF place
<1>2. PICK v \in Virts : /\ OpenPlaced(v, var[P[k].at])
                         /\ var' = [var EXCEPT ![P[k].x] = v]
    BY <1>1 DEF place
<1>3. var[P[k].at] \in Virts
    BY <1>2 DEF OpenPlaced, KInv, KTypes
<1>4. KNext
    BY <1>2, <1>3 DEF KNext
<1>5. unit' = unit /\ uses' = uses /\ code' = code /\ failed' = failed /\ advance(t)
    BY <1>2 DEF place, OpenPlaced, attach, cx_open, stateless, asserts
<1>6. var' \in [Names -> Virts \cup Stateless \cup {None}]
    BY <1>2 DEF PTypes
<1> QED
    BY <1>1, <1>4, <1>5, <1>6, AdvanceTypes DEF PTypes, place, runs

\* and so is a close.
LEMMA CloseStep ==
    ASSUME PTypes, KInv, NEW t \in Threads, close(t)
    PROVE  KNext /\ PTypes' /\ P' = P /\ t = main /\ k' = k + 1
<1>1. t = main /\ P[k].op = "close" /\ next(t) = P[k] /\ k \in 1 .. Len(P) /\ Len(P) \in Nat
    BY OnlyMain DEF close
<1>2. KNext
    BY DEF close, KNext
<1>3. unit' = unit /\ uses' = uses /\ code' = code /\ failed' = failed /\ var' = var /\ advance(t)
    BY DEF close, sys_cx_close, cx_close, stateless, asserts
<1> QED
    BY <1>1, <1>2, <1>3, AdvanceTypes DEF PTypes, close, runs

\* The openings and closes of the stateless CXs do not reach the kernel's states.
LEMMA StatelessStep ==
    ASSUME PTypes, NEW t \in Threads, open_cx(t) \/ close_cx(t)
    PROVE  UNCHANGED <<vars, kvars>> /\ PTypes' /\ P' = P /\ t = main /\ k' = k + 1
<1>1. /\ t = main /\ P[k].op \in {"open_cx", "close"} /\ next(t) = P[k]
      /\ k \in 1 .. Len(P) /\ Len(P) \in Nat
    BY OnlyMain DEF open_cx, close_cx
<1>2. /\ UNCHANGED <<vars, kvars>> /\ code' = code /\ failed' = failed /\ advance(t)
      /\ unit' = unit /\ ~ended(t)
    BY DEF open_cx, close_cx, vars, runs, asserts
<1>3. uses' \in [Stateless -> Int] /\ var' \in [Names -> Virts \cup Stateless \cup {None}]
    <2>1. P[k].op = "open_cx" => P[k].cx \in Stateless /\ P[k].x \in Names
        BY <1>1, MainIsBalanced DEF Proper
    <2>2. CASE open_cx(t)
        BY <1>1, <2>1, <2>2 DEF open_cx, PTypes, runs
    <2>3. CASE close_cx(t)
        BY <2>3 DEF close_cx, PTypes
    <2> QED
        BY <2>2, <2>3
<1> QED
    BY <1>1, <1>2, <1>3, AdvanceTypes DEF PTypes

\* An open that finds no CX changes the name of its result only.
LEMMA UnknownStep ==
    ASSUME PTypes, NEW t \in Threads, open_unknown(t)
    PROVE  UNCHANGED <<vars, kvars>> /\ PTypes' /\ P' = P /\ t = main /\ k' = k + 1
<1>1. /\ t = main /\ P[k].op = "open_unknown" /\ next(t) = P[k]
      /\ k \in 1 .. Len(P) /\ Len(P) \in Nat
    BY OnlyMain DEF open_unknown
<1>2. /\ UNCHANGED <<vars, kvars>> /\ code' = code /\ uses' = uses /\ advance(t)
      /\ unit' = unit /\ ~ended(t) /\ failed' \in BOOLEAN
    BY DEF open_unknown, vars, runs, stateless, asserts, assert
<1>3. var' \in [Names -> Virts \cup Stateless \cup {None}]
    BY <1>1 DEF open_unknown, PTypes
<1> QED
    BY <1>1, <1>2, <1>3, AdvanceTypes DEF PTypes

\* Every other instruction leaves what is open and the selectors alone.
LEMMA OtherStep ==
    ASSUME PTypes, KInv, NEW t \in Threads,
           \/ mac(t) \/ read(t) \/ select(t) \/ fn(t) \/ error_clear(t) \/ square(t)
           \/ check(t) \/ check_word(t) \/ join(t)
    PROVE  /\ [KNext]_<<vars, kvars>> /\ PTypes' /\ P' = P
           /\ k' = IF t = main THEN k + 1 ELSE k
           /\ t = main => k \in 1 .. Len(P) /\ ~opens(P[k]) /\ P[k].op # "close"
           /\ UNCHANGED <<opened, var, uses>>
           /\ failed => failed'
<1>1. ~ended(t) /\ (t = main => next(t).op \notin {"open", "place", "open_cx", "close"})
    BY DEF mac, read, select, fn, error_clear, square, check, check_word, join, runs
<1>2. t = main => k \in 1 .. Len(P) /\ ~opens(P[k]) /\ P[k].op # "close"
    BY <1>1, NextInstruction DEF opens
<1>3. /\ advance(t) /\ UNCHANGED <<code, var, uses>>
    BY DEF mac, read, select, fn, error_clear, square, check, check_word, join, stateless, asserts
<1>4. failed' \in BOOLEAN /\ (failed => failed')
    BY DEF mac, read, select, fn, error_clear, square, check, check_word, join, assert,
           asserts, PTypes
<1>5. [KNext]_<<vars, kvars>> /\ UNCHANGED <<opened, unit>>
    <2>1. CASE mac(t)
        <3>1. PICK s \in States : resident[s] = sel[t] /\ Compute(s, 0, next(t).a, next(t).b)
            BY <2>1 DEF mac, execute
        <3>2. sel[t] \in Virts
            BY <3>1 DEF Compute, KInv, KTypes
        <3>3. next(t).a \in Operands /\ next(t).b \in Operands
            BY <2>1, NextInstruction DEF mac, runs, Works
        <3>4. 0 \in Funcs
            BY ProgramAssumption DEF Funcs, PTypes
        <3>5. KNext
            BY <2>1, <3>2, <3>3, <3>4 DEF KNext, mac
        <3> QED
            BY <3>1, <3>5 DEF Compute
    <2>2. CASE read(t)
        <3>1. PICK s \in States : resident[s] = sel[t] /\ CX_READ_STATE(s)
            BY <2>2 DEF read, read_state
        <3>2. sel[t] \in Virts
            BY <3>1 DEF CX_READ_STATE, KInv, KTypes
        <3>3. KNext
            BY <2>2, <3>2 DEF KNext, read
        <3> QED
            BY <3>1, <3>3 DEF CX_READ_STATE
    <2>3. CASE \/ select(t) \/ fn(t) \/ error_clear(t) \/ square(t) \/ check(t)
               \/ check_word(t) \/ join(t)
        BY <2>3 DEF select, fn, error_clear, square, check, check_word, join, vars
    <2> QED
        BY <2>1, <2>2, <2>3
<1> QED
    BY <1>1, <1>2, <1>3, <1>4, <1>5, AdvanceTypes DEF PTypes

-----------------------------------------------------------------------------
(* What the program holds, step by step *)

\* The openings of a stateless CX can be counted.
LEMMA NamesFinite == IsFiniteSet(Names)
<1> DEFINE S == {sels(t) : t \in 1 .. N}
           f == [t \in 1 .. N |-> sels(t)]
<1>1. IsFiniteSet(1 .. N)
    BY FS_Interval, ProgramAssumption
<1>2. f \in Surjection(1 .. N, S)
    BY DEF Surjection
<1>3. IsFiniteSet(S)
    BY <1>1, <1>2, FS_Surjection
<1>4. IsFiniteSet({"A", "A0", "B", "C", "D", "M", "T"})
    <2>1. ASSUME NEW T, IsFiniteSet(T), NEW e
          PROVE  IsFiniteSet(T \cup {e})
        BY <2>1, FS_AddElement
    <2>2. IsFiniteSet({} \cup {"A"} \cup {"A0"} \cup {"B"} \cup {"C"})
        BY <2>1, FS_EmptySet
    <2>3. IsFiniteSet({} \cup {"A"} \cup {"A0"} \cup {"B"} \cup {"C"} \cup {"D"} \cup {"M"} \cup {"T"})
        BY <2>1, <2>2
    <2>4. {"A", "A0", "B", "C", "D", "M", "T"} =
              {} \cup {"A"} \cup {"A0"} \cup {"B"} \cup {"C"} \cup {"D"} \cup {"M"} \cup {"T"}
        OBVIOUS
    <2> QED
        BY <2>3, <2>4
<1> QED
    BY <1>3, <1>4, FS_Union DEF Names, Labels

\* The openings of a stateless CX under the names held.
openings(c) == {x \in L : var[x] = c}

\* The openings of a stateless CX are finitely many.
LEMMA OpeningsFinite == Holdings => \A c : IsFiniteSet(openings(c))
<1> SUFFICES ASSUME Holdings, NEW c PROVE IsFiniteSet(openings(c))
    OBVIOUS
<1>1. openings(c) \subseteq Names
    BY DEF openings, Holdings
<1> QED
    BY <1>1, NamesFinite, FS_Subset

\* What is held are names.
LEMMA NamesHeld == Holdings => L \subseteq Names
BY DEF Holdings

\* A stateless CX is no selector of the kernel's tables.
LEMMA StatelessApart == \A c \in Stateless : c \notin Virts
BY ProgramAssumption DEF Stateless

\* A context opened under a name that held none.
LEMMA HoldOpened ==
    ASSUME PTypes, KInv, Holdings, NEW x \in Names, x \notin L, L' = L \cup {x},
           NEW v \in Virts, v \notin opened, opened' = opened \cup {v},
           var' = [var EXCEPT ![x] = v], uses' = uses
    PROVE  Holdings'
<1>1. var'[x] = v /\ \A y \in L : var'[y] = var[y] /\ y # x
    BY NamesHeld DEF PTypes
<1>2. v \notin Stateless /\ opened \subseteq Virts
    BY StatelessApart DEF KInv, KTypes
<1>3. \A y \in L' : var'[y] \in opened' \cup Stateless
    BY <1>1 DEF Holdings
<1>4. \A y, z \in L' : var'[y] \in opened' /\ var'[y] = var'[z] => y = z
    <2>1. \A y \in L : var[y] # v
        BY <1>2 DEF Holdings
    <2>2. \A y, z \in L : var'[y] \in opened' /\ var'[y] = var'[z] => y = z
        BY <1>1, <2>1 DEF Holdings
    <2> QED
        BY <1>1, <2>1, <2>2
<1>5. \A w \in opened' : \E y \in L' : var'[y] = w
    BY <1>1 DEF Holdings
<1>6. \A c \in Stateless : uses'[c] = Cardinality({y \in L' : var'[y] = c})
    <2> SUFFICES ASSUME NEW c \in Stateless
                 PROVE  {y \in L' : var'[y] = c} = {y \in L : var[y] = c}
        BY DEF Holdings
    <2> QED
        BY <1>1, <1>2
<1> QED
    BY <1>3, <1>4, <1>5, <1>6 DEF Holdings

\* A name that held a context and closed it.
LEMMA HoldClosed ==
    ASSUME PTypes, KInv, Holdings, NEW x \in L, L' = L \ {x}, var[x] \in opened,
           opened' = opened \ {var[x]}, var' = var, uses' = uses
    PROVE  Holdings'
<1>1. var[x] \notin Stateless /\ opened \subseteq Virts
    BY StatelessApart DEF KInv, KTypes
<1>2. \A y \in L' : var[y] # var[x]
    BY DEF Holdings
<1>3. /\ \A y \in L' : var[y] \in opened' \cup Stateless
      /\ \A y, z \in L' : var[y] \in opened' /\ var[y] = var[z] => y = z
      /\ \A w \in opened' : \E y \in L' : var[y] = w
    BY <1>2 DEF Holdings
<1>4. \A c \in Stateless : {y \in L' : var[y] = c} = {y \in L : var[y] = c}
    BY <1>1
<1> QED
    BY <1>3, <1>4 DEF Holdings

\* An opening of a stateless CX, and its close.
LEMMA HoldCounted ==
    ASSUME PTypes, KInv, Holdings, NEW x \in Names, x \notin L, L' = L \cup {x},
           NEW c \in Stateless, opened' = opened,
           var' = [var EXCEPT ![x] = c], uses' = [uses EXCEPT ![c] = @ + 1]
    PROVE  Holdings'
<1>1. var'[x] = c /\ \A y \in L : var'[y] = var[y] /\ y # x
    BY NamesHeld DEF PTypes
<1>2. c \notin opened
    BY StatelessApart DEF KInv, KTypes
<1>3. /\ \A y \in L' : var'[y] \in opened' \cup Stateless
      /\ \A y, z \in L' : var'[y] \in opened' /\ var'[y] = var'[z] => y = z
      /\ \A w \in opened' : \E y \in L' : var'[y] = w
    BY <1>1, <1>2 DEF Holdings
<1>4. ASSUME NEW d \in Stateless
      PROVE  uses'[d] = Cardinality({y \in L' : var'[y] = d})
    <2>1. uses[d] = Cardinality(openings(d)) /\ x \notin openings(d)
        BY DEF Holdings, openings
    <2>2. {y \in L' : var'[y] = d} = IF d = c THEN openings(c) \cup {x} ELSE openings(d)
        BY <1>1 DEF openings
    <2>3. Cardinality(openings(d) \cup {x}) = Cardinality(openings(d)) + 1
        BY <2>1, OpeningsFinite, FS_AddElement
    <2>4. uses'[d] = IF d = c THEN uses[d] + 1 ELSE uses[d]
        BY DEF PTypes
    <2> QED
        BY <2>1, <2>2, <2>3, <2>4
<1> QED
    BY <1>3, <1>4 DEF Holdings

\* A stateless CX closed under a name that held it.
LEMMA HoldUncounted ==
    ASSUME PTypes, KInv, Holdings, NEW x \in L, L' = L \ {x}, var[x] \in Stateless,
           opened' = opened, var' = var, uses' = [uses EXCEPT ![var[x]] = @ - 1]
    PROVE  Holdings'
<1>1. var[x] \notin opened
    BY StatelessApart DEF KInv, KTypes
<1>2. /\ \A y \in L' : var[y] \in opened' \cup Stateless
      /\ \A y, z \in L' : var[y] \in opened' /\ var[y] = var[z] => y = z
      /\ \A w \in opened' : \E y \in L' : var[y] = w
    BY <1>1 DEF Holdings
<1>3. ASSUME NEW d \in Stateless
      PROVE  uses'[d] = Cardinality({y \in L' : var[y] = d})
    <2>1. uses[d] = Cardinality(openings(d)) /\ (d = var[x] => x \in openings(d))
        BY DEF Holdings, openings
    <2>2. {y \in L' : var[y] = d} = IF d = var[x] THEN openings(d) \ {x} ELSE openings(d)
        BY DEF openings
    <2>3. d = var[x] => Cardinality(openings(d) \ {x}) = Cardinality(openings(d)) - 1
        BY <2>1, OpeningsFinite, FS_RemoveElement
    <2>4. uses'[d] = IF d = var[x] THEN uses[d] - 1 ELSE uses[d]
        BY DEF PTypes
    <2> QED
        BY <2>1, <2>2, <2>3, <2>4
<1> QED
    BY <1>2, <1>3 DEF Holdings

-----------------------------------------------------------------------------
(* The invariant *)

\* What main's next instruction does to the names it holds.
LEMMA HeldNext ==
    ASSUME PTypes, k \in 1 .. Len(P), P' = P, k' = k + 1
    PROVE  /\ opens(P[k]) => P[k].x \in Names /\ P[k].x \notin L /\ L' = L \cup {P[k].x}
           /\ P[k].op = "close" => P[k].x \in L /\ L' = L \ {P[k].x}
           /\ ~opens(P[k]) /\ P[k].op # "close" => L' = L
<1>1. /\ Proper(P[k]) /\ Takes(P[k], held(P)[k], held(P)[k + 1])
      /\ L = held(P)[k] /\ L' = held(P)[k + 1]
    BY MainIsBalanced DEF L
<1> QED
    BY <1>1 DEF Takes, Proper, opens

\* What is open and what the names held stand for do not change.
LEMMA HoldSame ==
    ASSUME Holdings, L' = L, UNCHANGED <<opened, uses>>, \A y \in L : var'[y] = var[y]
    PROVE  Holdings'
<1>1. \A c : {y \in L' : var'[y] = c} = {y \in L : var[y] = c}
    OBVIOUS
<1>2. /\ L' \subseteq Names
      /\ \A x \in L' : var'[x] \in opened' \cup Stateless
      /\ \A x, y \in L' : var'[x] \in opened' /\ var'[x] = var'[y] => x = y
      /\ \A v \in opened' : \E x \in L' : var'[x] = v
    BY DEF Holdings
<1>3. \A c \in Stateless : uses'[c] = Cardinality({y \in L' : var'[y] = c})
    BY <1>1 DEF Holdings
<1> QED
    BY <1>2, <1>3 DEF Holdings

\* The names a program holds and what is open stay in step.
LEMMA HoldOpen ==
    ASSUME PTypes, KInv, Holdings, NEW t \in Threads, open(t), ~failed'
    PROVE  Holdings'
<1>1. t = main /\ P[k].op = "open" /\ next(t) = P[k] /\ k \in 1 .. Len(P)
    BY OnlyMain DEF open
<1>2. P' = P /\ k' = k + 1 /\ uses' = uses
    BY OpenStep DEF open, stateless, asserts
<1>3. P[k].x \in Names /\ P[k].x \notin L /\ P[k].ok \in BOOLEAN
    BY <1>1, MainIsBalanced DEF Proper, Takes, L
<1>4. PICK v \in Virts :
          /\ v \notin opened
          /\ \/ /\ \/ OpenFree(v, P[k].type)
                   \/ \E s \in States : OpenShared(v, P[k].type, s)
                /\ var' = [var EXCEPT ![P[k].x] = v]
                /\ assert(P[k].ok)
             \/ /\ OpenFails(v, P[k].type)
                /\ var' = [var EXCEPT ![P[k].x] = None]
                /\ assert(~P[k].ok)
    BY <1>1 DEF open, new_entry
<1>5. CASE var' = [var EXCEPT ![P[k].x] = v] /\ assert(P[k].ok) /\ opened' = opened \cup {v}
    <2>1. opens(P[k])
        BY <1>1, <1>3, <1>5 DEF assert, opens
    <2>2. L' = L \cup {P[k].x}
        BY <1>1, <1>2, <2>1, HeldNext
    <2> DEFINE x == P[k].x
    <2>3. x \in Names /\ x \notin L /\ L' = L \cup {x} /\ var' = [var EXCEPT ![x] = v]
        BY <1>3, <1>5, <2>2
    <2> HIDE DEF x
    <2> QED
        BY <1>2, <1>4, <1>5, <2>3, HoldOpened
<1>6. CASE var' = [var EXCEPT ![P[k].x] = None] /\ assert(~P[k].ok) /\ opened' = opened
    <2>1. ~opens(P[k]) /\ P[k].op # "close"
        BY <1>1, <1>3, <1>6 DEF assert, opens
    <2>2. L' = L
        BY <1>1, <1>2, <2>1, HeldNext
    <2>3. \A y \in L : var'[y] = var[y]
        BY <1>3, <1>6, NamesHeld DEF PTypes
    <2> QED
        BY <1>2, <1>6, <2>2, <2>3, HoldSame
<1> QED
    BY <1>4, <1>5, <1>6 DEF OpenFree, OpenShared, OpenFails, attach, cx_open, vars

\* A placed open, a close, and the calls on stateless CXs.
LEMMA HoldPlace ==
    ASSUME PTypes, KInv, Holdings, NEW t \in Threads, place(t)
    PROVE  Holdings'
<1> DEFINE x == P[k].x
<1>1. t = main /\ P[k].op = "place" /\ next(t) = P[k] /\ k \in 1 .. Len(P)
    BY OnlyMain DEF place
<1>2. P' = P /\ k' = k + 1 /\ uses' = uses
    BY PlaceStep DEF place, stateless, asserts
<1>3. x \in Names /\ x \notin L /\ L' = L \cup {x}
    BY <1>1, <1>2, HeldNext DEF opens
<1>4. PICK v \in Virts : /\ v \notin opened
                         /\ OpenPlaced(v, var[P[k].at])
                         /\ var' = [var EXCEPT ![x] = v]
    BY <1>1 DEF place, new_entry
<1>5. opened' = opened \cup {v}
    BY <1>4 DEF OpenPlaced, attach, cx_open
<1> HIDE DEF x
<1> QED
    BY <1>2, <1>3, <1>4, <1>5, HoldOpened

\* The close of a context gives its name up,
LEMMA HoldClose ==
    ASSUME PTypes, KInv, Holdings, NEW t \in Threads, close(t)
    PROVE  Holdings'
<1> DEFINE x == P[k].x
<1>1. t = main /\ P[k].op = "close" /\ next(t) = P[k] /\ k \in 1 .. Len(P)
    BY OnlyMain DEF close
<1>2. P' = P /\ k' = k + 1 /\ uses' = uses /\ var' = var
    BY CloseStep DEF close, stateless, asserts
<1>3. x \in L /\ L' = L \ {x}
    BY <1>1, <1>2, HeldNext
<1>4. var[x] \in opened /\ opened' = opened \ {var[x]}
    BY <1>1 DEF close, sys_cx_close, cx_close
<1> HIDE DEF x
<1> QED
    BY <1>2, <1>3, <1>4, HoldClosed

\* and so does that of a stateless CX, which opens under a new name too.
LEMMA HoldStateless ==
    ASSUME PTypes, KInv, Holdings, NEW t \in Threads, open_cx(t) \/ close_cx(t)
    PROVE  Holdings'
<1> DEFINE x == P[k].x
<1>1. t = main /\ P[k].op \in {"open_cx", "close"} /\ next(t) = P[k] /\ k \in 1 .. Len(P)
    BY OnlyMain DEF open_cx, close_cx
<1>2. P' = P /\ k' = k + 1 /\ opened' = opened
    BY StatelessStep DEF vars
<1>3. CASE open_cx(t)
    <2> DEFINE c == P[k].cx
    <2>1. P[k].op = "open_cx"
        BY <1>1, <1>3 DEF open_cx, runs
    <2>2. x \in Names /\ x \notin L /\ L' = L \cup {x}
        BY <1>1, <1>2, <2>1, HeldNext DEF opens
    <2>3. c \in Stateless
        BY <1>1, <2>1, MainIsBalanced DEF Proper
    <2>4. var' = [var EXCEPT ![x] = c] /\ uses' = [uses EXCEPT ![c] = @ + 1]
        BY <1>1, <1>3 DEF open_cx
    <2> HIDE DEF x, c
    <2> QED
        BY <1>2, <2>2, <2>3, <2>4, HoldCounted
<1>4. CASE close_cx(t)
    <2>1. P[k].op = "close"
        BY <1>1, <1>4 DEF close_cx, runs
    <2>2. x \in L /\ L' = L \ {x}
        BY <1>1, <1>2, <2>1, HeldNext
    <2>3. var[x] \in Stateless /\ var' = var /\ uses' = [uses EXCEPT ![var[x]] = @ - 1]
        BY <1>1, <1>4 DEF close_cx
    <2> HIDE DEF x
    <2> QED
        BY <1>2, <2>2, <2>3, HoldUncounted
<1> QED
    BY <1>3, <1>4

\* An open that finds no CX gives its result to a name that holds nothing.
LEMMA HoldUnknown ==
    ASSUME PTypes, KInv, Holdings, NEW t \in Threads, open_unknown(t)
    PROVE  Holdings'
<1>1. t = main /\ P[k].op = "open_unknown" /\ next(t) = P[k] /\ k \in 1 .. Len(P)
    BY OnlyMain DEF open_unknown
<1>2. P' = P /\ k' = k + 1 /\ opened' = opened /\ uses' = uses
    BY UnknownStep DEF open_unknown, stateless, asserts, vars
<1>3. P[k].x \in Names /\ P[k].x \notin L
    BY <1>1, MainIsBalanced DEF Proper, Takes, L
<1>4. L' = L
    BY <1>1, <1>2, HeldNext DEF opens
<1>5. \A y \in L : var'[y] = var[y]
    BY <1>1, <1>3, NamesHeld DEF open_unknown, PTypes
<1> QED
    BY <1>2, <1>4, <1>5, HoldSame

\* The calls that open and close nothing.
LEMMA HoldOther ==
    ASSUME PTypes, KInv, Holdings, NEW t \in Threads,
           \/ mac(t) \/ read(t) \/ select(t) \/ fn(t) \/ error_clear(t) \/ square(t)
           \/ check(t) \/ check_word(t) \/ join(t) \/ create(t)
    PROVE  Holdings'
<1>1. /\ P' = P /\ k' = IF t = main THEN k + 1 ELSE k
      /\ t = main => k \in 1 .. Len(P) /\ ~opens(P[k]) /\ P[k].op # "close"
      /\ UNCHANGED <<opened, var, uses>>
    <2>1. CASE create(t)
        BY <2>1, CreateTypes DEF create, opens, stateless, asserts, vars
    <2> QED
        BY <2>1, OtherStep
<1>2. L' = L
    <2>1. CASE t = main
        BY <1>1, <2>1, HeldNext
    <2>2. CASE t # main
        BY <1>1, <2>2 DEF L
    <2> QED
        BY <2>1, <2>2
<1> QED
    BY <1>1, <1>2, HoldSame

\* Each step of a program is one of the kernel, or none, and keeps the types.
LEMMA ProgramStep ==
    ASSUME PTypes, KInv, [PNext]_allvars
    PROVE  [KNext]_<<vars, kvars>> /\ PTypes' /\ (failed => failed')
<1>1. ASSUME NEW t \in Threads, open(t) \/ place(t) \/ close(t)
      PROVE  [KNext]_<<vars, kvars>> /\ PTypes'
    BY <1>1, OpenStep, PlaceStep, CloseStep
<1>2. ASSUME NEW t \in Threads, open_cx(t) \/ close_cx(t) \/ open_unknown(t)
      PROVE  [KNext]_<<vars, kvars>> /\ PTypes'
    BY <1>2, StatelessStep, UnknownStep
<1>3. ASSUME NEW t \in Threads, create(t)
      PROVE  [KNext]_<<vars, kvars>> /\ PTypes'
    BY <1>3, CreateTypes DEF create
<1>4. ASSUME NEW t \in Threads,
             \/ mac(t) \/ read(t) \/ select(t) \/ fn(t) \/ error_clear(t) \/ square(t)
             \/ check(t) \/ check_word(t) \/ join(t)
      PROVE  [KNext]_<<vars, kvars>> /\ PTypes' /\ (failed => failed')
    BY <1>4, OtherStep
<1>5. ASSUME NEW t \in Threads,
             \/ open(t) \/ place(t) \/ close(t) \/ open_cx(t) \/ close_cx(t)
             \/ open_unknown(t) \/ create(t)
      PROVE  failed => failed'
    BY <1>5
    DEF open, place, close, open_cx, close_cx, open_unknown, create, assert, asserts, PTypes
<1>6. ASSUME NEW t \in Threads, first_use(t)
      PROVE  [KNext]_<<vars, kvars>> /\ UNCHANGED <<pvars, unit>>
    <2>1. trap(sel[t]) /\ sel[t] \in Virts /\ UNCHANGED <<pvars, unit>>
        BY <1>6 DEF first_use, trap, switch_to, KInv, KTypes
    <2> QED
        BY <2>1 DEF KNext
<1>7. UNCHANGED allvars => UNCHANGED <<vars, kvars>> /\ UNCHANGED <<pvars, unit>>
    BY DEF allvars, vars
<1>8. UNCHANGED <<pvars, unit>> => PTypes' /\ failed' = failed
    BY DEF pvars, stateless, asserts, PTypes, P, k, Worker, Works
<1> QED
    BY <1>1, <1>2, <1>3, <1>4, <1>5, <1>6, <1>7, <1>8
    DEF PNext, instruction, finished, allvars

\* No step but a failed assert breaks Holdings.
LEMMA ProgramHolds ==
    ASSUME PTypes, KInv, Holdings, [PNext]_allvars, ~failed'
    PROVE  Holdings'
<1>1. ASSUME NEW t \in Threads, instruction(t)
      PROVE  Holdings'
    BY <1>1, HoldOpen, HoldPlace, HoldClose, HoldStateless, HoldUnknown,
       HoldOther DEF instruction
<1>2. ASSUME UNCHANGED <<opened, pvars>>
      PROVE  Holdings'
    <2>1. L' = L
        BY <1>2 DEF L, P, k, pvars
    <2> QED
        BY <1>2, <2>1, HoldSame DEF pvars, stateless, asserts
<1>3. ASSUME NEW t \in Threads, first_use(t)
      PROVE  UNCHANGED <<opened, pvars>>
    BY <1>3 DEF first_use, trap, switch_to
<1>4. UNCHANGED allvars => UNCHANGED <<opened, pvars>>
    BY DEF allvars, vars
<1> QED
    BY <1>1, <1>2, <1>3, <1>4 DEF PNext, finished, allvars

\* The invariant holds when main starts, and every step keeps it.
LEMMA PInitInv == PInit => PInv
<1> SUFFICES ASSUME PInit PROVE PInv
    OBVIOUS
<1>1. PICK file \in Files :
          code = [t \in Threads |-> IF t = main THEN program(file) ELSE << >>]
    BY DEF PInit
<1>2. P = program(file) /\ k = 1
    BY <1>1, MainOfThreads DEF PInit, P, k
<1>3. \A t \in 1 .. N : code[t] = << >>
    BY <1>1, MainOfThreads DEF Threads
<1>4. Len(P) \in Nat
    BY <1>1, <1>2, ExamplesClose DEF Block
<1>5. Worker(<< >>)
    BY EmptySeq DEF Worker
<1>6. PTypes
    <2>1. k <= Len(P) + 1
        BY <1>2, <1>4
    <2>2. \A t \in 1 .. N : Worker(code[t])
        BY <1>3, <1>5
    <2>3. /\ pc \in [Threads -> Nat \ {0}]
          /\ var \in [Names -> Virts \cup Stateless \cup {None}]
          /\ uses \in [Stateless -> Int]
        BY DEF PInit
    <2>4. failed \in BOOLEAN /\ unit = "mulacc" /\ DOMAIN code = Threads
        BY <1>1 DEF PInit
    <2> QED
        BY <1>2, <2>1, <2>2, <2>3, <2>4 DEF PTypes
<1>7. L = {} /\ opened = {}
    BY <1>2, <1>6, MainIsBalanced DEF L, PInit, KInit, Init
<1>8. Holdings
    <2>1. \A c : {x \in L : var[x] = c} = {}
        BY <1>7
    <2> QED
        BY <1>7, <2>1, FS_EmptySet DEF Holdings, PInit
<1> QED
    BY <1>6, <1>8, KInitInv DEF PInv, PInit

\* Every step keeps the invariant and is one of the kernel or leaves it alone.
LEMMA PStep == PInv /\ [PNext]_allvars => PInv' /\ [KNext]_<<vars, kvars>>
<1> SUFFICES ASSUME PInv, [PNext]_allvars
             PROVE  PInv' /\ [KNext]_<<vars, kvars>>
    OBVIOUS
<1>1. [KNext]_<<vars, kvars>> /\ PTypes' /\ (failed => failed')
    BY ProgramStep DEF PInv
<1>2. KInv'
    BY <1>1, KStep DEF PInv
<1>3. AssertsHold' => Holdings'
    BY <1>1, ProgramHolds DEF PInv, AssertsHold
<1> QED
    BY <1>1, <1>2, <1>3 DEF PInv

\* The invariant holds.
LEMMA ProgramInvariant == PSpec => []PInv
<1>1. PInit => PInv
    BY PInitInv
<1>2. PInv /\ [PNext]_allvars => PInv'
    BY PStep
<1> QED
    BY <1>1, <1>2, PTL DEF PSpec, allvars

-----------------------------------------------------------------------------
(* What follows *)

\* The example programs, threads, traps and all, are a run of the kernel: its
\* pool, counters and sharing stay right, and each context is private.
THEOREM ProgramsAreKernelRuns == PSpec => KSpec
<1>1. PInit => KInit
    BY DEF PInit
<1>2. PInv /\ [PNext]_allvars => [KNext]_<<vars, kvars>>
    BY PStep
<1> QED
    BY <1>1, <1>2, ProgramInvariant, PTL DEF PSpec, KSpec, allvars

\* What the program sees of its contexts under the examples' interleavings is
\* what it would see if each context had a CXU of its own.
THEOREM ProgramsSeePrivate ==
    ASSUME Marking
    PROVE  PSpec => ImplementsPrivate
BY ProgramsAreKernelRuns, KernelImplementsPrivate, PTL

\* A program none of whose asserts failed holds, under the names it has open, each
\* open selector of the kernel once; one that has come to its end holds none.
THEOREM NothingLeft == PSpec => [](AssertsHold => LeavesNothing)
<1>1. PInv => (AssertsHold => LeavesNothing)
    <2> SUFFICES ASSUME PTypes, KInv, Holdings, \A t \in Threads : ended(t)
                 PROVE  /\ opened = {}
                        /\ ToSet(pool) = States
                        /\ \A s \in States : counter[s] = 0 /\ resident[s] = None
                        /\ \A c \in Stateless : uses[c] = 0
        BY DEF PInv, LeavesNothing
    <2>1. Len(P) \in Nat /\ k \in Nat \ {0} /\ k > Len(P) /\ k <= Len(P) + 1
        BY MainOfThreads, MainIsBalanced DEF PTypes, ended, P, k
    <2>2. k = Len(P) + 1
        BY <2>1
    <2>3. L = {}
        BY <2>2, MainIsBalanced DEF L
    <2>4. opened = {}
        BY <2>3 DEF Holdings
    <2>5. \A c \in Stateless : uses[c] = 0
        <3>1. \A c : {x \in L : var[x] = c} = {}
            BY <2>3
        <3> QED
            BY <3>1, FS_EmptySet DEF Holdings
    <2>6. \A s \in States : users(s) = {} /\ counter[s] = 0 /\ free(s)
        BY <2>4, FS_EmptySet DEF users, KInv, CounterExact, PoolFree
    <2>7. \A s \in States : resident[s] = None
        <3> SUFFICES ASSUME NEW s \in States, resident[s] # None PROVE FALSE
            OBVIOUS
        <3>1. resident[s] \in Virts /\ home[resident[s]] = s
            BY DEF KInv, KTypes, AtHome
        <3> QED
            BY <2>4, <3>1, KernelAssumption DEF KInv, Homes
    <2>8. ToSet(pool) = States
        <3>1. pool \in [1 .. Len(pool) -> States] /\ DOMAIN pool = 1 .. Len(pool)
            BY LenProperties DEF KInv, KTypes
        <3> QED
            BY <2>6, <3>1 DEF ToSet, free
    <2> QED
        BY <2>4, <2>5, <2>6, <2>7, <2>8
<1> QED
    BY <1>1, ProgramInvariant, PTL

-----------------------------------------------------------------------------
(* The ledger of a program: what each name stands for, call by call.  A name *)
(* stands for nothing, for a context (its share type, the state it is on -   *)
(* 1, 2 or 0 for either - and its accumulator once the threads created so    *)
(* far have ended) or for a stateless CX.  The ledger also has the names     *)
(* main selected last (none or one), the live threads by what they run, and  *)
(* the two sums of multi_thread_2, six times, which makes them polynomials.  *)
Unheld == [kind |-> "none"]
On(type, at, n) == [kind |-> "context", type |-> type, at |-> at, acc |-> n]
Soft(cx) == [kind |-> "soft", cx |-> cx]

Book(ctx, picked, ones, twos, sixres, sixsum) ==
    [ctx |-> ctx, picked |-> picked, ones |-> ones, twos |-> twos,
     sixres |-> sixres, sixsum |-> sixsum]

Blank(picked) == Book([x \in Names |-> Unheld], picked, {}, {}, 0, 0)

none(H, x) == H.ctx[x].kind = "none"
context(H, x) == x \in Names /\ H.ctx[x].kind = "context"
soft(H, x) == x \in Names /\ H.ctx[x].kind = "soft"
calm(H) == H.ones = {} /\ H.twos = {}

put(H, x, c) == [y \in Names |-> IF y = x THEN c ELSE H.ctx[y]]
Set(H, x, c) == Book(put(H, x, c), H.picked, H.ones, H.twos, H.sixres, H.sixsum)
value_in(H, x, n) == On(H.ctx[x].type, H.ctx[x].at, n)

\* The state a new context gets, if the ledger tells: the other one than all
\* contexts are on.
slot(H) == IF \A y \in Names : context(H, y) => H.ctx[y].at = 2 THEN 1
           ELSE IF \A y \in Names : context(H, y) => H.ctx[y].at = 1 THEN 2 ELSE 0

\* What each call asks of the ledger H, its assert included, and does to it.
BookOpen(i, H, G) ==
    /\ i.op = "open" /\ i.ok
    /\ none(H, i.x) /\ i.x \notin H.picked
    /\ \/ slot(H) # 0
       \/ i.type = INTRA /\ \E y : context(H, y) /\ H.ctx[y].type = INTRA
    /\ G = Set(H, i.x, On(i.type, slot(H), 0))

BookFull(i, H, G) ==
    /\ i.op = "open" /\ ~i.ok
    /\ none(H, i.x) /\ i.x \notin H.picked
    /\ i.type = NO
    /\ \E x, y : /\ x # y /\ context(H, x) /\ context(H, y)
                 /\ H.ctx[x].type = NO /\ H.ctx[y].type = NO
    /\ G = H

BookUnknown(i, H, G) ==
    /\ i.op = "open_unknown"
    /\ none(H, i.x) /\ i.x \notin H.picked
    /\ G = H

BookPlace(i, H, G) ==
    /\ i.op = "place"
    /\ none(H, i.x) /\ i.x \notin H.picked /\ context(H, i.at)
    /\ G = Set(H, i.x, On(INTRA, H.ctx[i.at].at, 0))

BookOpenCx(i, H, G) ==
    /\ i.op = "open_cx"
    /\ none(H, i.x) /\ i.x \notin H.picked
    /\ G = Set(H, i.x, Soft(i.cx))

BookClose(i, H, G) ==
    /\ i.op = "close"
    /\ G = Book(put(H, i.x, Unheld), H.picked \ {i.x}, H.ones, H.twos, H.sixres, H.sixsum)

BookSel(i, H, G) ==
    /\ i.op = "sel"
    /\ i.x # LEGACY => i.x \in Names /\ ~none(H, i.x)
    /\ G = Book(H.ctx, {i.x}, H.ones, H.twos, H.sixres, H.sixsum)

result(cx, i) == IF cx = addsub THEN cx_func_addsub(i.cf, i.a, i.b)
                                ELSE cx_func_muldiv(i.cf, i.a, i.b)
BookFn(i, H, G) ==
    /\ i.op = "fn"
    /\ \E x \in H.picked \ {LEGACY} :
          /\ soft(H, x)
          /\ expected(i, value_of(result(H.ctx[x].cx, i)))
          /\ flags_of(result(H.ctx[x].cx, i)) = {}
    /\ G = H

BookMac(i, H, G) ==
    /\ i.op = "mac"
    /\ i.a \in Nat /\ i.b \in Nat
    /\ \E x \in H.picked \ {LEGACY} :
          /\ context(H, x)
          /\ H.ctx[x].acc + i.a * i.b < Half
          /\ expected(i, H.ctx[x].acc + i.a * i.b)
          /\ G = Set(H, x, value_in(H, x, H.ctx[x].acc + i.a * i.b))

BookRead(i, H, G) ==
    /\ \E x \in H.picked \ {LEGACY} :
          /\ context(H, x)
          /\ \/ i.op = "read" /\ H.ctx[x].acc = i.r /\ G = H
             \/ /\ i.op = "add"
                /\ G = Book(H.ctx, H.picked, H.ones, H.twos,
                            H.sixres + 6 * H.ctx[x].acc, H.sixsum)

BookSquare(i, H, G) ==
    /\ i.op = "square"
    /\ i.a \in Nat
    /\ G = Book(H.ctx, H.picked, H.ones, H.twos, H.sixres, H.sixsum + 6 * (i.a * i.a))

BookCheck(i, H, G) ==
    /\ \/ i.op = "legacy" /\ LEGACY \in H.picked
       \/ /\ i.op = "same_sel"
          /\ soft(H, i.x) /\ soft(H, i.y)
          /\ IF H.ctx[i.x].cx = H.ctx[i.y].cx THEN i.r = TRUE ELSE i.r = FALSE
       \/ i.op \in {"error_test", "error_clear", "word"}
       \/ i.op = "total" /\ i.n \in Nat /\ H.sixres = i.n * H.sixsum
    /\ G = H

\* What a thread will have added to its context.
BookCreate1(i, H, G) ==
    /\ i.op = "create" /\ i.body = cx_mac_thread_1
    /\ i.t \notin H.ones \cup H.twos
    /\ "B" \in H.picked /\ context(H, "B") /\ H.ctx["B"].acc + 25 < Half
    /\ G = Book(put(H, "B", value_in(H, "B", H.ctx["B"].acc + 25)), H.picked,
                H.ones \cup {i.t}, H.twos, H.sixres, H.sixsum)

sq(t) == (t - 1) * (t - 1)
BookCreate2(i, H, G) ==
    LET x == sels(i.t)
        n == H.ctx[x].acc + N * sq(i.t)
    IN  /\ i.op = "create" /\ i.body = cx_mac_thread_2(i.t)
        /\ i.t \notin H.ones \cup H.twos
        /\ context(H, x) /\ n < Half
        /\ G = Book(put(H, x, value_in(H, x, n)), H.picked,
                    H.ones, H.twos \cup {i.t}, H.sixres, H.sixsum)

BookJoin(i, H, G) ==
    /\ i.op = "join"
    /\ G = Book(H.ctx, H.picked, H.ones \ {i.t}, H.twos \ {i.t}, H.sixres, H.sixsum)

\* Calls of main while no other thread is live, and those on threads.
Alone(i, H, G) ==
    /\ calm(H)
    /\ \/ BookOpen(i, H, G) \/ BookFull(i, H, G) \/ BookPlace(i, H, G)
       \/ BookOpenCx(i, H, G) \/ BookClose(i, H, G) \/ BookSel(i, H, G)
       \/ BookFn(i, H, G) \/ BookMac(i, H, G) \/ BookRead(i, H, G)
       \/ BookSquare(i, H, G) \/ BookCheck(i, H, G) \/ BookUnknown(i, H, G)
Books(i, H, G) ==
    Alone(i, H, G) \/ BookCreate1(i, H, G) \/ BookCreate2(i, H, G) \/ BookJoin(i, H, G)

Account(h, a, H, G) ==
    /\ h[1] = H /\ h[Len(a) + 1] = G
    /\ \A j \in 1 .. Len(a) : Books(a[j], h[j], h[j + 1])

Balanced(a, H, G) == (\E S : a \in Seq(S)) /\ \E h : Account(h, a, H, G)

-----------------------------------------------------------------------------
(* The ledgers of the examples that create no thread *)

\* The ledger of a program that keeps selectors under "A", "B" and two other
\* names, y and z.
Entries(y, z, a, b, c, d) ==
    [x \in Names |-> IF x = "A" THEN a ELSE IF x = "B" THEN b
                     ELSE IF x = y THEN c ELSE IF x = z THEN d ELSE Unheld]
Desk(y, z, a, b, c, d, picked) == Book(Entries(y, z, a, b, c, d), picked, {}, {}, 0, 0)
Spare(y, z) == y \in Labels \ {"A", "B"} /\ z \in Labels \ {"A", "B"} /\ y # z

\* What the entries are.
LEMMA EntryIs ==
    /\ Unheld.kind = "none"
    /\ \A cx : Soft(cx).kind = "soft" /\ Soft(cx).cx = cx
    /\ \A type, at, n : LET e == On(type, at, n)
                        IN  e.kind = "context" /\ e.type = type /\ e.at = at /\ e.acc = n
BY DEF Unheld, Soft, On

\* What a ledger of four names holds.
LEMMA DeskIs ==
    ASSUME NEW y, NEW z, Spare(y, z), NEW a, NEW b, NEW c, NEW d, NEW s, NEW H,
           H = Desk(y, z, a, b, c, d, s)
    PROVE  /\ H.ctx["A"] = a /\ H.ctx["B"] = b /\ H.ctx[y] = c /\ H.ctx[z] = d
           /\ \A x \in Names \ {"A", "B", y, z} : H.ctx[x] = Unheld
           /\ "A" \in Names /\ "B" \in Names /\ y \in Names /\ z \in Names
           /\ H.picked = s /\ calm(H) /\ H = Book(Entries(y, z, a, b, c, d), s, {}, {}, 0, 0)
<1>1. "A" \in Names /\ "B" \in Names /\ y \in Names /\ z \in Names
      /\ y \notin {"A", "B"} /\ z \notin {"A", "B"} /\ y # z
    BY DEF Spare, Names, Labels
<1>2. H.ctx = Entries(y, z, a, b, c, d) /\ H.picked = s /\ calm(H)
    BY DEF Desk, Book, calm
<1> QED
    BY <1>1, <1>2 DEF Entries, Desk

\* Another entry.
LEMMA DeskPut ==
    ASSUME NEW y, NEW z, Spare(y, z), NEW a, NEW b, NEW c, NEW d, NEW s, NEW e
    PROVE  LET H == Desk(y, z, a, b, c, d, s)
           IN  /\ put(H, "A", e) = Entries(y, z, e, b, c, d)
               /\ put(H, "B", e) = Entries(y, z, a, e, c, d)
               /\ put(H, y, e) = Entries(y, z, a, b, e, d)
               /\ put(H, z, e) = Entries(y, z, a, b, c, e)
<1> DEFINE H == Desk(y, z, a, b, c, d, s)
<1>1. y \notin {"A", "B"} /\ z \notin {"A", "B"} /\ y # z
    BY DEF Spare
<1>2. \A x \in Names : H.ctx[x] = Entries(y, z, a, b, c, d)[x]
    BY DEF Desk, Book
<1> HIDE DEF H
<1>3. put(H, "A", e) = Entries(y, z, e, b, c, d)
    BY <1>1, <1>2 DEF put, Entries
<1>4. put(H, "B", e) = Entries(y, z, a, e, c, d)
    BY <1>1, <1>2 DEF put, Entries
<1>5. put(H, y, e) = Entries(y, z, a, b, e, d)
    BY <1>1, <1>2 DEF put, Entries
<1>6. put(H, z, e) = Entries(y, z, a, b, c, e)
    BY <1>1, <1>2 DEF put, Entries
<1> QED
    BY <1>3, <1>4, <1>5, <1>6 DEF H

\* The ledger with another entry.
LEMMA DeskEntry ==
    ASSUME NEW y, NEW z, Spare(y, z), NEW a, NEW b, NEW c, NEW d, NEW s, NEW e
    PROVE  LET H == Desk(y, z, a, b, c, d, s)
           IN  /\ Set(H, "A", e) = Desk(y, z, e, b, c, d, s)
               /\ Set(H, "B", e) = Desk(y, z, a, e, c, d, s)
               /\ Set(H, y, e) = Desk(y, z, a, b, e, d, s)
               /\ Set(H, z, e) = Desk(y, z, a, b, c, e, s)
<1>1. PICK H : H = Desk(y, z, a, b, c, d, s)
    OBVIOUS
<1>2. H.picked = s /\ H.ones = {} /\ H.twos = {} /\ H.sixres = 0 /\ H.sixsum = 0
    BY <1>1 DEF Desk, Book
<1> QED
    BY <1>1, <1>2, DeskPut DEF Desk, Set

-----------------------------------------------------------------------------
(* What the calls do to a ledger while no thread is live *)

\* A write of the selector register with the selector of a name that holds one,
LEMMA SelBook ==
    ASSUME NEW H, calm(H), NEW x \in Names, ~none(H, x)
    PROVE  Books(Sel(x), H, Book(H.ctx, {x}, H.ones, H.twos, H.sixres, H.sixsum))
BY DEF Books, Alone, BookSel, Sel

\* with CX_LEGACY.
LEMMA LegacyBook ==
    ASSUME NEW H, calm(H)
    PROVE  Books(Sel(LEGACY), H, Book(H.ctx, {LEGACY}, H.ones, H.twos, H.sixres, H.sixsum))
BY DEF Books, Alone, BookSel, Sel

\* A close leaves the name without an entry.
LEMMA CloseBook ==
    ASSUME NEW H, calm(H), NEW x
    PROVE  Books(Close(x), H, Book(put(H, x, Unheld), H.picked \ {x}, H.ones, H.twos,
                                   H.sixres, H.sixsum))
BY DEF Books, Alone, BookClose, Close

\* A mac on the context selected, with the result the assert asks for or none.
LEMMA MacBook ==
    ASSUME NEW H, calm(H), NEW x \in H.picked, x # LEGACY, NEW type, NEW at, NEW n \in Nat,
           x \in Names, H.ctx[x] = On(type, at, n),
           NEW a \in Nat, NEW b \in Nat, NEW r, r = n + a * b, r < Half
    PROVE  LET G == Set(H, x, On(type, at, r))
           IN  Books(Mac(a, b, r), H, G) /\ Books(Work(a, b), H, G)
<1> DEFINE e == On(type, at, n)
           G == Set(H, x, On(type, at, r))
<1>1. e.kind = "context" /\ e.type = type /\ e.at = at /\ e.acc = n /\ H.ctx[x] = e
    BY EntryIs
<1>2. context(H, x) /\ H.ctx[x].acc + a * b = r
    BY <1>1 DEF context
<1>3. value_in(H, x, r) = On(type, at, r)
    BY <1>1 DEF value_in
<1>4. LET i == Mac(a, b, r) IN i.op = "mac" /\ i.a = a /\ i.b = b /\ expected(i, r)
    BY DEF Mac, expected
<1>5. LET i == Work(a, b) IN i.op = "mac" /\ i.a = a /\ i.b = b /\ expected(i, r)
    BY DEF Work, expected
<1>6. G = Set(H, x, value_in(H, x, r))
    BY <1>3
<1> HIDE DEF e, G
<1>7. ASSUME NEW i, i.op = "mac" /\ i.a = a /\ i.b = b /\ expected(i, r)
      PROVE  Books(i, H, G)
    <2>1. BookMac(i, H, G)
        BY <1>2, <1>6, <1>7 DEF BookMac
    <2> QED
        BY <2>1 DEF Books, Alone
<1>8. Books(Mac(a, b, r), H, G) /\ Books(Work(a, b), H, G)
    BY <1>4, <1>5, <1>7
<1> QED
    BY <1>8 DEF G

\* The assert on the accumulator of the context selected.
LEMMA ReadBook ==
    ASSUME NEW H, calm(H), NEW x \in H.picked, x # LEGACY, NEW type, NEW at, NEW n,
           x \in Names, H.ctx[x] = On(type, at, n)
    PROVE  Books(Read(n), H, H)
<1>1. context(H, x) /\ H.ctx[x].acc = n
    BY EntryIs DEF context
<1>2. BookRead(Read(n), H, H)
    BY <1>1 DEF BookRead, Read
<1> QED
    BY <1>2 DEF Books, Alone

\* The assert on the selector register.
LEMMA SelLegacyBook ==
    ASSUME NEW H, calm(H), LEGACY \in H.picked
    PROVE  Books(SelLegacy, H, H)
BY DEF Books, Alone, BookCheck, SelLegacy

\* An open that is to succeed: a state is free, or can be shared.
LEMMA OpenBook ==
    ASSUME NEW H, calm(H), NEW x, none(H, x), x \notin H.picked, NEW type, NEW at, at = slot(H),
           at # 0 \/ (type = INTRA /\ \E u : context(H, u) /\ H.ctx[u].type = INTRA)
    PROVE  Books(Open(x, type), H, Set(H, x, On(type, at, 0)))
BY DEF Books, Alone, BookOpen, Open

\* The calls on each of the four names.
LEMMA DeskSel ==
    ASSUME NEW y, NEW z, Spare(y, z), NEW a, NEW b, NEW c, NEW d, NEW s
    PROVE  LET H == Desk(y, z, a, b, c, d, s)
           IN  /\ a.kind # "none" => Books(Sel("A"), H, Desk(y, z, a, b, c, d, {"A"}))
               /\ b.kind # "none" => Books(Sel("B"), H, Desk(y, z, a, b, c, d, {"B"}))
               /\ c.kind # "none" => Books(Sel(y), H, Desk(y, z, a, b, c, d, {y}))
               /\ d.kind # "none" => Books(Sel(z), H, Desk(y, z, a, b, c, d, {z}))
               /\ Books(Sel(LEGACY), H, Desk(y, z, a, b, c, d, {LEGACY}))
<1>1. PICK H : H = Desk(y, z, a, b, c, d, s)
    OBVIOUS
<1>2. /\ calm(H) /\ H.ctx["A"] = a /\ H.ctx["B"] = b /\ H.ctx[y] = c /\ H.ctx[z] = d
      /\ "A" \in Names /\ "B" \in Names /\ y \in Names /\ z \in Names
    BY <1>1, DeskIs
<1>3. \A x : Book(H.ctx, {x}, H.ones, H.twos, H.sixres, H.sixsum) = Desk(y, z, a, b, c, d, {x})
    BY <1>1 DEF Desk, Book
<1>4. Books(Sel(LEGACY), H, Desk(y, z, a, b, c, d, {LEGACY}))
    BY <1>2, <1>3, LegacyBook
<1>5. \A x \in Names : ~none(H, x) => Books(Sel(x), H, Desk(y, z, a, b, c, d, {x}))
    BY <1>2, <1>3, SelBook
<1> QED
    BY <1>1, <1>2, <1>4, <1>5 DEF none

\* The same for a close,
LEMMA DeskClose ==
    ASSUME NEW y, NEW z, Spare(y, z), NEW a, NEW b, NEW c, NEW d, NEW s
    PROVE  LET H == Desk(y, z, a, b, c, d, s)
           IN  /\ Books(Close("A"), H, Desk(y, z, Unheld, b, c, d, s \ {"A"}))
               /\ Books(Close("B"), H, Desk(y, z, a, Unheld, c, d, s \ {"B"}))
               /\ Books(Close(y), H, Desk(y, z, a, b, Unheld, d, s \ {y}))
               /\ Books(Close(z), H, Desk(y, z, a, b, c, Unheld, s \ {z}))
<1>1. PICK H : H = Desk(y, z, a, b, c, d, s)
    OBVIOUS
<1>2. calm(H)
    BY <1>1, DeskIs
<1>3. \A f, x : Book(f, H.picked \ {x}, H.ones, H.twos, H.sixres, H.sixsum)
                    = Book(f, s \ {x}, {}, {}, 0, 0)
    BY <1>1 DEF Desk, Book
<1>4. \A x : Books(Close(x), H, Book(put(H, x, Unheld), s \ {x}, {}, {}, 0, 0))
    BY <1>2, <1>3, CloseBook
<1> QED
    BY <1>1, <1>4, DeskPut DEF Desk

\* A sum of the examples, and that it is a value of an int32_t.
Adds(n, i, j, r) == n \in Nat /\ i \in Nat /\ j \in Nat /\ r = n + i * j /\ r < Half

\* and for a mac on the name selected.
LEMMA DeskMac ==
    ASSUME NEW y, NEW z, Spare(y, z), NEW a, NEW b, NEW c, NEW d,
           NEW type, NEW at, NEW n, NEW i, NEW j, NEW r, Adds(n, i, j, r)
    PROVE  LET e == On(type, at, n)
               f == On(type, at, r)
               adds(H, G) == Books(Mac(i, j, r), H, G) /\ Books(Work(i, j), H, G)
           IN  /\ adds(Desk(y, z, e, b, c, d, {"A"}), Desk(y, z, f, b, c, d, {"A"}))
               /\ adds(Desk(y, z, a, e, c, d, {"B"}), Desk(y, z, a, f, c, d, {"B"}))
               /\ adds(Desk(y, z, a, b, e, d, {y}), Desk(y, z, a, b, f, d, {y}))
               /\ adds(Desk(y, z, a, b, c, e, {z}), Desk(y, z, a, b, c, f, {z}))
<1> DEFINE adds(H, G) == Books(Mac(i, j, r), H, G) /\ Books(Work(i, j), H, G)
<1>1. PICK e : e = On(type, at, n)
    OBVIOUS
<1>2. PICK f : f = On(type, at, r)
    OBVIOUS
<1>3. ASSUME NEW H, NEW x \in Names, x # LEGACY, calm(H), H.picked = {x}, H.ctx[x] = e
      PROVE  adds(H, Set(H, x, f))
    BY <1>1, <1>2, <1>3, MacBook DEF Adds
<1>4. "A" # LEGACY /\ "B" # LEGACY /\ y # LEGACY /\ z # LEGACY
    BY DEF LEGACY, Spare, Labels
<1> HIDE DEF adds
<1>5. adds(Desk(y, z, e, b, c, d, {"A"}), Desk(y, z, f, b, c, d, {"A"}))
    <2>1. PICK H : H = Desk(y, z, e, b, c, d, {"A"})
        OBVIOUS
    <2>2. Set(H, "A", f) = Desk(y, z, f, b, c, d, {"A"})
        BY <2>1, DeskEntry
    <2> QED
        BY <2>1, <2>2, <1>3, <1>4, DeskIs
<1>6. adds(Desk(y, z, a, e, c, d, {"B"}), Desk(y, z, a, f, c, d, {"B"}))
    <2>1. PICK H : H = Desk(y, z, a, e, c, d, {"B"})
        OBVIOUS
    <2>2. Set(H, "B", f) = Desk(y, z, a, f, c, d, {"B"})
        BY <2>1, DeskEntry
    <2> QED
        BY <2>1, <2>2, <1>3, <1>4, DeskIs
<1>7. adds(Desk(y, z, a, b, e, d, {y}), Desk(y, z, a, b, f, d, {y}))
    <2>1. PICK H : H = Desk(y, z, a, b, e, d, {y})
        OBVIOUS
    <2>2. Set(H, y, f) = Desk(y, z, a, b, f, d, {y})
        BY <2>1, DeskEntry
    <2> QED
        BY <2>1, <2>2, <1>3, <1>4, DeskIs
<1>8. adds(Desk(y, z, a, b, c, e, {z}), Desk(y, z, a, b, c, f, {z}))
    <2>1. PICK H : H = Desk(y, z, a, b, c, e, {z})
        OBVIOUS
    <2>2. Set(H, z, f) = Desk(y, z, a, b, c, f, {z})
        BY <2>1, DeskEntry
    <2> QED
        BY <2>1, <2>2, <1>3, <1>4, DeskIs
<1> QED
    BY <1>1, <1>2, <1>5, <1>6, <1>7, <1>8 DEF adds

\* Read and the asserts on what is selected.
LEMMA DeskRead ==
    ASSUME NEW y, NEW z, Spare(y, z), NEW a, NEW b, NEW c, NEW d, NEW type, NEW at, NEW n
    PROVE  LET e == On(type, at, n)
               asks(H) == Books(Read(n), H, H)
           IN  /\ asks(Desk(y, z, e, b, c, d, {"A"})) /\ asks(Desk(y, z, a, e, c, d, {"B"}))
               /\ asks(Desk(y, z, a, b, e, d, {y})) /\ asks(Desk(y, z, a, b, c, e, {z}))
<1>1. PICK e : e = On(type, at, n)
    OBVIOUS
<1>2. \A x \in Names : \A H : x # LEGACY /\ calm(H) /\ H.picked = {x} /\ H.ctx[x] = e
            => Books(Read(n), H, H)
    BY <1>1, ReadBook
<1>3. "A" # LEGACY /\ "B" # LEGACY /\ y # LEGACY /\ z # LEGACY
    BY DEF LEGACY, Spare, Labels
<1> QED
    BY <1>1, <1>2, <1>3, DeskIs

\* No selector has been selected yet.
LEMMA DeskLegacy ==
    ASSUME NEW y, NEW z, Spare(y, z), NEW a, NEW b, NEW c, NEW d
    PROVE  LET H == Desk(y, z, a, b, c, d, {LEGACY}) IN Books(SelLegacy, H, H)
<1>1. PICK H : H = Desk(y, z, a, b, c, d, {LEGACY})
    OBVIOUS
<1> QED
    BY <1>1, DeskIs, SelLegacyBook

\* A sequence of calls after a sequence of calls.
LEMMA Joined ==
    ASSUME NEW a, NEW b, NEW H, NEW M, NEW G, Balanced(a, H, M), Balanced(b, M, G)
    PROVE  Balanced(a \o b, H, G)
<1>1. PICK Sa, ha : a \in Seq(Sa) /\ Account(ha, a, H, M)
    BY DEF Balanced
<1>2. PICK Sb, hb : b \in Seq(Sb) /\ Account(hb, b, M, G)
    BY DEF Balanced
<1> DEFINE S == Sa \cup Sb
           m == Len(a)
           n == Len(b)
           h == [j \in 1 .. m + n + 1 |-> IF j <= m THEN ha[j] ELSE hb[j - m]]
<1>3. a \in Seq(S) /\ b \in Seq(S) /\ m \in Nat /\ n \in Nat
    BY <1>1, <1>2
<1>4. /\ a \o b \in Seq(S) /\ Len(a \o b) = m + n
      /\ \A j \in 1 .. m + n : (a \o b)[j] = IF j <= m THEN a[j] ELSE b[j - m]
    BY <1>3, ConcatProperties
<1>5. Account(h, a \o b, H, G)
    <2>1. h[1] = H
        BY <1>1, <1>2, <1>3 DEF Account
    <2>2. h[m + n + 1] = G
        BY <1>1, <1>2, <1>3 DEF Account
    <2>3. ASSUME NEW j \in 1 .. m + n
          PROVE  Books((a \o b)[j], h[j], h[j + 1])
        <3>1. CASE j <= m
            <4>1. Books(a[j], ha[j], ha[j + 1])
                BY <1>1, <1>3, <3>1 DEF Account
            <4>2. h[j] = ha[j] /\ h[j + 1] = ha[j + 1]
                BY <1>1, <1>2, <1>3, <3>1 DEF Account
            <4> QED
                BY <1>4, <3>1, <4>1, <4>2
        <3>2. CASE ~(j <= m)
            <4>1. j - m \in 1 .. n /\ (j + 1) - m = (j - m) + 1
                BY <1>3, <3>2
            <4>2. Books(b[j - m], hb[j - m], hb[(j - m) + 1])
                BY <1>2, <4>1 DEF Account
            <4>3. h[j] = hb[j - m] /\ h[j + 1] = hb[(j - m) + 1]
                BY <1>3, <3>2, <4>1
            <4> QED
                BY <1>4, <3>2, <4>2, <4>3
        <3> QED
            BY <3>1, <3>2
    <2> HIDE DEF h
    <2> QED
        BY <1>4, <2>1, <2>2, <2>3 DEF Account
<1> QED
    BY <1>4, <1>5 DEF Balanced

\* A sequence of one call.
LEMMA OneBook ==
    ASSUME NEW i, NEW H, NEW G, Books(i, H, G)
    PROVE  Balanced(<<i>>, H, G)
<1> DEFINE a == <<i>>
           h == <<H, G>>
<1>1. a \in Seq({i}) /\ Len(a) = 1 /\ a[1] = i /\ h[1] = H /\ h[2] = G
    OBVIOUS
<1> HIDE DEF a, h
<1>2. Account(h, a, H, G)
    BY <1>1 DEF Account
<1>3. Balanced(a, H, G)
    BY <1>1, <1>2 DEF Balanced
<1> QED
    BY <1>3 DEF a

\* The ledger h of n calls.
LEMMA ManyBooks ==
    ASSUME NEW n \in Nat, NEW a, a = [j \in 1 .. n |-> a[j]], NEW h,
           \A j \in 1 .. n : Books(a[j], h[j], h[j + 1])
    PROVE  Balanced(a, h[1], h[n + 1])
<1> DEFINE S == {a[j] : j \in 1 .. n}
<1>1. a \in [1 .. n -> S]
    OBVIOUS
<1> HIDE DEF S
<1>2. a \in Seq(S) /\ Len(a) = n
    BY <1>1
<1>3. Account(h, a, h[1], h[n + 1])
    BY <1>2 DEF Account
<1> QED
    BY <1>2, <1>3 DEF Balanced

\* The ledger H with the names in X closed.
Shut(H, X) == Book([x \in Names |-> IF x \in X THEN Unheld ELSE H.ctx[x]], H.picked \ X,
                   H.ones, H.twos, H.sixres, H.sixsum)

\* One more name closed.
LEMMA ShutOne ==
    ASSUME NEW H, NEW X, NEW x, calm(H)
    PROVE  Books(Close(x), Shut(H, X), Shut(H, X \cup {x})) /\ calm(Shut(H, X))
<1>1. PICK M : M = Shut(H, X)
    OBVIOUS
<1>2. /\ M.ctx = [y \in Names |-> IF y \in X THEN Unheld ELSE H.ctx[y]]
      /\ M.picked = H.picked \ X /\ M.ones = H.ones /\ M.twos = H.twos
      /\ M.sixres = H.sixres /\ M.sixsum = H.sixsum /\ calm(M)
    BY <1>1 DEF Shut, Book, calm
<1>3. put(M, x, Unheld) = [y \in Names |-> IF y \in X \cup {x} THEN Unheld ELSE H.ctx[y]]
    BY <1>2 DEF put
<1>4. M.picked \ {x} = H.picked \ (X \cup {x})
    BY <1>2
<1>5. Books(Close(x), M, Book(put(M, x, Unheld), M.picked \ {x}, M.ones, M.twos,
                              M.sixres, M.sixsum))
    BY <1>2, CloseBook
<1> QED
    BY <1>1, <1>2, <1>3, <1>4, <1>5 DEF Shut

\* Names closed in a row.
LEMMA ShutBooks ==
    ASSUME NEW n \in Nat, NEW xs, NEW H, calm(H), H = Shut(H, {})
    PROVE  Balanced([i \in 1 .. n |-> Close(xs[i])], H, Shut(H, {xs[i] : i \in 1 .. n}))
<1> DEFINE a == [i \in 1 .. n |-> Close(xs[i])]
           h == [j \in 1 .. n + 1 |-> Shut(H, {xs[i] : i \in 1 .. j - 1})]
<1>1. h[1] = H /\ h[n + 1] = Shut(H, {xs[i] : i \in 1 .. n})
    <2>1. 1 .. 1 - 1 = {} /\ 1 .. (n + 1) - 1 = 1 .. n
        OBVIOUS
    <2>2. {xs[i] : i \in {}} = {}
        OBVIOUS
    <2>3. 1 \in 1 .. n + 1 /\ n + 1 \in 1 .. n + 1
        OBVIOUS
    <2>4. h[1] = Shut(H, {xs[i] : i \in {}}) /\ h[n + 1] = Shut(H, {xs[i] : i \in 1 .. n})
        BY <2>1, <2>3
    <2> QED
        BY <2>2, <2>4
<1>2. ASSUME NEW j \in 1 .. n
      PROVE  Books(a[j], h[j], h[j + 1])
    <2>1. 1 .. (j + 1) - 1 = (1 .. j - 1) \cup {j} /\ j \in 1 .. n + 1 /\ j + 1 \in 1 .. n + 1
        OBVIOUS
    <2>2. {xs[i] : i \in (1 .. j - 1) \cup {j}} = {xs[i] : i \in 1 .. j - 1} \cup {xs[j]}
        OBVIOUS
    <2>3. h[j + 1] = Shut(H, {xs[i] : i \in 1 .. j - 1} \cup {xs[j]}) /\ a[j] = Close(xs[j])
          /\ h[j] = Shut(H, {xs[i] : i \in 1 .. j - 1})
        BY <2>1, <2>2
    <2> HIDE DEF a, h
    <2> QED
        BY <2>3, ShutOne
<1>3. a = [j \in 1 .. n |-> a[j]]
    OBVIOUS
<1> HIDE DEF a, h
<1>4. Balanced(a, H, Shut(H, {xs[i] : i \in 1 .. n}))
    BY <1>1, <1>2, <1>3, ManyBooks
<1> QED
    BY <1>4 DEF a

\* A ledger of four names has nothing under the others.
LEMMA DeskIsShut ==
    ASSUME NEW y, NEW z, NEW a, NEW b, NEW c, NEW d, NEW s
    PROVE  LET H == Desk(y, z, a, b, c, d, s) IN H = Shut(H, {})
<1>1. PICK H : H = Desk(y, z, a, b, c, d, s)
    OBVIOUS
<1>2. H = Book(Entries(y, z, a, b, c, d), s, {}, {}, 0, 0)
    BY <1>1 DEF Desk
<1>3. H.ctx = Entries(y, z, a, b, c, d) /\ H.picked = s /\ H.ones = {} /\ H.twos = {}
      /\ H.sixres = 0 /\ H.sixsum = 0
    BY <1>2 DEF Book
<1>4. [x \in Names |-> IF x \in {} THEN Unheld ELSE H.ctx[x]] = Entries(y, z, a, b, c, d)
    BY <1>3 DEF Entries
<1>5. H.picked \ {} = s
    BY <1>3
<1> QED
    BY <1>1, <1>2, <1>3, <1>4, <1>5 DEF Shut

\* Closing all of them leaves the ledger blank.
LEMMA DeskShut ==
    ASSUME NEW y, NEW z, NEW a, NEW b, NEW c, NEW d, NEW s, NEW X,
           "A" \in X \/ a = Unheld, "B" \in X \/ b = Unheld,
           y \in X \/ c = Unheld, z \in X \/ d = Unheld
    PROVE  Shut(Desk(y, z, a, b, c, d, s), X) = Blank(s \ X)
<1>1. PICK H : H = Desk(y, z, a, b, c, d, s)
    OBVIOUS
<1>2. H.ctx = Entries(y, z, a, b, c, d) /\ H.picked = s /\ H.ones = {} /\ H.twos = {}
      /\ H.sixres = 0 /\ H.sixsum = 0
    BY <1>1 DEF Desk, Book
<1>3. [x \in Names |-> IF x \in X THEN Unheld ELSE H.ctx[x]] = [x \in Names |-> Unheld]
    <2>1. ASSUME NEW x \in Names, x \notin X
          PROVE  H.ctx[x] = Unheld
        BY <1>2, <2>1 DEF Entries
    <2> QED
        BY <2>1
<1> QED
    BY <1>1, <1>2, <1>3 DEF Shut, Blank

\* A ledger of four names that hold nothing.
LEMMA DeskBlank ==
    ASSUME NEW y, NEW z, NEW s
    PROVE  Desk(y, z, Unheld, Unheld, Unheld, Unheld, s) = Blank(s)
<1>1. Entries(y, z, Unheld, Unheld, Unheld, Unheld) = [x \in Names |-> Unheld]
    BY DEF Entries
<1> QED
    BY <1>1 DEF Desk, Blank

\* Closes(xs) leaves the ledger blank if xs has all names held.
LEMMA ClosesBooks ==
    ASSUME NEW y, NEW z, Spare(y, z), NEW a, NEW b, NEW c, NEW d, NEW s, NEW X,
           "A" \in X \/ a = Unheld, "B" \in X \/ b = Unheld,
           y \in X \/ c = Unheld, z \in X \/ d = Unheld,
           NEW xs \in Seq(Labels), X = {xs[i] : i \in 1 .. Len(xs)}
    PROVE  Balanced(Closes(xs), Desk(y, z, a, b, c, d, s), Blank(s \ X))
<1>1. PICK H : H = Desk(y, z, a, b, c, d, s)
    OBVIOUS
<1>2. calm(H) /\ H = Shut(H, {}) /\ Shut(H, X) = Blank(s \ X)
    BY <1>1, DeskIs, DeskIsShut, DeskShut
<1>3. PICK n \in Nat : n = Len(xs)
    OBVIOUS
<1>4. Balanced([i \in 1 .. n |-> Close(xs[i])], H, Shut(H, {xs[i] : i \in 1 .. n}))
    BY <1>2, ShutBooks
<1> QED
    BY <1>1, <1>2, <1>3, <1>4 DEF Closes

\* Which state a new context gets, by the contexts there are.
LEMMA DeskSlot ==
    ASSUME NEW y, NEW z, Spare(y, z), NEW s, NEW type, NEW typeB, NEW m, NEW n
    PROVE  LET e == On(type, 1, m)
               f == On(typeB, 2, n)
               U == Unheld
           IN  /\ slot(Desk(y, z, U, U, U, U, s)) = 1
               /\ slot(Desk(y, z, e, U, U, U, s)) = 2
               /\ slot(Desk(y, z, U, f, U, U, s)) = 1
               /\ slot(Desk(y, z, e, On(typeB, 1, n), U, U, s)) = 2
<1> DEFINE e == On(type, 1, m)
           f == On(typeB, 2, n)
           g == On(typeB, 1, n)
           U == Unheld
           all(H, at) == \A x \in Names : context(H, x) => H.ctx[x].at = at
<1>1. /\ e.kind = "context" /\ e.at = 1 /\ f.kind = "context" /\ f.at = 2
      /\ g.kind = "context" /\ g.at = 1 /\ U.kind = "none"
    BY EntryIs
<1>2. \A H : slot(H) = IF all(H, 2) THEN 1 ELSE IF all(H, 1) THEN 2 ELSE 0
    BY DEF slot
<1> HIDE DEF e, f, g
<1>3. all(Desk(y, z, U, U, U, U, s), 2)
    <2>1. PICK H : H = Desk(y, z, U, U, U, U, s)
        OBVIOUS
    <2> QED
        BY <2>1, <1>1, DeskIs DEF context
<1>4. ~all(Desk(y, z, e, U, U, U, s), 2) /\ all(Desk(y, z, e, U, U, U, s), 1)
    <2>1. PICK H : H = Desk(y, z, e, U, U, U, s)
        OBVIOUS
    <2> QED
        BY <2>1, <1>1, DeskIs DEF context
<1>5. all(Desk(y, z, U, f, U, U, s), 2)
    <2>1. PICK H : H = Desk(y, z, U, f, U, U, s)
        OBVIOUS
    <2> QED
        BY <2>1, <1>1, DeskIs DEF context
<1>6. ~all(Desk(y, z, e, g, U, U, s), 2) /\ all(Desk(y, z, e, g, U, U, s), 1)
    <2>1. PICK H : H = Desk(y, z, e, g, U, U, s)
        OBVIOUS
    <2> QED
        BY <2>1, <1>1, DeskIs DEF context
<1> HIDE DEF all
<1>7. /\ slot(Desk(y, z, U, U, U, U, s)) = 1
      /\ slot(Desk(y, z, e, U, U, U, s)) = 2
      /\ slot(Desk(y, z, U, f, U, U, s)) = 1
      /\ slot(Desk(y, z, e, g, U, U, s)) = 2
    BY <1>2, <1>3, <1>4, <1>5, <1>6
<1> QED
    BY <1>7 DEF e, f, g

\* With contexts on both states there is none.
LEMMA NoSlot ==
    ASSUME NEW y, NEW z, Spare(y, z), NEW s, NEW type, NEW typeB, NEW m, NEW n, NEW c, NEW d
    PROVE  slot(Desk(y, z, On(type, 1, m), On(typeB, 2, n), c, d, s)) = 0
<1>1. PICK e : e = On(type, 1, m)
    OBVIOUS
<1>2. PICK f : f = On(typeB, 2, n)
    OBVIOUS
<1>3. e.kind = "context" /\ e.at = 1 /\ f.kind = "context" /\ f.at = 2
    BY <1>1, <1>2, EntryIs
<1>4. PICK H : H = Desk(y, z, e, f, c, d, s)
    OBVIOUS
<1>5. slot(H) = 0
    BY <1>3, <1>4, DeskIs DEF context, slot
<1> QED
    BY <1>1, <1>2, <1>4, <1>5

\* An open on a state the ledger knows to be free, under each name.
LEMMA DeskOpen ==
    ASSUME NEW y, NEW z, Spare(y, z), NEW a, NEW b, NEW c, NEW s, NEW type, NEW at,
           NEW U, U = Unheld, at # 0
    PROVE  /\ LET H == Desk(y, z, U, U, U, U, s)
              IN  at = slot(H) /\ "A" \notin s
                  => Books(Open("A", type), H, Desk(y, z, On(type, at, 0), U, U, U, s))
           /\ LET H == Desk(y, z, a, U, U, U, s)
              IN  at = slot(H) /\ "B" \notin s
                  => Books(Open("B", type), H, Desk(y, z, a, On(type, at, 0), U, U, s))
           /\ LET H == Desk(y, z, a, b, U, U, s)
              IN  at = slot(H) /\ y \notin s
                  => Books(Open(y, type), H, Desk(y, z, a, b, On(type, at, 0), U, s))
<1> DEFINE e == On(type, at, 0)
<1>0. U.kind = "none"
    BY EntryIs
<1>1. ASSUME NEW H, calm(H), NEW x, none(H, x), x \notin H.picked, at = slot(H)
      PROVE  Books(Open(x, type), H, Set(H, x, e))
    BY <1>1, OpenBook
<1> HIDE DEF e
<1>3. ASSUME at = slot(Desk(y, z, U, U, U, U, s)), "A" \notin s
      PROVE  Books(Open("A", type), Desk(y, z, U, U, U, U, s), Desk(y, z, e, U, U, U, s))
    <2>1. PICK H : H = Desk(y, z, U, U, U, U, s)
        OBVIOUS
    <2>2. Set(H, "A", e) = Desk(y, z, e, U, U, U, s)
        BY <2>1, DeskEntry
    <2>3. calm(H) /\ none(H, "A") /\ H.picked = s
        BY <2>1, <1>0, DeskIs DEF none
    <2> QED
        BY <2>1, <2>2, <2>3, <1>1, <1>3
<1>4. ASSUME at = slot(Desk(y, z, a, U, U, U, s)), "B" \notin s
      PROVE  Books(Open("B", type), Desk(y, z, a, U, U, U, s), Desk(y, z, a, e, U, U, s))
    <2>1. PICK H : H = Desk(y, z, a, U, U, U, s)
        OBVIOUS
    <2>2. Set(H, "B", e) = Desk(y, z, a, e, U, U, s)
        BY <2>1, DeskEntry
    <2>3. calm(H) /\ none(H, "B") /\ H.picked = s
        BY <2>1, <1>0, DeskIs DEF none
    <2> QED
        BY <2>1, <2>2, <2>3, <1>1, <1>4
<1>5. ASSUME at = slot(Desk(y, z, a, b, U, U, s)), y \notin s
      PROVE  Books(Open(y, type), Desk(y, z, a, b, U, U, s), Desk(y, z, a, b, e, U, s))
    <2>1. PICK H : H = Desk(y, z, a, b, U, U, s)
        OBVIOUS
    <2>2. Set(H, y, e) = Desk(y, z, a, b, e, U, s)
        BY <2>1, DeskEntry
    <2>3. calm(H) /\ none(H, y) /\ H.picked = s
        BY <2>1, <1>0, DeskIs DEF none
    <2> QED
        BY <2>1, <2>2, <2>3, <1>1, <1>5
<1> QED
    BY <1>3, <1>4, <1>5 DEF e

\* An open with no state free: an INTRA context is given one of those of others
\* like it, which the ledger cannot tell, an exclusive one none.
LEMMA DeskShared ==
    ASSUME NEW y, NEW z, Spare(y, z), NEW c, NEW s, NEW type, NEW m, NEW n, NEW U, U = Unheld
    PROVE  LET a == On(type, 1, m)
               b == On(INTRA, 2, n)
               e == On(INTRA, 0, 0)
           IN  /\ y \notin s => Books(Open(y, INTRA), Desk(y, z, a, b, U, U, s),
                                      Desk(y, z, a, b, e, U, s))
               /\ z \notin s => Books(Open(z, INTRA), Desk(y, z, a, b, c, U, s),
                                      Desk(y, z, a, b, c, e, s))
<1> DEFINE a == On(type, 1, m)
           b == On(INTRA, 2, n)
           e == On(INTRA, 0, 0)
<1>1. b.kind = "context" /\ b.type = INTRA /\ U.kind = "none"
    BY EntryIs
<1>2. ASSUME NEW H, calm(H), NEW x, none(H, x), x \notin H.picked, slot(H) = 0, context(H, "B"),
             H.ctx["B"].type = INTRA
      PROVE  Books(Open(x, INTRA), H, Set(H, x, e))
    BY <1>2, OpenBook
<1>3. \A d, f : slot(Desk(y, z, a, b, d, f, s)) = 0
    BY Zenon, NoSlot
<1> HIDE DEF a, b, e
<1>4. ASSUME y \notin s
      PROVE  Books(Open(y, INTRA), Desk(y, z, a, b, U, U, s), Desk(y, z, a, b, e, U, s))
    <2>1. PICK H : H = Desk(y, z, a, b, U, U, s)
        OBVIOUS
    <2>2. Set(H, y, e) = Desk(y, z, a, b, e, U, s) /\ slot(H) = 0
        BY <2>1, <1>3, DeskEntry
    <2>3. calm(H) /\ none(H, y) /\ H.picked = s /\ context(H, "B") /\ H.ctx["B"].type = INTRA
        BY <2>1, <1>1, DeskIs DEF none, context
    <2> QED
        BY <2>1, <2>2, <2>3, <1>2, <1>4
<1>5. ASSUME z \notin s
      PROVE  Books(Open(z, INTRA), Desk(y, z, a, b, c, U, s), Desk(y, z, a, b, c, e, s))
    <2>1. PICK H : H = Desk(y, z, a, b, c, U, s)
        OBVIOUS
    <2>2. Set(H, z, e) = Desk(y, z, a, b, c, e, s) /\ slot(H) = 0
        BY <2>1, <1>3, DeskEntry
    <2>3. calm(H) /\ none(H, z) /\ H.picked = s /\ context(H, "B") /\ H.ctx["B"].type = INTRA
        BY <2>1, <1>1, DeskIs DEF none, context
    <2> QED
        BY <2>1, <2>2, <2>3, <1>2, <1>5
<1> QED
    BY <1>4, <1>5 DEF a, b, e

\* An exclusive open with both states held by exclusive contexts fails.
LEMMA DeskFull ==
    ASSUME NEW y, NEW z, Spare(y, z), NEW s, NEW m, NEW n, NEW U, U = Unheld, y \notin s
    PROVE  LET H == Desk(y, z, On(NO, 1, m), On(NO, 2, n), U, U, s)
           IN  Books(OpenFull(y, NO), H, H)
<1>1. PICK a : a = On(NO, 1, m)
    OBVIOUS
<1>2. PICK b : b = On(NO, 2, n)
    OBVIOUS
<1>3. /\ a.kind = "context" /\ a.type = NO /\ b.kind = "context" /\ b.type = NO /\ U.kind = "none"
    BY <1>1, <1>2, EntryIs
<1>4. PICK H : H = Desk(y, z, a, b, U, U, s)
    OBVIOUS
<1>5. /\ calm(H) /\ none(H, y) /\ H.picked = s /\ context(H, "A") /\ context(H, "B")
      /\ H.ctx["A"].type = NO /\ H.ctx["B"].type = NO /\ "A" # "B"
    BY <1>3, <1>4, DeskIs DEF none, context
<1>6. BookFull(OpenFull(y, NO), H, H)
    BY <1>5 DEF BookFull, OpenFull
<1>7. Books(OpenFull(y, NO), H, H)
    BY <1>5, <1>6 DEF Books, Alone
<1> QED
    BY <1>1, <1>2, <1>4, <1>7

\* An open on the state of a context there is.
LEMMA DeskPlace ==
    ASSUME NEW y, NEW z, Spare(y, z), NEW a, NEW b, NEW s, NEW type, NEW at, NEW n,
           NEW U, U = Unheld
    PROVE  LET e == On(type, at, n)
               f == On(INTRA, at, 0)
           IN  /\ "B" \notin s => Books(Place("B", "A"), Desk(y, z, e, U, U, U, s),
                                        Desk(y, z, e, f, U, U, s))
               /\ z \notin s => Books(Place(z, y), Desk(y, z, a, b, e, U, s),
                                      Desk(y, z, a, b, e, f, s))
<1> DEFINE e == On(type, at, n)
           f == On(INTRA, at, 0)
<1>1. e.kind = "context" /\ e.at = at /\ U.kind = "none"
    BY EntryIs
<1>2. ASSUME NEW H, calm(H), NEW x, none(H, x), x \notin H.picked, NEW w \in Names, H.ctx[w] = e
      PROVE  Books(Place(x, w), H, Set(H, x, f))
    <2>1. context(H, w) /\ H.ctx[w].at = at
        BY <1>1, <1>2 DEF context
    <2>2. BookPlace(Place(x, w), H, Set(H, x, f))
        BY <1>2, <2>1 DEF BookPlace, Place
    <2> QED
        BY <1>2, <2>2 DEF Books, Alone
<1> HIDE DEF e, f
<1>3. ASSUME "B" \notin s
      PROVE  Books(Place("B", "A"), Desk(y, z, e, U, U, U, s), Desk(y, z, e, f, U, U, s))
    <2>1. PICK H : H = Desk(y, z, e, U, U, U, s)
        OBVIOUS
    <2>2. Set(H, "B", f) = Desk(y, z, e, f, U, U, s)
        BY <2>1, DeskEntry
    <2>3. calm(H) /\ none(H, "B") /\ H.picked = s /\ H.ctx["A"] = e /\ "A" \in Names
        BY <2>1, <1>1, DeskIs DEF none
    <2> QED
        BY <2>1, <2>2, <2>3, <1>2, <1>3
<1>4. ASSUME z \notin s
      PROVE  Books(Place(z, y), Desk(y, z, a, b, e, U, s), Desk(y, z, a, b, e, f, s))
    <2>1. PICK H : H = Desk(y, z, a, b, e, U, s)
        OBVIOUS
    <2>2. Set(H, z, f) = Desk(y, z, a, b, e, f, s)
        BY <2>1, DeskEntry
    <2>3. calm(H) /\ none(H, z) /\ H.picked = s /\ H.ctx[y] = e /\ y \in Names
        BY <2>1, <1>1, DeskIs DEF none
    <2> QED
        BY <2>1, <2>2, <2>3, <1>2, <1>4
<1> QED
    BY <1>3, <1>4 DEF e, f

\* The asserts on the words of selectors: the ledger asks nothing of them.
LEMMA DeskWords ==
    ASSUME NEW y, NEW z, Spare(y, z), NEW a, NEW b, NEW c, NEW d, NEW s
    PROVE  LET H == Desk(y, z, a, b, c, d, s)
           IN  \A u, w, r : /\ Books(SelWord(u), H, H) /\ Books(SameId(u, w), H, H)
                           /\ Books(SameState(u, w, r), H, H)
<1>1. PICK H : H = Desk(y, z, a, b, c, d, s)
    OBVIOUS
<1>2. calm(H)
    BY <1>1, DeskIs
<1>3. \A u, w, r : /\ BookCheck(SelWord(u), H, H) /\ BookCheck(SameId(u, w), H, H)
                   /\ BookCheck(SameState(u, w, r), H, H)
    BY DEF BookCheck, SelWord, SameId, SameState
<1> QED
    BY <1>1, <1>2, <1>3 DEF Books, Alone

\* An open that finds no CX.
LEMMA DeskUnknown ==
    ASSUME NEW y, NEW z, Spare(y, z), NEW a, NEW b, NEW d, NEW s, y \notin s
    PROVE  LET H == Desk(y, z, a, b, Unheld, d, s) IN Books(OpenUnknown(y), H, H)
<1>1. PICK H : H = Desk(y, z, a, b, Unheld, d, s)
    OBVIOUS
<1>2. calm(H) /\ none(H, y) /\ y \notin H.picked
    BY <1>1, DeskIs, EntryIs DEF none
<1>3. BookUnknown(OpenUnknown(y), H, H)
    BY <1>2 DEF BookUnknown, OpenUnknown
<1> QED
    BY <1>1, <1>2, <1>3 DEF Books, Alone

\* The calls on stateless CXs.
LEMMA DeskOpenCx ==
    ASSUME NEW y, NEW z, Spare(y, z), NEW a, NEW b, NEW c, NEW d, NEW s, NEW cx,
           NEW U, U = Unheld
    PROVE  LET e == Soft(cx)
           IN  /\ "A" \notin s => Books(OpenCx("A", cx), Desk(y, z, U, b, c, d, s),
                                        Desk(y, z, e, b, c, d, s))
               /\ "B" \notin s => Books(OpenCx("B", cx), Desk(y, z, a, U, c, d, s),
                                        Desk(y, z, a, e, c, d, s))
               /\ y \notin s => Books(OpenCx(y, cx), Desk(y, z, a, b, U, d, s),
                                      Desk(y, z, a, b, e, d, s))
               /\ z \notin s => Books(OpenCx(z, cx), Desk(y, z, a, b, c, U, s),
                                      Desk(y, z, a, b, c, e, s))
<1> DEFINE e == Soft(cx)
<1>1. U.kind = "none"
    BY EntryIs
<1>2. ASSUME NEW H, calm(H), NEW x, none(H, x), x \notin H.picked
      PROVE  Books(OpenCx(x, cx), H, Set(H, x, e))
    BY <1>2 DEF Books, Alone, BookOpenCx, OpenCx
<1> HIDE DEF e
<1>3. ASSUME "A" \notin s
      PROVE  Books(OpenCx("A", cx), Desk(y, z, U, b, c, d, s), Desk(y, z, e, b, c, d, s))
    <2>1. PICK H : H = Desk(y, z, U, b, c, d, s)
        OBVIOUS
    <2>2. Set(H, "A", e) = Desk(y, z, e, b, c, d, s)
        BY <2>1, DeskEntry
    <2>3. calm(H) /\ none(H, "A") /\ H.picked = s
        BY <2>1, <1>1, DeskIs DEF none
    <2> QED
        BY <2>1, <2>2, <2>3, <1>2, <1>3
<1>4. ASSUME "B" \notin s
      PROVE  Books(OpenCx("B", cx), Desk(y, z, a, U, c, d, s), Desk(y, z, a, e, c, d, s))
    <2>1. PICK H : H = Desk(y, z, a, U, c, d, s)
        OBVIOUS
    <2>2. Set(H, "B", e) = Desk(y, z, a, e, c, d, s)
        BY <2>1, DeskEntry
    <2>3. calm(H) /\ none(H, "B") /\ H.picked = s
        BY <2>1, <1>1, DeskIs DEF none
    <2> QED
        BY <2>1, <2>2, <2>3, <1>2, <1>4
<1>5. ASSUME y \notin s
      PROVE  Books(OpenCx(y, cx), Desk(y, z, a, b, U, d, s), Desk(y, z, a, b, e, d, s))
    <2>1. PICK H : H = Desk(y, z, a, b, U, d, s)
        OBVIOUS
    <2>2. Set(H, y, e) = Desk(y, z, a, b, e, d, s)
        BY <2>1, DeskEntry
    <2>3. calm(H) /\ none(H, y) /\ H.picked = s
        BY <2>1, <1>1, DeskIs DEF none
    <2> QED
        BY <2>1, <2>2, <2>3, <1>2, <1>5
<1>6. ASSUME z \notin s
      PROVE  Books(OpenCx(z, cx), Desk(y, z, a, b, c, U, s), Desk(y, z, a, b, c, e, s))
    <2>1. PICK H : H = Desk(y, z, a, b, c, U, s)
        OBVIOUS
    <2>2. Set(H, z, e) = Desk(y, z, a, b, c, e, s)
        BY <2>1, DeskEntry
    <2>3. calm(H) /\ none(H, z) /\ H.picked = s
        BY <2>1, <1>1, DeskIs DEF none
    <2> QED
        BY <2>1, <2>2, <2>3, <1>2, <1>6
<1> QED
    BY <1>3, <1>4, <1>5, <1>6 DEF e

\* A function of a stateless CX that raises no flag and returns what is asked for.
Answers(i, cx) == /\ i.op = "fn"
                  /\ flags_of(result(cx, i)) = {}
                  /\ expected(i, value_of(result(cx, i)))

\* Small results are not reserved.
LEMMA NotReserved ==
    ASSUME NEW r \in Int, r < Half - 18, -Half + 18 < r, 18 < Half
    PROVE  flags_of(r) = {} /\ value_of(r) = r /\ Wrap(r) = r
<1>1. Half \in Nat
    BY HalfAssumption
<1>2. \A n \in 0 .. 31 : FUNC_SENTINEL_CU_CUSTOM_BIT(n) # r
    BY <1>1 DEF FUNC_SENTINEL_CU_CUSTOM_BIT, INT32_MAX, INT32_MIN
<1>3. r \notin CuResults
    BY <1>2 DEF CuResults
<1>4. r \notin OpResults /\ r \notin IfResults
    BY <1>1 DEF OpResults, IfResults, FUNC_SENTINEL_OP_POS, FUNC_SENTINEL_OP_NEG,
       FUNC_SENTINEL_OP_DOMAIN, FUNC_SENTINEL_IF_INVALID_RET_0,
       FUNC_SENTINEL_IF_INVALID_RET_NEG1, INT32_MAX, INT32_MIN
<1>5. Wrap(r) = r
    <2>1. r + Half \in 0 .. 2 * Half - 1
        BY <1>1
    <2>2. (r + Half) % (2 * Half) = r + Half
        BY <1>1, <2>1
    <2> QED
        BY <1>1, <2>2 DEF Wrap
<1> QED
    BY <1>3, <1>4, <1>5 DEF flags_of, value_of, Reserved

\* The functions the examples call.
LEMMA ExampleAnswers ==
    ASSUME Sized
    PROVE  /\ Answers(Fn(0, 3, 5, 8), addsub) /\ Answers(Fn(0, 3, 5, 15), muldiv)
           /\ Answers(Fn(0, 3, 3, 6), addsub) /\ Answers(Fn(0, 5, 5, 10), addsub)
           /\ Answers(Printed(0, 3, 5), addsub) /\ Answers(Printed(0, 3, 5), muldiv)
           /\ Answers(Printed(2, 3, 5), addsub) /\ Answers(Printed(4, 3, 5), addsub)
<1>1. Half \in Nat /\ 1026 < Half /\ addsub # muldiv
    BY HalfAssumption, ProgramAssumption DEF Sized
<1>2. ASSUME NEW r \in -2 .. 1008
      PROVE  flags_of(r) = {} /\ value_of(r) = r /\ Wrap(r) = r
    BY <1>1, NotReserved
<1>3. ASSUME NEW i, NEW cx, NEW r \in -2 .. 1008, i.op = "fn", result(cx, i) = Wrap(r),
             expected(i, r)
      PROVE  Answers(i, cx)
    BY SMTT(20), <1>2, <1>3 DEF Answers
<1>4. \A i : /\ i.cf = 0 => result(addsub, i) = Wrap(i.a + i.b)
             /\ i.cf = 2 => result(addsub, i) = Wrap(i.a - i.b)
             /\ i.cf = 4 => result(addsub, i) = Wrap(i.a + i.b + 1000)
             /\ i.cf = 0 => result(muldiv, i) = Wrap(i.a * i.b)
    BY <1>1 DEF result, cx_func_addsub, cx_func_muldiv, add_func, sub_func, add_1000, mul_func
<1>5. ASSUME NEW i, i = Fn(0, 3, 5, 8)
      PROVE  Answers(i, addsub)
    BY SMTT(20), <1>3, <1>4, <1>5 DEF Fn, expected
<1>6. ASSUME NEW i, i = Fn(0, 3, 5, 15)
      PROVE  Answers(i, muldiv)
    BY SMTT(20), <1>3, <1>4, <1>6 DEF Fn, expected
<1>7. ASSUME NEW i, i = Fn(0, 3, 3, 6)
      PROVE  Answers(i, addsub)
    BY SMTT(20), <1>3, <1>4, <1>7 DEF Fn, expected
<1>8. ASSUME NEW i, i = Fn(0, 5, 5, 10)
      PROVE  Answers(i, addsub)
    BY SMTT(20), <1>3, <1>4, <1>8 DEF Fn, expected
<1>9. ASSUME NEW i, i = Printed(0, 3, 5)
      PROVE  Answers(i, addsub) /\ Answers(i, muldiv)
    <2>1. Answers(i, addsub)
        BY SMTT(20), <1>3, <1>4, <1>9 DEF Printed, expected
    <2>2. Answers(i, muldiv)
        BY SMTT(20), <1>3, <1>4, <1>9 DEF Printed, expected
    <2> QED
        BY <2>1, <2>2
<1>10. ASSUME NEW i, i = Printed(2, 3, 5)
       PROVE  Answers(i, addsub)
    BY SMTT(20), <1>3, <1>4, <1>10 DEF Printed, expected
<1>11. ASSUME NEW i, i = Printed(4, 3, 5)
       PROVE  Answers(i, addsub)
    BY SMTT(20), <1>3, <1>4, <1>11 DEF Printed, expected
<1> QED
    BY <1>5, <1>6, <1>7, <1>8, <1>9, <1>10, <1>11

\* A function of the stateless CX selected, under each name.
LEMMA DeskFn ==
    ASSUME NEW y, NEW z, Spare(y, z), NEW a, NEW b, NEW c, NEW d, NEW cx, NEW i, Answers(i, cx)
    PROVE  LET e == Soft(cx)
               asks(H) == Books(i, H, H)
           IN  /\ asks(Desk(y, z, e, b, c, d, {"A"})) /\ asks(Desk(y, z, a, e, c, d, {"B"}))
               /\ asks(Desk(y, z, a, b, e, d, {y})) /\ asks(Desk(y, z, a, b, c, e, {z}))
<1>1. PICK e : e = Soft(cx)
    OBVIOUS
<1>2. e.kind = "soft" /\ e.cx = cx
    BY <1>1, EntryIs
<1>3. \A x \in Names : \A H : x # LEGACY /\ calm(H) /\ H.picked = {x} /\ H.ctx[x] = e
            => Books(i, H, H)
    <2> SUFFICES ASSUME NEW x \in Names, NEW H, x # LEGACY, calm(H), H.picked = {x}, H.ctx[x] = e
                 PROVE  Books(i, H, H)
        OBVIOUS
    <2>1. x \in H.picked \ {LEGACY} /\ soft(H, x) /\ H.ctx[x].cx = cx
        BY <1>2 DEF soft
    <2>2. BookFn(i, H, H)
        BY <2>1 DEF BookFn, Answers
    <2> QED
        BY <2>2 DEF Books, Alone
<1>4. "A" # LEGACY /\ "B" # LEGACY /\ y # LEGACY /\ z # LEGACY
    BY DEF LEGACY, Spare, Labels
<1> QED
    BY <1>1, <1>3, <1>4, DeskIs

\* Two openings of one CX have the same selector, and those of two have not.
LEMMA SameSelBook ==
    ASSUME NEW H, calm(H), NEW x \in Names, NEW y \in Names, NEW cx, NEW to,
           H.ctx[x] = Soft(cx), H.ctx[y] = Soft(to)
    PROVE  /\ cx = to => Books(SameSel(x, y, TRUE), H, H)
           /\ cx # to => Books(SameSel(x, y, FALSE), H, H)
<1>1. soft(H, x) /\ soft(H, y) /\ H.ctx[x].cx = cx /\ H.ctx[y].cx = to
    BY EntryIs DEF soft
<1>2. cx = to => BookCheck(SameSel(x, y, TRUE), H, H)
    BY <1>1 DEF BookCheck, SameSel
<1>3. cx # to => BookCheck(SameSel(x, y, FALSE), H, H)
    BY <1>1 DEF BookCheck, SameSel
<1> QED
    BY <1>2, <1>3 DEF Books, Alone

\* The flags are clear.
LEMMA FlagsBook ==
    ASSUME NEW y, NEW z, Spare(y, z), NEW a, NEW b, NEW c, NEW d, NEW s
    PROVE  LET H == Desk(y, z, a, b, c, d, s) IN Books(Clear, H, H) /\ Books(NoError, H, H)
<1>1. PICK H : H = Desk(y, z, a, b, c, d, s)
    OBVIOUS
<1>2. calm(H)
    BY <1>1, DeskIs
<1>3. BookCheck(Clear, H, H) /\ BookCheck(NoError, H, H)
    BY DEF BookCheck, Clear, NoError
<1> QED
    BY <1>1, <1>2, <1>3 DEF Books, Alone

\* The calls of the examples on a ledger of four names, one by one.  The first open
\* gets the first state,
LEMMA OpenA ==
    ASSUME NEW y, NEW z, Spare(y, z), NEW s, "A" \notin s, NEW type
    PROVE  Books(Open("A", type), Desk(y, z, Unheld, Unheld, Unheld, Unheld, s),
                 Desk(y, z, On(type, 1, 0), Unheld, Unheld, Unheld, s))
<1>1. PICK at : at = 1
    OBVIOUS
<1>2. at = slot(Desk(y, z, Unheld, Unheld, Unheld, Unheld, s)) /\ at # 0
    BY <1>1, DeskSlot
<1> QED
    BY Zenon, <1>1, <1>2, DeskOpen

\* the second open the second.
LEMMA OpenB ==
    ASSUME NEW y, NEW z, Spare(y, z), NEW s, "B" \notin s, NEW type, NEW typeA, NEW n
    PROVE  Books(Open("B", type), Desk(y, z, On(typeA, 1, n), Unheld, Unheld, Unheld, s),
                 Desk(y, z, On(typeA, 1, n), On(type, 2, 0), Unheld, Unheld, s))
<1>1. PICK at : at = 2
    OBVIOUS
<1>2. at = slot(Desk(y, z, On(typeA, 1, n), Unheld, Unheld, Unheld, s)) /\ at # 0
    BY <1>1, DeskSlot
<1> QED
    BY Zenon, <1>1, <1>2, DeskOpen

\* A third name, after the close of the first or with both on one state.
LEMMA OpenY ==
    ASSUME NEW y, NEW z, Spare(y, z), NEW s, y \notin s, NEW type, NEW typeA, NEW typeB,
           NEW m, NEW n
    PROVE  /\ Books(Open(y, type),
                    Desk(y, z, Unheld, On(typeB, 2, n), Unheld, Unheld, s),
                    Desk(y, z, Unheld, On(typeB, 2, n), On(type, 1, 0), Unheld, s))
           /\ Books(Open(y, type),
                    Desk(y, z, On(typeA, 1, m), On(typeB, 1, n), Unheld, Unheld, s),
                    Desk(y, z, On(typeA, 1, m), On(typeB, 1, n), On(type, 2, 0), Unheld, s))
<1>1. PICK one, two : one = 1 /\ two = 2
    OBVIOUS
<1>2. /\ one = slot(Desk(y, z, Unheld, On(typeB, 2, n), Unheld, Unheld, s)) /\ one # 0
      /\ two = slot(Desk(y, z, On(typeA, 1, m), On(typeB, 1, n), Unheld, Unheld, s)) /\ two # 0
    BY <1>1, DeskSlot
<1>3. Books(Open(y, type),
            Desk(y, z, Unheld, On(typeB, 2, n), Unheld, Unheld, s),
            Desk(y, z, Unheld, On(typeB, 2, n), On(type, one, 0), Unheld, s))
    BY Zenon, <1>2, DeskOpen
<1>4. Books(Open(y, type),
            Desk(y, z, On(typeA, 1, m), On(typeB, 1, n), Unheld, Unheld, s),
            Desk(y, z, On(typeA, 1, m), On(typeB, 1, n), On(type, two, 0), Unheld, s))
    BY Zenon, <1>2, DeskOpen
<1> QED
    BY <1>1, <1>3, <1>4, Zenon

\* A third and a fourth one when both states are taken.
LEMMA ShareY ==
    ASSUME NEW y, NEW z, Spare(y, z), NEW s, y \notin s, NEW typeA, NEW m, NEW n
    PROVE  Books(Open(y, INTRA),
                 Desk(y, z, On(typeA, 1, m), On(INTRA, 2, n), Unheld, Unheld, s),
                 Desk(y, z, On(typeA, 1, m), On(INTRA, 2, n), On(INTRA, 0, 0), Unheld, s))
BY Zenon, DeskShared

\* The fourth of them.
LEMMA ShareZ ==
    ASSUME NEW y, NEW z, Spare(y, z), NEW c, NEW s, z \notin s, NEW typeA, NEW m, NEW n
    PROVE  Books(Open(z, INTRA),
                 Desk(y, z, On(typeA, 1, m), On(INTRA, 2, n), c, Unheld, s),
                 Desk(y, z, On(typeA, 1, m), On(INTRA, 2, n), c, On(INTRA, 0, 0), s))
BY Zenon, DeskShared

\* An exclusive open with both states taken.
LEMMA FullY ==
    ASSUME NEW y, NEW z, Spare(y, z), NEW s, NEW m, NEW n, y \notin s
    PROVE  Books(OpenFull(y, NO), Desk(y, z, On(NO, 1, m), On(NO, 2, n), Unheld, Unheld, s),
                 Desk(y, z, On(NO, 1, m), On(NO, 2, n), Unheld, Unheld, s))
BY Zenon, DeskFull

\* An open on the state of the first name,
LEMMA PlaceB ==
    ASSUME NEW y, NEW z, Spare(y, z), NEW s, "B" \notin s, NEW type, NEW at, NEW n
    PROVE  Books(Place("B", "A"), Desk(y, z, On(type, at, n), Unheld, Unheld, Unheld, s),
                 Desk(y, z, On(type, at, n), On(INTRA, at, 0), Unheld, Unheld, s))
BY Zenon, DeskPlace

\* or on that of the third.
LEMMA PlaceZ ==
    ASSUME NEW y, NEW z, Spare(y, z), NEW a, NEW b, NEW s, z \notin s, NEW type, NEW at, NEW n
    PROVE  Books(Place(z, y), Desk(y, z, a, b, On(type, at, n), Unheld, s),
                 Desk(y, z, a, b, On(type, at, n), On(INTRA, at, 0), s))
BY Zenon, DeskPlace

\* A close.
LEMMA CloseOf ==
    ASSUME NEW y, NEW z, Spare(y, z), NEW a, NEW b, NEW c, NEW d, NEW s, NEW t
    PROVE  LET H == Desk(y, z, a, b, c, d, s)
           IN  /\ t = s \ {"A"} => Books(Close("A"), H, Desk(y, z, Unheld, b, c, d, t))
               /\ t = s \ {"B"} => Books(Close("B"), H, Desk(y, z, a, Unheld, c, d, t))
               /\ t = s \ {y} => Books(Close(y), H, Desk(y, z, a, b, Unheld, d, t))
BY Zenon, DeskClose

\* A mac on the context of the first name, asserted,
LEMMA MacA ==
    ASSUME NEW y, NEW z, Spare(y, z), NEW b, NEW c, NEW d,
           NEW type, NEW at, NEW n, NEW i, NEW j, NEW r, Adds(n, i, j, r)
    PROVE  Books(Mac(i, j, r), Desk(y, z, On(type, at, n), b, c, d, {"A"}),
                 Desk(y, z, On(type, at, r), b, c, d, {"A"}))
BY Zenon, DeskMac

\* of the second,
LEMMA MacB ==
    ASSUME NEW y, NEW z, Spare(y, z), NEW a, NEW c, NEW d,
           NEW type, NEW at, NEW n, NEW i, NEW j, NEW r, Adds(n, i, j, r)
    PROVE  Books(Mac(i, j, r), Desk(y, z, a, On(type, at, n), c, d, {"B"}),
                 Desk(y, z, a, On(type, at, r), c, d, {"B"}))
BY Zenon, DeskMac

\* of the third,
LEMMA MacY ==
    ASSUME NEW y, NEW z, Spare(y, z), NEW a, NEW b, NEW d,
           NEW type, NEW at, NEW n, NEW i, NEW j, NEW r, Adds(n, i, j, r)
    PROVE  Books(Mac(i, j, r), Desk(y, z, a, b, On(type, at, n), d, {y}),
                 Desk(y, z, a, b, On(type, at, r), d, {y}))
BY Zenon, DeskMac

\* of the fourth.
LEMMA MacZ ==
    ASSUME NEW y, NEW z, Spare(y, z), NEW a, NEW b, NEW c,
           NEW type, NEW at, NEW n, NEW i, NEW j, NEW r, Adds(n, i, j, r)
    PROVE  Books(Mac(i, j, r), Desk(y, z, a, b, c, On(type, at, n), {z}),
                 Desk(y, z, a, b, c, On(type, at, r), {z}))
BY Zenon, DeskMac

\* A mac on the first whose result is only printed,
LEMMA WorkA ==
    ASSUME NEW y, NEW z, Spare(y, z), NEW b, NEW c, NEW d,
           NEW type, NEW at, NEW n, NEW i, NEW j, NEW r, Adds(n, i, j, r)
    PROVE  Books(Work(i, j), Desk(y, z, On(type, at, n), b, c, d, {"A"}),
                 Desk(y, z, On(type, at, r), b, c, d, {"A"}))
BY Zenon, DeskMac

\* and on the second.
LEMMA WorkB ==
    ASSUME NEW y, NEW z, Spare(y, z), NEW a, NEW c, NEW d,
           NEW type, NEW at, NEW n, NEW i, NEW j, NEW r, Adds(n, i, j, r)
    PROVE  Books(Work(i, j), Desk(y, z, a, On(type, at, n), c, d, {"B"}),
                 Desk(y, z, a, On(type, at, r), c, d, {"B"}))
BY Zenon, DeskMac

\* The opens the examples start with.
LEMMA PairOpens ==
    ASSUME NEW y, NEW z, Spare(y, z), NEW type, NEW s, "A" \notin s, "B" \notin s
    PROVE  Balanced(Opens(AB, type), Blank(s),
                    Desk(y, z, On(type, 1, 0), On(type, 2, 0), Unheld, Unheld, s))
<1> DEFINE h1 == Desk(y, z, Unheld, Unheld, Unheld, Unheld, s)
           h2 == Desk(y, z, On(type, 1, 0), Unheld, Unheld, Unheld, s)
           h3 == Desk(y, z, On(type, 1, 0), On(type, 2, 0), Unheld, Unheld, s)
           h == <<h1, h2, h3>>
           a == Opens(AB, type)
<1>1. Books(Open("A", type), h1, h2) /\ Books(Open("B", type), h2, h3)
    BY Zenon, OpenA, OpenB
<1>2. h1 = Blank(s)
    BY DeskBlank
<1> HIDE DEF h1, h2, h3
<1>3. a = [j \in 1 .. 2 |-> a[j]] /\ a[1] = Open("A", type) /\ a[2] = Open("B", type)
    BY DEF Opens, AB
<1> HIDE DEF a
<1>4. \A j \in 1 .. 2 : Books(a[j], h[j], h[j + 1])
    BY <1>1, <1>3
<1>5. h[1] = h1 /\ h[2 + 1] = h3
    OBVIOUS
<1> HIDE DEF h
<1>6. Balanced(a, h1, h3)
    BY <1>3, <1>4, <1>5, ManyBooks
<1> QED
    BY <1>2, <1>6, Zenon DEF a, h3

\* A NO_VIRT open and two INTRA_VIRT ones, or three of the latter.
LEMMA ThreeOpens ==
    Balanced(Opens(<<"B", "C", "D">>, INTRA),
             Desk("C", "D", On(NO, 1, 0), Unheld, Unheld, Unheld, {LEGACY}),
             Desk("C", "D", On(NO, 1, 0), On(INTRA, 2, 0), On(INTRA, 0, 0), On(INTRA, 0, 0),
                  {LEGACY}))
<1> DEFINE at(b, c, d) == Desk("C", "D", On(NO, 1, 0), b, c, d, {LEGACY})
           h1 == at(Unheld, Unheld, Unheld)
           h2 == at(On(INTRA, 2, 0), Unheld, Unheld)
           h3 == at(On(INTRA, 2, 0), On(INTRA, 0, 0), Unheld)
           h4 == at(On(INTRA, 2, 0), On(INTRA, 0, 0), On(INTRA, 0, 0))
           h == <<h1, h2, h3, h4>>
           a == Opens(<<"B", "C", "D">>, INTRA)
<1>1. /\ Spare("C", "D") /\ "B" \notin {LEGACY} /\ "C" \notin {LEGACY} /\ "D" \notin {LEGACY}
    BY DEF Spare, Labels, LEGACY
<1>2. /\ Books(Open("B", INTRA), h1, h2) /\ Books(Open("C", INTRA), h2, h3)
      /\ Books(Open("D", INTRA), h3, h4)
    BY Zenon, <1>1, OpenB, ShareY, ShareZ
<1> HIDE DEF at, h1, h2, h3, h4
<1>3. /\ a = [j \in 1 .. 3 |-> a[j]]
      /\ a[1] = Open("B", INTRA) /\ a[2] = Open("C", INTRA) /\ a[3] = Open("D", INTRA)
    BY DEF Opens
<1> HIDE DEF a
<1>4. \A j \in 1 .. 3 : Books(a[j], h[j], h[j + 1])
    BY <1>2, <1>3
<1>5. h[1] = h1 /\ h[3 + 1] = h4
    OBVIOUS
<1> HIDE DEF h
<1>6. Balanced(a, h1, h4)
    BY <1>3, <1>4, <1>5, ManyBooks
<1> QED
    BY <1>6, Zenon DEF a, at, h1, h4

\* Four.
LEMMA FourOpens ==
    Balanced(Opens(ABCD, INTRA), Blank({LEGACY}),
             Desk("C", "D", On(INTRA, 1, 0), On(INTRA, 2, 0), On(INTRA, 0, 0),
                  On(INTRA, 0, 0), {LEGACY}))
<1> DEFINE at(a, b, c, d) == Desk("C", "D", a, b, c, d, {LEGACY})
           h1 == at(Unheld, Unheld, Unheld, Unheld)
           h2 == at(On(INTRA, 1, 0), Unheld, Unheld, Unheld)
           h3 == at(On(INTRA, 1, 0), On(INTRA, 2, 0), Unheld, Unheld)
           h4 == at(On(INTRA, 1, 0), On(INTRA, 2, 0), On(INTRA, 0, 0), Unheld)
           h5 == at(On(INTRA, 1, 0), On(INTRA, 2, 0), On(INTRA, 0, 0), On(INTRA, 0, 0))
           h == <<h1, h2, h3, h4, h5>>
           xs == Opens(ABCD, INTRA)
<1>1. /\ Spare("C", "D") /\ "A" \notin {LEGACY} /\ "B" \notin {LEGACY} /\ "C" \notin {LEGACY}
      /\ "D" \notin {LEGACY}
    BY DEF Spare, Labels, LEGACY
<1>2. /\ Books(Open("A", INTRA), h1, h2) /\ Books(Open("B", INTRA), h2, h3)
      /\ Books(Open("C", INTRA), h3, h4) /\ Books(Open("D", INTRA), h4, h5)
    BY Zenon, <1>1, OpenA, OpenB, ShareY, ShareZ
<1>3. h1 = Blank({LEGACY})
    BY DeskBlank
<1> HIDE DEF at, h1, h2, h3, h4, h5
<1>4. /\ xs = [j \in 1 .. 4 |-> xs[j]] /\ xs[1] = Open("A", INTRA) /\ xs[2] = Open("B", INTRA)
      /\ xs[3] = Open("C", INTRA) /\ xs[4] = Open("D", INTRA)
    BY DEF Opens, ABCD
<1> HIDE DEF xs
<1>5. \A j \in 1 .. 4 : Books(xs[j], h[j], h[j + 1])
    BY <1>2, <1>4
<1>6. h[1] = h1 /\ h[4 + 1] = h5
    OBVIOUS
<1> HIDE DEF h
<1>7. Balanced(xs, h1, h5)
    BY <1>4, <1>5, <1>6, ManyBooks
<1> QED
    BY <1>3, <1>7, Zenon DEF xs, at, h5

\* The closes they end with.
LEMMA PairCloses ==
    ASSUME NEW y, NEW z, Spare(y, z), NEW a, NEW b, NEW s, NEW t, t = s \ {"A", "B"}
    PROVE  Balanced(Closes(AB), Desk(y, z, a, b, Unheld, Unheld, s), Blank(t))
<1>1. AB \in Seq(Labels) /\ {"A", "B"} = {AB[i] : i \in 1 .. Len(AB)}
    BY DEF AB, Labels
<1> QED
    BY <1>1, ClosesBooks

\* Three closes.
LEMMA ThreeCloses ==
    ASSUME NEW a, NEW b, NEW c, NEW s, NEW t, t = s \ {"A", "B", "C"}
    PROVE  Balanced(Closes(<<"A", "B", "C">>), Desk("C", "D", a, b, c, Unheld, s), Blank(t))
<1> DEFINE xs == <<"A", "B", "C">>
<1>1. /\ xs \in Seq(Labels) /\ {"A", "B", "C"} = {xs[i] : i \in 1 .. Len(xs)}
      /\ Spare("C", "D")
    BY DEF Labels, Spare
<1> HIDE DEF xs
<1>2. Balanced(Closes(xs), Desk("C", "D", a, b, c, Unheld, s), Blank(s \ {"A", "B", "C"}))
    BY <1>1, ClosesBooks
<1> QED
    BY <1>2 DEF xs

\* Four closes.
LEMMA FourCloses ==
    ASSUME NEW a, NEW b, NEW c, NEW d, NEW s, NEW t, t = s \ {"A", "B", "C", "D"}
    PROVE  Balanced(Closes(ABCD), Desk("C", "D", a, b, c, d, s), Blank(t))
<1>1. /\ ABCD \in Seq(Labels) /\ {"A", "B", "C", "D"} = {ABCD[i] : i \in 1 .. Len(ABCD)}
      /\ Spare("C", "D")
    BY DEF ABCD, Labels, Spare
<1>2. Balanced(Closes(ABCD), Desk("C", "D", a, b, c, d, s), Blank(s \ {"A", "B", "C", "D"}))
    BY <1>1, ClosesBooks
<1> QED
    BY <1>2

\* The return to CX_LEGACY.
LEMMA LastBook ==
    ASSUME NEW s
    PROVE  Balanced(<<Sel(LEGACY)>>, Blank(s), Blank({LEGACY}))
<1>1. Spare("C", "D")
    BY DEF Spare, Labels
<1>2. \A t : Desk("C", "D", Unheld, Unheld, Unheld, Unheld, t) = Blank(t)
    BY Zenon, DeskBlank
<1>3. Books(Sel(LEGACY), Desk("C", "D", Unheld, Unheld, Unheld, Unheld, s),
            Desk("C", "D", Unheld, Unheld, Unheld, Unheld, {LEGACY}))
    BY Zenon, <1>1, DeskSel
<1> QED
    BY <1>2, <1>3, OneBook

-----------------------------------------------------------------------------
(* examples/cx_open.c *)

\* All results of exclusive_open_3() are those of two accumulators.
LEMMA ExclusiveOpen3Books ==
    ASSUME Sized
    PROVE  Balanced(exclusive_open_3, Blank({LEGACY}), Blank({}))
<1> DEFINE run == <<OpenFull("C", NO), Sel("A"), Mac(5, 5, 25), Sel("B"), Mac(3, 3, 9),
                    Sel("A"), Mac(5, 3, 40), Sel("B"), Mac(5, 3, 24)>>
           led1 == Desk("C", "D", On(NO, 1, 0), On(NO, 2, 0), Unheld, Unheld, {LEGACY})
           led2 == Desk("C", "D", On(NO, 1, 40), On(NO, 2, 24), Unheld, Unheld, {"B"})
<1>1. Balanced(Opens(AB, NO), Blank({LEGACY}), led1)
    <2>1. Spare("C", "D") /\ "A" \notin {LEGACY} /\ "B" \notin {LEGACY}
        BY DEF Spare, Labels, LEGACY
    <2> QED
        BY Zenon, <2>1, PairOpens DEF led1
<1>2. Balanced(run, led1, led2)
    <2> DEFINE desk(a, b, s) ==
                   Desk("C", "D", On(NO, 1, a), On(NO, 2, b), Unheld, Unheld, s)
               h1 == desk(0, 0, {LEGACY})  h2 == desk(0, 0, {"A"})
               h3 == desk(25, 0, {"A"})    h4 == desk(25, 0, {"B"})
               h5 == desk(25, 9, {"B"})    h6 == desk(25, 9, {"A"})
               h7 == desk(40, 9, {"A"})    h8 == desk(40, 9, {"B"})
               h9 == desk(40, 24, {"B"})
               h == <<h1, h1, h2, h3, h4, h5, h6, h7, h8, h9>>
    <2>1. Spare("C", "D") /\ \A type, at, n : On(type, at, n).kind # "none"
        BY EntryIs DEF Spare, Labels
    <2>2. "C" \notin {LEGACY}
        BY DEF LEGACY
    <2>3. Books(OpenFull("C", NO), h1, h1)
        BY Zenon, <2>1, <2>2, FullY
    <2>4. /\ Books(Sel("A"), h1, h2) /\ Books(Sel("B"), h3, h4) /\ Books(Sel("A"), h5, h6)
          /\ Books(Sel("B"), h7, h8)
        BY Zenon, <2>1, DeskSel
    <2>5. /\ Adds(0, 5, 5, 25) /\ Adds(0, 3, 3, 9) /\ Adds(25, 5, 3, 40)
          /\ Adds(9, 5, 3, 24)
        BY HalfAssumption DEF Sized, Adds
    <2>6. /\ Books(Mac(5, 5, 25), h2, h3) /\ Books(Mac(3, 3, 9), h4, h5)
          /\ Books(Mac(5, 3, 40), h6, h7) /\ Books(Mac(5, 3, 24), h8, h9)
        BY Zenon, <2>1, <2>5, MacA, MacB
    <2> HIDE DEF desk, h1, h2, h3, h4, h5, h6, h7, h8, h9
    <2>7. \A j \in 1 .. 9 : Books(run[j], h[j], h[j + 1])
        BY <2>3, <2>4, <2>6
    <2>8. h[1] = h1 /\ h[9 + 1] = h9 /\ run = [j \in 1 .. 9 |-> run[j]]
        OBVIOUS
    <2> HIDE DEF run, h
    <2>9. Balanced(run, h1, h9)
        BY <2>7, <2>8, ManyBooks
    <2> QED
        BY <2>9, Zenon DEF desk, h1, h9, led1, led2
<1>3. Balanced(Closes(AB), led2, Blank({}))
    <2>1. Spare("C", "D") /\ {} = {"B"} \ {"A", "B"}
        BY DEF Spare, Labels, LEGACY
    <2> QED
        BY Zenon, <2>1, PairCloses DEF led2
<1> HIDE DEF run, led1, led2
<1>4. Balanced(Opens(AB, NO) \o run, Blank({LEGACY}), led2)
    BY Zenon, <1>1, <1>2, Joined
<1>5. Balanced((Opens(AB, NO) \o run) \o Closes(AB), Blank({LEGACY}), Blank({}))
    BY Zenon, <1>4, <1>3, Joined
<1> QED
    BY Zenon, <1>5 DEF exclusive_open_3, run

\* cx_open.c as a whole.
LEMMA CxOpenBooks ==
    ASSUME Sized
    PROVE  \E G : Balanced(program("cx_open.c"), Blank({LEGACY}), G)
BY ExclusiveOpen3Books DEF program

-----------------------------------------------------------------------------
(* examples/intra_virt.c *)

\* Two contexts that may share get a state each.
LEMMA IntraOpen1Books ==
    Balanced(intra_open_1, Blank({LEGACY}), Blank({LEGACY}))
<1> DEFINE led1 == Desk("C", "D", On(INTRA, 1, 0), On(INTRA, 2, 0), Unheld, Unheld, {LEGACY})
<1>1. Balanced(Opens(AB, INTRA), Blank({LEGACY}), led1)
    <2>1. Spare("C", "D") /\ "A" \notin {LEGACY} /\ "B" \notin {LEGACY}
        BY DEF Spare, Labels, LEGACY
    <2> QED
        BY Zenon, <2>1, PairOpens DEF led1
<1>2. Balanced(Closes(AB), led1, Blank({LEGACY}))
    <2>1. Spare("C", "D") /\ {LEGACY} = {LEGACY} \ {"A", "B"}
        BY DEF Spare, Labels, LEGACY
    <2> QED
        BY Zenon, <2>1, PairCloses DEF led1
<1> HIDE DEF led1
<1>3. Balanced(Opens(AB, INTRA) \o Closes(AB), Blank({LEGACY}), Blank({LEGACY}))
    BY Zenon, <1>1, <1>2, Joined
<1> QED
    BY Zenon, <1>3 DEF intra_open_1

\* Four of them share two states, whichever they get.
LEMMA IntraOpen2Books ==
    Balanced(intra_open_2, Blank({LEGACY}), Blank({LEGACY}))
<1> DEFINE led1 ==
               Desk("C", "D", On(INTRA, 1, 0), On(INTRA, 2, 0), On(INTRA, 0, 0), On(INTRA, 0, 0), {LEGACY})
<1>1. Balanced(Opens(ABCD, INTRA), Blank({LEGACY}), led1)
    BY Zenon, FourOpens DEF led1
<1>2. Balanced(Closes(ABCD), led1, Blank({LEGACY}))
    <2>1. Spare("C", "D") /\ {LEGACY} = {LEGACY} \ {"A", "B", "C", "D"}
        BY DEF Spare, Labels, LEGACY
    <2> QED
        BY Zenon, <2>1, FourCloses DEF led1
<1> HIDE DEF led1
<1>3. Balanced(Opens(ABCD, INTRA) \o Closes(ABCD), Blank({LEGACY}), Blank({LEGACY}))
    BY Zenon, <1>1, <1>2, Joined
<1> QED
    BY Zenon, <1>3 DEF intra_open_2

\* "B", "C" and "D" keep their accumulators on the state they share.
LEMMA IntraOpen3Books ==
    ASSUME Sized
    PROVE  Balanced(intra_open_3, Blank({LEGACY}), Blank({}))
<1> DEFINE first == <<Open("A", NO)>>
           run == <<SameId("A", "B"), SameId("B", "C"), SameId("C", "D"), Sel("B"),
                    Mac(5, 5, 25), Sel("C"), Mac(3, 3, 9), Sel("D"), Mac(5, 3, 15), Sel("B"), Mac(3, 3, 34), Sel("C"), Mac(3, 3, 18),
                    Sel("D"), Mac(3, 5, 30), Sel("B"), Mac(3, 3, 43)>>
           led1 == Desk("C", "D", Unheld, Unheld, Unheld, Unheld, {LEGACY})
           led2 == Desk("C", "D", On(NO, 1, 0), Unheld, Unheld, Unheld, {LEGACY})
           led3 ==
               Desk("C", "D", On(NO, 1, 0), On(INTRA, 2, 0), On(INTRA, 0, 0), On(INTRA, 0, 0), {LEGACY})
           led4 ==
               Desk("C", "D", On(NO, 1, 0), On(INTRA, 2, 43), On(INTRA, 0, 18), On(INTRA, 0, 30), {"B"})
<1>1. Balanced(first, Blank({LEGACY}), led2)
    <2> DEFINE desk(a) == Desk("C", "D", a, Unheld, Unheld, Unheld, {LEGACY})
               h1 == desk(Unheld)        h2 == desk(On(NO, 1, 0))
               h == <<h1, h2>>
    <2>1. Spare("C", "D")
        BY DEF Spare, Labels
    <2>2. "A" \notin {LEGACY}
        BY DEF LEGACY
    <2>3. Books(Open("A", NO), h1, h2)
        BY Zenon, <2>1, <2>2, OpenA
    <2> HIDE DEF desk, h1, h2
    <2>4. \A j \in 1 .. 1 : Books(first[j], h[j], h[j + 1])
        BY <2>3
    <2>5. h[1] = h1 /\ h[1 + 1] = h2 /\ first = [j \in 1 .. 1 |-> first[j]]
        OBVIOUS
    <2> HIDE DEF first, h
    <2>6. Balanced(first, h1, h2)
        BY <2>4, <2>5, ManyBooks
    <2>7. h1 = Blank({LEGACY})
        BY Zenon, DeskBlank DEF desk, h1
    <2> QED
        BY Zenon, <2>6, <2>7 DEF desk, h2, led2
<1>2. Balanced(Opens(<<"B", "C", "D">>, INTRA), led2, led3)
    BY Zenon, ThreeOpens DEF led2, led3
<1>3. Balanced(run, led3, led4)
    <2> DEFINE desk(b, c, d, s) ==
                   Desk("C", "D", On(NO, 1, 0), On(INTRA, 2, b), On(INTRA, 0, c), On(INTRA, 0, d), s)
               h1 == desk(0, 0, 0, {LEGACY})   h2 == desk(0, 0, 0, {"B"})
               h3 == desk(25, 0, 0, {"B"})     h4 == desk(25, 0, 0, {"C"})
               h5 == desk(25, 9, 0, {"C"})     h6 == desk(25, 9, 0, {"D"})
               h7 == desk(25, 9, 15, {"D"})    h8 == desk(25, 9, 15, {"B"})
               h9 == desk(34, 9, 15, {"B"})    h10 == desk(34, 9, 15, {"C"})
               h11 == desk(34, 18, 15, {"C"})  h12 == desk(34, 18, 15, {"D"})
               h13 == desk(34, 18, 30, {"D"})  h14 == desk(34, 18, 30, {"B"})
               h15 == desk(43, 18, 30, {"B"})
               h == <<h1, h1, h1, h1, h2, h3, h4, h5, h6, h7, h8, h9, h10, h11, h12, h13, h14, h15>>
    <2>1. Spare("C", "D") /\ \A type, at, n : On(type, at, n).kind # "none"
        BY EntryIs DEF Spare, Labels
    <2>2. /\ Books(Sel("B"), h1, h2) /\ Books(Sel("C"), h3, h4) /\ Books(Sel("D"), h5, h6)
          /\ Books(Sel("B"), h7, h8) /\ Books(Sel("C"), h9, h10)
          /\ Books(Sel("D"), h11, h12) /\ Books(Sel("B"), h13, h14)
        BY Zenon, <2>1, DeskSel
    <2>3. /\ Adds(0, 5, 5, 25) /\ Adds(0, 3, 3, 9) /\ Adds(0, 5, 3, 15)
          /\ Adds(25, 3, 3, 34) /\ Adds(9, 3, 3, 18) /\ Adds(15, 3, 5, 30)
          /\ Adds(34, 3, 3, 43)
        BY HalfAssumption DEF Sized, Adds
    <2>4. /\ Books(Mac(5, 5, 25), h2, h3) /\ Books(Mac(3, 3, 9), h4, h5)
          /\ Books(Mac(5, 3, 15), h6, h7) /\ Books(Mac(3, 3, 34), h8, h9)
          /\ Books(Mac(3, 3, 18), h10, h11) /\ Books(Mac(3, 5, 30), h12, h13)
          /\ Books(Mac(3, 3, 43), h14, h15)
        BY Zenon, <2>1, <2>3, MacB, MacY, MacZ
    <2>5. /\ Books(SameId("A", "B"), h1, h1) /\ Books(SameId("B", "C"), h1, h1)
          /\ Books(SameId("C", "D"), h1, h1)
        BY Zenon, <2>1, DeskWords
    <2> HIDE DEF desk, h1, h2, h3, h4, h5, h6, h7, h8, h9, h10, h11, h12, h13, h14, h15
    <2>6. \A j \in 1 .. 17 : Books(run[j], h[j], h[j + 1])
        BY <2>2, <2>4, <2>5
    <2>7. h[1] = h1 /\ h[17 + 1] = h15 /\ run = [j \in 1 .. 17 |-> run[j]]
        OBVIOUS
    <2> HIDE DEF run, h
    <2>8. Balanced(run, h1, h15)
        BY <2>6, <2>7, ManyBooks
    <2> QED
        BY <2>8, Zenon DEF desk, h1, h15, led3, led4
<1>4. Balanced(Closes(ABCD), led4, Blank({}))
    <2>1. Spare("C", "D") /\ {} = {"B"} \ {"A", "B", "C", "D"}
        BY DEF Spare, Labels, LEGACY
    <2> QED
        BY Zenon, <2>1, FourCloses DEF led4
<1> HIDE DEF first, run, led1, led2, led3, led4
<1>5. Balanced(first \o Opens(<<"B", "C", "D">>, INTRA), Blank({LEGACY}), led3)
    BY Zenon, <1>1, <1>2, Joined
<1>6. Balanced((first \o Opens(<<"B", "C", "D">>, INTRA)) \o run, Blank({LEGACY}), led4)
    BY Zenon, <1>5, <1>3, Joined
<1>7. Balanced(((first \o Opens(<<"B", "C", "D">>, INTRA)) \o run) \o Closes(ABCD), Blank({LEGACY}), Blank({}))
    BY Zenon, <1>6, <1>4, Joined
<1> QED
    BY Zenon, <1>7 DEF intra_open_3, first, run

\* A context opened after others ran starts with a blank accumulator.
LEMMA IntraOpen4Books ==
    ASSUME Sized
    PROVE  Balanced(intra_open_4, Blank({}), Blank({}))
<1> DEFINE run == <<Open("A", NO), Open("B", INTRA), Sel("A"), Mac(5, 5, 25),
                    Open("C", INTRA), Sel("C"), Read(0)>>
           led1 == Desk("C", "D", Unheld, Unheld, Unheld, Unheld, {})
           led2 ==
               Desk("C", "D", On(NO, 1, 25), On(INTRA, 2, 0), On(INTRA, 0, 0), Unheld, {"C"})
<1>1. Balanced(run, Blank({}), led2)
    <2> DEFINE desk(a, b, c, s) == Desk("C", "D", a, b, c, Unheld, s)
               h1 == desk(Unheld, Unheld, Unheld, {})
               h2 == desk(On(NO, 1, 0), Unheld, Unheld, {})
               h3 == desk(On(NO, 1, 0), On(INTRA, 2, 0), Unheld, {})
               h4 == desk(On(NO, 1, 0), On(INTRA, 2, 0), Unheld, {"A"})
               h5 == desk(On(NO, 1, 25), On(INTRA, 2, 0), Unheld, {"A"})
               h6 == desk(On(NO, 1, 25), On(INTRA, 2, 0), On(INTRA, 0, 0), {"A"})
               h7 == desk(On(NO, 1, 25), On(INTRA, 2, 0), On(INTRA, 0, 0), {"C"})
               h == <<h1, h2, h3, h4, h5, h6, h7, h7>>
    <2>1. Spare("C", "D") /\ \A type, at, n : On(type, at, n).kind # "none"
        BY EntryIs DEF Spare, Labels
    <2>2. "A" \notin {} /\ "B" \notin {} /\ "C" \notin {"A"}
        OBVIOUS
    <2>3. /\ Books(Open("A", NO), h1, h2) /\ Books(Open("B", INTRA), h2, h3)
          /\ Books(Open("C", INTRA), h5, h6)
        BY Zenon, <2>1, <2>2, OpenA, OpenB, ShareY
    <2>4. Books(Sel("A"), h3, h4) /\ Books(Sel("C"), h6, h7)
        BY Zenon, <2>1, DeskSel
    <2>5. Adds(0, 5, 5, 25)
        BY HalfAssumption DEF Sized, Adds
    <2>6. Books(Mac(5, 5, 25), h4, h5)
        BY Zenon, <2>1, <2>5, MacA
    <2>7. Books(Read(0), h7, h7)
        BY Zenon, <2>1, DeskRead
    <2> HIDE DEF desk, h1, h2, h3, h4, h5, h6, h7
    <2>8. \A j \in 1 .. 7 : Books(run[j], h[j], h[j + 1])
        BY <2>3, <2>4, <2>6, <2>7
    <2>9. h[1] = h1 /\ h[7 + 1] = h7 /\ run = [j \in 1 .. 7 |-> run[j]]
        OBVIOUS
    <2> HIDE DEF run, h
    <2>10. Balanced(run, h1, h7)
        BY <2>8, <2>9, ManyBooks
    <2>11. h1 = Blank({})
        BY Zenon, DeskBlank DEF desk, h1
    <2> QED
        BY Zenon, <2>10, <2>11 DEF desk, h7, led2
<1>2. Balanced(Closes(<<"A", "B", "C">>), led2, Blank({}))
    <2>1. Spare("C", "D") /\ {} = {"C"} \ {"A", "B", "C"}
        BY DEF Spare, Labels, LEGACY
    <2> QED
        BY Zenon, <2>1, ThreeCloses DEF led2
<1> HIDE DEF run, led1, led2
<1>3. Balanced(run \o Closes(<<"A", "B", "C">>), Blank({}), Blank({}))
    BY Zenon, <1>1, <1>2, Joined
<1> QED
    BY Zenon, <1>3 DEF intra_open_4, run

\* An open leaves the accumulator of the context it shares a state with, and what is
\* selected.
LEMMA IntraOpen5Books ==
    ASSUME Sized
    PROVE  Balanced(intra_open_5, Blank({}), Blank({LEGACY}))
<1> DEFINE run == <<Open("A", NO), Open("B", INTRA), Sel("B"), Mac(5, 5, 25),
                    Open("C", INTRA), Read(25), SelWord("B"), Mac(5, 3, 40), Sel("C"),
                    Read(0), Mac(5, 3, 15)>>
           led1 == Desk("C", "D", Unheld, Unheld, Unheld, Unheld, {})
           led2 ==
               Desk("C", "D", On(NO, 1, 0), On(INTRA, 2, 40), On(INTRA, 0, 15), Unheld, {"C"})
<1>1. Balanced(run, Blank({}), led2)
    <2> DEFINE desk(a, b, c, s) == Desk("C", "D", a, b, c, Unheld, s)
               h1 == desk(Unheld, Unheld, Unheld, {})
               h2 == desk(On(NO, 1, 0), Unheld, Unheld, {})
               h3 == desk(On(NO, 1, 0), On(INTRA, 2, 0), Unheld, {})
               h4 == desk(On(NO, 1, 0), On(INTRA, 2, 0), Unheld, {"B"})
               h5 == desk(On(NO, 1, 0), On(INTRA, 2, 25), Unheld, {"B"})
               h6 == desk(On(NO, 1, 0), On(INTRA, 2, 25), On(INTRA, 0, 0), {"B"})
               h7 == desk(On(NO, 1, 0), On(INTRA, 2, 40), On(INTRA, 0, 0), {"B"})
               h8 == desk(On(NO, 1, 0), On(INTRA, 2, 40), On(INTRA, 0, 0), {"C"})
               h9 == desk(On(NO, 1, 0), On(INTRA, 2, 40), On(INTRA, 0, 15), {"C"})
               h == <<h1, h2, h3, h4, h5, h6, h6, h6, h7, h8, h8, h9>>
    <2>1. Spare("C", "D") /\ \A type, at, n : On(type, at, n).kind # "none"
        BY EntryIs DEF Spare, Labels
    <2>2. "A" \notin {} /\ "B" \notin {} /\ "C" \notin {"B"}
        OBVIOUS
    <2>3. /\ Books(Open("A", NO), h1, h2) /\ Books(Open("B", INTRA), h2, h3)
          /\ Books(Open("C", INTRA), h5, h6)
        BY Zenon, <2>1, <2>2, OpenA, OpenB, ShareY
    <2>4. Books(Sel("B"), h3, h4) /\ Books(Sel("C"), h7, h8)
        BY Zenon, <2>1, DeskSel
    <2>5. Adds(0, 5, 5, 25) /\ Adds(25, 5, 3, 40) /\ Adds(0, 5, 3, 15)
        BY HalfAssumption DEF Sized, Adds
    <2>6. /\ Books(Mac(5, 5, 25), h4, h5) /\ Books(Mac(5, 3, 40), h6, h7)
          /\ Books(Mac(5, 3, 15), h8, h9)
        BY Zenon, <2>1, <2>5, MacB, MacY
    <2>7. Books(Read(25), h6, h6) /\ Books(Read(0), h8, h8)
        BY Zenon, <2>1, DeskRead
    <2>8. Books(SelWord("B"), h6, h6)
        BY Zenon, <2>1, DeskWords
    <2> HIDE DEF desk, h1, h2, h3, h4, h5, h6, h7, h8, h9
    <2>9. \A j \in 1 .. 11 : Books(run[j], h[j], h[j + 1])
        BY <2>3, <2>4, <2>6, <2>7, <2>8
    <2>10. h[1] = h1 /\ h[11 + 1] = h9 /\ run = [j \in 1 .. 11 |-> run[j]]
        OBVIOUS
    <2> HIDE DEF run, h
    <2>11. Balanced(run, h1, h9)
        BY <2>9, <2>10, ManyBooks
    <2>12. h1 = Blank({})
        BY Zenon, DeskBlank DEF desk, h1
    <2> QED
        BY Zenon, <2>11, <2>12 DEF desk, h9, led2
<1>2. Balanced(Closes(<<"A", "B", "C">>), led2, Blank({}))
    <2>1. Spare("C", "D") /\ {} = {"C"} \ {"A", "B", "C"}
        BY DEF Spare, Labels, LEGACY
    <2> QED
        BY Zenon, <2>1, ThreeCloses DEF led2
<1>3. Balanced(<<Sel(LEGACY)>>, Blank({}), Blank({LEGACY}))
    BY Zenon, LastBook
<1> HIDE DEF run, led1, led2
<1>4. Balanced(run \o Closes(<<"A", "B", "C">>), Blank({}), Blank({}))
    BY Zenon, <1>1, <1>2, Joined
<1>5. Balanced((run \o Closes(<<"A", "B", "C">>)) \o <<Sel(LEGACY)>>, Blank({}), Blank({LEGACY}))
    BY Zenon, <1>4, <1>3, Joined
<1> QED
    BY Zenon, <1>5 DEF intra_open_5, run

\* The sums of intra_open_6.
LEMMA IntraOpen6Run ==
    ASSUME Sized
    PROVE  Balanced(<<Sel("A"), Mac(5, 5, 25), Sel("B"), Mac(5, 3, 15), Sel("A"),
                 Mac(2, 2, 29), Sel("C"), Mac(5, 2, 10), Sel("D"), Mac(3, 2, 6), Sel("C"),
                 Mac(2, 2, 14), Mac(5, 5, 39), Sel("A"), Mac(3, 3, 38), Sel("C"),
                 Mac(5, 5, 64), Sel("B"), Mac(3, 3, 24)>>,
             Desk("C", "D", On(INTRA, 1, 0), On(INTRA, 1, 0), On(INTRA, 2, 0), On(INTRA, 2, 0), {LEGACY}),
             Desk("C", "D", On(INTRA, 1, 38), On(INTRA, 1, 24), On(INTRA, 2, 64), On(INTRA, 2, 6), {"B"}))
<1> DEFINE run == <<Sel("A"), Mac(5, 5, 25), Sel("B"), Mac(5, 3, 15), Sel("A"),
                    Mac(2, 2, 29), Sel("C"), Mac(5, 2, 10), Sel("D"), Mac(3, 2, 6),
                    Sel("C"), Mac(2, 2, 14), Mac(5, 5, 39), Sel("A"), Mac(3, 3, 38),
                    Sel("C"), Mac(5, 5, 64), Sel("B"), Mac(3, 3, 24)>>
           desk(a, b, c, d, s) ==
               Desk("C", "D", On(INTRA, 1, a), On(INTRA, 1, b), On(INTRA, 2, c), On(INTRA, 2, d), s)
           h1 == desk(0, 0, 0, 0, {LEGACY})   h2 == desk(0, 0, 0, 0, {"A"})
           h3 == desk(25, 0, 0, 0, {"A"})     h4 == desk(25, 0, 0, 0, {"B"})
           h5 == desk(25, 15, 0, 0, {"B"})    h6 == desk(25, 15, 0, 0, {"A"})
           h7 == desk(29, 15, 0, 0, {"A"})    h8 == desk(29, 15, 0, 0, {"C"})
           h9 == desk(29, 15, 10, 0, {"C"})   h10 == desk(29, 15, 10, 0, {"D"})
           h11 == desk(29, 15, 10, 6, {"D"})  h12 == desk(29, 15, 10, 6, {"C"})
           h13 == desk(29, 15, 14, 6, {"C"})  h14 == desk(29, 15, 39, 6, {"C"})
           h15 == desk(29, 15, 39, 6, {"A"})  h16 == desk(38, 15, 39, 6, {"A"})
           h17 == desk(38, 15, 39, 6, {"C"})  h18 == desk(38, 15, 64, 6, {"C"})
           h19 == desk(38, 15, 64, 6, {"B"})  h20 == desk(38, 24, 64, 6, {"B"})
           h == <<h1, h2, h3, h4, h5, h6, h7, h8, h9, h10, h11, h12, h13, h14, h15, h16,
                  h17, h18, h19, h20>>
<1>1. Spare("C", "D") /\ \A type, at, n : On(type, at, n).kind # "none"
    BY EntryIs DEF Spare, Labels
<1>2. /\ Books(Sel("A"), h1, h2) /\ Books(Sel("B"), h3, h4) /\ Books(Sel("A"), h5, h6)
      /\ Books(Sel("C"), h7, h8) /\ Books(Sel("D"), h9, h10) /\ Books(Sel("C"), h11, h12)
      /\ Books(Sel("A"), h14, h15) /\ Books(Sel("C"), h16, h17) /\ Books(Sel("B"), h18, h19)
    BY ZenonT(40), <1>1, DeskSel
<1>3. /\ Adds(0, 5, 5, 25) /\ Adds(0, 5, 3, 15) /\ Adds(25, 2, 2, 29) /\ Adds(0, 5, 2, 10)
      /\ Adds(0, 3, 2, 6) /\ Adds(10, 2, 2, 14) /\ Adds(14, 5, 5, 39) /\ Adds(29, 3, 3, 38)
      /\ Adds(39, 5, 5, 64) /\ Adds(15, 3, 3, 24)
    BY HalfAssumption DEF Sized, Adds
<1>4. /\ Books(Mac(5, 5, 25), h2, h3) /\ Books(Mac(5, 3, 15), h4, h5)
      /\ Books(Mac(2, 2, 29), h6, h7) /\ Books(Mac(5, 2, 10), h8, h9)
      /\ Books(Mac(3, 2, 6), h10, h11) /\ Books(Mac(2, 2, 14), h12, h13)
      /\ Books(Mac(5, 5, 39), h13, h14) /\ Books(Mac(3, 3, 38), h15, h16)
      /\ Books(Mac(5, 5, 64), h17, h18) /\ Books(Mac(3, 3, 24), h19, h20)
    BY ZenonT(40), <1>1, <1>3, MacA, MacB, MacY, MacZ
<1> HIDE DEF desk, h1, h2, h3, h4, h5, h6, h7, h8, h9, h10, h11, h12, h13, h14, h15, h16,
             h17, h18, h19, h20
<1>5. \A j \in 1 .. 19 : Books(run[j], h[j], h[j + 1])
    BY <1>2, <1>4
<1>6. h[1] = h1 /\ h[19 + 1] = h20 /\ run = [j \in 1 .. 19 |-> run[j]]
    OBVIOUS
<1> HIDE DEF run, h
<1>7. Balanced(run, h1, h20)
    BY <1>5, <1>6, ManyBooks
<1> QED
    BY Zenon, <1>7 DEF run, desk, h1, h20

\* Two contexts on each state: no result is that of the other one's accumulator.
LEMMA IntraOpen6Books ==
    ASSUME Sized
    PROVE  Balanced(intra_open_6, Blank({LEGACY}), Blank({LEGACY}))
<1> DEFINE first == <<Open("A", INTRA), Place("B", "A"), Open("C", INTRA), Place("D", "C")>>
           words == <<SameId("A", "B"), SameId("B", "C"), SameId("C", "D"),
             SameState("A", "B", TRUE), SameState("B", "C", FALSE), SameState("C", "D", TRUE)>>
           run == <<Sel("A"), Mac(5, 5, 25), Sel("B"), Mac(5, 3, 15), Sel("A"), Mac(2, 2, 29),
             Sel("C"), Mac(5, 2, 10), Sel("D"), Mac(3, 2, 6), Sel("C"), Mac(2, 2, 14),
             Mac(5, 5, 39), Sel("A"), Mac(3, 3, 38), Sel("C"), Mac(5, 5, 64), Sel("B"),
             Mac(3, 3, 24)>>
           led1 == Desk("C", "D", On(INTRA, 1, 0), On(INTRA, 1, 0), On(INTRA, 2, 0), On(INTRA, 2, 0), {LEGACY})
           led2 == Desk("C", "D", On(INTRA, 1, 38), On(INTRA, 1, 24), On(INTRA, 2, 64), On(INTRA, 2, 6), {"B"})
<1>1. Balanced(first, Blank({LEGACY}), led1)
    <2> DEFINE desk(a, b, c, d) == Desk("C", "D", a, b, c, d, {LEGACY})
               h1 == desk(Unheld, Unheld, Unheld, Unheld)
               h2 == desk(On(INTRA, 1, 0), Unheld, Unheld, Unheld)
               h3 == desk(On(INTRA, 1, 0), On(INTRA, 1, 0), Unheld, Unheld)
               h4 == desk(On(INTRA, 1, 0), On(INTRA, 1, 0), On(INTRA, 2, 0), Unheld)
               h5 == desk(On(INTRA, 1, 0), On(INTRA, 1, 0), On(INTRA, 2, 0), On(INTRA, 2, 0))
               h == <<h1, h2, h3, h4, h5>>
    <2>1. Spare("C", "D")
        BY DEF Spare, Labels
    <2>2. /\ "A" \notin {LEGACY} /\ "B" \notin {LEGACY} /\ "C" \notin {LEGACY}
          /\ "D" \notin {LEGACY}
        BY DEF LEGACY
    <2>3. /\ Books(Open("A", INTRA), h1, h2) /\ Books(Place("B", "A"), h2, h3)
          /\ Books(Open("C", INTRA), h3, h4) /\ Books(Place("D", "C"), h4, h5)
        BY Zenon, <2>1, <2>2, OpenA, PlaceB, OpenY, PlaceZ
    <2> HIDE DEF desk, h1, h2, h3, h4, h5
    <2>4. \A j \in 1 .. 4 : Books(first[j], h[j], h[j + 1])
        BY <2>3
    <2>5. h[1] = h1 /\ h[4 + 1] = h5 /\ first = [j \in 1 .. 4 |-> first[j]]
        OBVIOUS
    <2> HIDE DEF first, h
    <2>6. Balanced(first, h1, h5)
        BY <2>4, <2>5, ManyBooks
    <2>7. h1 = Blank({LEGACY})
        BY Zenon, DeskBlank DEF desk, h1
    <2> QED
        BY Zenon, <2>6, <2>7 DEF desk, h5, led1
<1>2. Balanced(words, led1, led1)
    <2> DEFINE h == <<led1, led1, led1, led1, led1, led1, led1>>
               i1 == SameId("A", "B")           i2 == SameId("B", "C")
               i3 == SameId("C", "D")           s1 == SameState("A", "B", TRUE)
               s2 == SameState("B", "C", FALSE) s3 == SameState("C", "D", TRUE)
               w == <<i1, i2, i3, s1, s2, s3>>
    <2>1. Spare("C", "D")
        BY DEF Spare, Labels
    <2>2. /\ Books(i1, led1, led1) /\ Books(i2, led1, led1) /\ Books(i3, led1, led1)
          /\ Books(s1, led1, led1) /\ Books(s2, led1, led1) /\ Books(s3, led1, led1)
        BY Zenon, <2>1, DeskWords
    <2>3. words = w
        BY Zenon
    <2> HIDE DEF led1, words, i1, i2, i3, s1, s2, s3
    <2>4. \A j \in 1 .. 6 : Books(w[j], h[j], h[j + 1])
        BY <2>2
    <2>5. h[1] = led1 /\ h[6 + 1] = led1 /\ w = [j \in 1 .. 6 |-> w[j]]
        OBVIOUS
    <2> HIDE DEF w, h
    <2>6. Balanced(w, led1, led1)
        BY <2>4, <2>5, ManyBooks
    <2> QED
        BY <2>3, <2>6
<1>3. Balanced(run, led1, led2)
    BY Zenon, IntraOpen6Run DEF led1, led2, run
<1>4. Balanced(Closes(ABCD), led2, Blank({}))
    <2>1. {} = {"B"} \ {"A", "B", "C", "D"}
        OBVIOUS
    <2> QED
        BY Zenon, <2>1, FourCloses DEF led2
<1>5. Balanced(<<Sel(LEGACY)>>, Blank({}), Blank({LEGACY}))
    BY Zenon, LastBook
<1>6. intra_open_6 = (((first \o words) \o run) \o Closes(ABCD)) \o <<Sel(LEGACY)>>
    BY DEF intra_open_6
<1> HIDE DEF first, words, run, led1, led2
<1>7. Balanced(first \o words, Blank({LEGACY}), led1)
    BY Zenon, <1>1, <1>2, Joined
<1>8. Balanced((first \o words) \o run, Blank({LEGACY}), led2)
    BY Zenon, <1>3, <1>7, Joined
<1>9. Balanced(((first \o words) \o run) \o Closes(ABCD), Blank({LEGACY}), Blank({}))
    BY Zenon, <1>4, <1>8, Joined
<1>10. Balanced((((first \o words) \o run) \o Closes(ABCD)) \o <<Sel(LEGACY)>>,
                Blank({LEGACY}), Blank({LEGACY}))
    BY Zenon, <1>5, <1>9, Joined
<1> QED
    BY Zenon, <1>6, <1>10

\* intra_virt.c as a whole.
LEMMA IntraVirtBooks ==
    ASSUME Sized
    PROVE  \E G : Balanced(program("intra_virt.c"), Blank({LEGACY}), G)
<1>1. Balanced(intra_open_1 \o intra_open_2, Blank({LEGACY}), Blank({LEGACY}))
    BY IntraOpen1Books, IntraOpen2Books, Joined
<1>2. Balanced(intra_open_1 \o intra_open_2 \o intra_open_3, Blank({LEGACY}), Blank({}))
    BY <1>1, IntraOpen3Books, Joined
<1>3. Balanced(intra_open_1 \o intra_open_2 \o intra_open_3
                \o intra_open_4, Blank({LEGACY}), Blank({}))
    BY <1>2, IntraOpen4Books, Joined
<1>4. Balanced(intra_open_1 \o intra_open_2 \o intra_open_3 \o intra_open_4
                \o intra_open_5, Blank({LEGACY}), Blank({LEGACY}))
    BY <1>3, IntraOpen5Books, Joined
<1>5. Balanced(intra_open_1 \o intra_open_2 \o intra_open_3 \o intra_open_4
                \o intra_open_5 \o intra_open_6, Blank({LEGACY}), Blank({LEGACY}))
    BY <1>4, IntraOpen6Books, Joined
<1> QED
    BY <1>5 DEF program

-----------------------------------------------------------------------------
(* examples/state.c, state_test.c *)

\* state() works on two contexts in turn.
LEMMA StateBooks ==
    ASSUME Sized
    PROVE  Balanced(state, Blank({LEGACY}), Blank({LEGACY}))
<1> DEFINE run == <<Clear, Sel("A"), Work(3, 3), NoError, Clear, Sel("B"), Work(5, 5),
                    NoError, Clear, Sel("A"), Work(3, 3), NoError, Clear, Sel("B"),
                    Work(3, 5), NoError>>
           led1 == Desk("C", "D", On(NO, 1, 0), On(NO, 2, 0), Unheld, Unheld, {LEGACY})
           led2 == Desk("C", "D", On(NO, 1, 18), On(NO, 2, 40), Unheld, Unheld, {"B"})
<1>1. Balanced(Opens(AB, NO), Blank({LEGACY}), led1)
    <2>1. Spare("C", "D") /\ "A" \notin {LEGACY} /\ "B" \notin {LEGACY}
        BY DEF Spare, Labels, LEGACY
    <2> QED
        BY Zenon, <2>1, PairOpens DEF led1
<1>2. Balanced(run, led1, led2)
    <2> DEFINE desk(a, b, s) ==
                   Desk("C", "D", On(NO, 1, a), On(NO, 2, b), Unheld, Unheld, s)
               h1 == desk(0, 0, {LEGACY})  h2 == desk(0, 0, {"A"})
               h3 == desk(9, 0, {"A"})     h4 == desk(9, 0, {"B"})
               h5 == desk(9, 25, {"B"})    h6 == desk(9, 25, {"A"})
               h7 == desk(18, 25, {"A"})   h8 == desk(18, 25, {"B"})
               h9 == desk(18, 40, {"B"})
               h == <<h1, h1, h2, h3, h3, h3, h4, h5, h5, h5, h6, h7, h7, h7, h8, h9, h9>>
    <2>1. Spare("C", "D") /\ \A type, at, n : On(type, at, n).kind # "none"
        BY EntryIs DEF Spare, Labels
    <2>2. /\ Books(Sel("A"), h1, h2) /\ Books(Sel("B"), h3, h4) /\ Books(Sel("A"), h5, h6)
          /\ Books(Sel("B"), h7, h8)
        BY Zenon, <2>1, DeskSel
    <2>3. /\ Adds(0, 3, 3, 9) /\ Adds(0, 5, 5, 25) /\ Adds(9, 3, 3, 18)
          /\ Adds(25, 3, 5, 40)
        BY HalfAssumption DEF Sized, Adds
    <2>4. /\ Books(Work(3, 3), h2, h3) /\ Books(Work(5, 5), h4, h5)
          /\ Books(Work(3, 3), h6, h7) /\ Books(Work(3, 5), h8, h9)
        BY Zenon, <2>1, <2>3, WorkA, WorkB
    <2>5. /\ Books(Clear, h1, h1) /\ Books(Clear, h3, h3) /\ Books(Clear, h5, h5)
          /\ Books(Clear, h7, h7) /\ Books(NoError, h3, h3) /\ Books(NoError, h5, h5)
          /\ Books(NoError, h7, h7) /\ Books(NoError, h9, h9)
        BY Zenon, <2>1, FlagsBook
    <2> HIDE DEF desk, h1, h2, h3, h4, h5, h6, h7, h8, h9
    <2>6. \A j \in 1 .. 16 : Books(run[j], h[j], h[j + 1])
        BY <2>2, <2>4, <2>5
    <2>7. h[1] = h1 /\ h[16 + 1] = h9 /\ run = [j \in 1 .. 16 |-> run[j]]
        OBVIOUS
    <2> HIDE DEF run, h
    <2>8. Balanced(run, h1, h9)
        BY <2>6, <2>7, ManyBooks
    <2> QED
        BY <2>8, Zenon DEF desk, h1, h9, led1, led2
<1>3. Balanced(Closes(AB), led2, Blank({}))
    <2>1. Spare("C", "D") /\ {} = {"B"} \ {"A", "B"}
        BY DEF Spare, Labels, LEGACY
    <2> QED
        BY Zenon, <2>1, PairCloses DEF led2
<1>4. Balanced(<<Sel(LEGACY)>>, Blank({}), Blank({LEGACY}))
    BY Zenon, LastBook
<1> HIDE DEF run, led1, led2
<1>5. Balanced(Opens(AB, NO) \o run, Blank({LEGACY}), led2)
    BY Zenon, <1>1, <1>2, Joined
<1>6. Balanced((Opens(AB, NO) \o run) \o Closes(AB), Blank({LEGACY}), Blank({}))
    BY Zenon, <1>5, <1>3, Joined
<1>7. Balanced(((Opens(AB, NO) \o run) \o Closes(AB)) \o <<Sel(LEGACY)>>, Blank({LEGACY}), Blank({LEGACY}))
    BY Zenon, <1>6, <1>4, Joined
<1> QED
    BY Zenon, <1>7 DEF state, run

\* So does state.c: no call of its raises a flag, and the contexts it uses are its own.
LEMMA StateFileBooks ==
    ASSUME Sized
    PROVE  \E G : Balanced(program("state.c"), Blank({LEGACY}), G)
<1>1. Balanced(<<Sel(LEGACY)>> \o state, Blank({LEGACY}), Blank({LEGACY}))
    BY Zenon, StateBooks, LastBook, Joined
<1> QED
    BY <1>1 DEF program

\* state_test() looks at the selector and at the flags around its calls, opens a context
\* three times over on the state another has left, and a CX there is none of.
LEMMA StateTestBooks ==
    ASSUME Sized
    PROVE  Balanced(state_test, Blank({LEGACY}), Blank({LEGACY}))
<1> DEFINE first == <<SelLegacy, NoError, Open("A", NO), SelLegacy, Clear, Sel("A"),
                      SelWord("A"), Mac(3, 5, 15), NoError, Close("A")>>
           run == <<Clear, Sel("A"), SelWord("A"), Mac(3, 3, 9), NoError, Clear, Sel("B"),
                    SelWord("B"), Mac(5, 5, 25), NoError, Close("A"), Open("T", NO),
                    Close("T"), Open("T", NO), Close("T"), Open("T", NO), Close("T"),
                    Close("B"), OpenUnknown("T"), Sel(LEGACY)>>
           led1 == Desk("T", "C", Unheld, Unheld, Unheld, Unheld, {LEGACY})
           led2 == Desk("T", "C", Unheld, Unheld, Unheld, Unheld, {})
           led3 == Desk("T", "C", On(NO, 1, 0), On(NO, 2, 0), Unheld, Unheld, {})
<1>1. Balanced(first, Blank({LEGACY}), Blank({}))
    <2> DEFINE desk(a, s) == Desk("T", "C", a, Unheld, Unheld, Unheld, s)
               h1 == desk(Unheld, {LEGACY})        h2 == desk(On(NO, 1, 0), {LEGACY})
               h3 == desk(On(NO, 1, 0), {"A"})     h4 == desk(On(NO, 1, 15), {"A"})
               h5 == desk(Unheld, {})
               h == <<h1, h1, h1, h2, h2, h2, h3, h3, h4, h4, h5>>
    <2>1. Spare("T", "C") /\ \A type, at, n : On(type, at, n).kind # "none"
        BY EntryIs DEF Spare, Labels
    <2>2. /\ Books(SelLegacy, h1, h1) /\ Books(SelLegacy, h2, h2)
          /\ Books(SelWord("A"), h3, h3) /\ Books(NoError, h1, h1)
          /\ Books(NoError, h4, h4) /\ Books(Clear, h2, h2)
        BY Zenon, <2>1, DeskLegacy, DeskWords, FlagsBook
    <2>3. "A" \notin {LEGACY}
        BY DEF LEGACY
    <2>4. Books(Open("A", NO), h1, h2)
        BY Zenon, <2>1, <2>3, OpenA
    <2>5. Books(Sel("A"), h2, h3)
        BY Zenon, <2>1, DeskSel
    <2>6. Adds(0, 3, 5, 15)
        BY HalfAssumption DEF Sized, Adds
    <2>7. Books(Mac(3, 5, 15), h3, h4)
        BY Zenon, <2>1, <2>6, MacA
    <2>8. {} = {"A"} \ {"A"}
        OBVIOUS
    <2>9. Books(Close("A"), h4, h5)
        BY Zenon, <2>1, <2>8, CloseOf
    <2> HIDE DEF desk, h1, h2, h3, h4, h5
    <2>10. \A j \in 1 .. 10 : Books(first[j], h[j], h[j + 1])
        BY <2>2, <2>4, <2>5, <2>7, <2>9
    <2>11. h[1] = h1 /\ h[10 + 1] = h5 /\ first = [j \in 1 .. 10 |-> first[j]]
        OBVIOUS
    <2> HIDE DEF first, h
    <2>12. Balanced(first, h1, h5)
        BY <2>10, <2>11, ManyBooks
    <2>13. h1 = Blank({LEGACY})
        BY Zenon, DeskBlank DEF desk, h1
    <2>14. h5 = Blank({})
        BY Zenon, DeskBlank DEF desk, h5
    <2> QED
        BY Zenon, <2>12, <2>13, <2>14
<1>2. Balanced(Opens(AB, NO), Blank({}), led3)
    <2>1. Spare("T", "C") /\ "A" \notin {} /\ "B" \notin {}
        BY DEF Spare, Labels, LEGACY
    <2> QED
        BY Zenon, <2>1, PairOpens DEF led3
<1>3. Balanced(run, led3, Blank({LEGACY}))
    <2> DEFINE desk(a, b, c, s) == Desk("T", "C", a, b, c, Unheld, s)
               h1 == desk(On(NO, 1, 0), On(NO, 2, 0), Unheld, {})
               h2 == desk(On(NO, 1, 0), On(NO, 2, 0), Unheld, {"A"})
               h3 == desk(On(NO, 1, 9), On(NO, 2, 0), Unheld, {"A"})
               h4 == desk(On(NO, 1, 9), On(NO, 2, 0), Unheld, {"B"})
               h5 == desk(On(NO, 1, 9), On(NO, 2, 25), Unheld, {"B"})
               h6 == desk(Unheld, On(NO, 2, 25), Unheld, {"B"})
               h7 == desk(Unheld, On(NO, 2, 25), On(NO, 1, 0), {"B"})
               h8 == desk(Unheld, Unheld, Unheld, {})
               h9 == desk(Unheld, Unheld, Unheld, {LEGACY})
               h == <<h1, h1, h2, h2, h3, h3, h3, h4, h4, h5, h5, h6, h7, h6, h7, h6, h7, h6,
                      h8, h8, h9>>
    <2>1. Spare("T", "C") /\ \A type, at, n : On(type, at, n).kind # "none"
        BY EntryIs DEF Spare, Labels
    <2>2. /\ Books(Sel("A"), h1, h2) /\ Books(Sel("B"), h3, h4)
          /\ Books(Sel(LEGACY), h8, h9)
        BY Zenon, <2>1, DeskSel
    <2>3. /\ Books(SelWord("A"), h2, h2) /\ Books(SelWord("B"), h4, h4)
          /\ Books(Clear, h1, h1) /\ Books(Clear, h3, h3)
          /\ Books(NoError, h3, h3) /\ Books(NoError, h5, h5)
        BY Zenon, <2>1, DeskWords, FlagsBook
    <2>4. Adds(0, 3, 3, 9) /\ Adds(0, 5, 5, 25)
        BY HalfAssumption DEF Sized, Adds
    <2>5. Books(Mac(3, 3, 9), h2, h3) /\ Books(Mac(5, 5, 25), h4, h5)
        BY Zenon, <2>1, <2>4, MacA, MacB
    <2>6. {"B"} = {"B"} \ {"A"} /\ {"B"} = {"B"} \ {"T"} /\ {} = {"B"} \ {"B"}
        OBVIOUS
    <2>7. /\ Books(Close("A"), h5, h6) /\ Books(Close("T"), h7, h6)
          /\ Books(Close("B"), h6, h8)
        BY Zenon, <2>1, <2>6, CloseOf
    <2>8. "T" \notin {"B"} /\ "T" \notin {}
        OBVIOUS
    <2>9. Books(Open("T", NO), h6, h7) /\ Books(OpenUnknown("T"), h8, h8)
        BY Zenon, <2>1, <2>8, OpenY, DeskUnknown
    <2> HIDE DEF desk, h1, h2, h3, h4, h5, h6, h7, h8, h9
    <2>10. \A j \in 1 .. 20 : Books(run[j], h[j], h[j + 1])
        BY <2>2, <2>3, <2>5, <2>7, <2>9
    <2>11. h[1] = h1 /\ h[20 + 1] = h9 /\ run = [j \in 1 .. 20 |-> run[j]]
        OBVIOUS
    <2> HIDE DEF run, h
    <2>12. Balanced(run, h1, h9)
        BY <2>10, <2>11, ManyBooks
    <2>13. h9 = Blank({LEGACY})
        BY Zenon, DeskBlank DEF desk, h9
    <2> QED
        BY Zenon, <2>12, <2>13 DEF desk, h1, led3
<1> HIDE DEF first, run, led1, led2, led3
<1>4. Balanced(first \o Opens(AB, NO), Blank({LEGACY}), led3)
    BY Zenon, <1>1, <1>2, Joined
<1>5. Balanced((first \o Opens(AB, NO)) \o run, Blank({LEGACY}), Blank({LEGACY}))
    BY Zenon, <1>4, <1>3, Joined
<1> QED
    BY Zenon, <1>5 DEF state_test, first, run

\* So does state_test.c.
LEMMA StateTestFileBooks ==
    ASSUME Sized
    PROVE  \E G : Balanced(program("state_test.c"), Blank({LEGACY}), G)
<1>1. Balanced(<<Sel(LEGACY)>> \o state_test, Blank({LEGACY}), Blank({LEGACY}))
    BY Zenon, StateTestBooks, LastBook, Joined
<1> QED
    BY <1>1 DEF program

-----------------------------------------------------------------------------
(* examples/stateless.c, example.c *)

\* The closes of either.
LEMMA StatelessCloses ==
    /\ \A a, c, d, s, t : t = s \ {"A0", "A", "M"}
           => Balanced(Closes(<<"A0", "A", "M">>), Desk("M", "A0", a, Unheld, c, d, s), Blank(t))
    /\ \A a, b, s, t : t = s \ {"B", "A"}
           => Balanced(Closes(<<"B", "A">>), Desk("C", "D", a, b, Unheld, Unheld, s), Blank(t))
<1> DEFINE xs == <<"A0", "A", "M">>
           ys == <<"B", "A">>
<1>1. /\ xs \in Seq(Labels) /\ {"A0", "A", "M"} = {xs[i] : i \in 1 .. Len(xs)}
      /\ ys \in Seq(Labels) /\ {"B", "A"} = {ys[i] : i \in 1 .. Len(ys)}
      /\ Spare("M", "A0") /\ Spare("C", "D")
    BY DEF Labels, Spare
<1> HIDE DEF xs, ys
<1>2. \A a, c, d, s : Balanced(Closes(xs), Desk("M", "A0", a, Unheld, c, d, s),
                              Blank(s \ {"A0", "A", "M"}))
    BY <1>1, ClosesBooks
<1>3. \A a, b, s : Balanced(Closes(ys), Desk("C", "D", a, b, Unheld, Unheld, s),
                           Blank(s \ {"B", "A"}))
    BY <1>1, ClosesBooks
<1> QED
    BY <1>2, <1>3 DEF xs, ys

\* The asserts of test() on selectors stand for same1 and same2.
LEMMA TestRun ==
    ASSUME Sized, NEW same1, NEW same2,
           Books(same1, Desk("M", "A0", Soft(addsub), Unheld, Soft(muldiv), Unheld, {LEGACY}),
                 Desk("M", "A0", Soft(addsub), Unheld, Soft(muldiv), Unheld, {LEGACY})),
           Books(same2, Desk("M", "A0", Soft(addsub), Unheld, Soft(muldiv), Soft(addsub), {LEGACY}),
                 Desk("M", "A0", Soft(addsub), Unheld, Soft(muldiv), Soft(addsub), {LEGACY}))
    PROVE  Balanced(<<OpenCx("M", muldiv), OpenCx("A", addsub), same1, OpenCx("A0", addsub), same2, Sel("A"),
                 Fn(0, 3, 5, 8), Sel("M"), Fn(0, 3, 5, 15), Sel("A"), Fn(0, 3, 3, 6),
                 Sel("A0"), Fn(0, 5, 5, 10)>>,
             Blank({LEGACY}),
             Desk("M", "A0", Soft(addsub), Unheld, Soft(muldiv), Soft(addsub), {"A0"}))
<1> DEFINE run == <<OpenCx("M", muldiv), OpenCx("A", addsub), same1, OpenCx("A0", addsub), same2,
                    Sel("A"), Fn(0, 3, 5, 8), Sel("M"), Fn(0, 3, 5, 15), Sel("A"),
                    Fn(0, 3, 3, 6), Sel("A0"), Fn(0, 5, 5, 10)>>
           desk(a, c, d, s) == Desk("M", "A0", a, Unheld, c, d, s)
           h1 == desk(Unheld, Unheld, Unheld, {LEGACY})
           h2 == desk(Unheld, Soft(muldiv), Unheld, {LEGACY})
           h3 == desk(Soft(addsub), Soft(muldiv), Unheld, {LEGACY})
           h4 == desk(Soft(addsub), Soft(muldiv), Soft(addsub), {LEGACY})
           h5 == desk(Soft(addsub), Soft(muldiv), Soft(addsub), {"A"})
           h6 == desk(Soft(addsub), Soft(muldiv), Soft(addsub), {"M"})
           h7 == desk(Soft(addsub), Soft(muldiv), Soft(addsub), {"A0"})
           h == <<h1, h2, h3, h3, h4, h4, h5, h5, h6, h6, h5, h5, h7, h7>>
<1>1. Spare("M", "A0") /\ \A cx : Soft(cx).kind # "none"
    BY EntryIs DEF Spare, Labels
<1>2. "M" \notin {LEGACY} /\ "A" \notin {LEGACY} /\ "A0" \notin {LEGACY}
    BY DEF LEGACY
<1>3. /\ Books(OpenCx("M", muldiv), h1, h2) /\ Books(OpenCx("A", addsub), h2, h3)
      /\ Books(OpenCx("A0", addsub), h3, h4)
    BY Zenon, <1>1, <1>2, DeskOpenCx
<1>4. Books(same1, h3, h3) /\ Books(same2, h4, h4)
    BY Zenon DEF desk, h3, h4
<1>5. /\ Books(Sel("A"), h4, h5) /\ Books(Sel("M"), h5, h6) /\ Books(Sel("A"), h6, h5)
      /\ Books(Sel("A0"), h5, h7)
    BY Zenon, <1>1, DeskSel
<1>6. /\ Books(Fn(0, 3, 5, 8), h5, h5) /\ Books(Fn(0, 3, 5, 15), h6, h6)
      /\ Books(Fn(0, 3, 3, 6), h5, h5) /\ Books(Fn(0, 5, 5, 10), h7, h7)
    BY Zenon, <1>1, ExampleAnswers, DeskFn
<1> HIDE DEF desk, h1, h2, h3, h4, h5, h6, h7
<1>7. \A j \in 1 .. 13 : Books(run[j], h[j], h[j + 1])
    BY <1>3, <1>4, <1>5, <1>6
<1>8. h[1] = h1 /\ h[13 + 1] = h7 /\ run = [j \in 1 .. 13 |-> run[j]]
    OBVIOUS
<1> HIDE DEF run, h
<1>9. Balanced(run, h1, h7)
    BY <1>7, <1>8, ManyBooks
<1>10. h1 = Blank({LEGACY})
    BY Zenon, DeskBlank DEF desk, h1
<1> QED
    BY Zenon, <1>9, <1>10 DEF run, desk, h7

\* test() of stateless.c has one selector per CX, and each result is that of its CX.
LEMMA TestBooks ==
    ASSUME Sized
    PROVE  Balanced(test, Blank({LEGACY}), Blank({LEGACY}))
<1> DEFINE run(same1, same2) ==
               <<OpenCx("M", muldiv), OpenCx("A", addsub), same1, OpenCx("A0", addsub),
                 same2, Sel("A"), Fn(0, 3, 5, 8), Sel("M"), Fn(0, 3, 5, 15), Sel("A"),
                 Fn(0, 3, 3, 6), Sel("A0"), Fn(0, 5, 5, 10)>>
           led1 == Desk("M", "A0", Soft(addsub), Unheld, Soft(muldiv), Unheld, {LEGACY})
           led2 == Desk("M", "A0", Soft(addsub), Unheld, Soft(muldiv), Soft(addsub), {LEGACY})
           led3 == Desk("M", "A0", Soft(addsub), Unheld, Soft(muldiv), Soft(addsub), {"A0"})
           s1 == SameSel("A", "M", FALSE)
           s2 == SameSel("A0", "A", TRUE)
           closes == Closes(<<"A0", "A", "M">>)
<1>1. Spare("M", "A0") /\ addsub # muldiv
    BY ProgramAssumption DEF Spare, Labels
<1>2. Books(s1, led1, led1)
    <2>1. PICK H : H = led1
        OBVIOUS
    <2>2. /\ calm(H) /\ H.ctx["A"] = Soft(addsub) /\ H.ctx["M"] = Soft(muldiv)
          /\ "A" \in Names /\ "M" \in Names
        BY <1>1, <2>1, DeskIs
    <2>3. Books(s1, H, H)
        BY Zenon, <1>1, <2>2, SameSelBook
    <2> QED
        BY <2>1, <2>3, Zenon
<1>3. Books(s2, led2, led2)
    <2>1. PICK H : H = led2
        OBVIOUS
    <2>2. /\ calm(H) /\ H.ctx["A"] = Soft(addsub) /\ H.ctx["A0"] = Soft(addsub)
          /\ "A" \in Names /\ "A0" \in Names
        BY <1>1, <2>1, DeskIs
    <2>3. Books(s2, H, H)
        BY Zenon, <2>2, SameSelBook
    <2> QED
        BY <2>1, <2>3, Zenon
<1> HIDE DEF s1, s2
<1>4. Balanced(run(s1, s2), Blank({LEGACY}), led3)
    BY Zenon, <1>2, <1>3, TestRun DEF run, led1, led2, led3
<1>5. Balanced(closes, led3, Blank({}))
    <2>1. {} = {"A0"} \ {"A0", "A", "M"}
        OBVIOUS
    <2> QED
        BY Zenon, <2>1, StatelessCloses DEF led3
<1>6. Balanced(<<Sel(LEGACY)>>, Blank({}), Blank({LEGACY}))
    BY Zenon, LastBook
<1> HIDE DEF run, closes, led3
<1>7. Balanced(run(s1, s2) \o closes, Blank({LEGACY}), Blank({}))
    BY Zenon, <1>4, <1>5, Joined
<1>8. Balanced((run(s1, s2) \o closes) \o <<Sel(LEGACY)>>, Blank({LEGACY}), Blank({LEGACY}))
    BY Zenon, <1>6, <1>7, Joined
<1> QED
    BY Zenon, <1>8 DEF test, run, s1, s2, closes

\* The asserts of stateless.c hold.
LEMMA StatelessBooks ==
    ASSUME Sized
    PROVE  \E G : Balanced(program("stateless.c"), Blank({LEGACY}), G)
BY TestBooks DEF program

\* No function my_cx_test() calls raises a flag.
LEMMA MyCxTestBooks ==
    ASSUME Sized
    PROVE  Balanced(my_cx_test, Blank({LEGACY}), Blank({LEGACY}))
<1> DEFINE first == <<OpenCx("A", addsub), OpenCx("B", muldiv)>>
           run == <<Clear, Sel("A"), Printed(0, 3, 5), NoError, Clear, Sel("B"),
                    Printed(0, 3, 5), NoError, Clear, Sel("A"), Printed(2, 3, 5),
                    Printed(4, 3, 5), NoError>>
           led1 == Desk("C", "D", Unheld, Unheld, Unheld, Unheld, {LEGACY})
           led2 == Desk("C", "D", Soft(addsub), Soft(muldiv), Unheld, Unheld, {LEGACY})
           led3 == Desk("C", "D", Soft(addsub), Soft(muldiv), Unheld, Unheld, {"A"})
<1>1. Balanced(first, Blank({LEGACY}), led2)
    <2> DEFINE desk(a, b) == Desk("C", "D", a, b, Unheld, Unheld, {LEGACY})
               h1 == desk(Unheld, Unheld)
               h2 == desk(Soft(addsub), Unheld)
               h3 == desk(Soft(addsub), Soft(muldiv))
               h == <<h1, h2, h3>>
    <2>1. Spare("C", "D")
        BY DEF Spare, Labels
    <2>2. "A" \notin {LEGACY} /\ "B" \notin {LEGACY}
        BY DEF LEGACY
    <2>3. Books(OpenCx("A", addsub), h1, h2) /\ Books(OpenCx("B", muldiv), h2, h3)
        BY Zenon, <2>1, <2>2, DeskOpenCx
    <2> HIDE DEF desk, h1, h2, h3
    <2>4. \A j \in 1 .. 2 : Books(first[j], h[j], h[j + 1])
        BY <2>3
    <2>5. h[1] = h1 /\ h[2 + 1] = h3 /\ first = [j \in 1 .. 2 |-> first[j]]
        OBVIOUS
    <2> HIDE DEF first, h
    <2>6. Balanced(first, h1, h3)
        BY <2>4, <2>5, ManyBooks
    <2>7. h1 = Blank({LEGACY})
        BY Zenon, DeskBlank DEF desk, h1
    <2> QED
        BY Zenon, <2>6, <2>7 DEF desk, h3, led2
<1>2. Balanced(run, led2, led3)
    <2> DEFINE desk(s) == Desk("C", "D", Soft(addsub), Soft(muldiv), Unheld, Unheld, s)
               h1 == desk({LEGACY})  h2 == desk({"A"})
               h3 == desk({"B"})
               h == <<h1, h1, h2, h2, h2, h2, h3, h3, h3, h3, h2, h2, h2, h2>>
    <2>1. Spare("C", "D") /\ \A cx : Soft(cx).kind # "none"
        BY EntryIs DEF Spare, Labels
    <2>2. /\ Books(Clear, h1, h1) /\ Books(NoError, h2, h2) /\ Books(Clear, h2, h2)
          /\ Books(NoError, h3, h3) /\ Books(Clear, h3, h3)
        BY Zenon, <2>1, FlagsBook
    <2>3. Books(Sel("A"), h1, h2) /\ Books(Sel("B"), h2, h3) /\ Books(Sel("A"), h3, h2)
        BY Zenon, <2>1, DeskSel
    <2>4. /\ Books(Printed(0, 3, 5), h2, h2) /\ Books(Printed(0, 3, 5), h3, h3)
          /\ Books(Printed(2, 3, 5), h2, h2) /\ Books(Printed(4, 3, 5), h2, h2)
        BY Zenon, <2>1, ExampleAnswers, DeskFn
    <2> HIDE DEF desk, h1, h2, h3
    <2>5. \A j \in 1 .. 13 : Books(run[j], h[j], h[j + 1])
        BY <2>2, <2>3, <2>4
    <2>6. h[1] = h1 /\ h[13 + 1] = h2 /\ run = [j \in 1 .. 13 |-> run[j]]
        OBVIOUS
    <2> HIDE DEF run, h
    <2>7. Balanced(run, h1, h2)
        BY <2>5, <2>6, ManyBooks
    <2> QED
        BY <2>7, Zenon DEF desk, h1, h2, led2, led3
<1>3. Balanced(Closes(<<"B", "A">>), led3, Blank({}))
    <2>1. Spare("C", "D") /\ {} = {"A"} \ {"B", "A"}
        BY DEF Spare, Labels, LEGACY
    <2> QED
        BY Zenon, <2>1, StatelessCloses DEF led3
<1>4. Balanced(<<Sel(LEGACY)>>, Blank({}), Blank({LEGACY}))
    BY Zenon, LastBook
<1> HIDE DEF first, run, led1, led2, led3
<1>5. Balanced(first \o run, Blank({LEGACY}), led3)
    BY Zenon, <1>1, <1>2, Joined
<1>6. Balanced((first \o run) \o Closes(<<"B", "A">>), Blank({LEGACY}), Blank({}))
    BY Zenon, <1>5, <1>3, Joined
<1>7. Balanced(((first \o run) \o Closes(<<"B", "A">>)) \o <<Sel(LEGACY)>>, Blank({LEGACY}), Blank({LEGACY}))
    BY Zenon, <1>6, <1>4, Joined
<1> QED
    BY Zenon, <1>7 DEF my_cx_test, first, run

\* The asserts of example.c hold.
LEMMA ExampleBooks ==
    ASSUME Sized
    PROVE  \E G : Balanced(program("example.c"), Blank({LEGACY}), G)
<1>1. Balanced(<<Sel(LEGACY)>> \o my_cx_test, Blank({LEGACY}), Blank({LEGACY}))
    BY Zenon, MyCxTestBooks, LastBook, Joined
<1> QED
    BY <1>1 DEF program

-----------------------------------------------------------------------------
(* examples/threaded_test.c *)

\* multi_thread_1: "B" stands for n, the threads in ones are live.
Crew(n, ones) == Book(Entries("C", "D", On(INTRA, 1, 0), On(NO, 2, n), Unheld, Unheld), {"B"},
                      ones, {}, 0, 0)

\* The ledger of multi_thread_1 with some threads created.
LEMMA CrewIs ==
    ASSUME NEW n, NEW ones, NEW H, H = Crew(n, ones)
    PROVE  /\ context(H, "B") /\ H.ctx["B"] = On(NO, 2, n) /\ H.ctx["B"].acc = n
           /\ H.picked = {"B"} /\ H.ones = ones /\ H.twos = {} /\ H.sixres = 0 /\ H.sixsum = 0
           /\ \A m : put(H, "B", value_in(H, "B", m))
                      = Entries("C", "D", On(INTRA, 1, 0), On(NO, 2, m), Unheld, Unheld)
<1>1. PICK a, b : a = On(INTRA, 1, 0) /\ b = On(NO, 2, n)
    OBVIOUS
<1>2. "B" \in Names /\ "B" \notin {"A", "C", "D"}
    BY DEF Names, Labels
<1>3. /\ H.ctx = Entries("C", "D", a, b, Unheld, Unheld) /\ H.picked = {"B"}
      /\ H.ones = ones /\ H.twos = {} /\ H.sixres = 0 /\ H.sixsum = 0
    BY <1>1 DEF Crew, Book
<1>4. H.ctx["B"] = b /\ \A x \in Names : H.ctx[x] = Entries("C", "D", a, b, Unheld, Unheld)[x]
    BY <1>2, <1>3 DEF Entries
<1>5. b.kind = "context" /\ b.acc = n /\ b.type = NO /\ b.at = 2
    BY <1>1, EntryIs
<1>6. ASSUME NEW m
      PROVE  put(H, "B", value_in(H, "B", m))
                 = Entries("C", "D", On(INTRA, 1, 0), On(NO, 2, m), Unheld, Unheld)
    <2>1. PICK c : c = On(NO, 2, m)
        OBVIOUS
    <2>2. value_in(H, "B", m) = c
        BY <2>1, <1>4, <1>5 DEF value_in
    <2>3. put(H, "B", c) = Entries("C", "D", a, c, Unheld, Unheld)
        BY <1>2, <1>4 DEF put, Entries
    <2> QED
        BY <1>1, <2>1, <2>2, <2>3
<1> QED
    BY <1>1, <1>2, <1>3, <1>4, <1>5, <1>6 DEF context

\* Each thread is counted in full when it is created, and waited for later.
LEMMA CrewCreated ==
    ASSUME Sized
    PROVE  Balanced(ForThreads(LAMBDA t : Create(t, cx_mac_thread_1)), Crew(0, {}),
                    Crew(25 * N, 1 .. N))
<1> DEFINE a == [t \in 1 .. N |-> Create(t, cx_mac_thread_1)]
           h == [j \in 1 .. N + 1 |-> Crew(25 * (j - 1), 1 .. j - 1)]
<1>1. N \in Nat /\ Half \in Nat /\ 25 * N < Half
    BY ProgramAssumption, HalfAssumption DEF Sized
<1>2. h[1] = Crew(0, {}) /\ h[N + 1] = Crew(25 * N, 1 .. N)
    <2>1. 25 * (1 - 1) = 0 /\ 1 .. 1 - 1 = {} /\ (N + 1) - 1 = N /\ 1 \in 1 .. N + 1
          /\ N + 1 \in 1 .. N + 1
        BY <1>1
    <2> QED
        BY <2>1
<1>3. ASSUME NEW j \in 1 .. N
      PROVE  Books(a[j], h[j], h[j + 1])
    <2>1. PICK H, n, i : H = Crew(n, 1 .. j - 1) /\ n = 25 * (j - 1) /\ i = a[j]
        OBVIOUS
    <2>2. h[j] = H /\ h[j + 1] = Crew(n + 25, (1 .. j - 1) \cup {j})
        <3>1. j \in 1 .. N + 1 /\ j + 1 \in 1 .. N + 1 /\ (j + 1) - 1 = j
              /\ 1 .. j = (1 .. j - 1) \cup {j} /\ 25 * j = n + 25
            BY <1>1, <2>1
        <3>2. h[j + 1] = Crew(25 * j, 1 .. j)
            BY <3>1
        <3> QED
            BY <2>1, <3>1, <3>2
    <2>3. i.op = "create" /\ i.body = cx_mac_thread_1 /\ i.t = j
        BY <2>1 DEF Create
    <2> HIDE DEF a, h
    <2>4. n + 25 < Half /\ j \notin 1 .. j - 1
        BY <1>1, <2>1
    <2>5. BookCreate1(i, H, Crew(n + 25, (1 .. j - 1) \cup {j}))
        <3>1. PICK m, e : m = n + 25 /\ e = put(H, "B", value_in(H, "B", m))
            OBVIOUS
        <3>2. /\ context(H, "B") /\ H.ctx["B"].acc = n /\ H.picked = {"B"}
              /\ H.ones = 1 .. j - 1 /\ H.twos = {} /\ H.sixres = 0 /\ H.sixsum = 0
            BY <2>1, CrewIs
        <3>3. e = Entries("C", "D", On(INTRA, 1, 0), On(NO, 2, m), Unheld, Unheld)
            BY <2>1, <3>1, CrewIs
        <3>4. \A ones : Crew(m, ones) = Book(e, {"B"}, ones, {}, 0, 0)
            BY Zenon, <3>3 DEF Crew
        <3> QED
            BY <2>3, <2>4, <3>1, <3>2, <3>4 DEF BookCreate1
    <2> QED
        BY <2>1, <2>2, <2>5 DEF Books
<1>4. a = [j \in 1 .. N |-> a[j]]
    OBVIOUS
<1> HIDE DEF a, h
<1>5. Balanced(a, Crew(0, {}), Crew(25 * N, 1 .. N))
    BY <1>1, <1>2, <1>3, <1>4, ManyBooks
<1> QED
    BY <1>5 DEF a, ForThreads

\* Joining the threads leaves the sum as it is.
LEMMA CrewJoined ==
    Balanced(JoinAll, Crew(25 * N, 1 .. N), Crew(25 * N, {}))
<1> DEFINE h == [j \in 1 .. N + 1 |-> Crew(25 * N, j .. N)]
<1>1. N \in Nat
    BY ProgramAssumption
<1>2. JoinAll = [t \in 1 .. N |-> JoinAll[t]] /\ \A t \in 1 .. N : JoinAll[t] = Join(t)
    BY DEF JoinAll, ForThreads
<1>3. h[1] = Crew(25 * N, 1 .. N) /\ h[N + 1] = Crew(25 * N, {})
    <2>1. 1 \in 1 .. N + 1 /\ N + 1 \in 1 .. N + 1 /\ (N + 1) .. N = {}
        BY <1>1
    <2> QED
        BY <2>1
<1>4. ASSUME NEW j \in 1 .. N
      PROVE  Books(JoinAll[j], h[j], h[j + 1])
    <2>1. PICK H, i : H = Crew(25 * N, j .. N) /\ i = Join(j)
        OBVIOUS
    <2>2. h[j] = H /\ h[j + 1] = Crew(25 * N, (j .. N) \ {j})
        <3>1. j \in 1 .. N + 1 /\ j + 1 \in 1 .. N + 1 /\ (j + 1) .. N = (j .. N) \ {j}
            BY <1>1
        <3> QED
            BY <2>1, <3>1
    <2>3. i.op = "join" /\ i.t = j
        BY <2>1 DEF Join
    <2> HIDE DEF h
    <2>4. PICK e : e = Entries("C", "D", On(INTRA, 1, 0), On(NO, 2, 25 * N), Unheld, Unheld)
        OBVIOUS
    <2>5. \A ones : Crew(25 * N, ones) = Book(e, {"B"}, ones, {}, 0, 0)
        BY Zenon, <2>4 DEF Crew
    <2>6. BookJoin(i, H, Crew(25 * N, (j .. N) \ {j}))
        <3>1. H = Book(e, {"B"}, j .. N, {}, 0, 0) /\ {} \ {j} = {}
            BY <2>1, <2>5
        <3> QED
            BY <2>3, <2>5, <3>1 DEF BookJoin, Book
    <2> QED
        BY <1>2, <2>1, <2>2, <2>6 DEF Books
<1> HIDE DEF h
<1> QED
    BY <1>1, <1>2, <1>3, <1>4, ManyBooks

\* The accumulator main reads in multi_thread_1 is that of all its threads.
LEMMA MultiThread1Books ==
    ASSUME Sized
    PROVE  Balanced(multi_thread_1, Blank({LEGACY}), Blank({}))
<1> DEFINE first == <<Open("A", INTRA), Open("B", NO), Sel("B")>>
           workers == ForThreads(LAMBDA t : Create(t, cx_mac_thread_1))
           total == <<Read(N * 5 * 5)>>
           sum == 25 * N
           led1 == Desk("C", "D", On(INTRA, 1, 0), On(NO, 2, sum), Unheld, Unheld, {"B"})
<1>1. Balanced(first, Blank({LEGACY}), Crew(0, {}))
    <2> DEFINE desk(a, b, s) == Desk("C", "D", a, b, Unheld, Unheld, s)
               h1 == desk(Unheld, Unheld, {LEGACY})
               h2 == desk(On(INTRA, 1, 0), Unheld, {LEGACY})
               h3 == desk(On(INTRA, 1, 0), On(NO, 2, 0), {LEGACY})
               h4 == desk(On(INTRA, 1, 0), On(NO, 2, 0), {"B"})
               h == <<h1, h2, h3, h4>>
    <2>1. Spare("C", "D") /\ \A type, at, n : On(type, at, n).kind # "none"
        BY EntryIs DEF Spare, Labels
    <2>2. "A" \notin {LEGACY} /\ "B" \notin {LEGACY}
        BY DEF LEGACY
    <2>3. Books(Open("A", INTRA), h1, h2) /\ Books(Open("B", NO), h2, h3)
        BY Zenon, <2>1, <2>2, OpenA, OpenB
    <2>4. Books(Sel("B"), h3, h4)
        BY Zenon, <2>1, DeskSel
    <2> HIDE DEF desk, h1, h2, h3, h4
    <2>5. \A j \in 1 .. 3 : Books(first[j], h[j], h[j + 1])
        BY <2>3, <2>4
    <2>6. h[1] = h1 /\ h[3 + 1] = h4 /\ first = [j \in 1 .. 3 |-> first[j]]
        OBVIOUS
    <2> HIDE DEF first, h
    <2>7. Balanced(first, h1, h4)
        BY <2>5, <2>6, ManyBooks
    <2>8. h1 = Blank({LEGACY})
        BY Zenon, DeskBlank DEF desk, h1
    <2> QED
        BY Zenon, <2>7, <2>8 DEF desk, h4, Desk, Crew
<1>2. Balanced(workers, Crew(0, {}), Crew(sum, 1 .. N))
    BY Zenon, CrewCreated
<1>3. Balanced(JoinAll, Crew(sum, 1 .. N), led1)
    BY Zenon, CrewJoined DEF led1, Desk, Crew
<1>4. Balanced(total, led1, led1)
    <2>1. Spare("C", "D") /\ N * 5 * 5 = sum
        BY ProgramAssumption DEF Spare, Labels
    <2> HIDE DEF sum
    <2>2. Books(Read(sum), led1, led1)
        BY Zenon, <2>1, DeskRead
    <2> HIDE DEF led1
    <2> QED
        BY <2>1, <2>2, OneBook
<1>5. Balanced(Closes(AB), led1, Blank({}))
    <2>1. Spare("C", "D") /\ {} = {"B"} \ {"A", "B"}
        BY DEF Spare, Labels
    <2> HIDE DEF sum
    <2> QED
        BY Zenon, <2>1, PairCloses DEF led1
<1> HIDE DEF first, workers, total, sum, led1
<1>6. Balanced(first \o workers, Blank({LEGACY}), Crew(sum, 1 .. N))
    BY Zenon, <1>1, <1>2, Joined
<1>7. Balanced((first \o workers) \o JoinAll, Blank({LEGACY}), led1)
    BY Zenon, <1>3, <1>6, Joined
<1>8. Balanced(((first \o workers) \o JoinAll) \o total, Blank({LEGACY}), led1)
    BY Zenon, <1>4, <1>7, Joined
<1>9. Balanced((((first \o workers) \o JoinAll) \o total) \o Closes(AB), Blank({LEGACY}),
               Blank({}))
    BY Zenon, <1>5, <1>8, Joined
<1> QED
    BY <1>9 DEF multi_thread_1, ForThreads, first, workers, total

\* multi_thread_2: the selectors of the first m threads are open, what the first c
\* of them add is counted.
rank(x) == CHOOSE t \in 1 .. N : x = sels(t)
among(x, m) == \E t \in 1 .. m : x = sels(t)
seat(x) == IF x = sels(1) THEN 2 ELSE 0
worth(x, c) == IF among(x, c) THEN N * sq(rank(x)) ELSE 0
Seats(m, c) == [x \in Names |-> IF x = "A" THEN On(NO, 1, 0)
                                ELSE IF among(x, m) THEN On(INTRA, seat(x), worth(x, c))
                                ELSE Unheld]
Team(m, c, picked, twos, sixres, sixsum) == Book(Seats(m, c), picked, {}, twos, sixres, sixsum)

\* The names of the selectors of multi_thread_2, told apart.
LEMMA SelsAre ==
    /\ N \in Nat
    /\ \A t \in 1 .. N : /\ sels(t) \in Names /\ sels(t) # "A" /\ sels(t) # LEGACY
                         /\ rank(sels(t)) = t
                         /\ \A m \in 0 .. N : among(sels(t), m) <=> t <= m
                         /\ seat(sels(t)) = IF t = 1 THEN 2 ELSE 0
    /\ "A" \in Names
    /\ \A x, m : m \in Nat /\ x # sels(m + 1) => (among(x, m + 1) <=> among(x, m))
<1>1. N \in Nat
    BY ProgramAssumption
<1>2. ASSUME NEW t \in 1 .. N
      PROVE  /\ sels(t) \in Names /\ sels(t) # "A" /\ sels(t) # LEGACY
             /\ rank(sels(t)) = t
             /\ \A m \in 0 .. N : among(sels(t), m) <=> t <= m
             /\ seat(sels(t)) = IF t = 1 THEN 2 ELSE 0
    <2>1. sels(t) \in Names /\ sels(t) # "A" /\ sels(t) # LEGACY
        BY NamesAssumption DEF Names, Labels
    <2>2. rank(sels(t)) = t
        BY NamesAssumption DEF rank
    <2>3. \A m \in 0 .. N : among(sels(t), m) <=> t <= m
        BY <1>1, NamesAssumption DEF among
    <2>4. sels(t) = sels(1) <=> t = 1
        BY <1>1, NamesAssumption
    <2> QED
        BY <2>1, <2>2, <2>3, <2>4 DEF seat
<1>3. ASSUME NEW x, NEW m \in Nat, x # sels(m + 1)
      PROVE  among(x, m + 1) <=> among(x, m)
    <2>1. 1 .. m + 1 = (1 .. m) \cup {m + 1}
        OBVIOUS
    <2> QED
        BY <1>3, <2>1 DEF among
<1>4. "A" \in Names
    BY DEF Names, Labels
<1> QED
    BY <1>1, <1>2, <1>3, <1>4

\* The ledger of multi_thread_2.
LEMMA TeamIs ==
    ASSUME NEW m \in 0 .. N, NEW c \in 0 .. N, NEW picked, NEW twos, NEW sixres, NEW sixsum,
           NEW H, H = Team(m, c, picked, twos, sixres, sixsum)
    PROVE  /\ H.ctx["A"] = On(NO, 1, 0)
           /\ \A t \in 1 .. m : H.ctx[sels(t)] = On(INTRA, IF t = 1 THEN 2 ELSE 0,
                                                    IF t <= c THEN N * sq(t) ELSE 0)
           /\ \A t \in 1 .. N : t > m => H.ctx[sels(t)] = Unheld
           /\ \A x \in Names : x # "A" /\ ~among(x, m) => H.ctx[x] = Unheld
           /\ H.ctx = Seats(m, c) /\ H.picked = picked /\ H.ones = {} /\ H.twos = twos
           /\ H.sixres = sixres /\ H.sixsum = sixsum
<1>1. /\ H.ctx = Seats(m, c) /\ H.picked = picked /\ H.ones = {} /\ H.twos = twos
      /\ H.sixres = sixres /\ H.sixsum = sixsum
    BY DEF Team, Book
<1>2. H.ctx["A"] = On(NO, 1, 0)
    BY <1>1, SelsAre DEF Seats
<1>3. \A x \in Names : x # "A" /\ ~among(x, m) => H.ctx[x] = Unheld
    BY <1>1 DEF Seats
<1>4. ASSUME NEW t \in 1 .. N, t > m
      PROVE  H.ctx[sels(t)] = Unheld
    BY <1>3, <1>4, SelsAre
<1>5. ASSUME NEW t \in 1 .. m
      PROVE  H.ctx[sels(t)] = On(INTRA, IF t = 1 THEN 2 ELSE 0, IF t <= c THEN N * sq(t) ELSE 0)
    <2>1. t \in 1 .. N
        BY SelsAre
    <2>2. worth(sels(t), c) = IF t <= c THEN N * sq(t) ELSE 0
        BY <2>1, SelsAre DEF worth
    <2>3. H.ctx[sels(t)] = On(INTRA, seat(sels(t)), worth(sels(t), c))
        BY <1>1, <2>1, SelsAre DEF Seats
    <2> QED
        BY <2>1, <2>2, <2>3, SelsAre
<1> QED
    BY <1>1, <1>2, <1>3, <1>4, <1>5

\* Another selector opened, and another thread counted.
LEMMA SeatTaken ==
    ASSUME NEW j \in 1 .. N
    PROVE  /\ Seats(j, 0) = [x \in Names |-> IF x = sels(j)
                                THEN On(INTRA, IF j = 1 THEN 2 ELSE 0, 0) ELSE Seats(j - 1, 0)[x]]
           /\ Seats(N, j) = [x \in Names |-> IF x = sels(j)
                                THEN On(INTRA, IF j = 1 THEN 2 ELSE 0, N * sq(j))
                                ELSE Seats(N, j - 1)[x]]
<1>1. /\ N \in Nat /\ j - 1 \in Nat /\ (j - 1) + 1 = j /\ j \in 0 .. N /\ N \in 0 .. N
      /\ 0 \in 0 .. N /\ ~(j <= 0) /\ j <= j
    BY SelsAre
<1>2. /\ sels(j) # "A" /\ sels(j) \in Names /\ among(sels(j), j) /\ among(sels(j), N)
      /\ ~among(sels(j), 0)
      /\ rank(sels(j)) = j /\ seat(sels(j)) = IF j = 1 THEN 2 ELSE 0
    BY <1>1, SelsAre
<1>3. \A x \in Names : x # sels(j) => (among(x, j) <=> among(x, j - 1))
    BY <1>1, SelsAre
<1>4. \A x : worth(x, 0) = 0
    BY DEF worth, among
<1>5. Seats(j, 0) = [x \in Names |-> IF x = sels(j)
                                THEN On(INTRA, IF j = 1 THEN 2 ELSE 0, 0) ELSE Seats(j - 1, 0)[x]]
    BY <1>2, <1>3, <1>4 DEF Seats
<1>6. /\ worth(sels(j), j) = N * sq(j)
      /\ \A x \in Names : x # sels(j) => worth(x, j) = worth(x, j - 1)
    BY <1>2, <1>3 DEF worth
<1>7. Seats(N, j) = [x \in Names |-> IF x = sels(j)
                                THEN On(INTRA, IF j = 1 THEN 2 ELSE 0, N * sq(j))
                                ELSE Seats(N, j - 1)[x]]
    BY <1>2, <1>6 DEF Seats
<1> QED
    BY <1>5, <1>7

\* N INTRA_VIRT opens in a row: the first gets the second state, the others share it,
\* each with a context of its own.
LEMMA TeamOpened ==
    Balanced(ForThreads(LAMBDA t : Open(sels(t), INTRA)), Team(0, 0, {}, {}, 0, 0),
             Team(N, 0, {}, {}, 0, 0))
<1> DEFINE a == [t \in 1 .. N |-> Open(sels(t), INTRA)]
           h == [j \in 1 .. N + 1 |-> Team(j - 1, 0, {}, {}, 0, 0)]
<1>1. N \in Nat
    BY SelsAre
<1>2. h[1] = Team(0, 0, {}, {}, 0, 0) /\ h[N + 1] = Team(N, 0, {}, {}, 0, 0)
    <2>1. 1 - 1 = 0 /\ (N + 1) - 1 = N /\ 1 \in 1 .. N + 1 /\ N + 1 \in 1 .. N + 1
        BY <1>1
    <2> QED
        BY <2>1
<1>3. ASSUME NEW j \in 1 .. N
      PROVE  Books(a[j], h[j], h[j + 1])
    <2>1. PICK H, at, zero : H = Team(j - 1, 0, {}, {}, 0, 0) /\ zero = 0
                             /\ at = IF j = 1 THEN 2 ELSE 0
        OBVIOUS
    <2>2. h[j] = H /\ h[j + 1] = Team(j, 0, {}, {}, 0, 0) /\ a[j] = Open(sels(j), INTRA)
        <3>1. j \in 1 .. N + 1 /\ j + 1 \in 1 .. N + 1 /\ (j + 1) - 1 = j
            BY <1>1
        <3> QED
            BY <2>1, <3>1
    <2> HIDE DEF a, h
    <2>3. j - 1 \in 0 .. N /\ 0 \in 0 .. N /\ j > j - 1
        BY <1>1
    <2>4. /\ H.ctx["A"] = On(NO, 1, 0) /\ H.ctx[sels(j)] = Unheld /\ calm(H)
          /\ \A t \in 1 .. j - 1 : H.ctx[sels(t)] = On(INTRA, IF t = 1 THEN 2 ELSE 0, 0)
          /\ \A x \in Names : x # "A" /\ ~among(x, j - 1) => H.ctx[x] = Unheld
          /\ H.ctx = Seats(j - 1, 0) /\ H.picked = {} /\ H.ones = {} /\ H.twos = {}
          /\ H.sixres = 0 /\ H.sixsum = 0
        BY <2>1, <2>3, TeamIs DEF calm
    <2>5. context(H, "A") /\ H.ctx["A"].at = 1 /\ none(H, sels(j))
        BY <2>4, EntryIs, SelsAre DEF context, none
    <2>6. at = slot(H) /\ (at # 0 \/ \E u : context(H, u) /\ H.ctx[u].type = INTRA)
        <3>1. CASE j = 1
            <4>1. \A x \in Names : context(H, x) => x = "A"
                BY <2>4, <3>1, EntryIs DEF context, among
            <4> QED
                BY <2>1, <2>5, <3>1, <4>1, SelsAre DEF slot
        <3>2. CASE j # 1
            <4>1. 1 \in 1 .. j - 1
                BY <1>1, <3>2
            <4>2. /\ sels(1) \in Names /\ context(H, sels(1)) /\ H.ctx[sels(1)].at = 2
                  /\ H.ctx[sels(1)].type = INTRA
                BY <1>1, <2>4, <4>1, EntryIs, SelsAre DEF context
            <4> QED
                BY <2>1, <2>5, <3>2, <4>2, SelsAre DEF slot
        <3> QED
            BY <3>1, <3>2
    <2>7. Books(Open(sels(j), INTRA), H, Set(H, sels(j), On(INTRA, at, 0)))
        BY <2>4, <2>5, <2>6, OpenBook
    <2>8. Set(H, sels(j), On(INTRA, at, 0)) = Team(j, 0, {}, {}, 0, 0)
        <3>1. PICK e : e = On(INTRA, at, 0)
            OBVIOUS
        <3>2. Seats(j, 0) = [x \in Names |-> IF x = sels(j) THEN e ELSE Seats(j - 1, 0)[x]]
            BY <2>1, <3>1, SeatTaken
        <3>3. put(H, sels(j), e) = Seats(j, 0)
            BY <2>4, <3>2 DEF put
        <3> QED
            BY <2>4, <3>1, <3>3 DEF Set, Team
    <2> QED
        BY <2>2, <2>7, <2>8
<1>4. a = [j \in 1 .. N |-> a[j]]
    OBVIOUS
<1> HIDE DEF a, h
<1>5. Balanced(a, Team(0, 0, {}, {}, 0, 0), Team(N, 0, {}, {}, 0, 0))
    BY <1>1, <1>2, <1>3, <1>4, ManyBooks
<1> QED
    BY <1>5 DEF a, ForThreads

\* What one thread adds is a value of an int32_t.
LEMMA SquaresFit ==
    ASSUME Sized, NEW j \in 1 .. N
    PROVE  sq(j) \in Nat /\ N * sq(j) \in Nat /\ N * sq(j) < Half
<1>1. N \in Nat /\ Half \in Nat /\ N * N * N * N < Half
    BY HalfAssumption, SelsAre DEF Sized
<1>2. PICK u \in Nat : u = j - 1 /\ u <= N
    BY <1>1
<1>3. \A a, b, c \in Nat : a <= b => c * a <= c * b
    OBVIOUS
<1>4. u * u <= u * N /\ N * u <= N * N /\ u * N = N * u /\ u * u \in Nat /\ N * N \in Nat
    BY <1>1, <1>2, <1>3
<1>5. u * u <= N * N
    BY <1>1, <1>4
<1>6. N * (u * u) <= N * (N * N) /\ N * (N * N) = N * N * N /\ N * (u * u) \in Nat
    BY <1>1, <1>3, <1>4, <1>5
<1>7. N * N * N < Half
    <2>1. PICK m \in Nat : m = N * N * N /\ m * N < Half
        BY <1>1, <1>4
    <2>2. 1 <= N /\ m * 1 <= m * N /\ m * 1 = m
        BY <1>1, <1>3, <2>1
    <2> QED
        BY <1>1, <2>1, <2>2
<1> QED
    BY <1>1, <1>2, <1>4, <1>6, <1>7 DEF sq

\* N threads created: each context will have N times the square of the thread's number.
LEMMA TeamCreated ==
    ASSUME Sized
    PROVE  Balanced(ForThreads(LAMBDA t : Create(t, cx_mac_thread_2(t))),
                    Team(N, 0, {}, {}, 0, 0), Team(N, N, {}, 1 .. N, 0, 0))
<1> DEFINE a == [t \in 1 .. N |-> Create(t, cx_mac_thread_2(t))]
           h == [j \in 1 .. N + 1 |-> Team(N, j - 1, {}, 1 .. j - 1, 0, 0)]
<1>1. N \in Nat
    BY SelsAre
<1>2. h[1] = Team(N, 0, {}, {}, 0, 0) /\ h[N + 1] = Team(N, N, {}, 1 .. N, 0, 0)
    <2>1. 1 - 1 = 0 /\ 1 .. 1 - 1 = {} /\ (N + 1) - 1 = N /\ 1 \in 1 .. N + 1
          /\ N + 1 \in 1 .. N + 1
        BY <1>1
    <2> QED
        BY <2>1
<1>3. ASSUME NEW j \in 1 .. N
      PROVE  Books(a[j], h[j], h[j + 1])
    <2>1. PICK H, i, n, at : H = Team(N, j - 1, {}, 1 .. j - 1, 0, 0) /\ i = a[j]
                             /\ n = N * sq(j) /\ at = IF j = 1 THEN 2 ELSE 0
        OBVIOUS
    <2>2. h[j] = H /\ h[j + 1] = Team(N, j, {}, (1 .. j - 1) \cup {j}, 0, 0)
        <3>1. j \in 1 .. N + 1 /\ j + 1 \in 1 .. N + 1 /\ (j + 1) - 1 = j
              /\ 1 .. j = (1 .. j - 1) \cup {j}
            BY <1>1
        <3> QED
            BY <2>1, <3>1
    <2>3. i.op = "create" /\ i.body = cx_mac_thread_2(j) /\ i.t = j
        BY <2>1 DEF Create
    <2> HIDE DEF a, h
    <2>4. n \in Nat /\ n < Half /\ j \notin {} \cup (1 .. j - 1)
        BY <1>1, <2>1, SquaresFit
    <2>5. /\ H.ctx[sels(j)] = On(INTRA, at, 0) /\ H.ctx = Seats(N, j - 1) /\ H.picked = {}
          /\ H.ones = {} /\ H.twos = 1 .. j - 1 /\ H.sixres = 0 /\ H.sixsum = 0
        <3>1. N \in 0 .. N /\ j - 1 \in 0 .. N /\ ~(j <= j - 1)
            BY <1>1
        <3> QED
            BY <2>1, <3>1, TeamIs
    <2>6. PICK e : e = On(INTRA, at, n)
        OBVIOUS
    <2>7. /\ context(H, sels(j)) /\ H.ctx[sels(j)].acc = 0 /\ value_in(H, sels(j), n) = e
        BY <2>5, <2>6, EntryIs, SelsAre DEF context, value_in
    <2>8. put(H, sels(j), e) = Seats(N, j)
        <3>1. Seats(N, j) = [x \in Names |-> IF x = sels(j) THEN e ELSE Seats(N, j - 1)[x]]
            BY <2>1, <2>6, SeatTaken
        <3> QED
            BY <2>5, <3>1 DEF put
    <2>9. PICK G : G = Team(N, j, {}, (1 .. j - 1) \cup {j}, 0, 0)
        OBVIOUS
    <2>10. G = Book(put(H, sels(j), value_in(H, sels(j), n)), H.picked, H.ones,
                    H.twos \cup {j}, H.sixres, H.sixsum)
        BY <2>4, <2>5, <2>7, <2>8, <2>9 DEF Team
    <2>11. BookCreate2(i, H, G)
        <3>1. H.ctx[sels(j)].acc + N * sq(j) = n /\ i.t \notin H.ones \cup H.twos
            BY <2>1, <2>3, <2>4, <2>5, <2>7
        <3> QED
            BY Zenon, <2>3, <2>4, <2>7, <2>10, <3>1 DEF BookCreate2
    <2> QED
        BY <2>1, <2>2, <2>9, <2>11 DEF Books
<1>4. a = [j \in 1 .. N |-> a[j]]
    OBVIOUS
<1> HIDE DEF a, h
<1>5. Balanced(a, Team(N, 0, {}, {}, 0, 0), Team(N, N, {}, 1 .. N, 0, 0))
    BY <1>1, <1>2, <1>3, <1>4, ManyBooks
<1> QED
    BY <1>5 DEF a, ForThreads

\* Joining them leaves the contexts as they are.
LEMMA TeamJoined ==
    Balanced(JoinAll, Team(N, N, {}, 1 .. N, 0, 0), Team(N, N, {}, {}, 0, 0))
<1> DEFINE h == [j \in 1 .. N + 1 |-> Team(N, N, {}, j .. N, 0, 0)]
<1>1. N \in Nat
    BY SelsAre
<1>2. JoinAll = [t \in 1 .. N |-> JoinAll[t]] /\ \A t \in 1 .. N : JoinAll[t] = Join(t)
    BY DEF JoinAll, ForThreads
<1>3. h[1] = Team(N, N, {}, 1 .. N, 0, 0) /\ h[N + 1] = Team(N, N, {}, {}, 0, 0)
    <2>1. 1 \in 1 .. N + 1 /\ N + 1 \in 1 .. N + 1 /\ (N + 1) .. N = {}
        BY <1>1
    <2> QED
        BY <2>1
<1>4. ASSUME NEW j \in 1 .. N
      PROVE  Books(JoinAll[j], h[j], h[j + 1])
    <2>1. PICK H, i : H = Team(N, N, {}, j .. N, 0, 0) /\ i = Join(j)
        OBVIOUS
    <2>2. h[j] = H /\ h[j + 1] = Team(N, N, {}, (j .. N) \ {j}, 0, 0)
        <3>1. j \in 1 .. N + 1 /\ j + 1 \in 1 .. N + 1 /\ (j + 1) .. N = (j .. N) \ {j}
            BY <1>1
        <3> QED
            BY <2>1, <3>1
    <2>3. i.op = "join" /\ i.t = j
        BY <2>1 DEF Join
    <2> HIDE DEF h
    <2>4. H = Book(Seats(N, N), {}, {}, j .. N, 0, 0) /\ {} \ {j} = {}
        BY <2>1 DEF Team
    <2>5. BookJoin(i, H, Team(N, N, {}, (j .. N) \ {j}, 0, 0))
        BY <2>3, <2>4 DEF BookJoin, Team, Book
    <2> QED
        BY <1>2, <2>1, <2>2, <2>5 DEF Books
<1> HIDE DEF h
<1> QED
    BY <1>1, <1>2, <1>3, <1>4, ManyBooks

-----------------------------------------------------------------------------
\* Six times the sum of the squares below m.
six(m) == (m - 1) * m * (2 * m - 1)

\* The sum of the squares is a polynomial: its differences are the squares.
LEMMA SixIs ==
    /\ six(0) = 0
    /\ \A t \in Int : six(t) \in Int /\ sq(t) \in Int /\ six(t) = six(t - 1) + 6 * sq(t)
<1>1. six(0) = 0
    BY DEF six
<1>2. ASSUME NEW t \in Int
      PROVE  six(t) \in Int /\ sq(t) \in Int /\ six(t) = six(t - 1) + 6 * sq(t)
    <2>1. PICK u \in Int : u = t - 1
        OBVIOUS
    <2>2. t = u + 1 /\ 2 * t - 1 = 2 * u + 1 /\ (t - 1) - 1 = u - 1 /\ 2 * (t - 1) - 1 = 2 * u - 1
        BY <2>1
    <2>3. six(t) = u * (u + 1) * (2 * u + 1) /\ six(t - 1) = (u - 1) * u * (2 * u - 1)
          /\ sq(t) = u * u
        BY <2>1, <2>2 DEF six, sq
    <2>4. u * (u + 1) * (2 * u + 1) = (u - 1) * u * (2 * u - 1) + 6 * (u * u)
        OBVIOUS
    <2> QED
        BY <2>3, <2>4
<1> QED
    BY <1>1, <1>2

\* The sum main forms of the accumulators.
LEMMA TeamSummed ==
    \E s : Balanced([i \in 1 .. 2 * N |-> IF i % 2 = 1 THEN Sel(sels((i + 1) \div 2)) ELSE Add],
                    Team(N, N, {}, {}, 0, 0), Team(N, N, s, {}, N * six(N), 0))
<1> DEFINE a == [i \in 1 .. 2 * N |-> IF i % 2 = 1 THEN Sel(sels((i + 1) \div 2)) ELSE Add]
           at(j) == IF j = 1 THEN {} ELSE {sels(j \div 2)}
           h == [j \in 1 .. 2 * N + 1 |-> Team(N, N, at(j), {}, N * six((j - 1) \div 2), 0)]
<1>1. N \in Nat /\ 2 * N \in Nat /\ N \in 0 .. N
    BY SelsAre
<1>2. /\ h[1] = Team(N, N, {}, {}, 0, 0)
      /\ h[2 * N + 1] = Team(N, N, at(2 * N + 1), {}, N * six(N), 0)
    <2>1. (1 - 1) \div 2 = 0 /\ ((2 * N + 1) - 1) \div 2 = N /\ N * six(0) = 0
        BY <1>1, SixIs
    <2>2. 1 \in 1 .. 2 * N + 1 /\ 2 * N + 1 \in 1 .. 2 * N + 1 /\ at(1) = {}
        BY <1>1
    <2> HIDE DEF at
    <2> QED
        BY <2>1, <2>2
<1>3. ASSUME NEW m \in 1 .. N, NEW picked
      PROVE  /\ Books(Sel(sels(m)), Team(N, N, picked, {}, N * six(m - 1), 0),
                      Team(N, N, {sels(m)}, {}, N * six(m - 1), 0))
             /\ Books(Add, Team(N, N, {sels(m)}, {}, N * six(m - 1), 0),
                      Team(N, N, {sels(m)}, {}, N * six(m), 0))
    <2>1. PICK x, n, r : x = sels(m) /\ n = N * six(m - 1) /\ r = N * six(m)
        OBVIOUS
    <2>2. PICK H : H = Team(N, N, picked, {}, n, 0)
        OBVIOUS
    <2>3. PICK M : M = Team(N, N, {x}, {}, n, 0)
        OBVIOUS
    <2>4. /\ H.ctx = Seats(N, N) /\ H.ones = {} /\ H.twos = {} /\ H.sixres = n /\ H.sixsum = 0
          /\ H.ctx[x] = On(INTRA, IF m = 1 THEN 2 ELSE 0, N * sq(m))
        BY <1>1, <2>1, <2>2, TeamIs
    <2>5. /\ M.ctx = Seats(N, N) /\ M.picked = {x} /\ M.ones = {} /\ M.twos = {}
          /\ M.sixres = n /\ M.sixsum = 0
          /\ M.ctx[x] = On(INTRA, IF m = 1 THEN 2 ELSE 0, N * sq(m))
        BY <1>1, <2>1, <2>3, TeamIs
    <2>6. x \in Names /\ x # LEGACY
        BY <2>1, SelsAre
    <2>7. Books(Sel(x), H, M)
        <3>1. calm(H) /\ ~none(H, x)
            BY <2>4, EntryIs DEF calm, none
        <3>2. M = Book(H.ctx, {x}, H.ones, H.twos, H.sixres, H.sixsum)
            BY <2>3, <2>4 DEF Team
        <3> QED
            BY <2>6, <3>1, <3>2, SelBook
    <2>8. Books(Add, M, Team(N, N, {x}, {}, r, 0))
        <3>1. calm(M) /\ context(M, x) /\ M.ctx[x].acc = N * sq(m)
            BY <2>5, <2>6, EntryIs DEF calm, context
        <3>2. r = n + 6 * (N * sq(m))
            <4>1. six(m) = six(m - 1) + 6 * sq(m) /\ six(m - 1) \in Int /\ sq(m) \in Int
                BY <1>1, SixIs
            <4>2. \A u, v, w \in Int : u * (v + 6 * w) = u * v + 6 * (u * w)
                OBVIOUS
            <4> QED
                BY <1>1, <2>1, <4>1, <4>2
        <3>3. Team(N, N, {x}, {}, r, 0)
                  = Book(M.ctx, M.picked, M.ones, M.twos, M.sixres + 6 * M.ctx[x].acc, M.sixsum)
            BY <2>5, <3>1, <3>2 DEF Team
        <3>4. Add.op = "add"
            BY DEF Add
        <3>5. BookRead(Add, M, Team(N, N, {x}, {}, r, 0))
            BY <2>5, <2>6, <3>1, <3>3, <3>4 DEF BookRead
        <3> QED
            BY <3>1, <3>5 DEF Books, Alone
    <2> QED
        BY <2>1, <2>2, <2>3, <2>7, <2>8
<1>4. ASSUME NEW j \in 1 .. 2 * N
      PROVE  Books(a[j], h[j], h[j + 1])
    <2>1. j \in 1 .. 2 * N + 1 /\ j + 1 \in 1 .. 2 * N + 1 /\ (j + 1) - 1 = j
        BY <1>1
    <2>2. PICK m \in 1 .. N : j = 2 * m - 1 \/ j = 2 * m
        <3>1. (j + 1) \div 2 \in 1 .. N /\ (j = 2 * ((j + 1) \div 2) - 1 \/ j = 2 * ((j + 1) \div 2))
            BY <1>1
        <3> QED
            BY <3>1
    <2>3. CASE j = 2 * m - 1
        <3>1. j % 2 = 1 /\ (j + 1) \div 2 = m /\ (j - 1) \div 2 = m - 1 /\ j \div 2 = m - 1
              /\ j + 1 # 1
            BY <1>1, <2>3
        <3>2. a[j] = Sel(sels(m)) /\ at(j + 1) = {sels(m)}
            BY <3>1
        <3>3. /\ h[j] = Team(N, N, at(j), {}, N * six(m - 1), 0)
              /\ h[j + 1] = Team(N, N, at(j + 1), {}, N * six(m - 1), 0)
            <4> HIDE DEF at
            <4> QED
                BY <2>1, <3>1
        <3> HIDE DEF a, at, h
        <3> QED
            BY <1>3, <3>2, <3>3
    <2>4. CASE j = 2 * m
        <3>1. j % 2 # 1 /\ (j - 1) \div 2 = m - 1 /\ j \div 2 = m /\ (j + 1) \div 2 = m
              /\ j # 1 /\ j + 1 # 1
            BY <1>1, <2>4
        <3>2. a[j] = Add /\ at(j) = {sels(m)} /\ at(j + 1) = {sels(m)}
            BY <3>1
        <3>3. /\ h[j] = Team(N, N, at(j), {}, N * six(m - 1), 0)
              /\ h[j + 1] = Team(N, N, at(j + 1), {}, N * six(m), 0)
            <4> HIDE DEF at
            <4> QED
                BY <2>1, <3>1
        <3> HIDE DEF a, at, h
        <3> QED
            BY <1>3, <3>2, <3>3
    <2> QED
        BY <2>2, <2>3, <2>4
<1>5. a = [j \in 1 .. 2 * N |-> a[j]]
    OBVIOUS
<1> HIDE DEF a, h, at
<1>6. Balanced(a, Team(N, N, {}, {}, 0, 0), Team(N, N, at(2 * N + 1), {}, N * six(N), 0))
    BY <1>1, <1>2, <1>4, <1>5, ManyBooks
<1> QED
    BY <1>6 DEF a

\* The sum of the squares it forms in C.
LEMMA TeamSquared ==
    ASSUME NEW s, NEW r
    PROVE  Balanced(ForThreads(LAMBDA t : Square(t - 1)), Team(N, N, s, {}, r, 0),
                    Team(N, N, s, {}, r, six(N)))
<1> DEFINE a == [t \in 1 .. N |-> Square(t - 1)]
           h == [j \in 1 .. N + 1 |-> Team(N, N, s, {}, r, six(j - 1))]
<1>1. N \in Nat
    BY SelsAre
<1>2. h[1] = Team(N, N, s, {}, r, 0) /\ h[N + 1] = Team(N, N, s, {}, r, six(N))
    <2>1. 1 - 1 = 0 /\ (N + 1) - 1 = N /\ 1 \in 1 .. N + 1 /\ N + 1 \in 1 .. N + 1
        BY <1>1
    <2> QED
        BY <2>1, SixIs
<1>3. ASSUME NEW j \in 1 .. N
      PROVE  Books(a[j], h[j], h[j + 1])
    <2>1. PICK H, i, n : H = Team(N, N, s, {}, r, n) /\ i = a[j] /\ n = six(j - 1)
        OBVIOUS
    <2>2. h[j] = H /\ h[j + 1] = Team(N, N, s, {}, r, six(j))
        <3>1. j \in 1 .. N + 1 /\ j + 1 \in 1 .. N + 1 /\ (j + 1) - 1 = j
            BY <1>1
        <3> QED
            BY <2>1, <3>1
    <2>3. i.op = "square" /\ i.a = j - 1 /\ i.a \in Nat
        BY <1>1, <2>1 DEF Square
    <2> HIDE DEF a, h
    <2>4. H = Book(Seats(N, N), s, {}, {}, r, n)
        BY <2>1 DEF Team
    <2>5. six(j) = n + 6 * (i.a * i.a)
        BY <1>1, <2>1, <2>3, SixIs DEF sq
    <2>6. BookSquare(i, H, Team(N, N, s, {}, r, six(j))) /\ calm(H)
        BY <2>3, <2>4, <2>5 DEF BookSquare, Team, Book, calm
    <2> QED
        BY <2>1, <2>2, <2>6 DEF Books, Alone
<1>4. a = [j \in 1 .. N |-> a[j]]
    OBVIOUS
<1> HIDE DEF a, h
<1>5. Balanced(a, Team(N, N, s, {}, r, 0), Team(N, N, s, {}, r, six(N)))
    BY <1>1, <1>2, <1>3, <1>4, ManyBooks
<1> QED
    BY <1>5 DEF a, ForThreads

\* The sums are equal, and what is left of the ledger is closed.
LEMMA TeamClosed ==
    ASSUME NEW s, NEW H, H = Team(N, N, s, {}, N * six(N), six(N))
    PROVE  /\ Balanced(<<Total(N)>>, H, H)
           /\ \E M : /\ Balanced(ForThreads(LAMBDA t : Close(sels(t))), H, M)
                     /\ \E G : Balanced(<<Close("A")>>, M, G)
<1>1. /\ N \in Nat /\ H.ctx = Seats(N, N) /\ H.picked = s /\ H.ones = {} /\ H.twos = {}
      /\ H.sixres = N * six(N) /\ H.sixsum = six(N)
    BY SelsAre, TeamIs
<1>2. calm(H)
    BY <1>1 DEF calm
<1>3. Balanced(<<Total(N)>>, H, H)
    <2>1. PICK i : i = Total(N)
        OBVIOUS
    <2>2. i.op = "total" /\ i.n = N
        BY <2>1 DEF Total
    <2>3. BookCheck(i, H, H)
        BY <1>1, <2>2 DEF BookCheck
    <2>4. Books(i, H, H)
        BY <1>2, <2>3 DEF Books, Alone
    <2> QED
        BY <2>1, <2>4, OneBook
<1>4. H = Shut(H, {})
    <2>1. [x \in Names |-> IF x \in {} THEN Unheld ELSE H.ctx[x]] = Seats(N, N)
        BY <1>1 DEF Seats
    <2>2. s \ {} = s
        OBVIOUS
    <2>3. H = Book(Seats(N, N), s, {}, {}, N * six(N), six(N))
        BY DEF Team
    <2> QED
        BY <1>1, <2>1, <2>2, <2>3 DEF Shut
<1>5. PICK xs : xs = [t \in 1 .. N |-> sels(t)]
    OBVIOUS
<1>6. PICK M : M = Shut(H, {xs[i] : i \in 1 .. N})
    OBVIOUS
<1>7. Balanced([i \in 1 .. N |-> Close(xs[i])], H, M)
    BY <1>1, <1>2, <1>4, <1>6, ShutBooks
<1>8. ForThreads(LAMBDA t : Close(sels(t))) = [i \in 1 .. N |-> Close(xs[i])]
    BY <1>5 DEF ForThreads
<1>9. calm(M)
    BY <1>2, <1>6, ShutOne
<1>10. \E G : Balanced(<<Close("A")>>, M, G)
    BY <1>9, CloseBook, OneBook
<1> QED
    BY <1>3, <1>7, <1>8, <1>10

\* The first selector of multi_thread_2.
LEMMA TeamFounded == Balanced(<<Open("A", NO)>>, Blank({}), Team(0, 0, {}, {}, 0, 0))
<1>1. Spare("C", "D")
    BY DEF Spare, Labels
<1>2. PICK H : H = Desk("C", "D", Unheld, Unheld, Unheld, Unheld, {})
    OBVIOUS
<1>3. PICK G : G = Desk("C", "D", On(NO, 1, 0), Unheld, Unheld, Unheld, {})
    OBVIOUS
<1>4. Books(Open("A", NO), H, G)
    BY Zenon, <1>1, <1>2, <1>3, OpenA
<1>5. H = Blank({})
    BY Zenon, <1>2, DeskBlank
<1>6. G = Team(0, 0, {}, {}, 0, 0)
    <2>1. \A x : ~among(x, 0)
        BY DEF among
    <2>2. PICK e : e = On(NO, 1, 0)
        OBVIOUS
    <2>3. Seats(0, 0) = [x \in Names |-> IF x = "A" THEN e ELSE Unheld]
        BY <2>1, <2>2 DEF Seats
    <2>4. Entries("C", "D", e, Unheld, Unheld, Unheld)
              = [x \in Names |-> IF x = "A" THEN e ELSE Unheld]
        BY DEF Entries
    <2> QED
        BY Zenon, <1>3, <2>2, <2>3, <2>4 DEF Desk, Team
<1> QED
    BY Zenon, <1>4, <1>5, <1>6, OneBook

\* multi_thread_2: the threads add N times the square of their number to contexts of
\* their own, and N times the sum of the squares is the sum of the contexts.
LEMMA MultiThread2Books ==
    ASSUME Sized
    PROVE  \E G : Balanced(multi_thread_2, Blank({}), G)
<1> DEFINE first == <<Open("A", NO)>>
           opening == ForThreads(LAMBDA t : Open(sels(t), INTRA))
           workers == ForThreads(LAMBDA t : Create(t, cx_mac_thread_2(t)))
           reads == [i \in 1 .. 2 * N |-> IF i % 2 = 1 THEN Sel(sels((i + 1) \div 2)) ELSE Add]
           squares == ForThreads(LAMBDA t : Square(t - 1))
           total == <<Total(N)>>
           closing == ForThreads(LAMBDA t : Close(sels(t)))
           last == <<Close("A")>>
<1>1. Balanced(first, Blank({}), Team(0, 0, {}, {}, 0, 0))
    BY Zenon, TeamFounded
<1>2. Balanced(opening, Team(0, 0, {}, {}, 0, 0), Team(N, 0, {}, {}, 0, 0))
    BY Zenon, TeamOpened
<1>3. Balanced(workers, Team(N, 0, {}, {}, 0, 0), Team(N, N, {}, 1 .. N, 0, 0))
    BY Zenon, TeamCreated
<1>4. Balanced(JoinAll, Team(N, N, {}, 1 .. N, 0, 0), Team(N, N, {}, {}, 0, 0))
    BY Zenon, TeamJoined
<1>5. PICK s : Balanced(reads, Team(N, N, {}, {}, 0, 0), Team(N, N, s, {}, N * six(N), 0))
    BY Zenon, TeamSummed
<1>6. PICK H : H = Team(N, N, s, {}, N * six(N), six(N))
    OBVIOUS
<1>7. Balanced(squares, Team(N, N, s, {}, N * six(N), 0), H)
    BY Zenon, <1>6, TeamSquared
<1>8. Balanced(total, H, H)
    BY Zenon, <1>6, TeamClosed
<1>9. PICK M : Balanced(closing, H, M) /\ \E G : Balanced(last, M, G)
    BY Zenon, <1>6, TeamClosed
<1>10. PICK G : Balanced(last, M, G)
    BY Zenon, <1>9
<1> HIDE DEF first, opening, workers, reads, squares, total, closing, last
<1>11. Balanced((first \o opening) \o workers, Blank({}), Team(N, N, {}, 1 .. N, 0, 0))
    BY Zenon, <1>1, <1>2, <1>3, Joined
<1>12. Balanced(((first \o opening) \o workers) \o JoinAll, Blank({}),
                Team(N, N, {}, {}, 0, 0))
    BY Zenon, <1>4, <1>11, Joined
<1>13. Balanced((((first \o opening) \o workers) \o JoinAll) \o reads, Blank({}),
                Team(N, N, s, {}, N * six(N), 0))
    BY Zenon, <1>5, <1>12, Joined
<1>14. Balanced((((((first \o opening) \o workers) \o JoinAll) \o reads) \o squares) \o total,
                Blank({}), H)
    BY Zenon, <1>7, <1>8, <1>13, Joined
<1>15. Balanced((((((((first \o opening) \o workers) \o JoinAll) \o reads) \o squares)
                   \o total) \o closing) \o last, Blank({}), G)
    BY Zenon, <1>9, <1>10, <1>14, Joined
<1> QED
    BY <1>15 DEF multi_thread_2, ForThreads, first, opening, workers, reads, squares, total,
                 closing, last

\* multi_thread_2 after multi_thread_1.
LEMMA ThreadedTestBooks ==
    ASSUME Sized
    PROVE  \E G : Balanced(program("threaded_test.c"), Blank({LEGACY}), G)
<1>1. PICK G : Balanced(multi_thread_2, Blank({}), G)
    BY MultiThread2Books
<1>2. Balanced(multi_thread_1 \o multi_thread_2, Blank({LEGACY}), G)
    BY Zenon, <1>1, MultiThread1Books, Joined
<1> QED
    BY <1>2 DEF program

\* Every main function of examples/ keeps its books: on a CXU with the mulacc's
\* states, what the calls before it have done is what each assert states, but for
\* those that take the index cx_open returns for the selector's word (check_word),
\* of which the ledger asks nothing.
THEOREM ExamplesBalance ==
    ASSUME Sized
    PROVE  \A file \in Files : \E G : Balanced(program(file), Blank({LEGACY}), G)
BY ProgramAssumption, CxOpenBooks, IntraVirtBooks, StateFileBooks, StateTestFileBooks,
   StatelessBooks, ExampleBooks, ThreadedTestBooks

-----------------------------------------------------------------------------
(* The ledger and the state: which names stand for which selectors, which  *)
(* state they are on, what their accumulators hold, and what the live      *)
(* threads have left to add to them                                        *)

\* The ledger of a program, and that of main before its next call.
books(prog) == CHOOSE h : \E G : Account(h, prog, Blank({LEGACY}), G)
now == books(P)[k]

\* The names the program holds are those of the ledger.
Named == \A x \in Names : x \in L <=> ~none(now, x)
Kinds == \A x \in L : \/ /\ context(now, x) /\ var[x] \in opened
                         /\ asked[var[x]] = now.ctx[x].type
                      \/ soft(now, x) /\ var[x] = now.ctx[x].cx /\ var[x] \in Stateless
Places == \A x, y : context(now, x) /\ context(now, y) /\ now.ctx[x].at # 0 /\ now.ctx[y].at # 0
              => (home[var[x]] = home[var[y]] <=> now.ctx[x].at = now.ctx[y].at)
Selects(x) == /\ sel[main] = selector(x)
              /\ x # LEGACY => x \in Names /\ ~none(now, x)
Picks == DOMAIN sel = Threads /\ \A x \in now.picked : Selects(x)
Totals == /\ cxs = {} /\ res \in Int /\ scalar_sum \in Int
          /\ 6 * res = now.sixres /\ 6 * scalar_sum = now.sixsum
Own == \A v \in opened : proc(v) = p

\* The live threads.
Live == /\ now.ones \subseteq 1 .. N /\ now.twos \subseteq 1 .. N
        /\ \A t \in now.ones : /\ t \notin now.twos
                               /\ code[t] = cx_mac_thread_1
                               /\ sel[t] = var["B"] /\ context(now, "B")
        /\ \A t \in now.twos : /\ code[t] = cx_mac_thread_2(t) /\ pc[t] <= N + 2
                               /\ context(now, sels(t))
                               /\ pc[t] # 1 => sel[t] = var[sels(t)]
        /\ \A t \in 1 .. N : t \notin now.ones /\ t \notin now.twos => ended(t)

\* What they have left to add.
pending == {t \in now.ones : pc[t] = 1}
left(t) == IF t \notin now.twos THEN 0 ELSE IF pc[t] = 1 THEN N ELSE N + 2 - pc[t]

\* The accumulator of a context named x is n, less what the threads have left.
Stands(x, a, n) ==
    /\ x = "B" => a = n - 25 * Cardinality(pending)
    /\ \A t \in 1 .. N : x = sels(t) => a = n - left(t) * sq(t)
    /\ x \in Labels \ {"B"} => a = n
Stood(x) == /\ acc[var[x]] \in Nat
            /\ now.ctx[x].acc \in Int /\ now.ctx[x].acc < Half
            /\ Stands(x, acc[var[x]], now.ctx[x].acc)
Values == \A x : context(now, x) => Stood(x)

Corr == Named /\ Kinds /\ Places /\ Picks /\ Totals /\ Own /\ Live /\ Values

\* Every call of main is in its ledger.
LEMMA MainIsBooked ==
    ASSUME Sized, PTypes
    PROVE  /\ books(P)[1] = Blank({LEGACY})
           /\ \A j \in 1 .. Len(P) : Books(P[j], books(P)[j], books(P)[j + 1])
<1>1. PICK file \in Files : P = program(file)
    BY DEF PTypes
<1>2. \E h : \E G : Account(h, P, Blank({LEGACY}), G)
    BY Zenon, <1>1, ExamplesBalance DEF Balanced
<1>3. \E G : Account(books(P), P, Blank({LEGACY}), G)
    BY Zenon, <1>2 DEF books
<1> QED
    BY Zenon, <1>3 DEF Account

-----------------------------------------------------------------------------
(* What the calls do to the accumulators *)

\* An open empties the accumulator of the context it opens, and only that.
LEMMA AccOpened ==
    ASSUME IInv, IInv', NEW v \in Virts, NEW s \in States, cx_open(v, s)
    PROVE  acc'[v] = 0 /\ v \notin opened /\ \A w \in opened : acc'[w] = acc[w]
<1>1. Private!AOpen(v)
    BY OpenRefines
<1> QED
    BY <1>1 DEF Private!AOpen, Private!open, acc

\* A close leaves the other accumulators as they are.
LEMMA AccClosed ==
    ASSUME IInv, IInv', NEW v \in Virts, cx_close(v)
    PROVE  \A w \in opened \ {v} : acc'[w] = acc[w]
<1>1. Private!AClose(v)
    BY CloseRefines
<1> QED
    BY <1>1 DEF Private!AClose, Private!open, acc

\* The first custom function is mac.
LEMMA FirstFunc ==
    ASSUME NEW cf, cf = 0, NEW c, NEW a, NEW b
    PROVE  cx_func_mulacc(cf, c, a, b) = mac_func(c, a, b)
BY SMT DEF cx_func_mulacc, mac_func, reset_func, do_nothing, zero_mac_func, read_acc_func,
       Outcome

\* A mac whose product and sum are not negative and are words.
LEMMA AccMac ==
    ASSUME IInv, IInv', unit = "mulacc", NEW v \in Virts, NEW a \in Nat, NEW b \in Nat,
           execute(v, 0, a, b), acc[v] \in Nat, acc[v] + a * b < Half
    PROVE  /\ v \in opened /\ out' = acc[v] + a * b
           /\ acc' = [acc EXCEPT ![v] = acc[v] + a * b]
           /\ UNCHANGED <<opened, kvars>>
<1>1. PICK s \in States : resident[s] = v /\ Compute(s, 0, a, b)
    BY DEF execute
<1> DEFINE c == dirty(acc[v] + a * b)
<1>2. a * b \in Nat /\ Half \in Nat \ {0}
    BY HalfAssumption
<1>3. hw[s] \in Context /\ v # None /\ LoadedOnce'
    BY <1>1, VirtAssumption DEF IInv, TypeOK
<1>4. v \in opened /\ acc[v] = hw[s].data
    <2>1. [hw EXCEPT ![s] = hw[s]] = hw
        BY DEF IInv, TypeOK
    <2>2. v \in opened
        BY <1>1, <1>3 DEF IInv, LoadedOnce
    <2>3. value(v) = hw[s].data
        BY <1>1, <1>3, ValueIs DEF IInv, ValuesFollow
    <2> QED
        BY <2>2, <2>3 DEF acc
<1>5. Wrap(a * b) = a * b /\ Wrap(acc[v] + a * b) = acc[v] + a * b
    <2>1. a * b < Half
        BY <1>2
    <2>2. \A n \in Nat : n < Half => Wrap(n) = n
        BY <1>2 DEF Wrap
    <2> QED
        BY <1>2, <2>1, <2>2
<1>6. func(0, hw[s], a, b) = Outcome(acc[v] + a * b, c)
    <2>1. func(0, hw[s], a, b) = mac_func(hw[s], a, b)
        BY FirstFunc DEF func
    <2> QED
        BY <1>4, <1>5, <2>1 DEF mac_func, dirty
<1>7. hw' = [hw EXCEPT ![s] = c] /\ out' = acc[v] + a * b
    <2> DEFINE r == func(0, hw[s], a, b)
    <2>1. hw' = [hw EXCEPT ![s] = r.ctx] /\ out' = r.ret
        BY <1>1 DEF Compute
    <2>2. r.ctx = c /\ r.ret = acc[v] + a * b
        BY <1>6 DEF Outcome
    <2> HIDE DEF r, c
    <2> QED
        BY <2>1, <2>2
<1>8. UNCHANGED <<resident, saved, opened>> /\ UNCHANGED kvars
    BY <1>1 DEF Compute, execute
<1>9. c \in Context /\ c.data = acc[v] + a * b
    BY <1>2 DEF dirty, Context, CX_CS, Word
<1> HIDE DEF c
<1>10. acc' = [acc EXCEPT ![v] = c.data]
    BY <1>1, <1>3, <1>7, <1>8, <1>9, UseValues
<1> QED
    BY <1>4, <1>7, <1>8, <1>9, <1>10

\* Reading the state returns the accumulator.
LEMMA AccRead ==
    ASSUME IInv, IInv', NEW v \in Virts, read_state(v)
    PROVE  v \in opened /\ out' = acc[v] /\ acc' = acc /\ UNCHANGED <<opened, kvars>>
<1>1. PICK s \in States : resident[s] = v /\ CX_READ_STATE(s)
    BY DEF read_state
<1>2. Private!Read(v)
    BY <1>1, ReadRefines
<1>3. v \in opened /\ out' = acc[v] /\ acc' = [acc EXCEPT ![v] = acc[v]]
    BY <1>2 DEF Private!Read, Private!AUse, Private!open, acc
<1>4. acc' = acc
    BY <1>3 DEF acc
<1> QED
    BY <1>1, <1>3, <1>4 DEF CX_READ_STATE, read_state

\* A switch of contexts leaves all accumulators as they are,
LEMMA AccTrap ==
    ASSUME IInv, IInv', NEW v \in Virts, trap(v), KInv
    PROVE  acc' = acc /\ UNCHANGED <<opened, kvars>>
<1>1. v \in opened /\ home[v] \in States
    BY DEF trap, switch_to, KInv, Homes
<1> QED
    BY <1>1, SwitchRefines DEF trap, switch_to

\* and so does a step outside the CXU.
LEMMA AccSame == UNCHANGED vars => acc' = acc /\ UNCHANGED <<opened, unit>>
BY DEF vars, acc, value, loaded

\* The invariant: what is known while no assert has failed.
Good == PTypes /\ KInv /\ Holdings /\ IInv /\ Corr /\ ~failed

\* What a call of main does to the ledger.
LEMMA NowNext ==
    ASSUME Sized, PTypes, k \in 1 .. Len(P), P' = P, k' = k + 1
    PROVE  Books(P[k], now, now')
<1>1. Books(P[k], books(P)[k], books(P)[k + 1])
    BY MainIsBooked
<1> QED
    BY <1>1 DEF now

\* With no thread live the ledger has the accumulators as they are.
Exact == \A x : context(now, x) => /\ acc[var[x]] \in Nat /\ acc[var[x]] < Half
                                   /\ now.ctx[x].acc = acc[var[x]]

\* Without live threads nothing is left to add.
LEMMA CalmExact == calm(now) => (Values <=> Exact)
<1> SUFFICES ASSUME calm(now) PROVE Values <=> Exact
    OBVIOUS
<1>1. pending = {} /\ Cardinality(pending) = 0
    BY FS_EmptySet DEF calm, pending
<1>2. \A t \in 1 .. N : left(t) = 0 /\ sq(t) \in Int
    BY DEF calm, left, sq
<1>3. ASSUME NEW x \in Names, NEW a \in Int, NEW n \in Int
      PROVE  Stands(x, a, n) <=> a = n
    <2>1. x \in Labels \/ \E t \in 1 .. N : x = sels(t)
        BY DEF Names
    <2>2. \A t \in 1 .. N : n - left(t) * sq(t) = n
        BY <1>2
    <2>3. n - 25 * Cardinality(pending) = n
        BY <1>1
    <2> QED
        BY <2>1, <2>2, <2>3 DEF Stands
<1>5. ASSUME NEW x, context(now, x)
      PROVE  Stood(x) <=> /\ acc[var[x]] \in Nat /\ acc[var[x]] < Half
                          /\ now.ctx[x].acc = acc[var[x]]
    <2>1. x \in Names
        BY <1>5 DEF context
    <2> QED
        BY <1>3, <2>1 DEF Stood
<1> QED
    BY <1>5 DEF Values, Exact

\* The same after a step.
LEMMA CalmExactNext == calm(now)' => (Values' <=> Exact')
BY CalmExact, PTL

\* The contexts of the ledger and those that are open.
LEMMA ContextIs ==
    ASSUME Good, NEW x, context(now, x)
    PROVE  /\ x \in Names /\ x \in L /\ var[x] \in opened /\ var[x] \in Virts
           /\ asked[var[x]] = now.ctx[x].type /\ home[var[x]] \in States
           /\ proc(var[x]) = p
           /\ \A y : context(now, y) /\ var[y] = var[x] => y = x
<1>1. \A y : context(now, y) => y \in L /\ y \in Names
    BY DEF Good, Corr, Named, context, none
<1>2. ~soft(now, x)
    BY DEF soft, context
<1>3. var[x] \in opened /\ asked[var[x]] = now.ctx[x].type
    BY <1>1, <1>2 DEF Good, Corr, Kinds
<1>4. opened \subseteq Virts
    BY DEF Good, KInv, KTypes
<1> QED
    BY <1>1, <1>3, <1>4 DEF Good, Corr, Own, Holdings, KInv, Homes

\* Every open context is in the ledger.
LEMMA OpenedAreNamed ==
    ASSUME Good, NEW v \in opened
    PROVE  \E x : context(now, x) /\ var[x] = v
<1>1. PICK x \in L : var[x] = v
    BY DEF Good, Holdings
<1>2. v \notin Stateless
    BY StatelessApart DEF Good, KInv, KTypes
<1>3. context(now, x)
    BY <1>1, <1>2 DEF Good, Corr, Kinds
<1> QED
    BY <1>1, <1>3

\* A call of main that other threads are not live for leaves them ended.
LEMMA LiveCalm ==
    ASSUME Live, calm(now), calm(now'), code' = code, \A t \in 1 .. N : pc'[t] = pc[t]
    PROVE  Live'
BY DEF Live, calm, ended

-----------------------------------------------------------------------------
(* Which state a new context gets *)

\* The states of the mulacc.
LEMMA TwoStates == Sized => States = {0, 1}
<1> SUFFICES ASSUME Sized PROVE States = {0, 1}
    OBVIOUS
<1>1. States = 0 .. 1
    BY KernelAssumption DEF Sized, CX_MULACC_NUM_STATES
<1> QED
    BY <1>1

\* All contexts of the ledger on one state leave the other free.
LEMMA SlotFree ==
    ASSUME Sized, Good, slot(now) # 0
    PROVE  pool # << >> /\ slot(now) \in {1, 2}
           /\ \A y : context(now, y) => now.ctx[y].at \in {1, 2} /\ now.ctx[y].at # slot(now)
<1>1. /\ slot(now) = 1 => \A y : context(now, y) => now.ctx[y].at = 2
      /\ slot(now) # 1 => slot(now) = 2 /\ \A y : context(now, y) => now.ctx[y].at = 1
    BY DEF slot, context
<1>2. \A v, u \in opened : home[v] = home[u]
    <2> SUFFICES ASSUME NEW v \in opened, NEW u \in opened PROVE home[v] = home[u]
        OBVIOUS
    <2>1. PICK x : context(now, x) /\ var[x] = v
        BY OpenedAreNamed
    <2>2. PICK y : context(now, y) /\ var[y] = u
        BY OpenedAreNamed
    <2>3. now.ctx[x].at = now.ctx[y].at /\ now.ctx[x].at # 0
        BY <1>1, <2>1, <2>2
    <2> QED
        BY <2>1, <2>2, <2>3 DEF Good, Corr, Places
<1>3. 0 \in States /\ 1 \in States /\ 0 # 1
    BY TwoStates
<1>4. users(0) = {} \/ users(1) = {}
    BY <1>2, <1>3 DEF users
<1>5. \E s \in States : free(s)
    BY <1>3, <1>4 DEF Good, KInv, PoolFree
<1>6. pool # << >>
    <2>1. PICK s \in States : free(s)
        BY <1>5
    <2>2. PICK i \in 1 .. Len(pool) : TRUE
        BY <2>1 DEF free
    <2> QED
        BY <2>2, EmptySeq
<1> QED
    BY <1>1, <1>6

\* What the parts of Corr that are not about values have in common.
Kept == Named /\ Kinds /\ Places /\ Own

\* s is the state the ledger calls at: that of the contexts it has there, if any.
IsAt(s, at) == at # 0 => \A y : context(now, y) /\ now.ctx[y].at # 0
                                 => (home[var[y]] = s <=> now.ctx[y].at = at)

\* A context opened on s under a name that stood for none.
LEMMA KeptOpened ==
    ASSUME Good, NEW v \in Virts, NEW s \in States, NEW type, attach(v, type, s),
           proc(v) = p, NEW x \in Names, x \notin L, L' = L \cup {x},
           var' = [var EXCEPT ![x] = v], NEW at, NEW n,
           now'.ctx = put(now, x, On(type, at, n)),
           IsAt(s, at)
    PROVE  /\ Kept'
           /\ \A y : context(now', y) <=> y = x \/ context(now, y)
           /\ now'.ctx[x] = On(type, at, n) /\ var'[x] = v
           /\ \A y \in Names \ {x} : now'.ctx[y] = now.ctx[y] /\ var'[y] = var[y]
           /\ \A y \in L : var'[y] = var[y]
<1> DEFINE c == On(type, at, n)
<1>1. c.kind = "context" /\ c.type = type /\ c.at = at
    BY DEF On
<1> HIDE DEF c
<1>2. now'.ctx[x] = c /\ \A y \in Names \ {x} : now'.ctx[y] = now.ctx[y]
    BY DEF put, c
<1>3. var'[x] = v /\ \A y \in Names \ {x} : var'[y] = var[y]
    BY DEF Good, PTypes
<1>4. /\ v \notin opened /\ opened' = opened \cup {v} /\ opened \subseteq Virts
      /\ home' = [home EXCEPT ![v] = s] /\ asked' = [asked EXCEPT ![v] = type]
    BY DEF attach, cx_open, Good, KInv, KTypes
<1>5. /\ home'[v] = s /\ asked'[v] = type
      /\ \A w \in opened : home'[w] = home[w] /\ asked'[w] = asked[w]
    BY <1>4 DEF Good, KInv, KTypes
<1>6. \A y : context(now', y) <=> y = x \/ context(now, y)
    <2>1. ~context(now, x)
        BY DEF Good, Corr, Named, none, context
    <2> QED
        BY <1>1, <1>2, <2>1 DEF context
<1>7. Named'
    BY <1>1, <1>2 DEF Good, Corr, Named, none
<1>8. L \subseteq Names
    BY NamesHeld DEF Good
<1>9. Kinds'
    <2>1. ASSUME NEW y \in L
          PROVE  \/ /\ context(now', y) /\ var'[y] \in opened'
                    /\ asked'[var'[y]] = now'.ctx[y].type
                 \/ soft(now', y) /\ var'[y] = now'.ctx[y].cx /\ var'[y] \in Stateless
        <3>1. y \in Names /\ y # x
            BY <1>8
        <3>2. CASE soft(now, y) /\ var[y] = now.ctx[y].cx /\ var[y] \in Stateless
            BY <1>2, <1>3, <3>1, <3>2 DEF soft
        <3>3. CASE context(now, y) /\ var[y] \in opened /\ asked[var[y]] = now.ctx[y].type
            BY <1>2, <1>3, <1>4, <1>5, <1>6, <3>1, <3>3
        <3> QED
            BY <3>2, <3>3 DEF Good, Corr, Kinds
    <2>2. context(now', x) /\ var'[x] \in opened' /\ asked'[var'[x]] = now'.ctx[x].type
        BY <1>1, <1>2, <1>3, <1>4, <1>5, <1>6
    <2> QED
        BY <2>1, <2>2 DEF Kinds
<1>10. Places'
    <2>1. ASSUME NEW y, context(now, y)
          PROVE  /\ home'[var'[y]] = home[var[y]] /\ now'.ctx[y] = now.ctx[y] /\ y # x
        <3>1. y \in Names /\ y # x /\ var[y] \in opened
            BY <2>1, ContextIs
        <3> QED
            BY <3>1, <1>2, <1>3, <1>5
    <2>2. home'[var'[x]] = s /\ now'.ctx[x].at = at
        BY <1>1, <1>2, <1>3, <1>5
    <2>3. ASSUME NEW y, NEW z, context(now', y), context(now', z),
                 now'.ctx[y].at # 0, now'.ctx[z].at # 0
          PROVE  home'[var'[y]] = home'[var'[z]] <=> now'.ctx[y].at = now'.ctx[z].at
        <3>1. CASE y = x /\ z = x
            BY <3>1
        <3>2. CASE y = x /\ z # x
            BY <1>6, <2>1, <2>2, <2>3, <3>2 DEF IsAt
        <3>3. CASE y # x /\ z = x
            BY <1>6, <2>1, <2>2, <2>3, <3>3 DEF IsAt
        <3>4. CASE y # x /\ z # x
            BY <1>6, <2>1, <2>3, <3>4 DEF Good, Corr, Places
        <3> QED
            BY <3>1, <3>2, <3>3, <3>4
    <2> QED
        BY <2>3 DEF Places
<1>11. Own'
    BY <1>4 DEF Good, Corr, Own, proc
<1> QED
    BY <1>2, <1>3, <1>6, <1>7, <1>8, <1>9, <1>10, <1>11 DEF Kept, c

\* Which entry of the ledger's rules is for which call.
LEMMA BooksOf ==
    ASSUME NEW i, NEW H, NEW G, Books(i, H, G)
    PROVE  /\ i.op \notin {"create", "join"} => calm(H)
           /\ i.op = "open" => BookOpen(i, H, G) \/ BookFull(i, H, G)
           /\ i.op = "place" => BookPlace(i, H, G)
           /\ i.op = "open_cx" => BookOpenCx(i, H, G)
           /\ i.op = "close" => BookClose(i, H, G)
           /\ i.op = "sel" => BookSel(i, H, G)
           /\ i.op = "fn" => BookFn(i, H, G)
           /\ i.op = "mac" => BookMac(i, H, G)
           /\ i.op \in {"read", "add"} => BookRead(i, H, G)
           /\ i.op = "square" => BookSquare(i, H, G)
           /\ i.op \in {"legacy", "word", "same_sel", "error_test", "error_clear", "total"}
                 => BookCheck(i, H, G)
           /\ i.op = "open_unknown" => BookUnknown(i, H, G)
           /\ i.op = "create" => BookCreate1(i, H, G) \/ BookCreate2(i, H, G)
           /\ i.op = "join" => BookJoin(i, H, G)
BY SMTT(20) DEF Books, Alone, BookOpen, BookFull, BookPlace, BookOpenCx, BookClose, BookSel,
   BookFn, BookMac, BookRead, BookSquare, BookCheck, BookUnknown, BookCreate1, BookCreate2, BookJoin

\* What main's calls while no other thread is live have in common.
LEMMA CalmStep ==
    ASSUME Sized, Good, k \in 1 .. Len(P), P' = P, k' = k + 1, code' = code,
           advance(main), P[k].op \notin {"create", "join"}
    PROVE  /\ Books(P[k], now, now') /\ calm(now) /\ calm(now') /\ Live' /\ Exact
           /\ Exact' => Values'
<1>1. Books(P[k], now, now') /\ calm(now)
    BY NowNext, BooksOf DEF Good
<1>2. calm(now')
    BY <1>1 DEF Books, Alone, BookOpen, BookFull, BookPlace, BookOpenCx, BookClose, BookSel, BookFn,
       BookMac, BookRead, BookSquare, BookCheck, BookUnknown, BookCreate1, BookCreate2,
       BookJoin, calm, Book, Set
<1>3. \A t \in 1 .. N : pc'[t] = pc[t]
    BY MainOfThreads DEF advance, Good, PTypes, Threads
<1>4. Live'
    BY <1>1, <1>2, <1>3, LiveCalm DEF Good, Corr
<1>5. Exact
    BY <1>1, CalmExact DEF Good, Corr
<1> QED
    BY <1>1, <1>2, <1>4, <1>5, CalmExactNext

\* A name main selected is held.
LEMMA PickedHeld ==
    ASSUME Good, NEW y \in now.picked
    PROVE  /\ sel[main] = selector(y)
           /\ y # LEGACY => y \in Names /\ y \in L /\ ~none(now, y) /\ sel[main] = var[y]
<1>1. Selects(y)
    BY DEF Good, Corr, Picks
<1> QED
    BY <1>1 DEF Selects, selector, Good, Corr, Named

\* The selectors picked and the totals where a call leaves them.
LEMMA PicksKept ==
    ASSUME Good, now'.picked \subseteq now.picked,
           DOMAIN sel' = DOMAIN sel, sel'[main] = sel[main],
           \A y \in now.picked : y # LEGACY /\ y \in now'.picked
                => var'[y] = var[y] /\ ~none(now', y)
    PROVE  Picks'
<1>1. DOMAIN sel' = Threads
    BY DEF Good, Corr, Picks
<1>2. ASSUME NEW y \in now'.picked
      PROVE  Selects(y)'
    <2>1. y \in now.picked
        OBVIOUS
    <2>2. CASE y = LEGACY
        BY <2>1, <2>2, PickedHeld DEF Selects, selector
    <2>3. CASE y # LEGACY
        BY <2>1, <2>3, PickedHeld DEF Selects, selector
    <2> QED
        BY <2>2, <2>3
<1> QED
    BY <1>1, <1>2 DEF Picks

\* The sums where a call leaves them.
LEMMA TotalsKept ==
    ASSUME Good, now'.sixres = now.sixres, now'.sixsum = now.sixsum, UNCHANGED <<sums, cxs>>
    PROVE  Totals'
BY DEF Good, Corr, Totals, sums

-----------------------------------------------------------------------------
(* Open and place *)

\* A context opened by main, and what is open is valued as it was.
LEMMA CorrOpened ==
    ASSUME Sized, Good, IInv', k \in 1 .. Len(P), P' = P, k' = k + 1, code' = code, advance(main),
           P[k].op \in {"open", "place"}, NEW v \in Virts, NEW s \in States, NEW type,
           attach(v, type, s), proc(v) = p,
           NEW x, x \in Names, x \notin L, L' = L \cup {x}, x \notin now.picked,
           var' = [var EXCEPT ![x] = v], sel' = sel, UNCHANGED <<sums, cxs>>,
           NEW at, now' = Set(now, x, On(type, at, 0)),
           IsAt(s, at)
    PROVE  Corr'
<1>1. /\ now'.ctx = put(now, x, On(type, at, 0)) /\ now'.picked = now.picked
      /\ now'.sixres = now.sixres /\ now'.sixsum = now.sixsum
    BY DEF Set, Book
<1>2. /\ Kept'
      /\ \A y : context(now', y) <=> y = x \/ context(now, y)
      /\ now'.ctx[x] = On(type, at, 0) /\ var'[x] = v
      /\ \A y \in Names \ {x} : now'.ctx[y] = now.ctx[y] /\ var'[y] = var[y]
      /\ \A y \in L : var'[y] = var[y]
    <2> DEFINE n == 0
    <2>1. now'.ctx = put(now, x, On(type, at, n))
        BY <1>1
    <2> HIDE DEF n
    <2>2. /\ Kept'
          /\ \A y : context(now', y) <=> y = x \/ context(now, y)
          /\ now'.ctx[x] = On(type, at, n) /\ var'[x] = v
          /\ \A y \in Names \ {x} : now'.ctx[y] = now.ctx[y] /\ var'[y] = var[y]
          /\ \A y \in L : var'[y] = var[y]
        BY <2>1, KeptOpened
    <2> QED
        BY <2>2 DEF n
<1>3. Live' /\ Exact /\ (Exact' => Values')
    BY CalmStep
<1>4. acc'[v] = 0 /\ \A w \in opened : acc'[w] = acc[w]
    BY AccOpened DEF Good, attach
<1>5. Exact'
    <2>1. now'.ctx[x].acc = 0
        BY <1>2 DEF On
    <2>2. ASSUME NEW y, context(now, y)
          PROVE  var'[y] = var[y] /\ now'.ctx[y] = now.ctx[y] /\ acc'[var[y]] = acc[var[y]]
        <3>1. y \in L /\ y \in Names /\ y # x /\ var[y] \in opened
            BY <2>2, ContextIs
        <3> QED
            BY <3>1, <1>2, <1>4
    <2>3. 0 \in Nat /\ 0 < Half
        BY HalfAssumption
    <2> QED
        BY <1>2, <1>3, <1>4, <2>1, <2>2, <2>3 DEF Exact
<1>6. Picks'
    <2>1. \A y \in now.picked : y # LEGACY => y # x /\ y \in Names /\ ~none(now, y)
        BY PickedHeld
    <2> QED
        BY <1>1, <1>2, <2>1, PicksKept DEF none
<1>7. Totals'
    BY <1>1, TotalsKept
<1> QED
    BY <1>2, <1>3, <1>5, <1>6, <1>7 DEF Corr, Kept

\* An open by main: it succeeds where the ledger says so, and its context is on the
\* state the ledger says, and fails where the ledger says so.
LEMMA CorrOpen ==
    ASSUME Sized, Good, IInv', NEW t \in Threads, open(t)
    PROVE  Corr' /\ ~failed'
<1> DEFINE x == P[k].x
           type == P[k].type
<1>1. /\ t = main /\ P[k].op = "open" /\ next(t) = P[k] /\ k \in 1 .. Len(P)
      /\ P' = P /\ k' = k + 1
    BY OnlyMain, OpenStep DEF open, Good
<1>2. /\ x \in Names /\ type \in CX_SHARE_T /\ P[k].ok \in BOOLEAN
      /\ code' = code /\ advance(main) /\ sel' = sel /\ UNCHANGED <<sums, cxs, uses>>
    BY <1>1, MainIsBalanced DEF Proper, Good, open, stateless, asserts
<1>3. PICK v \in Virts :
          /\ new_entry(v)
          /\ \/ /\ \/ OpenFree(v, type)
                   \/ \E s \in States : OpenShared(v, type, s)
                /\ var' = [var EXCEPT ![x] = v]
                /\ assert(P[k].ok)
             \/ /\ OpenFails(v, type)
                /\ var' = [var EXCEPT ![x] = None]
                /\ assert(~P[k].ok)
    BY <1>1 DEF open
<1>4. v \notin opened /\ proc(v) = p
    BY <1>3 DEF new_entry, proc
<1>5. Books(P[k], now, now') /\ calm(now) /\ calm(now') /\ Live' /\ Exact /\ (Exact' => Values')
    BY <1>1, <1>2, CalmStep
<1>6. BookOpen(P[k], now, now') \/ BookFull(P[k], now, now')
    BY <1>1, <1>5, BooksOf
<1>7. x \notin L /\ x \notin now.picked
    BY <1>2, <1>6 DEF BookOpen, BookFull, Good, Corr, Named
<1> HIDE DEF x, type
<1>8. CASE BookOpen(P[k], now, now')
    <2>1. /\ P[k].ok /\ now' = Set(now, x, On(type, slot(now), 0))
          /\ \/ slot(now) # 0
             \/ type = INTRA /\ \E y : context(now, y) /\ now.ctx[y].type = INTRA
        BY <1>8 DEF BookOpen, x, type
    <2>2. L' = L \cup {x}
        BY <1>1, <2>1, HeldNext DEF opens, x, Good
    <2>3. ~OpenFails(v, type)
        <3> SUFFICES ASSUME OpenFails(v, type) PROVE FALSE
            OBVIOUS
        <3>1. slot(now) = 0
            BY SlotFree DEF OpenFails
        <3>2. PICK y : context(now, y) /\ now.ctx[y].type = INTRA /\ type = INTRA
            BY <2>1, <3>1
        <3>3. var[y] \in opened /\ asked[var[y]] = INTRA /\ home[var[y]] \in States
              /\ proc(var[y]) = p
            BY <3>2, ContextIs
        <3>4. may_share(v, type, home[var[y]])
            BY <1>4, <3>2, <3>3, ShareTypes DEF may_share, Good, KInv, Shares, INTRA
        <3> QED
            BY <3>3, <3>4 DEF OpenFails
    <2>4. ~OpenFails(v, type) => var' = [var EXCEPT ![x] = v] /\ failed' = FALSE
        BY <1>3, <2>1 DEF assert, Good
    <2>5. CASE \E s \in States : OpenShared(v, type, s)
        <3>1. PICK s \in States : OpenShared(v, type, s)
            BY <2>5
        <3>2. attach(v, type, s) /\ slot(now) = 0
            BY <3>1, SlotFree DEF OpenShared
        <3>3. var' = [var EXCEPT ![x] = v] /\ failed' = FALSE
            BY <2>3, <2>4
        <3>4. P[k].op \in {"open", "place"}
            BY <1>1
        <3>5. now' = Set(now, x, On(type, 0, 0)) /\ IsAt(s, 0)
            BY <2>1, <3>2 DEF IsAt
        <3> QED
            BY <1>1, <1>2, <1>4, <1>7, <2>2, <3>2, <3>3, <3>4, <3>5, CorrOpened DEF x
    <2>6. CASE OpenFree(v, type)
        <3> DEFINE s == Head(pool)
        <3>1. pool # << >> /\ attach(v, type, s)
            BY <2>6 DEF OpenFree, Pool!ADequeue
        <3>2. /\ Len(pool) \in Nat \ {0} /\ s = pool[1] /\ s \in States
            BY <3>1, HeadTailProperties, EmptySeq, LenProperties DEF Good, KInv, KTypes
        <3>3. users(s) = {}
            <4>1. 1 \in 1 .. Len(pool)
                BY <3>2
            <4> QED
                BY <3>2, <4>1 DEF Good, KInv, PoolFree, free
        <3> HIDE DEF s
        <3>4. \A y : context(now, y) => home[var[y]] # s
            BY <3>3, ContextIs DEF users
        <3>5. var' = [var EXCEPT ![x] = v] /\ failed' = FALSE
            BY <2>3, <2>4
        <3>6. P[k].op \in {"open", "place"}
            BY <1>1
        <3> DEFINE at == slot(now)
        <3>7. IsAt(s, at)
            BY <3>4, SlotFree DEF IsAt
        <3>8. now' = Set(now, x, On(type, at, 0))
            BY <2>1
        <3> HIDE DEF at
        <3> QED
            BY <1>1, <1>2, <1>4, <1>7, <2>2, <3>1, <3>2, <3>5, <3>6, <3>7, <3>8, CorrOpened DEF x
    <2> QED
        BY <1>3, <2>3, <2>5, <2>6
<1>9. CASE BookFull(P[k], now, now')
    <2>1. ~P[k].ok /\ type = NO /\ now' = now
        BY <1>9 DEF BookFull, type
    <2>2. PICK y, z : /\ y # z /\ context(now, y) /\ context(now, z)
                      /\ now.ctx[y].type = NO /\ now.ctx[z].type = NO
        BY <1>9 DEF BookFull
    <2>3. /\ var[y] \in opened /\ var[z] \in opened /\ var[y] # var[z]
          /\ asked[var[y]] = NO /\ home[var[y]] \in States /\ home[var[z]] \in States
          /\ asked[var[z]] = NO
        BY <2>2, ContextIs
    <2>4. home[var[y]] # home[var[z]]
        BY <2>3 DEF Good, KInv, Shares, NO
    <2>5. \A s \in States : users(s) # {}
        BY <2>3, <2>4, TwoStates DEF users
    <2>6. pool = << >>
        <3> SUFFICES ASSUME pool # << >> PROVE FALSE
            OBVIOUS
        <3>1. 1 \in 1 .. Len(pool) /\ pool[1] \in States
            BY EmptySeq, LenProperties DEF Good, KInv, KTypes
        <3> QED
            BY <2>5, <3>1 DEF Good, KInv, PoolFree, free
    <2>7. OpenFails(v, type)
        BY <1>3, <2>1, <2>6, ShareTypes DEF OpenFree, OpenShared, may_share, NO
    <2>8. ~OpenFree(v, type) /\ \A s \in States : ~OpenShared(v, type, s)
        BY <2>1, <2>6, ShareTypes DEF OpenFree, OpenShared, may_share, NO
    <2>9. var' = [var EXCEPT ![x] = None] /\ failed' = FALSE
        BY <1>3, <2>1, <2>8 DEF assert, Good
    <2>10. UNCHANGED <<vars, home, asked>>
        BY <2>7 DEF OpenFails
    <2>11. L' = L
        BY <1>1, <2>1, HeldNext DEF opens, Good
    <2>12. \A w \in Names \ {x} : var'[w] = var[w]
        BY <2>9 DEF Good, PTypes
    <2>13. L \subseteq Names /\ x \notin L
        BY <1>7, NamesHeld DEF Good
    <2>14. \A w : context(now, w) => var'[w] = var[w]
        BY <2>12, <2>13, ContextIs
    <2>15. acc' = acc /\ opened' = opened
        BY <2>10, AccSame
    <2>16. Kept'
        <3>1. Named' /\ Own'
            BY <2>1, <2>11, <2>15 DEF Good, Corr, Named, Own
        <3>2. Kinds'
            BY <2>1, <2>10, <2>11, <2>12, <2>13, <2>15 DEF Good, Corr, Kinds
        <3>3. Places'
            BY <2>1, <2>10, <2>14 DEF Good, Corr, Places
        <3> QED
            BY <3>1, <3>2, <3>3 DEF Kept
    <2>17. Exact'
        BY <1>5, <2>1, <2>14, <2>15 DEF Exact
    <2>18. Picks'
        <3>1. \A w \in now.picked : w # LEGACY => w \in Names \ {x} /\ ~none(now, w)
            BY <1>7, PickedHeld
        <3> QED
            BY <1>2, <2>1, <2>12, <3>1, PicksKept
    <2>19. Totals'
        BY <1>2, <2>1, TotalsKept
    <2> QED
        BY <1>5, <2>9, <2>16, <2>17, <2>18, <2>19 DEF Corr, Kept
<1> QED
    BY <1>6, <1>8, <1>9

\* An open by main on the state of another selector.
LEMMA CorrPlace ==
    ASSUME Sized, Good, IInv', NEW t \in Threads, place(t)
    PROVE  Corr' /\ ~failed'
<1> DEFINE x == P[k].x
           y == P[k].at
<1>1. /\ t = main /\ P[k].op = "place" /\ next(t) = P[k] /\ k \in 1 .. Len(P)
      /\ P' = P /\ k' = k + 1 /\ P[k].op \in {"open", "place"}
    BY OnlyMain, PlaceStep DEF place, Good
<1>2. /\ x \in Names /\ failed' = failed
      /\ code' = code /\ advance(main) /\ sel' = sel /\ UNCHANGED <<sums, cxs, uses>>
    BY <1>1, MainIsBalanced DEF Proper, Good, place, stateless, asserts
<1>3. PICK v \in Virts : /\ new_entry(v)
                         /\ OpenPlaced(v, var[y])
                         /\ var' = [var EXCEPT ![x] = v]
    BY <1>1 DEF place
<1>4. v \notin opened /\ proc(v) = p
    BY <1>3 DEF new_entry, proc
<1>5. BookPlace(P[k], now, now')
    BY <1>1, <1>2, CalmStep, BooksOf
<1>6. x \notin L /\ x \notin now.picked /\ L' = L \cup {x} /\ context(now, y)
    BY <1>1, <1>2, <1>5, HeldNext DEF BookPlace, Good, Corr, Named, opens
<1> DEFINE s == home[var[y]]
           at == now.ctx[y].at
<1>7. attach(v, INTRA, s) /\ s \in States
    BY <1>3, <1>6, ContextIs DEF OpenPlaced, INTRA
<1>8. IsAt(s, at)
    BY <1>6 DEF IsAt, Good, Corr, Places
<1>9. now' = Set(now, x, On(INTRA, at, 0))
    BY <1>5 DEF BookPlace
<1> HIDE DEF x, y, s, at
<1> QED
    BY <1>1, <1>2, <1>3, <1>4, <1>6, <1>7, <1>8, <1>9, CorrOpened DEF Good

-----------------------------------------------------------------------------
(* Calls that leave the contexts as they are *)

\* A call that leaves the contexts of the ledger as they are.
LEMMA KeptSame ==
    ASSUME Good, now'.ctx = now.ctx, L' = L, \A y \in L : var'[y] = var[y],
           UNCHANGED <<opened, home, asked>>
    PROVE  Kept' /\ \A y : context(now', y) <=> context(now, y)
<1>1. \A y : context(now', y) <=> context(now, y)
    BY DEF context
<1>2. \A y : context(now, y) => var'[y] = var[y]
    BY ContextIs
<1>3. Named' /\ Own'
    BY DEF Good, Corr, Named, none, Own
<1>4. Kinds'
    BY <1>1 DEF Good, Corr, Kinds, soft
<1>5. Places'
    BY <1>1, <1>2 DEF Good, Corr, Places
<1> QED
    BY <1>1, <1>3, <1>4, <1>5 DEF Kept

\* A call of main that opens and closes nothing and uses no context.
LEMMA CorrIdle ==
    ASSUME Sized, Good, k \in 1 .. Len(P), P' = P, k' = k + 1, code' = code, advance(main),
           P[k].op \notin {"open", "place", "open_cx", "close", "create", "join"},
           now'.ctx = now.ctx, var' = var, UNCHANGED kvars, UNCHANGED opened, acc' = acc,
           Picks', Totals'
    PROVE  Corr'
<1>1. L' = L
    BY HeldNext DEF opens, Good
<1>2. UNCHANGED <<home, asked>>
    BY DEF kvars
<1>3. Kept' /\ \A y : context(now', y) <=> context(now, y)
    BY <1>1, <1>2, KeptSame
<1>4. Live' /\ Exact /\ (Exact' => Values')
    BY CalmStep
<1>5. Exact'
    BY <1>3, <1>4 DEF Exact
<1> QED
    BY <1>3, <1>4, <1>5 DEF Corr, Kept

\* An open that finds no CX: the name stood for none, and does so after it.
LEMMA CorrUnknown ==
    ASSUME Sized, Good, NEW t \in Threads, open_unknown(t)
    PROVE  Corr' /\ ~failed'
<1> DEFINE x == P[k].x
<1>1. /\ t = main /\ P[k].op = "open_unknown" /\ next(t) = P[k] /\ k \in 1 .. Len(P)
      /\ P' = P /\ k' = k + 1 /\ UNCHANGED <<vars, kvars>>
    BY OnlyMain, UnknownStep DEF open_unknown, Good
<1>2. /\ code' = code /\ advance(main) /\ sel' = sel /\ UNCHANGED <<sums, cxs>>
      /\ var' = [var EXCEPT ![x] = None] /\ assert(var'[x] = None)
    BY <1>1 DEF open_unknown, stateless
<1>3. Books(P[k], now, now') /\ Live' /\ Exact /\ (Exact' => Values')
    BY <1>1, <1>2, CalmStep
<1>4. now' = now /\ none(now, x) /\ x \in Names /\ x \notin now.picked
    BY <1>1, <1>3, BooksOf, MainIsBalanced DEF BookUnknown, Proper, Good
<1>5. x \notin L /\ L' = L /\ L \subseteq Names
    BY <1>1, <1>4, HeldNext, NamesHeld DEF Good, Corr, Named, opens
<1> HIDE DEF x
<1>6. var'[x] = None /\ \A y \in Names \ {x} : var'[y] = var[y]
    BY <1>2, <1>4 DEF Good, PTypes
<1>7. failed' = FALSE
    BY <1>2, <1>6 DEF assert, Good
<1>8. acc' = acc /\ UNCHANGED <<opened, home, asked>>
    BY <1>1, AccSame DEF kvars
<1>9. Kept' /\ \A y : context(now', y) <=> context(now, y)
    BY <1>4, <1>5, <1>6, <1>8, KeptSame
<1>10. \A y : context(now, y) => var'[y] = var[y]
    BY <1>5, <1>6, ContextIs
<1>11. Exact'
    BY <1>3, <1>4, <1>8, <1>10 DEF Exact
<1>12. Picks'
    <2>1. \A y \in now.picked : y # LEGACY => y \in Names \ {x} /\ ~none(now, y)
        BY <1>4, PickedHeld
    <2> QED
        BY <1>2, <1>4, <1>6, <2>1, PicksKept
<1>13. Totals'
    BY <1>2, <1>4, TotalsKept
<1> QED
    BY <1>3, <1>7, <1>9, <1>11, <1>12, <1>13 DEF Corr, Kept

\* The steps of main that are not on the kernel: which call, and the frame.
LEMMA CorrSelect ==
    ASSUME Sized, Good, select(main)
    PROVE  Corr' /\ ~failed'
<1>1. /\ P[k].op = "sel" /\ next(main) = P[k] /\ k \in 1 .. Len(P)
      /\ P' = P /\ k' = k + 1
    BY NextInstruction, OtherStep, MainOfThreads DEF select, runs, Good
<1>2. /\ UNCHANGED <<vars, kvars, code, var, sums, failed, stateless>> /\ advance(main)
      /\ sel' = [sel EXCEPT ![main] = selector(P[k].x)]
    BY <1>1 DEF select, asserts
<1>3. Books(P[k], now, now')
    BY <1>1, <1>2, CalmStep
<1>4. BookSel(P[k], now, now')
    BY <1>1, <1>3, BooksOf
<1>5. /\ now'.ctx = now.ctx /\ now'.picked = {P[k].x}
      /\ now'.sixres = now.sixres /\ now'.sixsum = now.sixsum
      /\ P[k].x # LEGACY => P[k].x \in Names /\ ~none(now, P[k].x)
    BY <1>4 DEF BookSel, Book
<1>6. Picks'
    <2>1. sel'[main] = selector(P[k].x)
        BY <1>2, MainOfThreads DEF Good, Corr, Picks
    <2>2. DOMAIN sel' = Threads
        BY <1>2 DEF Good, Corr, Picks
    <2> QED
        BY <1>2, <1>5, <2>1, <2>2 DEF Picks, Selects, selector, none
<1>7. Totals'
    BY <1>2, <1>5, TotalsKept DEF stateless, asserts
<1>8. acc' = acc /\ opened' = opened /\ var' = var /\ UNCHANGED kvars
    BY <1>2, AccSame
<1>9. P[k].op \notin {"open", "place", "open_cx", "close", "create", "join"}
    BY <1>1
<1> QED
    BY <1>1, <1>2, <1>5, <1>6, <1>7, <1>8, <1>9, CorrIdle DEF Good

\* The instruction of main that is not a system call, and where it leads.
LEMMA MainStep ==
    ASSUME Sized, Good, ~ended(main),
           \/ mac(main) \/ read(main) \/ fn(main) \/ error_clear(main) \/ square(main)
           \/ check(main) \/ check_word(main)
    PROVE  /\ next(main) = P[k] /\ k \in 1 .. Len(P) /\ P' = P /\ k' = k + 1
           /\ UNCHANGED <<code, sel, var, uses>> /\ advance(main)
           /\ P[k].op \notin {"open", "place", "open_cx", "close", "create", "join"}
           /\ Books(P[k], now, now') /\ Exact
<1>1. /\ next(main) = P[k] /\ k \in 1 .. Len(P) /\ P' = P /\ k' = k + 1
    BY NextInstruction, OtherStep, MainOfThreads DEF Good
<1>2. UNCHANGED <<code, sel, var, uses>> /\ advance(main)
    BY DEF mac, read, fn, error_clear, square, check, check_word, stateless, asserts
<1>3. P[k].op \notin {"open", "place", "open_cx", "close", "create", "join"}
    BY <1>1 DEF mac, read, fn, error_clear, square, check, check_word, runs
<1>4. Books(P[k], now, now') /\ Exact
    BY <1>1, <1>2, <1>3, CalmStep
<1> QED
    BY <1>1, <1>2, <1>3, <1>4

\* With the same names selected.
LEMMA PicksSame ==
    ASSUME Good, now'.picked = now.picked, var' = var,
           DOMAIN sel' = DOMAIN sel, sel'[main] = sel[main],
           \A y \in Names : none(now', y) <=> none(now, y)
    PROVE  Picks'
BY PickedHeld, PicksKept

\* A function of a stateless CX answers as the ledger says, and raises no flag.
LEMMA CorrFn ==
    ASSUME Sized, Good, fn(main)
    PROVE  Corr' /\ ~failed'
<1>1. /\ next(main) = P[k] /\ k \in 1 .. Len(P) /\ P' = P /\ k' = k + 1
      /\ UNCHANGED <<code, sel, var, uses>> /\ advance(main)
      /\ P[k].op \notin {"open", "place", "open_cx", "close", "create", "join"}
      /\ Books(P[k], now, now')
    BY MainStep DEF fn, runs
<1>2. BookFn(P[k], now, now')
    BY <1>1, BooksOf DEF fn, runs
<1>3. PICK x \in now.picked \ {LEGACY} :
          /\ soft(now, x)
          /\ expected(P[k], value_of(result(now.ctx[x].cx, P[k])))
          /\ flags_of(result(now.ctx[x].cx, P[k])) = {}
    BY <1>2 DEF BookFn
<1> DEFINE r == result(now.ctx[x].cx, P[k])
<1>4. sel[main] = var[x] /\ x \in L
    BY <1>3, PickedHeld
<1>5. var[x] = now.ctx[x].cx
    BY <1>3, <1>4 DEF Good, Corr, Kinds, soft, context
<1>6. assert(expected(P[k], value_of(r))) /\ cxs' = cxs \cup flags_of(r)
    BY <1>1, <1>4, <1>5 DEF fn, result
<1> HIDE DEF r
<1>7. ~failed' /\ cxs' = {}
    BY <1>3, <1>6 DEF assert, Good, Corr, Totals, r
<1>8. now' = now /\ UNCHANGED <<vars, kvars, sums>>
    BY <1>2 DEF BookFn, fn
<1>9. Picks'
    BY <1>1, <1>8, PicksSame
<1>10. Totals'
    BY <1>7, <1>8 DEF Good, Corr, Totals, sums
<1>11. acc' = acc /\ opened' = opened
    BY <1>8, AccSame
<1> QED
    BY <1>1, <1>7, <1>8, <1>9, <1>10, <1>11, CorrIdle DEF Good

\* The calls that neither the kernel nor a CXU sees.
LEMMA CorrScalar ==
    ASSUME Sized, Good,
           error_clear(main) \/ square(main) \/ check(main) \/ check_word(main)
    PROVE  Corr' /\ ~failed'
<1>1. /\ next(main) = P[k] /\ k \in 1 .. Len(P) /\ P' = P /\ k' = k + 1
      /\ UNCHANGED <<code, sel, var, uses>> /\ advance(main)
      /\ P[k].op \notin {"open", "place", "open_cx", "close", "create", "join"}
      /\ Books(P[k], now, now')
    BY MainStep DEF error_clear, square, check, check_word, runs
<1>2. UNCHANGED <<vars, kvars>>
    BY DEF error_clear, square, check, check_word
<1>3. acc' = acc /\ opened' = opened
    BY <1>2, AccSame
<1>4. CASE square(main)
    <2>1. P[k].op = "square" /\ ~failed' /\ cxs' = cxs /\ res' = res
          /\ scalar_sum' = scalar_sum + P[k].a * P[k].a
        BY <1>1, <1>4 DEF square, runs, Good, stateless, asserts
    <2>2. BookSquare(P[k], now, now')
        BY <1>1, <2>1, BooksOf
    <2> DEFINE n == P[k].a * P[k].a
    <2>3. /\ now'.ctx = now.ctx /\ now'.picked = now.picked /\ now'.sixres = now.sixres
          /\ now'.sixsum = now.sixsum + 6 * n /\ n \in Int
        BY <2>2 DEF BookSquare, Book
    <2> HIDE DEF n
    <2>4. Picks'
        BY <1>1, <2>3, PicksSame DEF none
    <2>5. Totals'
        <3>1. scalar_sum' = scalar_sum + n
            BY <2>1 DEF n
        <3>2. /\ cxs = {} /\ res \in Int /\ scalar_sum \in Int
              /\ 6 * res = now.sixres /\ 6 * scalar_sum = now.sixsum
            BY DEF Good, Corr, Totals
        <3>3. 6 * (scalar_sum + n) = 6 * scalar_sum + 6 * n
            BY <2>3, <3>2
        <3> QED
            BY <2>1, <2>3, <3>1, <3>2, <3>3 DEF Totals
    <2> QED
        BY <1>1, <1>2, <1>3, <2>1, <2>3, <2>4, <2>5, CorrIdle DEF Good
<1>5. CASE error_clear(main) \/ check(main) \/ check_word(main)
    <2>1. P[k].op \in {"legacy", "word", "same_sel", "error_test", "error_clear", "total"}
        BY <1>1, <1>5 DEF error_clear, check, check_word, runs
    <2>2. BookCheck(P[k], now, now') /\ now' = now
        <3>1. BookCheck(P[k], now, now')
            BY <1>1, <2>1, BooksOf
        <3> QED
            BY <3>1 DEF BookCheck
    <2>3. Picks'
        BY <1>1, <2>2, PicksSame
    <2>4. cxs = {} /\ UNCHANGED sums /\ cxs' = {}
        BY <1>5 DEF error_clear, check, check_word, stateless, asserts, Good, Corr, Totals
    <2>5. Totals'
        BY <2>2, <2>4 DEF Good, Corr, Totals, sums
    <2>6. ASSUME P[k].op = "legacy"
          PROVE  mcx_selector(main) = CX_LEGACY
        <3>1. LEGACY \in now.picked
            BY <2>2, <2>6 DEF BookCheck
        <3> QED
            BY <3>1, PickedHeld DEF selector, mcx_selector
    <2>7. ASSUME P[k].op = "same_sel"
          PROVE  (var[P[k].x] = var[P[k].y]) = P[k].r
        <3> DEFINE x == P[k].x
                   y == P[k].y
        <3>1. /\ soft(now, x) /\ soft(now, y)
              /\ IF now.ctx[x].cx = now.ctx[y].cx THEN P[k].r = TRUE ELSE P[k].r = FALSE
            BY <2>2, <2>7 DEF BookCheck
        <3>2. ASSUME NEW z, soft(now, z)
              PROVE  var[z] = now.ctx[z].cx
            BY <3>2 DEF Good, Corr, Named, Kinds, soft, context, none
        <3> HIDE DEF x, y
        <3>3. var[x] = now.ctx[x].cx /\ var[y] = now.ctx[y].cx
            BY <3>1, <3>2
        <3>4. (var[x] = var[y]) = P[k].r
            BY <3>1, <3>3
        <3> QED
            BY <3>4 DEF x, y
    <2>8. ASSUME P[k].op = "total"
          PROVE  res = P[k].n * scalar_sum
        <3>1. P[k].n \in Nat /\ now.sixres = P[k].n * now.sixsum
            BY <2>2, <2>8 DEF BookCheck
        <3>2. /\ res \in Int /\ scalar_sum \in Int
              /\ 6 * res = now.sixres /\ 6 * scalar_sum = now.sixsum
            BY DEF Good, Corr, Totals
        <3> DEFINE m == P[k].n * scalar_sum
        <3>3. 6 * res = 6 * m /\ m \in Int
            BY <3>1, <3>2
        <3> HIDE DEF m
        <3>4. res = m
            BY <3>2, <3>3
        <3> QED
            BY <3>4 DEF m
    <2>9. ~failed'
        <3>1. CASE error_clear(main) \/ check_word(main)
            BY <3>1 DEF error_clear, check_word, asserts, Good
        <3>2. CASE check(main)
            <4>1. \/ P[k].op = "legacy" /\ assert(mcx_selector(main) = CX_LEGACY)
                  \/ P[k].op = "same_sel" /\ assert((var[P[k].x] = var[P[k].y]) = P[k].r)
                  \/ P[k].op = "error_test" /\ assert(cxs = {})
                  \/ P[k].op = "total" /\ assert(res = P[k].n * scalar_sum)
                BY <1>1, <3>2 DEF check, runs
            <4>2. \A b : assert(b) /\ b => ~failed'
                BY DEF assert, Good
            <4> QED
                BY <2>4, <2>6, <2>7, <2>8, <4>1, <4>2
        <3> QED
            BY <1>5, <3>1, <3>2
    <2> QED
        BY <1>1, <1>2, <1>3, <2>2, <2>3, <2>5, <2>9, CorrIdle DEF Good
<1> QED
    BY <1>4, <1>5

\* A context main selected.
LEMMA SelectedContext ==
    ASSUME Good, NEW x \in now.picked \ {LEGACY}, context(now, x)
    PROVE  /\ sel[main] = var[x] /\ var[x] \in Virts /\ var[x] \in opened
           /\ \A y : context(now, y) /\ var[y] = var[x] => y = x
BY PickedHeld, ContextIs

\* Another value for a context leaves all else as it is.
LEMMA KeptValued ==
    ASSUME Good, NEW x, context(now, x), NEW n, now'.ctx = put(now, x, value_in(now, x, n)),
           L' = L, var' = var, UNCHANGED <<opened, home, asked>>
    PROVE  /\ Kept'
           /\ \A y : context(now', y) <=> context(now, y)
           /\ \A y \in Names : none(now', y) <=> none(now, y)
           /\ now'.ctx[x].acc = n /\ \A y \in Names \ {x} : now'.ctx[y] = now.ctx[y]
<1>1. x \in Names /\ now.ctx[x].kind = "context"
    BY DEF context
<1>2. /\ now'.ctx[x] = On(now.ctx[x].type, now.ctx[x].at, n)
      /\ \A y \in Names \ {x} : now'.ctx[y] = now.ctx[y]
    BY <1>1 DEF put, value_in
<1>3. /\ now'.ctx[x].kind = "context" /\ now'.ctx[x].type = now.ctx[x].type
      /\ now'.ctx[x].at = now.ctx[x].at /\ now'.ctx[x].acc = n
    BY <1>2 DEF On
<1>4. \A y : context(now', y) <=> context(now, y)
    BY <1>1, <1>2, <1>3 DEF context
<1>5. \A y \in Names : none(now', y) <=> none(now, y)
    BY <1>1, <1>2, <1>3 DEF none
<1>6. Named' /\ Own'
    BY <1>5 DEF Good, Corr, Named, Own
<1>7. Kinds'
    <2>1. ASSUME NEW y \in L
          PROVE  \/ /\ context(now', y) /\ var'[y] \in opened'
                    /\ asked'[var'[y]] = now'.ctx[y].type
                 \/ soft(now', y) /\ var'[y] = now'.ctx[y].cx /\ var'[y] \in Stateless
        <3>1. CASE soft(now, y) /\ var[y] = now.ctx[y].cx /\ var[y] \in Stateless
            <4>1. y \in Names \ {x}
                BY <1>1, <3>1 DEF soft
            <4> QED
                BY <1>2, <3>1, <4>1 DEF soft
        <3>2. CASE context(now, y) /\ var[y] \in opened /\ asked[var[y]] = now.ctx[y].type
            <4>1. now'.ctx[y].type = now.ctx[y].type
                BY <1>2, <1>3, <3>2 DEF context
            <4> QED
                BY <1>4, <3>2, <4>1
        <3> QED
            BY <3>1, <3>2 DEF Good, Corr, Kinds
    <2> QED
        BY <2>1 DEF Kinds
<1>8. Places'
    <2>1. \A y : context(now, y) => now'.ctx[y].at = now.ctx[y].at
        BY <1>2, <1>3 DEF context
    <2> QED
        BY <1>4, <2>1 DEF Good, Corr, Places
<1> QED
    BY <1>2, <1>3, <1>4, <1>5, <1>6, <1>7, <1>8 DEF Kept

\* A mac by main returns the sum the ledger has.
LEMMA CorrMac ==
    ASSUME Sized, Good, IInv', mac(main)
    PROVE  Corr' /\ ~failed'
<1>1. /\ next(main) = P[k] /\ k \in 1 .. Len(P) /\ P' = P /\ k' = k + 1
      /\ UNCHANGED <<code, sel, var, uses>> /\ advance(main)
      /\ P[k].op \notin {"open", "place", "open_cx", "close", "create", "join"}
      /\ Books(P[k], now, now') /\ Exact
    BY MainStep DEF mac, runs
<1>2. BookMac(P[k], now, now')
    BY <1>1, BooksOf DEF mac, runs
<1> DEFINE a == P[k].a
           b == P[k].b
<1>3. PICK x \in now.picked \ {LEGACY} :
          /\ context(now, x)
          /\ now.ctx[x].acc + a * b < Half
          /\ expected(P[k], now.ctx[x].acc + a * b)
          /\ now' = Set(now, x, value_in(now, x, now.ctx[x].acc + a * b))
    BY <1>2 DEF BookMac
<1> DEFINE v == var[x]
<1>4. /\ sel[main] = v /\ v \in Virts /\ v \in opened /\ x \in Names
      /\ \A y : context(now, y) /\ var[y] = v => y = x
    BY <1>3, SelectedContext DEF context
<1>5. a \in Nat /\ b \in Nat
    BY <1>2 DEF BookMac
<1>6. execute(v, 0, a, b) /\ assert(expected(P[k], out')) /\ UNCHANGED <<sums, stateless>>
    BY <1>1, <1>4 DEF mac
<1>7. acc[v] \in Nat /\ now.ctx[x].acc = acc[v] /\ acc[v] + a * b < Half
    BY <1>1, <1>3 DEF Exact
<1> HIDE DEF a, b, v
<1>8. /\ out' = acc[v] + a * b
      /\ acc' = [acc EXCEPT ![v] = acc[v] + a * b]
      /\ UNCHANGED <<opened, kvars>>
    BY <1>4, <1>5, <1>6, <1>7, AccMac DEF Good, PTypes
<1>9. ~failed'
    BY <1>3, <1>6, <1>7, <1>8 DEF assert, Good
<1> DEFINE n == acc[v] + a * b
<1>10. n \in Nat /\ n < Half
    BY <1>5, <1>7
<1> HIDE DEF n
<1>11. acc' = [acc EXCEPT ![v] = n] /\ now'.ctx = put(now, x, value_in(now, x, n))
       /\ now'.picked = now.picked /\ now'.sixres = now.sixres /\ now'.sixsum = now.sixsum
    BY <1>3, <1>7, <1>8 DEF n, Set, Book
<1>14. L' = L
    BY <1>1, HeldNext DEF opens, Good
<1>15. UNCHANGED <<opened, home, asked>> /\ var' = var
    BY <1>1, <1>8 DEF kvars
<1>16. /\ Kept'
       /\ \A y : context(now', y) <=> context(now, y)
       /\ \A y \in Names : none(now', y) <=> none(now, y)
       /\ now'.ctx[x].acc = n /\ \A y \in Names \ {x} : now'.ctx[y] = now.ctx[y]
    BY <1>3, <1>11, <1>14, <1>15, KeptValued
<1>21. Live' /\ (Exact' => Values')
    BY <1>1, CalmStep
<1>22. Exact'
    <2>1. acc'[v] = n /\ \A w \in opened : w # v => acc'[w] = acc[w]
        BY <1>4, <1>11 DEF acc
    <2>2. ASSUME NEW y, context(now, y), y # x
          PROVE  acc'[var[y]] = acc[var[y]] /\ now'.ctx[y] = now.ctx[y]
        <3>1. y \in Names /\ var[y] \in opened /\ var[y] # v
            BY <1>4, <2>2, ContextIs
        <3> QED
            BY <1>16, <2>1, <2>2, <3>1
    <2>3. acc'[var'[x]] = n
        BY <1>1, <2>1 DEF v
    <2> QED
        BY <1>1, <1>10, <1>16, <2>2, <2>3 DEF Exact
<1>23. Picks'
    BY <1>1, <1>11, <1>16, PicksSame
<1>24. Totals'
    BY <1>6, <1>11, TotalsKept DEF stateless, asserts
<1> QED
    BY <1>9, <1>16, <1>21, <1>22, <1>23, <1>24 DEF Corr, Kept

\* A read by main returns the accumulator the ledger has.
LEMMA CorrRead ==
    ASSUME Sized, Good, IInv', read(main)
    PROVE  Corr' /\ ~failed'
<1>1. /\ next(main) = P[k] /\ k \in 1 .. Len(P) /\ P' = P /\ k' = k + 1
      /\ UNCHANGED <<code, sel, var, uses>> /\ advance(main)
      /\ P[k].op \notin {"open", "place", "open_cx", "close", "create", "join"}
      /\ Books(P[k], now, now') /\ Exact
    BY MainStep DEF read, runs
<1>2. BookRead(P[k], now, now') /\ P[k].op \in {"read", "add"}
    BY <1>1, BooksOf DEF read, runs
<1>3. PICK x \in now.picked \ {LEGACY} :
          /\ context(now, x)
          /\ \/ P[k].op = "read" /\ now.ctx[x].acc = P[k].r /\ now' = now
             \/ /\ P[k].op = "add"
                /\ now' = Book(now.ctx, now.picked, now.ones, now.twos,
                               now.sixres + 6 * now.ctx[x].acc, now.sixsum)
    BY <1>2 DEF BookRead
<1>4. sel[main] = var[x] /\ var[x] \in Virts
    BY <1>3, SelectedContext
<1>5. read_state(var[x])
    BY <1>4 DEF read
<1>6. out' = acc[var[x]] /\ acc' = acc /\ UNCHANGED <<opened, kvars>>
    BY <1>4, <1>5, AccRead DEF Good
<1>7. out' = now.ctx[x].acc /\ out' \in Nat
    BY <1>1, <1>3, <1>6 DEF Exact
<1>8. now'.ctx = now.ctx /\ now'.picked = now.picked /\ now'.sixsum = now.sixsum
    BY <1>3 DEF Book
<1>9. Picks'
    BY <1>1, <1>8, PicksSame DEF none
<1>10. UNCHANGED <<scalar_sum, cxs>>
    BY DEF read, stateless, asserts
<1>11. Totals' /\ ~failed'
    <2>1. CASE P[k].op = "read"
        <3>1. now' = now /\ now.ctx[x].acc = P[k].r
            BY <1>3, <2>1
        <3>2. res' = res /\ assert(out' = P[k].r)
            BY <1>1, <2>1 DEF read
        <3> QED
            BY <1>7, <1>10, <3>1, <3>2 DEF assert, Good, Corr, Totals
    <2>2. CASE P[k].op = "add"
        <3>1. now'.sixres = now.sixres + 6 * out'
            BY <1>3, <1>7, <2>2 DEF Book
        <3>2. res' = res + out' /\ failed' = failed
            BY <1>1, <2>2 DEF read
        <3>3. /\ cxs = {} /\ res \in Int /\ scalar_sum \in Int
              /\ 6 * res = now.sixres /\ 6 * scalar_sum = now.sixsum
            BY DEF Good, Corr, Totals
        <3>4. 6 * (res + out') = 6 * res + 6 * out' /\ res + out' \in Int
            BY <1>7, <3>3
        <3> QED
            BY <1>8, <1>10, <3>1, <3>2, <3>3, <3>4 DEF Totals, Good
    <2> QED
        BY <1>2, <2>1, <2>2
<1> QED
    BY <1>1, <1>6, <1>8, <1>9, <1>11, CorrIdle DEF Good

\* A stateless CX opened under a name that stood for none.
LEMMA CorrOpenCx ==
    ASSUME Sized, Good, NEW t \in Threads, open_cx(t)
    PROVE  Corr' /\ ~failed'
<1> DEFINE x == P[k].x
           cx == P[k].cx
<1>1. /\ t = main /\ P[k].op = "open_cx" /\ next(t) = P[k] /\ k \in 1 .. Len(P)
      /\ P' = P /\ k' = k + 1
    BY OnlyMain, StatelessStep DEF open_cx, Good
<1>2. /\ x \in Names /\ cx \in Stateless /\ failed' = failed
      /\ code' = code /\ advance(main) /\ sel' = sel /\ UNCHANGED <<sums, cxs>>
      /\ UNCHANGED <<vars, kvars>> /\ var' = [var EXCEPT ![x] = cx]
    BY <1>1, MainIsBalanced DEF Proper, Good, open_cx, asserts
<1>3. Books(P[k], now, now') /\ Live' /\ Exact /\ (Exact' => Values')
    BY <1>1, <1>2, CalmStep
<1>4. BookOpenCx(P[k], now, now')
    BY <1>1, <1>3, BooksOf
<1>5. x \notin L /\ x \notin now.picked /\ L' = L \cup {x}
    BY <1>1, <1>2, <1>4, HeldNext DEF BookOpenCx, Good, Corr, Named, opens
<1>6. /\ now'.ctx = put(now, x, Soft(cx)) /\ now'.picked = now.picked
      /\ now'.sixres = now.sixres /\ now'.sixsum = now.sixsum
    BY <1>4 DEF BookOpenCx, Set, Book
<1> HIDE DEF x, cx
<1>7. now'.ctx[x] = Soft(cx) /\ \A y \in Names \ {x} : now'.ctx[y] = now.ctx[y]
    BY <1>2, <1>6 DEF put
<1>8. now'.ctx[x].kind = "soft" /\ now'.ctx[x].cx = cx
    BY <1>7 DEF Soft
<1>9. var'[x] = cx /\ \A y \in Names \ {x} : var'[y] = var[y]
    BY <1>2 DEF Good, PTypes
<1>10. acc' = acc /\ opened' = opened /\ home' = home /\ asked' = asked
    BY <1>2, AccSame DEF kvars
<1>11. L \subseteq Names /\ ~context(now, x)
    BY <1>5, NamesHeld, ContextIs DEF Good
<1>12. \A y : context(now', y) <=> context(now, y)
    BY <1>7, <1>8, <1>11 DEF context
<1>13. \A y : context(now, y) => y \in Names \ {x}
    BY <1>11 DEF context
<1>14. Kept'
    <2>1. Named' /\ Own'
        BY <1>5, <1>7, <1>8, <1>10 DEF Good, Corr, Named, none, Own
    <2>2. Kinds'
        <3>1. soft(now', x) /\ var'[x] = now'.ctx[x].cx /\ var'[x] \in Stateless
            BY <1>2, <1>8, <1>9 DEF soft
        <3>2. ASSUME NEW y \in L
              PROVE  \/ /\ context(now', y) /\ var'[y] \in opened'
                        /\ asked'[var'[y]] = now'.ctx[y].type
                     \/ soft(now', y) /\ var'[y] = now'.ctx[y].cx /\ var'[y] \in Stateless
            <4>1. y \in Names \ {x}
                BY <1>5, <1>11
            <4> QED
                BY <1>7, <1>9, <1>10, <4>1 DEF Good, Corr, Kinds, context, soft
        <3> QED
            BY <1>5, <3>1, <3>2 DEF Kinds
    <2>3. Places'
        BY <1>7, <1>9, <1>10, <1>12, <1>13 DEF Good, Corr, Places
    <2> QED
        BY <2>1, <2>2, <2>3 DEF Kept
<1>15. Exact'
    BY <1>3, <1>7, <1>9, <1>10, <1>12, <1>13 DEF Exact
<1>16. Picks'
    <2>1. \A y \in now.picked : y # LEGACY => y \in Names \ {x} /\ ~none(now, y)
        BY <1>5, PickedHeld
    <2> QED
        BY <1>2, <1>6, <1>7, <1>9, <2>1, PicksKept DEF none
<1>17. Totals'
    BY <1>2, <1>6, TotalsKept
<1> QED
    BY <1>2, <1>3, <1>14, <1>15, <1>16, <1>17 DEF Corr, Kept, Good

\* A context or a stateless CX closed.
LEMMA CorrClosed ==
    ASSUME Sized, Good, k \in 1 .. Len(P), P' = P, k' = k + 1, code' = code, advance(main),
           P[k].op = "close", UNCHANGED <<var, sel, sums, cxs>>,
           NEW x, x = P[k].x, NEW gone, gone \subseteq {var[x]}, opened' = opened \ gone,
           \A w \in opened' : home'[w] = home[w] /\ asked'[w] = asked[w] /\ acc'[w] = acc[w]
    PROVE  Corr'
<1>1. Books(P[k], now, now') /\ Live' /\ Exact /\ (Exact' => Values')
    BY CalmStep
<1>2. BookClose(P[k], now, now')
    BY <1>1, BooksOf
<1>3. /\ now'.ctx = put(now, x, Unheld) /\ now'.picked = now.picked \ {x}
      /\ now'.sixres = now.sixres /\ now'.sixsum = now.sixsum
    BY <1>2 DEF BookClose, Book
<1>4. x \in L /\ L' = L \ {x} /\ L \subseteq Names
    BY HeldNext, NamesHeld DEF Good
<1>5. now'.ctx[x] = Unheld /\ \A y \in Names \ {x} : now'.ctx[y] = now.ctx[y]
    BY <1>3, <1>4 DEF put
<1>6. now'.ctx[x].kind = "none"
    BY <1>5 DEF Unheld
<1>7. \A y : context(now', y) <=> context(now, y) /\ y # x
    BY <1>4, <1>5, <1>6 DEF context
<1>8. ASSUME NEW y, context(now, y), y # x
      PROVE  /\ now'.ctx[y] = now.ctx[y] /\ var'[y] = var[y] /\ var[y] \in opened'
             /\ home'[var[y]] = home[var[y]] /\ asked'[var[y]] = asked[var[y]]
             /\ acc'[var[y]] = acc[var[y]]
    <2>1. y \in Names /\ var[y] \in opened /\ y \in L
        BY <1>8, ContextIs
    <2>2. var[y] # var[x]
        BY <1>4, <1>8, <2>1 DEF Good, Holdings
    <2> QED
        BY <1>5, <1>8, <2>1, <2>2
<1>9. Kept'
    <2>1. Named' /\ Own'
        BY <1>4, <1>5, <1>6 DEF Good, Corr, Named, none, Own
    <2>2. Kinds'
        <3>1. ASSUME NEW y \in L, y # x
              PROVE  \/ /\ context(now', y) /\ var'[y] \in opened'
                        /\ asked'[var'[y]] = now'.ctx[y].type
                     \/ soft(now', y) /\ var'[y] = now'.ctx[y].cx /\ var'[y] \in Stateless
            <4>1. CASE context(now, y) /\ asked[var[y]] = now.ctx[y].type
                BY <1>7, <1>8, <3>1, <4>1
            <4>2. CASE soft(now, y) /\ var[y] = now.ctx[y].cx /\ var[y] \in Stateless
                <5>1. y \in Names \ {x}
                    BY <1>4, <3>1
                <5> QED
                    BY <1>5, <4>2, <5>1 DEF soft
            <4> QED
                BY <4>1, <4>2 DEF Good, Corr, Kinds
        <3> QED
            BY <1>4, <3>1 DEF Kinds
    <2>3. Places'
        BY SMTT(20), <1>7, <1>8 DEF Good, Corr, Places
    <2> QED
        BY <2>1, <2>2, <2>3 DEF Kept
<1>10. Exact'
    BY <1>1, <1>7, <1>8 DEF Exact
<1>11. Picks'
    <2>1. \A y \in now.picked : y # LEGACY => y \in Names /\ ~none(now, y)
        BY PickedHeld
    <2>2. \A y \in now.picked : y # LEGACY /\ y \in now'.picked => ~none(now', y)
        BY <1>3, <1>5, <2>1 DEF none
    <2>3. now'.picked \subseteq now.picked /\ sel' = sel /\ var' = var
        BY <1>3
    <2> QED
        BY <2>2, <2>3, PicksKept
<1>12. Totals'
    BY <1>3, TotalsKept
<1> QED
    BY <1>1, <1>9, <1>10, <1>11, <1>12 DEF Corr, Kept

\* A close of a context by main.
LEMMA CorrClose ==
    ASSUME Sized, Good, IInv', NEW t \in Threads, close(t)
    PROVE  Corr' /\ ~failed'
<1>1. /\ t = main /\ P[k].op = "close" /\ next(t) = P[k] /\ k \in 1 .. Len(P)
      /\ P' = P /\ k' = k + 1
    BY OnlyMain, CloseStep DEF close, Good
<1>2. /\ UNCHANGED <<code, sel, var, sums, failed, stateless>> /\ advance(main)
      /\ sys_cx_close(var[P[k].x])
    BY <1>1 DEF close, asserts
<1> DEFINE x == P[k].x
           v == var[x]
           gone == {v}
<1>3. /\ cx_close(v) /\ v \in opened /\ opened' = opened \ gone
      /\ home' = [home EXCEPT ![v] = None] /\ asked' = [asked EXCEPT ![v] = UNASSIGNED_STATE]
      /\ v \in Virts /\ opened \subseteq Virts
    BY <1>2 DEF sys_cx_close, cx_close, Good, KInv, KTypes
<1>4. \A w \in opened' : home'[w] = home[w] /\ asked'[w] = asked[w]
    BY <1>3 DEF Good, KInv, KTypes
<1>5. \A w \in opened' : acc'[w] = acc[w]
    BY <1>3, AccClosed DEF Good
<1> HIDE DEF gone
<1>6. gone \subseteq {v}
    BY DEF gone
<1> HIDE DEF v
<1>7. Corr'
    BY <1>1, <1>2, <1>3, <1>4, <1>5, <1>6, CorrClosed DEF v, stateless, asserts
<1> QED
    BY <1>2, <1>7 DEF Good

\* A close of a stateless CX by main.
LEMMA CorrCloseCx ==
    ASSUME Sized, Good, NEW t \in Threads, close_cx(t)
    PROVE  Corr' /\ ~failed'
<1>1. /\ t = main /\ P[k].op = "close" /\ next(t) = P[k] /\ k \in 1 .. Len(P)
      /\ P' = P /\ k' = k + 1
    BY OnlyMain, StatelessStep DEF close_cx, runs, Good
<1>2. UNCHANGED <<vars, kvars, code, sel, var, sums, failed, cxs>> /\ advance(main)
    BY <1>1 DEF close_cx, asserts
<1> DEFINE gone == {}
<1>3. acc' = acc /\ opened' = opened \ gone /\ UNCHANGED <<home, asked>> /\ gone \subseteq {var[P[k].x]}
    BY <1>2, AccSame DEF kvars
<1> HIDE DEF gone
<1>4. \A w \in opened' : home'[w] = home[w] /\ asked'[w] = asked[w] /\ acc'[w] = acc[w]
    BY <1>3
<1>5. Corr'
    BY <1>1, <1>2, <1>3, <1>4, CorrClosed
<1> QED
    BY <1>2, <1>5 DEF Good

\* What the threads of threaded_test.c run.
LEMMA WorkerCode ==
    /\ Len(cx_mac_thread_1) = 1 /\ cx_mac_thread_1[1] = Work(5, 5)
    /\ \A t \in 1 .. N : /\ Len(cx_mac_thread_2(t)) = N + 1
                         /\ cx_mac_thread_2(t)[1] = Sel(sels(t))
                         /\ \A j \in 2 .. N + 1 : cx_mac_thread_2(t)[j] = Work(t - 1, t - 1)
<1>1. Len(cx_mac_thread_1) = 1 /\ cx_mac_thread_1[1] = Work(5, 5)
    BY DEF cx_mac_thread_1
<1>2. ASSUME NEW t \in 1 .. N
      PROVE  /\ Len(cx_mac_thread_2(t)) = N + 1
             /\ cx_mac_thread_2(t)[1] = Sel(sels(t))
             /\ \A j \in 2 .. N + 1 : cx_mac_thread_2(t)[j] = Work(t - 1, t - 1)
    <2> DEFINE w == Work(t - 1, t - 1)
               first == <<Sel(sels(t))>>
               loop == [i \in 1 .. N |-> w]
               S == {Sel(sels(t)), w}
    <2>1. N \in Nat
        BY ProgramAssumption
    <2>2. first \in Seq(S) /\ Len(first) = 1 /\ first[1] = Sel(sels(t))
        OBVIOUS
    <2>3. loop \in Seq(S) /\ Len(loop) = N /\ \A i \in 1 .. N : loop[i] = w
        BY <2>1
    <2> HIDE DEF w, first, loop, S
    <2>4. /\ Len(first \o loop) = 1 + N
          /\ \A j \in 1 .. 1 + N : (first \o loop)[j] = IF j <= 1 THEN first[j] ELSE loop[j - 1]
        <3>1. /\ Len(first \o loop) = Len(first) + Len(loop)
              /\ \A j \in 1 .. Len(first) + Len(loop) :
                    (first \o loop)[j] = IF j <= Len(first) THEN first[j] ELSE loop[j - Len(first)]
            BY <2>2, <2>3, ConcatProperties
        <3> QED
            BY <2>2, <2>3, <3>1
    <2>5. 1 \in 1 .. 1 + N /\ 1 + N = N + 1 /\ \A j \in 2 .. N + 1 :
             j \in 1 .. 1 + N /\ ~(j <= 1) /\ j - 1 \in 1 .. N
        BY <2>1
    <2>6. /\ Len(first \o loop) = N + 1
          /\ (first \o loop)[1] = Sel(sels(t))
          /\ \A j \in 2 .. N + 1 : (first \o loop)[j] = w
        BY <2>2, <2>3, <2>4, <2>5
    <2>7. cx_mac_thread_2(t) = first \o loop
        BY Zenon DEF cx_mac_thread_2, first, loop, w
    <2> QED
        BY <2>6, <2>7 DEF w
<1> QED
    BY <1>1, <1>2

\* A thread that is not at its end is live; one of cx_mac_thread_2 first selects.
LEMMA LiveThread ==
    ASSUME Good, NEW t \in 1 .. N
    PROVE  /\ t \in Threads /\ t # main /\ pc[t] \in Nat \ {0} /\ N \in Nat
           /\ t \in now.ones => (~ended(t) <=> pc[t] = 1) /\ (~ended(t) => next(t) = Work(5, 5))
           /\ t \in now.twos => /\ ~ended(t) <=> pc[t] <= N + 1
                                /\ pc[t] <= N + 2
                                /\ pc[t] = 1 => next(t) = Sel(sels(t))
                                /\ ~ended(t) /\ pc[t] # 1 => next(t) = Work(t - 1, t - 1)
           /\ ~ended(t) => t \in now.ones \/ t \in now.twos
<1>1. t \in Threads /\ t # main /\ pc[t] \in Nat \ {0} /\ N \in Nat
    BY MainOfThreads, ProgramAssumption DEF Threads, Good, PTypes
<1>2. ASSUME t \in now.ones
      PROVE  (~ended(t) <=> pc[t] = 1) /\ (~ended(t) => next(t) = Work(5, 5))
    <2>1. code[t] = cx_mac_thread_1
        BY <1>2 DEF Good, Corr, Live
    <2> QED
        BY <1>1, <2>1, WorkerCode DEF ended, next
<1>3. ASSUME t \in now.twos
      PROVE  /\ ~ended(t) <=> pc[t] <= N + 1
             /\ pc[t] <= N + 2
             /\ pc[t] = 1 => next(t) = Sel(sels(t))
             /\ ~ended(t) /\ pc[t] # 1 => next(t) = Work(t - 1, t - 1)
    <2>1. code[t] = cx_mac_thread_2(t) /\ pc[t] <= N + 2
        BY <1>3 DEF Good, Corr, Live
    <2>2. ~ended(t) <=> pc[t] <= N + 1
        BY <1>1, <2>1, WorkerCode DEF ended
    <2>3. ~ended(t) /\ pc[t] # 1 => pc[t] \in 2 .. N + 1
        BY <1>1, <2>2
    <2> QED
        BY <2>1, <2>2, <2>3, WorkerCode DEF next
<1> QED
    BY <1>1, <1>2, <1>3 DEF Good, Corr, Live

\* A step of a thread other than main is none of the ledger.
LEMMA NowSame ==
    ASSUME P' = P, k' = k
    PROVE  now' = now /\ L' = L
BY DEF now, L

\* The parts of Corr a thread's step does not touch.
LEMMA ThreadKeeps ==
    ASSUME Good, P' = P, k' = k, var' = var, UNCHANGED <<opened, home, asked, sums, cxs>>,
           DOMAIN sel' = DOMAIN sel, sel'[main] = sel[main]
    PROVE  Kept' /\ Picks' /\ Totals' /\ now' = now
<1>1. now' = now /\ L' = L
    BY NowSame
<1> QED
    BY <1>1, KeptSame, PicksSame, TotalsKept

\* A step of the thread t, for the other live ones.
LEMMA LiveKept ==
    ASSUME Good, now' = now, NEW t \in 1 .. N, \A u \in 1 .. N : u # t
                => code'[u] = code[u] /\ pc'[u] = pc[u] /\ sel'[u] = sel[u],
           var' = var, code'[t] = code[t],
           t \in now.ones => sel'[t] = sel[t],
           t \in now.twos => pc'[t] <= N + 2 /\ sel'[t] = var[sels(t)],
           t \in now.ones \/ t \in now.twos
    PROVE  Live'
<1>1. \A u \in 1 .. N : u \notin now.ones /\ u \notin now.twos => u # t /\ ended(u)
    BY DEF Good, Corr, Live
<1>2. \A u \in 1 .. N : u \notin now.ones /\ u \notin now.twos => ended(u)'
    BY <1>1 DEF ended
<1>3. \A y : context(now', y) <=> context(now, y)
    OBVIOUS
<1> QED
    BY <1>2, <1>3 DEF Good, Corr, Live

\* A worker selects the context it was created for.
LEMMA CorrWorkerSel ==
    ASSUME Sized, Good, NEW t \in 1 .. N, select(t)
    PROVE  Corr' /\ ~failed'
<1>1. /\ t \in Threads /\ t # main /\ pc[t] \in Nat \ {0} /\ N \in Nat /\ ~ended(t)
      /\ next(t).op = "sel"
    BY LiveThread DEF select, runs
<1>2. P' = P /\ k' = k
    BY <1>1, OtherStep DEF Good
<1>3. /\ UNCHANGED <<vars, kvars, code, var, sums, failed, stateless>> /\ advance(t)
      /\ sel' = [sel EXCEPT ![t] = selector(next(t).x)]
    BY DEF select, asserts
<1>4. t \in now.twos /\ pc[t] = 1 /\ next(t) = Sel(sels(t)) /\ t \notin now.ones
    BY <1>1, LiveThread DEF Work, Good, Corr, Live
<1>5. /\ sel'[t] = var[sels(t)] /\ DOMAIN sel' = Threads
      /\ \A u \in Threads : u # t => sel'[u] = sel[u]
    <2>1. selector(next(t).x) = var[sels(t)]
        BY <1>4, NamesAssumption DEF Sel, selector
    <2> QED
        BY <1>1, <1>3, <2>1 DEF Good, Corr, Picks
<1>6. pc'[t] = 2 /\ \A u \in Threads : u # t => pc'[u] = pc[u]
    BY <1>1, <1>3, <1>4 DEF advance, Good, PTypes
<1>7. acc' = acc /\ UNCHANGED <<opened, home, asked, cxs>>
    BY <1>3, AccSame DEF kvars, stateless, asserts
<1>8. Kept' /\ Picks' /\ Totals' /\ now' = now
    BY <1>1, <1>2, <1>3, <1>5, <1>7, MainOfThreads, ThreadKeeps DEF Good, Corr, Picks
<1>9. \A u \in 1 .. N : u \in Threads
    BY DEF Threads
<1>10. Live'
    <2>1. \A u \in 1 .. N : u # t => code'[u] = code[u] /\ pc'[u] = pc[u] /\ sel'[u] = sel[u]
        BY <1>3, <1>5, <1>6, <1>9
    <2>2. 2 <= N + 2
        BY <1>1
    <2> QED
        BY <1>3, <1>4, <1>5, <1>6, <1>8, <2>1, <2>2, LiveKept
<1>11. pending' = pending
    <2>1. now.ones \subseteq 1 .. N
        BY DEF Good, Corr, Live
    <2> QED
        BY <1>4, <1>6, <1>8, <1>9, <2>1 DEF pending
<1>12. \A u \in 1 .. N : left(u)' = left(u)
    BY <1>1, <1>4, <1>6, <1>8, <1>9 DEF left
<1>13. Values'
    BY <1>3, <1>7, <1>8, <1>11, <1>12 DEF Good, Corr, Values, Stood, Stands, context
<1> QED
    BY <1>3, <1>8, <1>10, <1>13 DEF Corr, Kept, Good

\* The threads created are finitely many, and so are those still to add.
LEMMA PendingFinite == Live => IsFiniteSet(pending) /\ Cardinality(pending) \in Nat
<1> SUFFICES ASSUME Live PROVE IsFiniteSet(pending) /\ Cardinality(pending) \in Nat
    OBVIOUS
<1>1. pending \subseteq 1 .. N /\ IsFiniteSet(1 .. N)
    BY ProgramAssumption, FS_Interval DEF pending, Live
<1> QED
    BY <1>1, FS_Subset, FS_CardinalityType

\* What a thread of multi_thread_2 has left is never negative.
LEMMA LeftIs ==
    ASSUME Good, NEW t \in 1 .. N
    PROVE  /\ left(t) \in Nat /\ sq(t) \in Nat
           /\ t \in now.twos => left(t) = IF pc[t] = 1 THEN N ELSE N + 2 - pc[t]
           /\ t \in now.twos /\ ~ended(t) => left(t) >= 1
<1>1. pc[t] \in Nat \ {0} /\ N \in Nat
    BY LiveThread
<1>2. sq(t) \in Nat
    <2>1. t - 1 \in Nat
        BY <1>1
    <2>2. \A i, j \in Nat : i * j \in Nat
        OBVIOUS
    <2> QED
        BY <2>1, <2>2 DEF sq
<1>3. CASE t \in now.twos
    BY <1>1, <1>2, <1>3, LiveThread DEF left
<1>4. CASE t \notin now.twos
    BY <1>2, <1>4 DEF left
<1> QED
    BY <1>3, <1>4

\* Products with one factor more or less.
LEMMA OneMore ==
    ASSUME NEW i \in Nat, NEW j \in Nat
    PROVE  i * j \in Nat /\ (i + 1) * j = i * j + j
OBVIOUS

\* The names that are not those of a thread, and the threads' names, are apart.
LEMMA NamesApart ==
    /\ \A t \in 1 .. N : sels(t) \in Names /\ sels(t) # "B" /\ sels(t) \notin Labels
    /\ \A t, u \in 1 .. N : sels(t) = sels(u) => t = u
    /\ "B" \in Labels /\ "B" \in Names /\ "B" # LEGACY
BY NamesAssumption DEF Names, Labels, LEGACY

\* A worker adds to its context.
LEMMA CorrWorkerMac ==
    ASSUME Sized, Good, IInv', NEW t \in 1 .. N, mac(t)
    PROVE  Corr' /\ ~failed'
<1>1. /\ t \in Threads /\ t # main /\ pc[t] \in Nat \ {0} /\ N \in Nat /\ ~ended(t)
      /\ next(t).op = "mac"
    BY LiveThread DEF mac, runs
<1>2. P' = P /\ k' = k
    BY <1>1, OtherStep DEF Good
<1>3. /\ UNCHANGED <<code, sel, var, sums, stateless>> /\ advance(t)
      /\ execute(sel[t], 0, next(t).a, next(t).b)
      /\ assert(expected(next(t), out'))
    BY DEF mac
<1>4. pc'[t] = pc[t] + 1 /\ \A u \in 1 .. N : u # t => pc'[u] = pc[u]
    BY <1>1, <1>3 DEF advance, Good, PTypes, Threads
<1>5. t \in now.ones \/ t \in now.twos
    BY <1>1, LiveThread
<1>6. PICK x, a :
          /\ next(t) = Work(a, a) /\ sel[t] = var[x] /\ context(now, x)
          /\ t \in now.twos => t \notin now.ones /\ pc[t] # 1 /\ x = sels(t) /\ a * a = sq(t)
          /\ t \in now.ones => t \notin now.twos /\ pc[t] = 1 /\ x = "B" /\ a * a = 25
          /\ a \in Nat
    <2>1. CASE t \in now.ones
        BY <1>1, <2>1, LiveThread DEF Good, Corr, Live
    <2>2. CASE t \in now.twos
        <3>1. t \notin now.ones
            BY <2>2 DEF Good, Corr, Live
        <3>2. pc[t] # 1
            BY <1>1, <2>2, LiveThread DEF Sel
        <3>3. next(t) = Work(t - 1, t - 1) /\ sel[t] = var[sels(t)] /\ context(now, sels(t))
            BY <1>1, <2>2, <3>2, LiveThread DEF Good, Corr, Live
        <3>4. t - 1 \in Nat
            BY <1>1
        <3> QED
            BY <2>2, <3>1, <3>2, <3>3, <3>4 DEF sq
    <2> QED
        BY <1>5, <2>1, <2>2
<1> DEFINE v == var[x]
           m == a * a
<1>26. sel[t] = v /\ (t \in now.twos => m = sq(t)) /\ (t \in now.ones => m = 25)
    BY <1>6
<1>7. m \in Nat
    BY <1>6, OneMore
<1> HIDE DEF v
<1>8. /\ x \in Names /\ v \in Virts /\ v \in opened
      /\ \A y : context(now, y) /\ var[y] = v => y = x
    BY <1>6, ContextIs DEF v
<1> DEFINE n == now.ctx[x].acc
<1>9. Stood(x)
    BY <1>6 DEF Good, Corr, Values
<1>10. acc[v] \in Nat /\ n \in Int /\ n < Half /\ Half \in Nat
    BY <1>9, HalfAssumption DEF Stood, v
<1>11. IsFiniteSet(pending) /\ Cardinality(pending) \in Nat
    BY PendingFinite DEF Good, Corr
<1>12. /\ t \in now.ones => t \in pending /\ Cardinality(pending) >= 1
       /\ t \in now.twos => left(t) \in Nat /\ left(t) >= 1
    <2>1. ASSUME t \in now.ones
          PROVE  t \in pending /\ Cardinality(pending) >= 1
        <3>1. t \in pending
            BY <1>6, <2>1 DEF pending
        <3>2. Cardinality(pending) # 0
            BY <1>11, <3>1, FS_EmptySet
        <3> QED
            BY <1>11, <3>1, <3>2
    <2> QED
        BY <1>1, <2>1, LeftIs
<1>13. acc[v] + m <= n
    <2>1. CASE t \in now.ones
        <3>1. acc[v] = n - 25 * Cardinality(pending)
            BY <1>6, <1>9, <2>1 DEF Stood, Stands, v
        <3> QED
            BY <1>6, <1>10, <1>11, <1>12, <2>1, <3>1
    <2>2. CASE t \in now.twos
        <3>1. acc[v] = n - left(t) * sq(t)
            BY <1>6, <1>9, <2>2 DEF Stood, Stands, v
        <3>2. left(t) - 1 \in Nat /\ sq(t) \in Nat /\ left(t) = (left(t) - 1) + 1
            BY <1>12, <2>2, LeftIs
        <3>3. (left(t) - 1) * sq(t) \in Nat /\ left(t) * sq(t) = (left(t) - 1) * sq(t) + sq(t)
            BY <3>2, OneMore
        <3> QED
            BY <1>6, <1>10, <2>2, <3>1, <3>2, <3>3
    <2> QED
        BY <1>5, <2>1, <2>2
<1>14. acc[v] + m < Half
    BY <1>7, <1>10, <1>13
<1>15. /\ acc' = [acc EXCEPT ![v] = acc[v] + m]
       /\ UNCHANGED <<opened, kvars>>
    <2>1. execute(v, 0, a, a)
        BY <1>3, <1>6, <1>26 DEF Work
    <2> QED
        BY <1>6, <1>8, <1>10, <1>14, <2>1, AccMac DEF Good, PTypes
<1>16. ~failed'
    <2>1. next(t).r = {}
        BY <1>6 DEF Work
    <2> QED
        BY <1>3, <2>1 DEF expected, assert, Good
<1>17. UNCHANGED <<home, asked, cxs>>
    BY <1>3, <1>15 DEF kvars, stateless, asserts
<1>18. Kept' /\ Picks' /\ Totals' /\ now' = now
    BY <1>2, <1>3, <1>15, <1>17, ThreadKeeps
<1> HIDE DEF m, n
<1>19. \A u \in 1 .. N : u \in Threads
    BY DEF Threads
<1>20. Live'
    <2>1. \A u \in 1 .. N : u # t => code'[u] = code[u] /\ pc'[u] = pc[u] /\ sel'[u] = sel[u]
        BY <1>3, <1>4
    <2>2. t \in now.twos => pc'[t] <= N + 2 /\ sel'[t] = var[sels(t)]
        BY <1>1, <1>3, <1>4, <1>6, LiveThread DEF v
    <2> QED
        BY <1>3, <1>5, <1>18, <2>1, <2>2, LiveKept
<1>21. /\ t \in now.ones => pending' = pending \ {t}
       /\ t \in now.twos => pending' = pending
    <2>1. now.ones \subseteq 1 .. N
        BY DEF Good, Corr, Live
    <2>2. t \in now.ones => pc'[t] # 1
        BY <1>1, <1>4
    <2> QED
        BY <1>4, <1>6, <1>18, <2>1, <2>2 DEF pending
<1>22. /\ \A u \in 1 .. N : u # t => left(u)' = left(u)
       /\ t \in now.ones => left(t)' = left(t)
       /\ t \in now.twos => left(t)' = left(t) - 1
    <2>1. \A u \in 1 .. N : u # t => left(u)' = left(u)
        BY <1>4, <1>18 DEF left
    <2>2. t \in now.ones => left(t)' = left(t)
        BY <1>6, <1>18 DEF left
    <2>3. t \in now.twos => left(t)' = left(t) - 1
        BY <1>1, <1>4, <1>6, <1>18 DEF left
    <2> QED
        BY <2>1, <2>2, <2>3
<1>23. t \in now.ones => Cardinality(pending') = Cardinality(pending) - 1
    BY <1>11, <1>12, <1>21, FS_RemoveElement
<1>24. /\ acc'[v] = acc[v] + m
       /\ \A y : context(now, y) /\ y # x => acc'[var[y]] = acc[var[y]]
    <2>1. acc'[v] = acc[v] + m /\ \A w \in opened : w # v => acc'[w] = acc[w]
        BY <1>8, <1>15 DEF acc
    <2> QED
        BY <1>8, <2>1, ContextIs
<1>25. Values'
    <2>1. ASSUME NEW y, context(now, y), y # x
          PROVE  Stood(y)'
        <3>1. y = "B" => t \notin now.ones /\ pending' = pending
            BY <1>5, <1>6, <1>21, <2>1
        <3>2. \A u \in 1 .. N : y = sels(u) => left(u)' = left(u)
            <4>1. ASSUME NEW u \in 1 .. N, y = sels(u)
                  PROVE  left(u)' = left(u)
                BY <1>5, <1>6, <1>22, <2>1, <4>1
            <4> QED
                BY <4>1
        <3>3. Stood(y) /\ acc'[var[y]] = acc[var[y]]
            BY <1>24, <2>1 DEF Good, Corr, Values
        <3> QED
            BY <1>3, <1>18, <3>1, <3>2, <3>3 DEF Stood, Stands
    <2>2. Stood(x)'
        <3>1. acc'[var'[x]] \in Nat /\ now'.ctx[x].acc = n /\ n \in Int /\ n < Half
              /\ acc'[var'[x]] = acc[v] + m
            BY <1>3, <1>7, <1>10, <1>18, <1>24 DEF n, v
        <3>2. CASE t \in now.ones
            <4>1. acc[v] = n - 25 * Cardinality(pending)
                BY <1>6, <1>9, <3>2 DEF Stood, Stands, v, n
            <4>2. acc[v] + m = n - 25 * Cardinality(pending')
                BY <1>26, <1>10, <1>11, <1>23, <3>2, <4>1
            <4> QED
                BY <1>6, <3>1, <3>2, <4>2, NamesApart DEF Stood, Stands
        <3>3. CASE t \in now.twos
            <4>1. acc[v] = n - left(t) * sq(t)
                BY <1>6, <1>9, <3>3 DEF Stood, Stands, v, n
            <4>2. left(t) - 1 \in Nat /\ sq(t) \in Nat /\ left(t) = (left(t) - 1) + 1
                BY <1>12, <3>3, LeftIs
            <4>3. (left(t) - 1) * sq(t) \in Nat /\ left(t) * sq(t) = (left(t) - 1) * sq(t) + sq(t)
                BY <4>2, OneMore
            <4>4. acc[v] + m = n - (left(t) - 1) * sq(t)
                BY <1>26, <1>10, <3>3, <4>1, <4>2, <4>3
            <4>5. acc[v] + m = n - left(t)' * sq(t)
                BY <1>22, <3>3, <4>4
            <4>6. x # "B" /\ x \notin Labels /\ \A u \in 1 .. N : x = sels(u) => u = t
                BY <1>6, <3>3, NamesApart
            <4> QED
                BY <3>1, <4>5, <4>6 DEF Stood, Stands
        <3> QED
            BY <1>5, <3>2, <3>3
    <2>3. \A y : context(now', y) <=> context(now, y)
        BY <1>18
    <2> QED
        BY <2>1, <2>2, <2>3 DEF Values
<1> QED
    BY <1>16, <1>18, <1>20, <1>25 DEF Corr, Kept

\* What create does, as main sees it.
LEMMA CreateStep ==
    ASSUME Sized, Good, NEW t \in Threads, create(t)
    PROVE  /\ t = main /\ P' = P /\ k' = k + 1 /\ P[k].op = "create" /\ k \in 1 .. Len(P)
           /\ P[k].t \in 1 .. N /\ Books(P[k], now, now') /\ L' = L
           /\ code'[P[k].t] = P[k].body /\ pc'[P[k].t] = 1 /\ sel'[P[k].t] = sel[main]
           /\ \A u \in Threads : u # P[k].t => code'[u] = code[u] /\ sel'[u] = sel[u]
           /\ \A u \in 1 .. N : u # P[k].t => pc'[u] = pc[u]
           /\ P[k].t # main /\ DOMAIN sel' = DOMAIN sel
           /\ UNCHANGED <<vars, kvars, var, sums, failed, stateless>>
<1>1. t = main /\ P' = P /\ k' = k + 1 /\ P[k].op = "create" /\ k \in 1 .. Len(P)
    BY CreateTypes DEF Good
<1>2. next(t) = P[k]
    BY OnlyMain DEF create, Good
<1>3. P[k].t \in 1 .. N
    BY <1>1, MainIsBalanced DEF Proper, Good
<1>4. P[k].t \in Threads /\ P[k].t # main /\ main \in Threads
    BY <1>3, MainOfThreads DEF Threads
<1>5. /\ code' = [code EXCEPT ![P[k].t] = P[k].body]
      /\ pc' = [pc EXCEPT ![main] = @ + 1, ![P[k].t] = 1]
      /\ sel' = [sel EXCEPT ![P[k].t] = sel[main]]
      /\ UNCHANGED <<vars, kvars, var, sums, failed, stateless>>
    BY <1>1, <1>2 DEF create, asserts
<1> DEFINE new == P[k].t
           body == P[k].body
<1>6. /\ code'[new] = body /\ pc'[new] = 1 /\ sel'[new] = sel[main]
      /\ \A u \in Threads : u # new => code'[u] = code[u] /\ sel'[u] = sel[u]
      /\ \A u \in 1 .. N : u # new => pc'[u] = pc[u]
      /\ DOMAIN sel' = DOMAIN sel
    <2>1. DOMAIN code = Threads /\ pc \in [Threads -> Nat \ {0}] /\ DOMAIN sel = Threads
        BY DEF Good, PTypes, Corr, Picks
    <2>2. new \in Threads /\ new # main /\ \A u \in 1 .. N : u \in Threads /\ u # main
        BY <1>4, MainOfThreads DEF Threads
    <2>3. /\ code' = [code EXCEPT ![new] = body]
          /\ pc' = [pc EXCEPT ![main] = @ + 1, ![new] = 1]
          /\ sel' = [sel EXCEPT ![new] = sel[main]]
        BY <1>5
    <2> HIDE DEF new, body
    <2> QED
        BY <2>1, <2>2, <2>3
<1>7. Books(P[k], now, now')
    BY <1>1, NowNext DEF Good
<1>8. L' = L
    BY <1>1, HeldNext DEF opens, Good
<1> QED
    BY <1>1, <1>3, <1>4, <1>5, <1>6, <1>7, <1>8

\* A thread created: what it will add is in the ledger at once, and it has all of it
\* left to add.
LEMMA CorrCreate ==
    ASSUME Sized, Good, NEW t \in Threads, create(t)
    PROVE  Corr' /\ ~failed'
<1>0. PICK u : u = P[k].t
    OBVIOUS
<1>1. /\ P[k].op = "create" /\ u \in 1 .. N /\ Books(P[k], now, now') /\ L' = L
      /\ code'[u] = P[k].body /\ pc'[u] = 1 /\ sel'[u] = sel[main]
      /\ \A w \in Threads : w # u => code'[w] = code[w] /\ sel'[w] = sel[w]
      /\ \A w \in 1 .. N : w # u => pc'[w] = pc[w]
      /\ u # main /\ DOMAIN sel' = DOMAIN sel
      /\ UNCHANGED <<vars, kvars, var, sums, failed, stateless>>
    BY <1>0, CreateStep
<1>2. BookCreate1(P[k], now, now') \/ BookCreate2(P[k], now, now')
    BY <1>1, BooksOf
<1>3. acc' = acc /\ UNCHANGED <<opened, home, asked, cxs>> /\ var' = var
    BY <1>1, AccSame DEF kvars, stateless, asserts
<1>4. N \in Nat /\ \A w \in 1 .. N : w \in Threads
    BY ProgramAssumption DEF Threads
<1>5. PICK x, n :
          /\ context(now, x) /\ now'.ctx = put(now, x, value_in(now, x, now.ctx[x].acc + n))
          /\ now.ctx[x].acc + n < Half
          /\ now'.picked = now.picked /\ now'.sixres = now.sixres /\ now'.sixsum = now.sixsum
          /\ u \notin now.ones /\ u \notin now.twos
          /\ \/ /\ x = "B" /\ n = 25 /\ "B" \in now.picked /\ P[k].body = cx_mac_thread_1
                /\ now'.ones = now.ones \cup {u} /\ now'.twos = now.twos
             \/ /\ x = sels(u) /\ n = N * sq(u) /\ P[k].body = cx_mac_thread_2(u)
                /\ now'.ones = now.ones /\ now'.twos = now.twos \cup {u}
    <2>1. CASE BookCreate1(P[k], now, now')
        <3> DEFINE y == "B"
                   m == 25
        <3>1. y \in Names
            BY NamesApart
        <3>2. /\ context(now, y) /\ now'.ctx = put(now, y, value_in(now, y, now.ctx[y].acc + m))
              /\ now.ctx[y].acc + m < Half
              /\ now'.picked = now.picked /\ now'.sixres = now.sixres /\ now'.sixsum = now.sixsum
              /\ u \notin now.ones /\ u \notin now.twos
              /\ y = "B" /\ m = 25 /\ "B" \in now.picked /\ P[k].body = cx_mac_thread_1
              /\ now'.ones = now.ones \cup {u} /\ now'.twos = now.twos
            BY <1>0, <2>1 DEF BookCreate1, Book
        <3> HIDE DEF y, m
        <3> QED
            BY <3>2
    <2>2. CASE BookCreate2(P[k], now, now')
        <3> DEFINE y == sels(u)
                   m == N * sq(u)
        <3>1. /\ context(now, y) /\ now'.ctx = put(now, y, value_in(now, y, now.ctx[y].acc + m))
              /\ now.ctx[y].acc + m < Half
              /\ now'.picked = now.picked /\ now'.sixres = now.sixres /\ now'.sixsum = now.sixsum
              /\ u \notin now.ones /\ u \notin now.twos
              /\ P[k].body = cx_mac_thread_2(u)
              /\ now'.ones = now.ones /\ now'.twos = now.twos \cup {u}
            BY <1>0, <2>2 DEF BookCreate2, Book
        <3>2. y = sels(u) /\ m = N * sq(u)
            OBVIOUS
        <3> HIDE DEF y, m
        <3> QED
            BY <3>1, <3>2
    <2> QED
        BY <1>2, <2>1, <2>2
<1>6. /\ Kept'
      /\ \A y : context(now', y) <=> context(now, y)
      /\ \A y \in Names : none(now', y) <=> none(now, y)
      /\ now'.ctx[x].acc = now.ctx[x].acc + n
      /\ \A y \in Names \ {x} : now'.ctx[y] = now.ctx[y]
    BY <1>1, <1>3, <1>5, KeptValued
<1>7. Picks'
    BY <1>1, <1>3, <1>5, <1>6, MainOfThreads, PicksSame
<1>8. Totals' /\ ~failed'
    BY <1>1, <1>3, <1>5, TotalsKept DEF Good
<1>9. Live'
    <2>1. ASSUME NEW w \in 1 .. N, w # u
          PROVE  /\ w \in now.ones => /\ w \notin now'.twos /\ code'[w] = cx_mac_thread_1
                                      /\ sel'[w] = var'["B"] /\ context(now', "B")
                 /\ w \in now.twos => /\ code'[w] = cx_mac_thread_2(w) /\ pc'[w] <= N + 2
                                      /\ context(now', sels(w))
                                      /\ pc'[w] # 1 => sel'[w] = var'[sels(w)]
                 /\ w \notin now.ones /\ w \notin now.twos => ended(w)'
        BY <1>1, <1>3, <1>4, <1>5, <1>6, <2>1 DEF Good, Corr, Live, ended
    <2>2. /\ u \in now'.ones => /\ u \notin now'.twos /\ code'[u] = cx_mac_thread_1
                                /\ sel'[u] = var'["B"] /\ context(now', "B")
          /\ u \in now'.twos => /\ code'[u] = cx_mac_thread_2(u) /\ pc'[u] <= N + 2
                                /\ context(now', sels(u)) /\ pc'[u] = 1
          /\ u \in now'.ones \/ u \in now'.twos
        <3>1. CASE u \in now'.ones /\ u \notin now'.twos /\ x = "B" /\ "B" \in now.picked
                   /\ P[k].body = cx_mac_thread_1
            <4>1. sel[main] = var["B"]
                BY <3>1, PickedHeld, NamesApart
            <4> QED
                BY <1>1, <1>3, <1>5, <1>6, <3>1, <4>1
        <3>2. CASE u \in now'.twos /\ u \notin now'.ones /\ x = sels(u)
                   /\ P[k].body = cx_mac_thread_2(u)
            <4>1. 1 <= N + 2
                BY <1>4
            <4> QED
                BY <1>1, <1>3, <1>5, <1>6, <3>2, <4>1
        <3> QED
            BY <1>5, <3>1, <3>2
    <2>3. now.ones \subseteq 1 .. N /\ now.twos \subseteq 1 .. N
        BY DEF Good, Corr, Live
    <2>4. /\ now'.ones \subseteq now.ones \cup {u} /\ now'.twos \subseteq now.twos \cup {u}
          /\ now.ones \subseteq now'.ones /\ now.twos \subseteq now'.twos
        BY <1>5
    <2>5. now'.ones \subseteq 1 .. N /\ now'.twos \subseteq 1 .. N
        BY <1>1, <2>3, <2>4
    <2>6. \A w \in now'.ones : /\ w \notin now'.twos /\ code'[w] = cx_mac_thread_1
                               /\ sel'[w] = var'["B"] /\ context(now', "B")
        BY <2>1, <2>2, <2>4, <2>5
    <2>7. \A w \in now'.twos : /\ code'[w] = cx_mac_thread_2(w) /\ pc'[w] <= N + 2
                               /\ context(now', sels(w))
                               /\ pc'[w] # 1 => sel'[w] = var'[sels(w)]
        BY <2>1, <2>2, <2>4, <2>5
    <2>8. \A w \in 1 .. N : w \notin now'.ones /\ w \notin now'.twos => ended(w)'
        BY <2>1, <2>2, <2>4
    <2> QED
        BY <2>5, <2>6, <2>7, <2>8 DEF Live
<1>10. IsFiniteSet(pending) /\ Cardinality(pending) \in Nat
    BY PendingFinite DEF Good, Corr
<1>11. now.ones \subseteq 1 .. N
    BY DEF Good, Corr, Live
<1>12. /\ x = "B" => Cardinality(pending') = Cardinality(pending) + 1
       /\ x # "B" => pending' = pending
    <2>1. u \notin pending
        BY <1>5 DEF pending
    <2>2. CASE now'.ones = now.ones \cup {u} /\ x = "B"
        <3>1. pending' = pending \cup {u}
            BY <1>1, <1>5, <1>11, <2>2 DEF pending
        <3> QED
            BY <1>10, <2>1, <2>2, <3>1, FS_AddElement
    <2>3. CASE now'.ones = now.ones /\ x = sels(u)
        <3>1. pending' = pending
            BY <1>1, <1>5, <1>11, <2>3 DEF pending
        <3> QED
            BY <1>1, <2>3, <3>1, NamesApart
    <2> QED
        BY <1>5, <2>2, <2>3
<1>13. /\ \A w \in 1 .. N : w # u => left(w)' = left(w)
       /\ x = "B" => left(u)' = left(u)
       /\ x # "B" => left(u)' = N /\ left(u) = 0
    <2>1. \A w \in 1 .. N : w # u => left(w)' = left(w)
        BY <1>1, <1>5 DEF left
    <2>2. x = "B" => u \notin now'.twos
        BY <1>1, <1>5, NamesApart
    <2>3. x # "B" => u \in now'.twos
        BY <1>5
    <2> QED
        BY <1>1, <1>5, <2>1, <2>2, <2>3 DEF left
<1>14. Values'
    <2>1. ASSUME NEW y, context(now, y), y # x
          PROVE  Stood(y)'
        <3>1. Stood(y) /\ y \in Names /\ now'.ctx[y] = now.ctx[y]
            BY <1>6, <2>1 DEF Good, Corr, Values, context
        <3>2. y = "B" => pending' = pending
            BY <1>12, <2>1
        <3>3. ASSUME NEW w \in 1 .. N, y = sels(w)
              PROVE  left(w)' = left(w)
            BY <1>5, <1>13, <2>1, <3>3
        <3> QED
            BY <1>3, <3>1, <3>2, <3>3 DEF Stood, Stands
    <2>2. Stood(x)'
        <3> DEFINE m == now.ctx[x].acc
                   a == acc[var[x]]
        <3>1. Stood(x)
            BY <1>5 DEF Good, Corr, Values
        <3>2. a \in Nat /\ m \in Int
            BY <3>1 DEF Stood
        <3>3. now'.ctx[x].acc = m + n /\ acc'[var'[x]] = a /\ m + n < Half
            BY <1>3, <1>5, <1>6
        <3>4. CASE x = "B"
            <4>1. n = 25
                BY <1>1, <1>5, <3>4, NamesApart
            <4>2. a = m - 25 * Cardinality(pending)
                BY <3>1, <3>4 DEF Stood, Stands
            <4> HIDE DEF m, a
            <4>3. m + n \in Int /\ a = (m + n) - 25 * Cardinality(pending')
                BY <1>10, <1>12, <3>2, <3>4, <4>1, <4>2
            <4> QED
                BY <3>2, <3>3, <3>4, <4>3, NamesApart DEF Stood, Stands
        <3>5. CASE x # "B"
            <4>1. x = sels(u) /\ n = N * sq(u) /\ sq(u) \in Nat
                BY <1>1, <1>5, <3>5, LeftIs
            <4>2. a = m - left(u) * sq(u)
                BY <1>1, <3>1, <4>1 DEF Stood, Stands
            <4>3. left(u)' = N /\ left(u) * sq(u) = 0
                BY <1>13, <3>5, <4>1
            <4>4. n \in Nat
                BY <1>4, <4>1, OneMore
            <4> HIDE DEF m, a
            <4>5. m + n \in Int /\ a = (m + n) - left(u)' * sq(u)
                BY <3>2, <4>1, <4>2, <4>3, <4>4
            <4>6. x \notin Labels /\ \A w \in 1 .. N : x = sels(w) => w = u
                BY <1>1, <4>1, NamesApart
            <4> QED
                BY <3>2, <3>3, <3>5, <4>5, <4>6 DEF Stood, Stands
        <3> QED
            BY <3>4, <3>5
    <2> QED
        BY <1>6, <2>1, <2>2 DEF Values
<1> QED
    BY <1>6, <1>7, <1>8, <1>9, <1>14 DEF Corr, Kept

\* A thread that main has joined is one no more; it had come to its end.
LEMMA CorrJoin ==
    ASSUME Sized, Good, NEW t \in Threads, join(t)
    PROVE  Corr' /\ ~failed'
<1>0. PICK u : u = P[k].t
    OBVIOUS
<1>1. t = main /\ P[k].op = "join" /\ next(t) = P[k] /\ k \in 1 .. Len(P)
    BY OnlyMain DEF join, Good
<1>2. P' = P /\ k' = k + 1
    BY <1>1, OtherStep DEF Good
<1>3. /\ UNCHANGED <<vars, kvars, code, sel, var, sums, failed, stateless>>
      /\ ended(u) /\ advance(main)
    BY <1>0, <1>1 DEF join, asserts
<1>4. \A w \in 1 .. N : w \in Threads /\ w # main /\ pc'[w] = pc[w]
    BY <1>3, MainOfThreads DEF advance, Good, PTypes, Threads
<1>5. acc' = acc /\ UNCHANGED <<opened, home, asked, cxs>>
    BY <1>3, AccSame DEF kvars, stateless, asserts
<1>6. /\ now'.ctx = now.ctx /\ now'.picked = now.picked
      /\ now'.ones = now.ones \ {u} /\ now'.twos = now.twos \ {u}
      /\ now'.sixres = now.sixres /\ now'.sixsum = now.sixsum
    <2>1. Books(P[k], now, now')
        BY <1>1, <1>2, NowNext DEF Good
    <2>2. BookJoin(P[k], now, now')
        BY <1>1, <2>1 DEF Books, Alone, BookOpen, BookFull, BookPlace, BookOpenCx, BookClose, BookSel,
           BookFn, BookMac, BookRead, BookSquare, BookCheck, BookUnknown, BookCreate1, BookCreate2
    <2> QED
        BY <1>0, <2>2 DEF BookJoin, Book
<1>7. L' = L
    BY <1>1, <1>2, HeldNext DEF opens, Good
<1>8. Kept' /\ \A y : context(now', y) <=> context(now, y)
    BY <1>3, <1>5, <1>6, <1>7, KeptSame
<1>9. \A y \in Names : none(now', y) <=> none(now, y)
    BY <1>6 DEF none
<1>10. Picks' /\ Totals'
    BY <1>3, <1>5, <1>6, <1>9, PicksSame, TotalsKept
<1>11. now.ones \subseteq 1 .. N /\ now.twos \subseteq 1 .. N
    BY DEF Good, Corr, Live
<1>12. Live'
    <2>1. \A w \in 1 .. N : ended(w) <=> ended(w)'
        BY <1>3, <1>4 DEF ended
    <2>2. \A w \in 1 .. N : w \notin now'.ones /\ w \notin now'.twos => ended(w)'
        BY <1>3, <1>6, <2>1 DEF Good, Corr, Live
    <2>3. \A w \in now'.ones : /\ w \notin now'.twos /\ code'[w] = cx_mac_thread_1
                               /\ sel'[w] = var'["B"] /\ context(now', "B")
        BY <1>3, <1>6, <1>8 DEF Good, Corr, Live
    <2>4. \A w \in now'.twos : /\ code'[w] = cx_mac_thread_2(w) /\ pc'[w] <= N + 2
                               /\ context(now', sels(w))
                               /\ pc'[w] # 1 => sel'[w] = var'[sels(w)]
        BY <1>3, <1>4, <1>6, <1>8, <1>11 DEF Good, Corr, Live
    <2> QED
        BY <1>6, <1>11, <2>2, <2>3, <2>4 DEF Live
<1>13. pending' = pending
    <2>1. u \notin pending
        <3> SUFFICES ASSUME u \in pending PROVE FALSE
            OBVIOUS
        <3>1. u \in now.ones /\ u \in 1 .. N /\ pc[u] = 1
            BY <1>11 DEF pending
        <3> QED
            BY <1>3, <3>1, LiveThread
    <2> QED
        BY <1>4, <1>6, <1>11, <2>1 DEF pending
<1>14. \A w \in 1 .. N : left(w)' = left(w)
    <2>1. ASSUME NEW w \in 1 .. N
          PROVE  left(w)' = left(w)
        <3>1. CASE w # u \/ u \notin now.twos
            BY <1>4, <1>6, <3>1 DEF left
        <3>2. CASE w = u /\ u \in now.twos
            <4>1. pc[u] \in Nat /\ N \in Nat /\ pc[u] <= N + 2 /\ ~(pc[u] <= N + 1)
                BY <1>3, <3>2, LiveThread
            <4>2. left(u) = 0
                BY <3>2, <4>1 DEF left
            <4>3. left(u)' = 0
                BY <1>6 DEF left
            <4> QED
                BY <3>2, <4>2, <4>3
        <3> QED
            BY <3>1, <3>2
    <2> QED
        BY <2>1
<1>15. Values'
    BY <1>3, <1>5, <1>6, <1>8, <1>13, <1>14 DEF Good, Corr, Values, Stood, Stands
<1> QED
    BY <1>3, <1>8, <1>10, <1>12, <1>15 DEF Corr, Kept, Good

\* A step that changes neither the program's state nor a context's value.
LEMMA CorrSame ==
    ASSUME Good, UNCHANGED <<opened, kvars, pvars>>, acc' = acc
    PROVE  Corr' /\ ~failed'
<1>1. P' = P /\ k' = k
    BY DEF pvars, P, k
<1>2. UNCHANGED <<var, sel, pc, code, sums, cxs, opened, home, asked, failed>>
    BY DEF pvars, stateless, asserts, kvars
<1>3. Kept' /\ Picks' /\ Totals' /\ now' = now
    BY <1>1, <1>2, ThreadKeeps
<1>4. Live'
    BY <1>2, <1>3 DEF Good, Corr, Live, ended, context
<1>5. pending' = pending /\ \A w \in 1 .. N : left(w)' = left(w)
    BY <1>2, <1>3 DEF pending, left
<1>6. Values'
    BY <1>2, <1>3, <1>5 DEF Good, Corr, Values, Stood, Stands, context
<1> QED
    BY <1>2, <1>3, <1>4, <1>6 DEF Corr, Kept, Good

\* Every step keeps the ledger right, and no assert fails.
LEMMA CorrStep ==
    ASSUME Sized, Good, IInv', [PNext]_allvars
    PROVE  Corr' /\ ~failed'
<1>1. ASSUME NEW t \in Threads, instruction(t)
      PROVE  Corr' /\ ~failed'
    <2>1. CASE open(t) \/ place(t) \/ close(t) \/ open_cx(t) \/ close_cx(t) \/ create(t) \/ join(t)
        BY <2>1, CorrOpen, CorrPlace, CorrClose, CorrOpenCx, CorrCloseCx, CorrCreate, CorrJoin
    <2>2. CASE t = main /\ (select(t) \/ mac(t) \/ read(t) \/ fn(t) \/ error_clear(t) \/ square(t)
                            \/ check(t) \/ check_word(t))
        BY <2>2, CorrSelect, CorrMac, CorrRead, CorrFn, CorrScalar
    <2>3. CASE t # main /\ (select(t) \/ mac(t))
        <3>1. t \in 1 .. N
            BY <2>3 DEF Threads
        <3> QED
            BY <2>3, <3>1, CorrWorkerSel, CorrWorkerMac
    <2>4. read(t) \/ fn(t) \/ error_clear(t) \/ square(t) \/ check(t) \/ check_word(t)
              => t = main
        BY OnlyMain DEF Good, read, fn, error_clear, square, check, check_word
    <2>5. CASE open_unknown(t)
        BY <2>5, CorrUnknown
    <2> QED
        BY <1>1, <2>1, <2>2, <2>3, <2>4, <2>5 DEF instruction
<1>2. ASSUME NEW t \in Threads, first_use(t)
      PROVE  Corr' /\ ~failed'
    <2>1. trap(sel[t]) /\ sel[t] \in Virts /\ UNCHANGED pvars
        BY <1>2 DEF first_use, trap, switch_to, Good, KInv, KTypes
    <2>2. acc' = acc /\ UNCHANGED <<opened, kvars>>
        BY <2>1, AccTrap DEF Good
    <2> QED
        BY <2>1, <2>2, CorrSame
<1>3. ASSUME UNCHANGED <<vars, kvars, pvars>>
      PROVE  Corr' /\ ~failed'
    <2>1. acc' = acc /\ UNCHANGED <<opened, kvars>>
        BY <1>3, AccSame
    <2> QED
        BY <1>3, <2>1, CorrSame
<1> QED
    BY <1>1, <1>2, <1>3 DEF PNext, finished, allvars

\* When main starts the ledger has no entry.
LEMMA CorrInit ==
    ASSUME Sized, PInit
    PROVE  Corr /\ ~failed
<1>1. PICK file \in Files :
          code = [t \in Threads |-> IF t = main THEN program(file) ELSE << >>]
    BY DEF PInit
<1>2. k = 1 /\ PTypes /\ Holdings /\ opened = {}
    <2>1. PInv /\ ~failed
        BY PInitInv DEF PInit
    <2>2. k = 1 /\ opened = {}
        BY MainOfThreads DEF PInit, KInit, Init, k
    <2> QED
        BY <2>1, <2>2 DEF PInv, AssertsHold
<1>3. L = {}
    BY <1>2, MainIsBalanced DEF L
<1>4. now = Blank({LEGACY})
    BY <1>2, MainIsBooked DEF now
<1>5. /\ \A x \in Names : none(now, x)
      /\ \A x : ~context(now, x)
      /\ now.picked = {LEGACY} /\ now.ones = {} /\ now.twos = {}
      /\ now.sixres = 0 /\ now.sixsum = 0
    BY <1>4 DEF Blank, Book, Unheld, none, context
<1>6. Named /\ Kinds /\ Places /\ Own /\ Values
    BY <1>2, <1>3, <1>5 DEF Named, Kinds, Places, Own, Values
<1>7. Picks
    BY <1>5, MainOfThreads DEF Picks, Selects, selector, PInit
<1>8. Totals
    BY <1>5 DEF Totals, PInit
<1>9. Live
    <2>1. \A t \in 1 .. N : code[t] = << >> /\ pc[t] = 1
        BY <1>1, MainOfThreads DEF Threads, PInit
    <2>2. \A t \in 1 .. N : ended(t)
        BY <2>1, EmptySeq DEF ended
    <2> QED
        BY <1>5, <2>2 DEF Live
<1> QED
    BY <1>6, <1>7, <1>8, <1>9 DEF Corr, PInit

\* The invariant, with those of the kernel and of the contexts.
Booked == Corr /\ ~failed

\* The ledger is right in every reachable state, and no assert has failed.
LEMMA BookedInvariant ==
    ASSUME Sized, Marking
    PROVE  PSpec => []Booked
<1>1. PSpec => []IInv
    BY ProgramsAreKernelRuns, KernelImplementsVirt, CleanIsSaved, PTL DEF IInv
<1>2. PInit => Booked
    BY CorrInit DEF Booked
<1>3. PInv /\ IInv /\ IInv' /\ Booked /\ [PNext]_allvars => Booked'
    BY CorrStep DEF PInv, AssertsHold, Booked, Good
<1> QED
    BY <1>1, <1>2, <1>3, ProgramInvariant, PTL DEF PSpec, allvars

\* Every assert of the examples holds, but those that take the index cx_open returns
\* for the selector's word (they set misread): in every interleaving of the threads,
\* their traps and the switches of contexts, whichever state the kernel shares, for
\* any number of threads whose sums an int32_t can hold.
THEOREM AssertsKept ==
    ASSUME Sized, Marking
    PROVE  PSpec => []AssertsHold
<1>1. Booked => AssertsHold
    BY DEF Booked, AssertsHold
<1> QED
    BY <1>1, BookedInvariant, PTL

\* So every example that has come to its end leaves nothing behind in the kernel.
THEOREM ProgramsLeaveNothing ==
    ASSUME Sized, Marking
    PROVE  PSpec => []LeavesNothing
BY AssertsKept, NothingLeft, PTL
=============================================================================
