---------------------------- MODULE CxKernelProofs ---------------------------
(***************************************************************************)
(* The kernel's bookkeeping is exact for every number of processes,        *)
(* selectors and states, and what it does to the CXU are steps of CxVirt:  *)
(* what is proved of CxVirt holds under the kernel.                        *)
(***************************************************************************)
EXTENDS CxKernel, CxVirtProofs, FiniteSetTheorems, SequenceTheorems

KTypes == /\ pool \in Seq(States)
          /\ share \in [States -> CX_SHARE_T \cup {UNASSIGNED_STATE}]
          /\ pid \in [States -> Procs \cup {None}]
          /\ counter \in [States -> Int]
          /\ home \in [Virts -> States \cup {None}]
          /\ asked \in [Virts -> CX_SHARE_T \cup {UNASSIGNED_STATE}]
          /\ resident \in [States -> Virts \cup {None}]
          /\ opened \subseteq Virts
          /\ IsFiniteSet(opened)

\* A selector's table entry names a state exactly while it is open.
Homes == \A v \in Virts : IF v \in opened THEN home[v] \in States ELSE home[v] = None

free(s) == \E i \in 1 .. Len(pool) : pool[i] = s

PoolFree == /\ \A i, j \in 1 .. Len(pool) : pool[i] = pool[j] => i = j
            /\ \A s \in States : free(s) <=> users(s) = {}

\* The counter of a state is the number of contexts open on it: what the last
\* close goes by.
CounterExact == \A s \in States : counter[s] = Cardinality(users(s))

\* A context that is not INTER_VIRT is on a state its process claimed, and a state
\* is never handed to two NO_VIRT contexts.
Shares == /\ \A v \in opened : /\ asked[v] \in CX_SHARE_T
                               /\ asked[v] = CX_INTRA_VIRT =>
                                     share[home[v]] \in {CX_NO_VIRT, CX_INTRA_VIRT}
                               /\ asked[v] = CX_NO_VIRT => share[home[v]] = CX_NO_VIRT
                               /\ asked[v] # CX_INTER_VIRT => pid[home[v]] = proc(v)
          /\ \A v, u \in opened :
                home[v] = home[u] /\ asked[v] = CX_NO_VIRT /\ asked[u] = CX_NO_VIRT => v = u

\* A context is loaded on its own state only.
AtHome == \A s \in States : resident[s] # None => home[resident[s]] = s

KInv == KTypes /\ Homes /\ PoolFree /\ CounterExact /\ Shares /\ AtHome

LEMMA ShareTypes == /\ CX_NO_VIRT # CX_INTRA_VIRT /\ CX_NO_VIRT # CX_INTER_VIRT
                    /\ CX_INTRA_VIRT # CX_INTER_VIRT
                    /\ CX_SHARE_T = {CX_NO_VIRT, CX_INTRA_VIRT, CX_INTER_VIRT}
BY DEF CX_NO_VIRT, CX_INTRA_VIRT, CX_INTER_VIRT, CX_SHARE_T

LEMMA ProcOf == \A v \in Virts : proc(v) \in Procs
BY KernelAssumption DEF proc

\* The users of a state are finitely many.
LEMMA UsersFinite ==
    ASSUME KTypes, NEW s
    PROVE  IsFiniteSet(users(s)) /\ users(s) \subseteq Virts
<1>1. users(s) \in SUBSET opened
    BY DEF users
<1> QED
    BY <1>1, FS_Subset DEF KTypes

\* The pool holds one copy of a free id and none of a used one.
LEMMA PoolCounts == KInv => PoolExact
<1> SUFFICES ASSUME KInv, NEW s \in States
             PROVE  Cardinality({i \in DOMAIN pool : pool[i] = s})
                        = IF users(s) = {} THEN 1 ELSE 0
    BY DEF PoolExact
<1> DEFINE at == {i \in DOMAIN pool : pool[i] = s}
<1>1. DOMAIN pool = 1 .. Len(pool)
    BY LenProperties DEF KInv, KTypes
<1>2. CASE users(s) = {}
    <2>1. PICK i \in 1 .. Len(pool) : pool[i] = s
        BY <1>2 DEF KInv, PoolFree, free
    <2>2. at = {i}
        BY <1>1, <2>1 DEF KInv, PoolFree
    <2> QED
        BY <1>2, <2>2, FS_Singleton
<1>3. CASE users(s) # {}
    <2>1. at = {}
        BY <1>1, <1>3 DEF KInv, PoolFree, free
    <2> QED
        BY <1>3, <2>1, FS_EmptySet
<1> QED
    BY <1>2, <1>3

-----------------------------------------------------------------------------
\* A context on s, whether s was free, is shared or was named by the program:
\* what the three openings have in common.
ShareSet(type, s) ==
    /\ share' \in [States -> CX_SHARE_T \cup {UNASSIGNED_STATE}]
    /\ \A t \in States : t # s => share'[t] = share[t]
    /\ type = CX_NO_VIRT => share'[s] = CX_NO_VIRT
    /\ type = CX_INTRA_VIRT => share'[s] \in {CX_NO_VIRT, CX_INTRA_VIRT}
PidSet(v, type, s) ==
    /\ pid' \in [States -> Procs \cup {None}]
    /\ \A t \in States : t # s => pid'[t] = pid[t]
    /\ type # CX_INTER_VIRT => pid'[s] = proc(v)
UsersFit(v, type, s) ==
    \A u \in users(s) : /\ type # CX_NO_VIRT
                        /\ share'[s] = share[s]
                        /\ pid'[s] = pid[s]
PoolSet(s) ==
    /\ pool' \in Seq(States)
    /\ \A i, j \in 1 .. Len(pool') : pool'[i] = pool'[j] => i = j
    /\ \A t \in States : free(t)' <=> free(t) /\ t # s

LEMMA AttachKeeps ==
    ASSUME KInv, NEW v \in Virts, NEW s \in States, NEW type \in CX_SHARE_T,
           attach(v, type, s), ShareSet(type, s), PidSet(v, type, s),
           UsersFit(v, type, s), PoolSet(s)
    PROVE  KInv'
<1> USE DEF ShareSet, PidSet, UsersFit, PoolSet
<1>1. /\ v \notin opened
      /\ opened' = opened \cup {v}
      /\ resident' = [resident EXCEPT ![s] = v]
      /\ home' = [home EXCEPT ![v] = s]
      /\ asked' = [asked EXCEPT ![v] = type]
      /\ counter' = [counter EXCEPT ![s] = @ + 1]
    BY DEF attach, cx_open
<1>2. KTypes'
    <2>1. IsFiniteSet(opened') /\ opened' \subseteq Virts
        BY <1>1, FS_AddElement DEF KInv, KTypes
    <2>2. /\ home' \in [Virts -> States \cup {None}]
          /\ asked' \in [Virts -> CX_SHARE_T \cup {UNASSIGNED_STATE}]
          /\ resident' \in [States -> Virts \cup {None}]
        BY <1>1 DEF KInv, KTypes
    <2>3. counter' \in [States -> Int]
        BY <1>1 DEF KInv, KTypes
    <2> QED
        BY <2>1, <2>2, <2>3 DEF KTypes
<1>3. \A u \in Virts : /\ home'[u] = IF u = v THEN s ELSE home[u]
                       /\ asked'[u] = IF u = v THEN type ELSE asked[u]
    BY <1>1 DEF KInv, KTypes
<1>5. \A u \in opened : u \in Virts /\ u # v /\ home[u] \in States
    BY <1>1 DEF KInv, KTypes, Homes
<1>6. Homes'
    BY <1>1, <1>3 DEF KInv, Homes
<1>7. \A t \in States : users(t)' = IF t = s THEN users(s) \cup {v} ELSE users(t)
    BY <1>1, <1>3, <1>5 DEF users
<1>8. PoolFree'
    BY <1>7 DEF KInv, PoolFree
<1>9. CounterExact'
    <2>1. v \notin users(s)
        BY <1>1 DEF users
    <2>2. Cardinality(users(s) \cup {v}) = Cardinality(users(s)) + 1
        BY <2>1, UsersFinite, FS_AddElement DEF KInv
    <2> QED
        BY <1>1, <1>7, <2>2 DEF KInv, KTypes, CounterExact
<1>10. Shares'
    <2>1. ASSUME NEW u \in opened'
          PROVE  /\ asked'[u] \in CX_SHARE_T
                 /\ asked'[u] = CX_INTRA_VIRT =>
                       share'[home'[u]] \in {CX_NO_VIRT, CX_INTRA_VIRT}
                 /\ asked'[u] = CX_NO_VIRT => share'[home'[u]] = CX_NO_VIRT
                 /\ asked'[u] # CX_INTER_VIRT => pid'[home'[u]] = proc(u)
        <3>1. CASE u = v
            <4>1. home'[u] = s /\ asked'[u] = type
                BY <3>1, <1>3
            <4> QED
                BY <3>1, <4>1, ShareTypes
        <3>2. CASE u # v
            <4>1. u \in opened /\ home'[u] = home[u] /\ asked'[u] = asked[u]
                BY <3>2, <1>1, <1>3, <1>5
            <4>2. pid'[home[u]] = pid[home[u]] /\ share'[home[u]] = share[home[u]]
                BY <4>1, <1>5 DEF users
            <4> QED
                BY <4>1, <4>2 DEF KInv, Shares
        <3> QED
            BY <3>1, <3>2
    <2>2. ASSUME NEW w \in opened', NEW u \in opened', home'[w] = home'[u],
                 asked'[w] = CX_NO_VIRT, asked'[u] = CX_NO_VIRT
          PROVE  w = u
        <3>1. CASE w = v /\ u # v
            <4>1. u \in users(s)
                BY <2>2, <3>1, <1>1, <1>3, <1>5 DEF users
            <4> QED
                BY <2>2, <3>1, <4>1, <1>3
        <3>2. CASE u = v /\ w # v
            <4>1. w \in users(s)
                BY <2>2, <3>2, <1>1, <1>3, <1>5 DEF users
            <4> QED
                BY <2>2, <3>2, <4>1, <1>3
        <3>3. CASE w # v /\ u # v
            BY <2>2, <3>3, <1>1, <1>3, <1>5 DEF KInv, Shares
        <3> QED
            BY <3>1, <3>2, <3>3
    <2> QED
        BY <2>1, <2>2 DEF Shares
<1>11. AtHome'
    <2>1. \A t \in States : resident'[t] = IF t = s THEN v ELSE resident[t]
        BY <1>1 DEF KInv, KTypes
    <2> SUFFICES ASSUME NEW t \in States, resident'[t] # None PROVE home'[resident'[t]] = t
        BY DEF AtHome
    <2>2. CASE t = s
        BY <2>1, <2>2, <1>3
    <2>3. CASE t # s
        <3>1. resident'[t] = resident[t] /\ resident[t] \in Virts /\ home[resident[t]] = t
            BY <2>1, <2>3 DEF KInv, KTypes, AtHome
        <3>2. resident[t] # v
            BY <3>1, <1>1, KernelAssumption DEF KInv, Homes
        <3> QED
            BY <3>1, <3>2, <1>3
    <2> QED
        BY <2>2, <2>3
<1> QED
    BY <1>2, <1>6, <1>8, <1>9, <1>10, <1>11 DEF KInv

LEMMA OpenFreeKeeps ==
    ASSUME KInv, NEW v \in Virts, NEW type \in CX_SHARE_T, OpenFree(v, type)
    PROVE  KInv' /\ \E s \in States : cx_open(v, s)
<1> DEFINE s == Head(pool)
<1>1. /\ pool # << >> /\ got' = s /\ pool' = Tail(pool)
      /\ share' = [share EXCEPT ![s] = type]
      /\ pid' = [pid EXCEPT ![s] = proc(v)]
      /\ attach(v, type, s)
    BY DEF OpenFree, Pool!ADequeue
<1>2. /\ Len(pool) \in Nat \ {0} /\ s = pool[1] /\ s \in States
      /\ pool' \in Seq(States) /\ Len(pool') = Len(pool) - 1
      /\ \A i \in 1 .. Len(pool) - 1 : pool'[i] = pool[i + 1]
    BY <1>1, HeadTailProperties, EmptySeq, LenProperties DEF KInv, KTypes
<1>3. \A t \in States : free(t)' <=> free(t) /\ t # s
    <2> SUFFICES ASSUME NEW t \in States PROVE free(t)' <=> free(t) /\ t # s
        OBVIOUS
    <2>1. ASSUME NEW i \in 1 .. Len(pool'), pool'[i] = t PROVE free(t) /\ t # s
        <3>1. i + 1 \in 1 .. Len(pool) /\ 1 \in 1 .. Len(pool) /\ pool[i + 1] = t /\ i + 1 # 1
            BY <1>2, <2>1
        <3> QED
            BY <1>2, <3>1 DEF KInv, PoolFree, free
    <2>2. ASSUME NEW i \in 1 .. Len(pool), pool[i] = t, t # s PROVE free(t)'
        <3>1. i - 1 \in 1 .. Len(pool') /\ (i - 1) + 1 = i
            BY <1>2, <2>2
        <3>2. pool'[i - 1] = pool[(i - 1) + 1]
            BY <1>2, <3>1
        <3> QED
            BY <2>2, <3>1, <3>2 DEF free
    <2> QED
        BY <2>1, <2>2 DEF free
<1>4. \A i, j \in 1 .. Len(pool') : pool'[i] = pool'[j] => i = j
    <2> SUFFICES ASSUME NEW i \in 1 .. Len(pool'), NEW j \in 1 .. Len(pool'), pool'[i] = pool'[j]
                 PROVE  i = j
        OBVIOUS
    <2>1. i + 1 \in 1 .. Len(pool) /\ j + 1 \in 1 .. Len(pool) /\ pool[i + 1] = pool[j + 1]
        BY <1>2
    <2>2. i + 1 = j + 1
        BY <2>1 DEF KInv, PoolFree
    <2> QED
        BY <1>2, <2>2
<1>5. users(s) = {}
    <2>1. 1 \in 1 .. Len(pool)
        BY <1>2
    <2> QED
        BY <1>2, <2>1 DEF KInv, PoolFree, free
<1>6. /\ pid' \in [States -> Procs \cup {None}] /\ pid'[s] = proc(v)
      /\ \A t \in States : t # s => pid'[t] = pid[t]
    BY <1>1, <1>2, ProcOf DEF KInv, KTypes
<1> HIDE DEF s
<1>7. ShareSet(type, s)
    BY <1>1, <1>2, ShareTypes DEF ShareSet, KInv, KTypes
<1>8. PidSet(v, type, s)
    BY <1>6 DEF PidSet
<1>9. UsersFit(v, type, s)
    BY <1>5 DEF UsersFit
<1>10. PoolSet(s)
    BY <1>2, <1>3, <1>4 DEF PoolSet
<1>11. KInv'
    BY <1>1, <1>2, <1>7, <1>8, <1>9, <1>10, AttachKeeps
<1> QED
    BY <1>1, <1>2, <1>11 DEF attach

\* Without a free state the pool gives nothing and no id is free.
LEMMA EmptyPool ==
    ASSUME KTypes, pool = << >>, Pool!ADequeue
    PROVE  pool' = pool /\ \A t : ~free(t)
<1>1. Len(pool) = 0
    BY EmptySeq
<1> QED
    BY <1>1 DEF Pool!ADequeue, free

LEMMA OpenSharedKeeps ==
    ASSUME KInv, NEW v \in Virts, NEW type \in CX_SHARE_T, NEW s \in States,
           OpenShared(v, type, s)
    PROVE  KInv' /\ cx_open(v, s)
<1>1. /\ pool' = pool /\ \A t : ~free(t) /\ ~free(t)'
      /\ type # CX_NO_VIRT
      /\ type # CX_INTER_VIRT => /\ pid[s] = proc(v)
                                 /\ share[s] \in {CX_NO_VIRT, CX_INTRA_VIRT}
      /\ attach(v, type, s) /\ share' = share /\ pid' = pid
    BY EmptyPool, ShareTypes DEF OpenShared, may_share, KInv, free
<1>2. /\ share' \in [States -> CX_SHARE_T \cup {UNASSIGNED_STATE}]
      /\ pid' \in [States -> Procs \cup {None}]
    BY <1>1 DEF KInv, KTypes
<1>4. /\ pool' \in Seq(States)
      /\ \A i, j \in 1 .. Len(pool') : pool'[i] = pool'[j] => i = j
    BY <1>1 DEF KInv, KTypes, PoolFree
<1>5. ShareSet(type, s)
    BY <1>1, <1>2, ShareTypes DEF ShareSet
<1>6. PidSet(v, type, s)
    BY <1>1, <1>2, ShareTypes DEF PidSet
<1>7. UsersFit(v, type, s)
    BY <1>1 DEF UsersFit
<1>8. PoolSet(s)
    BY <1>1, <1>4 DEF PoolSet
<1>9. KInv'
    BY <1>1, <1>5, <1>6, <1>7, <1>8, AttachKeeps
<1> QED
    BY <1>1, <1>9 DEF attach

LEMMA OpenPlacedKeeps ==
    ASSUME KInv, NEW v \in Virts, NEW at \in Virts, OpenPlaced(v, at)
    PROVE  KInv' /\ \E s \in States : cx_open(v, s)
<1> DEFINE s == home[at]
           type == CX_INTRA_VIRT
<1>1. /\ at \in opened /\ proc(at) = proc(v) /\ asked[at] = type
      /\ attach(v, type, s) /\ pool' = pool /\ share' = share /\ pid' = pid
    BY DEF OpenPlaced
<1>2. /\ s \in States /\ pid[s] = proc(v) /\ type \in CX_SHARE_T
      /\ share[s] \in {CX_NO_VIRT, CX_INTRA_VIRT}
    BY <1>1, ShareTypes DEF KInv, Homes, Shares
<1>3. at \in users(s)
    BY <1>1 DEF users
<1>4. \A t \in States : free(t)' <=> free(t) /\ t # s
    BY <1>1, <1>2, <1>3 DEF KInv, PoolFree, free
<1>5. /\ share' \in [States -> CX_SHARE_T \cup {UNASSIGNED_STATE}]
      /\ pid' \in [States -> Procs \cup {None}]
    BY <1>1 DEF KInv, KTypes
<1>7. /\ pool' \in Seq(States)
      /\ \A i, j \in 1 .. Len(pool') : pool'[i] = pool'[j] => i = j
    BY <1>1 DEF KInv, KTypes, PoolFree
<1> HIDE DEF s, type
<1>8. ShareSet(type, s)
    BY <1>1, <1>2, <1>5, ShareTypes DEF ShareSet, type
<1>9. PidSet(v, type, s)
    BY <1>1, <1>2, <1>5 DEF PidSet
<1>10. UsersFit(v, type, s)
    BY <1>1, ShareTypes DEF UsersFit, type
<1>11. PoolSet(s)
    BY <1>4, <1>7 DEF PoolSet
<1>12. KInv'
    BY <1>1, <1>2, <1>8, <1>9, <1>10, <1>11, AttachKeeps
<1> QED
    BY <1>1, <1>2, <1>12 DEF attach

-----------------------------------------------------------------------------
\* A pool of distinct ids that lacks one of them is not full.
LEMMA PoolHasRoom ==
    ASSUME KInv, NEW s \in States, ~free(s)
    PROVE  Len(pool) \in Nat /\ Len(pool) < NumStates
<1> DEFINE S == 1 .. Len(pool)
           T == States \ {s}
<1>1. Len(pool) \in Nat /\ pool \in [S -> States]
    BY LenProperties DEF KInv, KTypes
<1>2. pool \in [S -> T]
    <2>1. \A i \in S : pool[i] \in T
        BY <1>1 DEF free
    <2> QED
        BY <1>1, <2>1
<1>3. pool \in Injection(S, T)
    BY <1>2 DEF KInv, PoolFree, Injection, IsInjective
<1>4. IsFiniteSet(States) /\ Cardinality(States) = NumStates
    <2>1. 0 \in Int /\ NumStates - 1 \in Int /\ ~(0 > NumStates - 1)
        BY KernelAssumption
    <2> QED
        BY <2>1, FS_Interval, KernelAssumption
<1>5. IsFiniteSet(T) /\ Cardinality(T) = NumStates - 1
    BY <1>4, FS_RemoveElement
<1>6. Cardinality(S) = Len(pool)
    BY <1>1, FS_Interval
<1>7. Cardinality(S) <= Cardinality(T)
    BY <1>3, <1>5, FS_Injection
<1> QED
    BY <1>1, <1>5, <1>6, <1>7, KernelAssumption

LEMMA CloseKeeps ==
    ASSUME KInv, NEW v \in Virts, sys_cx_close(v)
    PROVE  KInv' /\ cx_close(v)
<1> PICK s \in States : s = home[v]
    BY DEF sys_cx_close, cx_close, KInv, Homes
<1>1. /\ v \in opened
      /\ opened' = opened \ {v}
      /\ resident' = [t \in States |-> IF resident[t] = v THEN None ELSE resident[t]]
      /\ home' = [home EXCEPT ![v] = None]
      /\ asked' = [asked EXCEPT ![v] = UNASSIGNED_STATE]
      /\ counter' = [counter EXCEPT ![s] = @ - 1]
      /\ release(s) /\ pid' = pid
    BY DEF sys_cx_close, cx_close
<1>2. v \in users(s) /\ ~free(s)
    BY <1>1 DEF KInv, Homes, PoolFree, users
<1>3. \A u \in Virts : u # v => home'[u] = home[u] /\ asked'[u] = asked[u]
    BY <1>1 DEF KInv, KTypes
<1>4. \A u \in opened' : u \in opened /\ u \in Virts /\ u # v /\ home[u] \in States
    BY <1>1 DEF KInv, KTypes, Homes
<1>5. \A t \in States : users(t)' = IF t = s THEN users(s) \ {v} ELSE users(t)
    BY <1>1, <1>3, <1>4 DEF users
<1>6. counter[s] = 1 <=> users(s)' = {}
    <2>1. IsFiniteSet(users(s)) /\ counter[s] = Cardinality(users(s))
        BY <1>2, UsersFinite DEF KInv, CounterExact
    <2>2. Cardinality(users(s)) = 1 <=> users(s) = {v}
        BY <1>2, <2>1, FS_Singleton
    <2> QED
        BY <1>2, <1>5, <2>1, <2>2
<1>7. \/ /\ users(s)' = {}
         /\ pool' = Append(pool, s)
         /\ share' = [share EXCEPT ![s] = UNASSIGNED_STATE]
      \/ /\ users(s)' # {}
         /\ pool' = pool
         /\ share' = share
    BY <1>1, <1>2, <1>6, PoolHasRoom, KernelAssumption DEF release, Pool!AEnqueue
<1>8. /\ pool' \in Seq(States)
      /\ share' \in [States -> CX_SHARE_T \cup {UNASSIGNED_STATE}]
      /\ \A t \in States : t # s \/ users(s)' # {} => share'[t] = share[t]
    <2>1. pool \in Seq(States) /\ share \in [States -> CX_SHARE_T \cup {UNASSIGNED_STATE}]
        BY DEF KInv, KTypes
    <2>2. Append(pool, s) \in Seq(States)
        BY <2>1, AppendProperties
    <2> QED
        BY <1>7, <2>1, <2>2
<1>9. KTypes'
    <2>1. IsFiniteSet(opened') /\ opened' \subseteq Virts
        BY <1>1, FS_RemoveElement DEF KInv, KTypes
    <2>2. /\ home' \in [Virts -> States \cup {None}]
          /\ asked' \in [Virts -> CX_SHARE_T \cup {UNASSIGNED_STATE}]
          /\ resident' \in [States -> Virts \cup {None}]
          /\ pid' \in [States -> Procs \cup {None}]
        BY <1>1 DEF KInv, KTypes
    <2>3. counter' \in [States -> Int]
        BY <1>1, <1>2 DEF KInv, KTypes
    <2> QED
        BY <1>8, <2>1, <2>2, <2>3 DEF KTypes
<1>10. Homes'
    BY <1>1, <1>3 DEF KInv, KTypes, Homes
<1>11. PoolFree'
    <2>1. CASE users(s)' = {}
        <3>1. /\ Len(pool) \in Nat /\ Len(pool') = Len(pool) + 1 /\ pool'[Len(pool) + 1] = s
              /\ \A i \in 1 .. Len(pool) : pool'[i] = pool[i]
            BY <2>1, <1>2, <1>7, AppendProperties, LenProperties DEF KInv, KTypes
        <3>2. \A i \in 1 .. Len(pool) : pool'[i] # s
            BY <3>1, <1>2 DEF free
        <3>3. \A i, j \in 1 .. Len(pool') : pool'[i] = pool'[j] => i = j
            BY <3>1, <3>2 DEF KInv, PoolFree
        <3>4. \A t \in States : free(t)' <=> free(t) \/ t = s
            BY <3>1 DEF free
        <3> QED
            BY <2>1, <3>3, <3>4, <1>5 DEF KInv, PoolFree
    <2>2. CASE users(s)' # {}
        BY <2>2, <1>2, <1>5, <1>7 DEF KInv, PoolFree, free
    <2> QED
        BY <2>1, <2>2
<1>12. CounterExact'
    <2>1. Cardinality(users(s) \ {v}) = Cardinality(users(s)) - 1
        BY <1>2, UsersFinite, FS_RemoveElement DEF KInv
    <2> QED
        BY <1>1, <1>2, <1>5, <2>1 DEF KInv, KTypes, CounterExact
<1>13. Shares'
    <2>1. \A u \in opened' : share'[home[u]] = share[home[u]]
        BY <1>3, <1>4, <1>8 DEF users
    <2> QED
        BY <2>1, <1>1, <1>3, <1>4 DEF KInv, Shares
<1>14. AtHome'
    <2>1. \A t \in States : resident'[t] # None => resident'[t] = resident[t] /\ resident[t] # v
                                                   /\ resident[t] \in Virts
        BY <1>1 DEF KInv, KTypes
    <2> QED
        BY <2>1, <1>3 DEF KInv, AtHome
<1> QED
    BY <1>9, <1>10, <1>11, <1>12, <1>13, <1>14 DEF KInv, sys_cx_close

LEMMA TrapKeeps ==
    ASSUME KInv, NEW v \in Virts, trap(v)
    PROVE  KInv' /\ \E s \in States : switch_to(v, s)
<1> DEFINE s == home[v]
<1>1. /\ v \in opened /\ ~loaded(v) /\ opened' = opened /\ switch_to(v, s)
      /\ resident' = [resident EXCEPT ![s] = v]
      /\ UNCHANGED <<pool, share, pid, counter, home, asked>>
    BY DEF trap, switch_to, kvars
<1>2. s \in States /\ \A t \in States : resident'[t] = IF t = s THEN v ELSE resident[t]
    BY <1>1 DEF KInv, KTypes, Homes
<1>3. /\ KTypes'
      /\ Homes'
      /\ PoolFree' /\ CounterExact'
    <2>1. KTypes'
        BY <1>1 DEF KInv, KTypes
    <2>2. Homes' /\ PoolFree' /\ CounterExact'
        BY <1>1 DEF KInv, Homes, PoolFree, free, users, CounterExact
    <2> QED
        BY <2>1, <2>2
<1>4. Shares'
    BY <1>1 DEF KInv, Shares
<1>5. AtHome'
    BY <1>1, <1>2 DEF KInv, AtHome
<1> QED
    BY <1>1, <1>2, <1>3, <1>4, <1>5 DEF KInv

\* A step that leaves the bookkeeping alone.
LEMMA OthersKeep ==
    ASSUME KInv,
           UNCHANGED <<pool, share, pid, counter, home, asked, resident, opened>>
    PROVE  KInv'
<1>1. KTypes' /\ Homes' /\ PoolFree' /\ CounterExact' /\ AtHome'
    BY DEF KInv, KTypes, Homes, PoolFree, free, users, CounterExact, AtHome
<1>2. Shares'
    BY DEF KInv, Shares
<1> QED
    BY <1>1, <1>2 DEF KInv

\* At the start every state is in the pool and no selector is open.
LEMMA KInitInv == KInit => KInv
<1> SUFFICES ASSUME KInit PROVE KInv
    OBVIOUS
<1>1. /\ opened = {} /\ resident = [s \in States |-> None]
      /\ pool = [i \in 1 .. NumStates |-> i - 1]
      /\ share = [s \in States |-> UNASSIGNED_STATE]
      /\ pid = [s \in States |-> None]
      /\ counter = [s \in States |-> 0]
      /\ home = [v \in Virts |-> None]
      /\ asked = [v \in Virts |-> UNASSIGNED_STATE]
    BY DEF KInit, Init, Pool!AInit
<1>2. NumStates \in Nat /\ States = 0 .. NumStates - 1
    BY KernelAssumption
<1>3. pool \in Seq(States) /\ Len(pool) = NumStates
    BY <1>1, <1>2
<1>4. KTypes
    BY <1>1, <1>3, FS_EmptySet DEF KTypes
<1>5. \A s \in States : users(s) = {}
    BY <1>1 DEF users
<1>6. \A s \in States : free(s)
    <2> SUFFICES ASSUME NEW s \in States PROVE free(s)
        OBVIOUS
    <2>1. s + 1 \in 1 .. Len(pool) /\ pool[s + 1] = s
        BY <1>1, <1>2, <1>3
    <2> QED
        BY <2>1 DEF free
<1>7. PoolFree
    BY <1>1, <1>2, <1>3, <1>5, <1>6 DEF PoolFree
<1>8. CounterExact
    BY <1>1, <1>5, FS_EmptySet DEF CounterExact
<1>9. Homes /\ Shares /\ AtHome
    BY <1>1 DEF Homes, Shares, AtHome
<1> QED
    BY <1>4, <1>7, <1>8, <1>9 DEF KInv

\* A step of the kernel or of a program keeps the invariant, and is a step of
\* CxVirt on the state that the kernel picked, or leaves the contexts alone.
LEMMA KStep ==
    ASSUME KInv, [KNext]_<<vars, kvars>>
    PROVE  KInv' /\ [Next]_vars
<1>1. ASSUME NEW v \in Virts, NEW type \in CX_SHARE_T, OpenFree(v, type)
      PROVE  KInv' /\ [Next]_vars
    BY <1>1, OpenFreeKeeps DEF Next
<1>2. ASSUME NEW v \in Virts, NEW type \in CX_SHARE_T, OpenFails(v, type)
      PROVE  KInv' /\ [Next]_vars
    <2>1. pool' = pool /\ UNCHANGED <<vars, share, pid, counter, home, asked>>
        BY <1>2, EmptyPool DEF OpenFails, KInv
    <2>2. UNCHANGED <<pool, share, pid, counter, home, asked, resident, opened>>
        BY <2>1 DEF vars
    <2> QED
        BY <2>1, <2>2, OthersKeep
<1>3. ASSUME NEW v \in Virts, NEW type \in CX_SHARE_T, NEW s \in States, OpenShared(v, type, s)
      PROVE  KInv' /\ [Next]_vars
    BY <1>3, OpenSharedKeeps DEF Next
<1>4. ASSUME NEW v \in Virts, NEW at \in Virts, OpenPlaced(v, at)
      PROVE  KInv' /\ [Next]_vars
    BY <1>4, OpenPlacedKeeps DEF Next
<1>5. ASSUME NEW v \in Virts, sys_cx_close(v)
      PROVE  KInv' /\ [Next]_vars
    BY <1>5, CloseKeeps DEF Next
<1>6. ASSUME NEW v \in Virts, trap(v)
      PROVE  KInv' /\ [Next]_vars
    BY <1>6, TrapKeeps DEF Next
<1>7. ASSUME NEW v \in Virts, NEW cf \in Funcs, NEW a \in Operands, NEW b \in Operands,
             execute(v, cf, a, b)
      PROVE  KInv' /\ [Next]_vars
    <2>1. UNCHANGED <<pool, share, pid, counter, home, asked, resident, opened>>
        BY <1>7 DEF execute, Compute, kvars
    <2>2. Next
        BY <1>7 DEF execute, Next
    <2> QED
        BY <2>1, <2>2, OthersKeep
<1>8. ASSUME NEW v \in Virts, read_state(v)
      PROVE  KInv' /\ [Next]_vars
    <2>1. UNCHANGED <<pool, share, pid, counter, home, asked, resident, opened>>
        BY <1>8 DEF read_state, CX_READ_STATE, kvars
    <2>2. Next
        BY <1>8 DEF read_state, Next
    <2> QED
        BY <2>1, <2>2, OthersKeep
<1>9. CASE UNCHANGED <<vars, kvars>>
    BY <1>9, OthersKeep DEF vars, kvars
<1> QED
    BY <1>1, <1>2, <1>3, <1>4, <1>5, <1>6, <1>7, <1>8, <1>9 DEF KNext

LEMMA KernelInvariant == KSpec => []KInv
<1>1. KInv /\ [KNext]_<<vars, kvars>> => KInv'
    BY KStep
<1> QED
    BY <1>1, KInitInv, PTL DEF KSpec

\* No sequence of opens, shared opens and closes loses a state id, returns it to
\* the pool twice or frees it under a user: the ring never has to drop one.
THEOREM PoolIsExact == KSpec => []PoolExact
BY KernelInvariant, PoolCounts, PTL

\* What the kernel does to the CXU and to its copies is what CxVirt allows.
THEOREM KernelImplementsVirt == KSpec => Spec
<1>1. KInit => Init
    BY DEF KInit
<1>2. KInv /\ [KNext]_<<vars, kvars>> => [Next]_vars
    BY KStep
<1> QED
    BY <1>1, <1>2, KernelInvariant, PTL DEF KSpec, Spec

\* Under the kernel's sharing, with functions that mark what they change, every
\* context computes what a private accumulator would.
THEOREM KernelImplementsPrivate ==
    ASSUME Marking
    PROVE  KSpec => ImplementsPrivate
BY KernelImplementsVirt, VirtImplementsPrivate, PTL
=============================================================================
