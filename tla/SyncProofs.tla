----------------------------- MODULE SyncProofs -----------------------------
(***************************************************************************)
(* Proofs about the critical sections of module Sync and the intrusive     *)
(* list of module SyncList, for every finite set of state machines.        *)
(*                                                                         *)
(* The argument: sm_pending and the pending_next fields spell the sequence *)
(* of those who wait, without repetition (IsChain).  Then the walk through *)
(* the list meets exactly this sequence, which is what the operations that *)
(* search the list rely on; what it meets is found by induction along the  *)
(* walk, as the absence of a first difference.                             *)
(***************************************************************************)
EXTENDS Sync, SequenceTheorems, FiniteSetTheorems, FunctionTheorems, TLAPS

List == [head : SMs \cup {NULL}, next : [SMs -> SMs \cup {NULL}]]

\* The pointers of l spell the sequence c.
IsChain(l, c) ==
    /\ l \in List
    /\ c \in Seq(SMs)
    /\ \A i, j \in 1 .. Len(c) : c[i] = c[j] => i = j
    /\ l.head = IF Len(c) = 0 THEN NULL ELSE c[1]
    /\ \A i \in 1 .. Len(c) : l.next[c[i]] = IF i = Len(c) THEN NULL ELSE c[i + 1]

Elements(c) == {c[i] : i \in 1 .. Len(c)}

\* What the walk through a list that spells c meets.
Spelled(c) == [n \in 0 .. Cardinality(SMs) |-> IF n < Len(c) THEN c[n + 1] ELSE NULL]

-----------------------------------------------------------------------------
\* Every nonempty set of numbers has a least element.
LEMMA LeastNumber ==
    ASSUME NEW T, T \subseteq Nat, T # {}
    PROVE  \E x \in T : \A y \in T : x <= y
<1>1. PICK x \in T : \A y \in T : ~(<<y, x>> \in OpToRel(<, Nat))
  BY WFMin, NatLessThanWellFounded
<1>2. \A y \in T : ~(y < x)
  BY <1>1 DEF OpToRel
<1>3. \A y \in T : x <= y
  BY <1>2
<1> QED BY <1>3

\* The facts about a sequence that the proofs below use.
LEMMA SeqFacts ==
    ASSUME NEW c \in Seq(SMs)
    PROVE  /\ Len(c) \in Nat
           /\ \A i \in 1 .. Len(c) : c[i] \in SMs
           /\ c \in [1 .. Len(c) -> SMs]
BY LenProperties, ElementOfSeq

\* A waiter occurs once, so no more than there are state machines wait.
LEMMA ChainCount ==
    ASSUME NEW l, NEW c, IsChain(l, c)
    PROVE  /\ Cardinality(SMs) \in Nat /\ Len(c) \in Nat
           /\ Len(c) <= Cardinality(SMs)
           /\ Cardinality(Elements(c)) = Len(c)
<1>1. /\ Len(c) \in Nat /\ c \in [1 .. Len(c) -> SMs]
      /\ \A i, j \in 1 .. Len(c) : c[i] = c[j] => i = j
  BY SeqFacts DEF IsChain
<1>2. c \in Injection(1 .. Len(c), SMs)
  BY <1>1, Fun_IsInj
<1>3. Cardinality(1 .. Len(c)) = Len(c)
  BY <1>1, FS_Interval
<1>4. Cardinality(SMs) \in Nat
  BY FiniteSms, FS_CardinalityType
<1>5. Len(c) <= Cardinality(SMs)
  BY <1>2, <1>3, FiniteSms, FS_Injection
<1>6. c \in Bijection(1 .. Len(c), Elements(c))
  <2>1. c \in [1 .. Len(c) -> Elements(c)]
    BY <1>1 DEF Elements
  <2>2. \A t \in Elements(c) : \E i \in 1 .. Len(c) : c[i] = t
    BY DEF Elements
  <2> QED BY <1>1, <2>1, <2>2, Fun_IsBij
<1>7. Cardinality(Elements(c)) = Len(c)
  BY <1>1, <1>6, FS_CountingElements DEF ExistsBijection
<1> QED BY <1>1, <1>4, <1>5, <1>7

\* The recursive function Walk(l) satisfies its equation if any function does.
LEMMA WalkEquation ==
    ASSUME NEW l, NEW W,
           W = [n \in 0 .. Cardinality(SMs) |->
                   IF n = 0 THEN l.head
                   ELSE IF W[n - 1] = NULL THEN NULL ELSE l.next[W[n - 1]]]
    PROVE  Walk(l) = [n \in 0 .. Cardinality(SMs) |->
                         IF n = 0 THEN l.head
                         ELSE IF Walk(l)[n - 1] = NULL THEN NULL ELSE l.next[Walk(l)[n - 1]]]
BY DEF Walk

\* The walk through a list that spells c meets c, then NULL.
LEMMA WalkSpells ==
    ASSUME NEW l, NEW c, IsChain(l, c)
    PROVE  Walk(l) = Spelled(c)
<1> DEFINE C == Cardinality(SMs)
           w == Walk(l)
           W == Spelled(c)
<1>0. C \in Nat /\ Len(c) \in Nat /\ NULL \notin SMs /\ \A i \in 1 .. Len(c) : c[i] \in SMs
  BY ChainCount, NullIsNoSm, SeqFacts DEF IsChain
<1>1. ASSUME NEW n \in 0 .. C
      PROVE  W[n] = IF n = 0 THEN l.head
                    ELSE IF W[n - 1] = NULL THEN NULL ELSE l.next[W[n - 1]]
  <2>1. W[n] = IF n < Len(c) THEN c[n + 1] ELSE NULL
    BY DEF Spelled
  <2>2. CASE n = 0
    BY <1>0, <2>1, <2>2 DEF IsChain
  <2>3. CASE n # 0
    <3>1. W[n - 1] = IF n - 1 < Len(c) THEN c[n] ELSE NULL
      <4>1. n - 1 \in 0 .. C /\ (n - 1) + 1 = n
        BY <1>0, <2>3
      <4> QED BY <4>1 DEF Spelled
    <3>2. CASE n - 1 < Len(c)
      <4>1. n \in 1 .. Len(c) /\ c[n] # NULL
        BY <1>0, <2>3, <3>2
      <4>2. l.next[c[n]] = IF n = Len(c) THEN NULL ELSE c[n + 1]
        BY <4>1 DEF IsChain
      <4> QED BY <1>0, <2>1, <2>3, <3>1, <3>2, <4>1, <4>2
    <3>3. CASE ~(n - 1 < Len(c))
      BY <1>0, <2>1, <2>3, <3>1, <3>3
    <3> QED BY <3>2, <3>3
  <2> QED BY <2>2, <2>3
<1>2. W = [n \in 0 .. C |-> IF n = 0 THEN l.head
                            ELSE IF W[n - 1] = NULL THEN NULL ELSE l.next[W[n - 1]]]
  <2>1. W = [n \in 0 .. C |-> W[n]]
    BY DEF Spelled
  <2> QED BY <1>1, <2>1
<1>3. w = [n \in 0 .. C |-> IF n = 0 THEN l.head
                            ELSE IF w[n - 1] = NULL THEN NULL ELSE l.next[w[n - 1]]]
  BY <1>2, WalkEquation, ZenonT(60)
<1> HIDE DEF w, W
<1>4. ASSUME NEW n \in 0 .. C, w[n] # W[n] PROVE FALSE
  <2> DEFINE T == {m \in 0 .. C : w[m] # W[m]}
  <2>1. T \subseteq Nat /\ T # {}
    BY <1>4
  <2>2. PICK m \in T : \A k \in T : m <= k
    BY <2>1, LeastNumber
  <2>3. m \in 0 .. C /\ w[m] # W[m]
    OBVIOUS
  <2>4. m # 0
    BY <1>2, <1>3, <2>3
  <2>5. m - 1 \in 0 .. C /\ ~(m <= m - 1)
    BY <1>0, <2>3, <2>4
  <2>6. w[m - 1] = W[m - 1]
    BY <2>2, <2>5
  <2>7. w[m] = IF w[m - 1] = NULL THEN NULL ELSE l.next[w[m - 1]]
    BY <1>3, <2>3, <2>4
  <2>8. W[m] = IF W[m - 1] = NULL THEN NULL ELSE l.next[W[m - 1]]
    BY <1>1, <2>3, <2>4
  <2> QED BY <2>3, <2>6, <2>7, <2>8
<1>5. w = [n \in 0 .. C |-> w[n]] /\ W = [n \in 0 .. C |-> W[n]]
  BY <1>2, <1>3
<1>6. w = W
  BY <1>4, <1>5
<1> QED BY <1>6 DEF w, W

\* What the operators of SyncList compute on a list that spells c.
LEMMA ChainFacts ==
    ASSUME NEW l, NEW c, IsChain(l, c)
    PROVE  /\ Members(l) = Elements(c)
           /\ Ends(l)
           /\ Chain(l) = c
<1> DEFINE C == Cardinality(SMs)
<1>1. C \in Nat /\ Len(c) \in Nat /\ Len(c) <= C /\ Cardinality(Elements(c)) = Len(c)
  BY ChainCount
<1>2. NULL \notin SMs /\ \A i \in 1 .. Len(c) : c[i] \in SMs
  BY NullIsNoSm, SeqFacts DEF IsChain
<1>3. \A n \in 0 .. C : Walk(l)[n] = IF n < Len(c) THEN c[n + 1] ELSE NULL
  BY WalkSpells DEF Spelled
<1>4. Members(l) = Elements(c)
  <2>1. ASSUME NEW x \in Members(l) PROVE x \in Elements(c)
    <3>1. PICK n \in 0 .. C : x = Walk(l)[n] /\ x # NULL
      BY DEF Members
    <3>2. n + 1 \in 1 .. Len(c) /\ x = c[n + 1]
      BY <1>1, <1>3, <3>1
    <3> QED BY <3>2 DEF Elements
  <2>2. ASSUME NEW i \in 1 .. Len(c) PROVE c[i] \in Members(l)
    <3>1. i - 1 \in 0 .. C /\ i - 1 < Len(c) /\ (i - 1) + 1 = i
      BY <1>1
    <3>2. Walk(l)[i - 1] = c[i] /\ c[i] # NULL
      BY <1>2, <1>3, <3>1
    <3> QED BY <3>1, <3>2 DEF Members
  <2> QED BY <2>1, <2>2 DEF Elements
<1>5. Ends(l)
  BY <1>1, <1>3 DEF Ends
<1>6. Chain(l) = c
  <2>1. Chain(l) = [i \in 1 .. Len(c) |-> Walk(l)[i - 1]]
    BY <1>1, <1>4 DEF Chain
  <2>2. \A i \in 1 .. Len(c) : Walk(l)[i - 1] = c[i]
    <3> SUFFICES ASSUME NEW i \in 1 .. Len(c) PROVE Walk(l)[i - 1] = c[i]
      OBVIOUS
    <3>1. i - 1 \in 0 .. C /\ i - 1 < Len(c) /\ (i - 1) + 1 = i
      BY <1>1
    <3> QED BY <1>3, <3>1
  <2>3. c = [i \in 1 .. Len(c) |-> c[i]]
    BY SeqFacts DEF IsChain
  <2> QED BY <2>1, <2>2, <2>3
<1> QED BY <1>4, <1>5, <1>6

-----------------------------------------------------------------------------
(* The operations on the list.                                               *)

\* vsfsm_sync_append_sm links a new waiter behind the last one.
LEMMA AppendSpells ==
    ASSUME NEW l, NEW c, IsChain(l, c), NEW s \in SMs, s \notin Elements(c)
    PROVE  IsChain(AppendSm(l, s), Append(c, s))
<1> DEFINE n == Len(c)
           cleared == [l EXCEPT !.next[s] = NULL]
           d == Append(c, s)
           r == AppendSm(l, s)
<1>1. n \in Nat /\ NULL \notin SMs /\ l \in List /\ c \in Seq(SMs)
      /\ \A i \in 1 .. n : c[i] \in SMs /\ c[i] # s
  BY NullIsNoSm, SeqFacts DEF IsChain, Elements
<1>2. /\ d \in Seq(SMs) /\ Len(d) = n + 1
      /\ \A i \in 1 .. n : d[i] = c[i]
      /\ d[n + 1] = s
  BY <1>1, AppendProperties
<1>3. \A i \in 1 .. n + 1 : i \in 1 .. n \/ i = n + 1
  BY <1>1
<1>4. \A i, j \in 1 .. n + 1 : d[i] = d[j] => i = j
  BY <1>1, <1>2, <1>3 DEF IsChain
<1>5. /\ cleared \in List /\ cleared.head = l.head /\ cleared.next[s] = NULL
      /\ \A m \in SMs \ {s} : cleared.next[m] = l.next[m]
  BY <1>1 DEF List
<1>6. IsChain(cleared, c)
  <2> HIDE DEF cleared
  <2> QED BY <1>1, <1>5 DEF IsChain
<1> DEFINE last == CHOOSE m \in Members(cleared) : cleared.next[m] = NULL
<1>7. CASE n = 0
  <2>1. l.head = NULL /\ r = [cleared EXCEPT !.head = s]
    BY <1>7 DEF IsChain, AppendSm
  <2> HIDE DEF cleared, r, d
  <2>2. r \in List /\ r.head = s /\ r.next = cleared.next
    BY <1>5, <2>1 DEF List
  <2>3. \A i \in 1 .. 1 : i = 1
    OBVIOUS
  <2>4. IsChain(r, d)
    BY <1>2, <1>4, <1>5, <1>7, <2>2, <2>3 DEF IsChain
  <2> QED BY <2>4 DEF r, d
<1>8. CASE n # 0
  <2>1. n \in 1 .. n /\ 1 \in 1 .. n
    BY <1>1, <1>8
  <2>2. l.head # NULL
    BY <1>1, <1>8, <2>1 DEF IsChain
  <2>3. r = [cleared EXCEPT !.next[last] = s]
    BY <2>2 DEF AppendSm
  <2>4. last = c[n]
    <3> HIDE DEF cleared
    <3>1. Members(cleared) = {c[i] : i \in 1 .. n}
      BY <1>6, ChainFacts DEF Elements
    <3>2. c[n] \in Members(cleared) /\ cleared.next[c[n]] = NULL
      BY <1>6, <2>1, <3>1 DEF IsChain
    <3>3. last \in Members(cleared) /\ cleared.next[last] = NULL
      BY <3>2
    <3>4. PICK i \in 1 .. n : last = c[i]
      BY <3>1, <3>3
    <3>5. i = n
      <4> SUFFICES ASSUME i # n PROVE FALSE
        OBVIOUS
      <4>1. cleared.next[c[i]] = c[i + 1] /\ i + 1 \in 1 .. n
        BY <1>1, <1>6 DEF IsChain
      <4>2. c[i + 1] # NULL
        BY <1>1, <4>1
      <4> QED BY <3>3, <3>4, <4>1, <4>2
    <3> QED BY <3>4, <3>5
  <2> HIDE DEF cleared, r, d, last
  <2>5. c[n] \in SMs /\ c[n] # s
    BY <1>1, <2>1
  <2>6. /\ r \in List /\ r.head = cleared.head /\ r.next[c[n]] = s
        /\ \A m \in SMs \ {c[n]} : r.next[m] = cleared.next[m]
    BY <1>5, <2>3, <2>4, <2>5 DEF List
  <2>7. r.head = d[1]
    BY <1>2, <1>5, <1>8, <2>1, <2>6 DEF IsChain
  <2>8. ASSUME NEW i \in 1 .. n + 1
        PROVE  r.next[d[i]] = IF i = n + 1 THEN NULL ELSE d[i + 1]
    <3>1. CASE i = n + 1
      BY <1>2, <1>5, <2>5, <2>6, <3>1
    <3>2. CASE i = n
      BY <1>1, <1>2, <2>1, <2>6, <3>2
    <3>3. CASE i \in 1 .. n /\ i # n
      <4>1. i + 1 \in 1 .. n /\ i # n + 1
        BY <1>1, <3>3
      <4>2. c[i] # c[n] /\ c[i] \in SMs /\ d[i] = c[i] /\ d[i + 1] = c[i + 1]
        BY <1>1, <1>2, <2>1, <3>3, <4>1 DEF IsChain
      <4>3. cleared.next[c[i]] = c[i + 1]
        BY <1>6, <3>3 DEF IsChain
      <4> QED BY <2>6, <4>1, <4>2, <4>3
    <3> QED BY <1>3, <3>1, <3>2, <3>3
  <2>9. Len(d) # 0
    BY <1>1, <1>2
  <2>10. IsChain(r, d)
    BY <1>2, <1>4, <2>6, <2>7, <2>8, <2>9 DEF IsChain
  <2> QED BY <2>10 DEF r, d
<1> QED BY <1>7, <1>8

\* vsfsm_sync_increase takes the first waiter off.
LEMMA RemoveFirstSpells ==
    ASSUME NEW l, NEW c, IsChain(l, c), l.head # NULL
    PROVE  /\ c # <<>> /\ Len(c) \in Nat \ {0}
           /\ l.head = c[1]
           /\ IsChain(RemoveFirst(l), Tail(c))
<1> DEFINE n == Len(c)
           d == Tail(c)
           r == RemoveFirst(l)
<1>1. n \in Nat \ {0} /\ c # <<>> /\ l \in List /\ c \in Seq(SMs) /\ l.head = c[1]
  BY SeqFacts DEF IsChain
<1>2. 1 \in 1 .. n /\ \A i \in 1 .. n : c[i] \in SMs
  BY <1>1, SeqFacts
<1>3. /\ d \in Seq(SMs) /\ Len(d) = n - 1
      /\ \A i \in 1 .. n - 1 : i + 1 \in 1 .. n /\ d[i] = c[i + 1]
  BY <1>1, HeadTailProperties
<1>4. r \in List /\ r.head = l.next[c[1]] /\ r.next = l.next
  BY <1>1, <1>2 DEF RemoveFirst, List
<1> HIDE DEF d, r
<1>5. \A i, j \in 1 .. n - 1 : d[i] = d[j] => i = j
  <2> SUFFICES ASSUME NEW i \in 1 .. n - 1, NEW j \in 1 .. n - 1, d[i] = d[j] PROVE i = j
    OBVIOUS
  <2>1. i + 1 = j + 1
    BY <1>3 DEF IsChain
  <2> QED BY <1>1, <2>1
<1>6. r.head = IF Len(d) = 0 THEN NULL ELSE d[1]
  <2>1. CASE n = 1
    BY <1>1, <1>2, <1>3, <1>4, <2>1 DEF IsChain
  <2>2. CASE n # 1
    <3>1. l.next[c[1]] = c[1 + 1]
      BY <1>2, <2>2 DEF IsChain
    <3>2. 1 \in 1 .. n - 1 /\ n - 1 # 0
      <4>1. n \in Nat \ {0}
        BY <1>1
      <4> HIDE DEF n
      <4> QED BY <2>2, <4>1
    <3> QED BY <1>3, <1>4, <3>1, <3>2
  <2> QED BY <2>1, <2>2
<1>7. ASSUME NEW i \in 1 .. n - 1
      PROVE  r.next[d[i]] = IF i = n - 1 THEN NULL ELSE d[i + 1]
  <2>1. i + 1 \in 1 .. n /\ d[i] = c[i + 1]
    BY <1>3
  <2>2. l.next[c[i + 1]] = IF i + 1 = n THEN NULL ELSE c[(i + 1) + 1]
    BY <2>1 DEF IsChain
  <2>3. CASE i = n - 1
    BY <1>1, <1>4, <2>1, <2>2, <2>3
  <2>4. CASE i # n - 1
    <3>1. i + 1 \in 1 .. n - 1 /\ i + 1 # n
      BY <1>1, <2>4
    <3> QED BY <1>3, <1>4, <2>1, <2>2, <2>4, <3>1
  <2> QED BY <2>3, <2>4
<1>8. IsChain(r, d)
  BY <1>3, <1>4, <1>5, <1>6, <1>7 DEF IsChain
<1> QED BY <1>1, <1>8 DEF d, r

\* vsfsm_sync_cancel unlinks a waiter wherever it is in the list.
LEMMA CancelSpells ==
    ASSUME NEW l, NEW c, IsChain(l, c), NEW k \in 1 .. Len(c)
    PROVE  IsChain(CancelSm(l, c[k]), Without(c, k))
<1> DEFINE n == Len(c)
           s == c[k]
           d == Without(c, k)
           r == CancelSm(l, s)
<1>1. /\ n \in Nat \ {0} /\ l \in List /\ c \in Seq(SMs) /\ l.head = c[1]
      /\ \A i \in 1 .. n : c[i] \in SMs
      /\ NULL \notin SMs /\ k \in 1 .. n /\ 1 \in 1 .. n
  BY SeqFacts, NullIsNoSm DEF IsChain
<1>2. \A i, j \in 1 .. n : c[i] = c[j] => i = j
  BY DEF IsChain
<1>3. \A i \in 1 .. n : l.next[c[i]] = IF i = n THEN NULL ELSE c[i + 1]
  BY DEF IsChain
<1>4. /\ d \in Seq(SMs) /\ Len(d) = n - 1
      /\ \A i \in 1 .. n - 1 : d[i] = IF i < k THEN c[i] ELSE c[i + 1]
  <2>1. \A i \in 1 .. n - 1 : i \in 1 .. n /\ i + 1 \in 1 .. n
    BY <1>1
  <2>2. \A i \in 1 .. n - 1 : (IF i < k THEN c[i] ELSE c[i + 1]) \in SMs
    BY <1>1, <2>1
  <2>3. n - 1 \in Nat
    BY <1>1
  <2>4. d = [i \in 1 .. n - 1 |-> IF i < k THEN c[i] ELSE c[i + 1]]
    BY DEF Without
  <2> QED BY <2>2, <2>3, <2>4, IsASeq
<1>5. \A i, j \in 1 .. n - 1 : d[i] = d[j] => i = j
  <2> SUFFICES ASSUME NEW i \in 1 .. n - 1, NEW j \in 1 .. n - 1, d[i] = d[j] PROVE i = j
    OBVIOUS
  <2>1. i \in 1 .. n /\ j \in 1 .. n /\ i + 1 \in 1 .. n /\ j + 1 \in 1 .. n
    BY <1>1
  <2> QED BY <1>1, <1>2, <1>4, <2>1
<1>6. CASE k = 1
  <2>1. r = [l EXCEPT !.head = l.next[s]]
    BY <1>1, <1>6 DEF CancelSm
  <2>2. r \in List /\ r.head = l.next[s] /\ r.next = l.next
    BY <1>1, <2>1 DEF List
  <2> HIDE DEF d, r
  <2>3. r.head = IF n - 1 = 0 THEN NULL ELSE d[1]
    <3>1. CASE n = 1
      BY <1>3, <1>6, <2>2, <3>1
    <3>2. CASE n # 1
      <4>1. 1 \in 1 .. n - 1 /\ ~(1 < k)
        <5>1. n \in Nat \ {0}
          BY <1>1
        <5> HIDE DEF n
        <5> QED BY <1>6, <3>2, <5>1
      <4> QED BY <1>1, <1>3, <1>4, <1>6, <2>2, <3>2, <4>1
    <3> QED BY <3>1, <3>2
  <2>4. ASSUME NEW i \in 1 .. n - 1
        PROVE  r.next[d[i]] = IF i = n - 1 THEN NULL ELSE d[i + 1]
    <3>1. i + 1 \in 1 .. n /\ d[i] = c[i + 1] /\ (i + 1 = n <=> i = n - 1)
      BY <1>1, <1>4, <1>6
    <3>2. CASE i = n - 1
      BY <1>3, <2>2, <3>1, <3>2
    <3>3. CASE i # n - 1
      <4>1. i + 1 \in 1 .. n - 1 /\ ~(i + 1 < k)
        BY <1>1, <1>6, <3>3
      <4> QED BY <1>3, <1>4, <2>2, <3>1, <3>3, <4>1
    <3> QED BY <3>2, <3>3
  <2>5. IsChain(r, d)
    BY <1>4, <1>5, <2>2, <2>3, <2>4 DEF IsChain
  <2> QED BY <2>5 DEF d, r
<1>7. CASE k # 1
  <2> DEFINE before == CHOOSE m \in Members(l) : l.next[m] = s
  <2>1. k - 1 \in 1 .. n /\ k - 1 # n /\ (k - 1) + 1 = k
    BY <1>1, <1>7
  <2>2. Members(l) = {c[i] : i \in 1 .. n}
    BY ChainFacts DEF Elements
  <2>3. c[k - 1] \in Members(l) /\ l.next[c[k - 1]] = s
    BY <1>3, <2>1, <2>2
  <2>4. l.head # s
    BY <1>1, <1>2, <1>7
  <2>5. r = [l EXCEPT !.next[before] = l.next[s]]
    BY <2>3, <2>4 DEF CancelSm
  <2>6. before = c[k - 1]
    <3>1. before \in Members(l) /\ l.next[before] = s
      BY <2>3
    <3>2. PICK i \in 1 .. n : before = c[i]
      BY <2>2, <3>1
    <3>3. i # n /\ c[i + 1] = s /\ i + 1 \in 1 .. n
      <4>1. l.next[c[i]] = s /\ s # NULL /\ l.next[c[i]] = IF i = n THEN NULL ELSE c[i + 1]
        BY <1>1, <1>3, <3>1, <3>2
      <4>2. i # n /\ c[i + 1] = s
        BY <4>1
      <4>3. n \in Nat \ {0}
        BY <1>1
      <4> HIDE DEF n
      <4> QED BY <4>2, <4>3
    <3>4. i + 1 = k
      BY <1>1, <1>2, <3>3
    <3>5. i = k - 1
      BY <1>1, <3>4
    <3> QED BY <3>2, <3>5
  <2> HIDE DEF before, d, r
  <2>7. /\ r \in List /\ r.head = l.head /\ r.next[c[k - 1]] = l.next[s]
        /\ \A m \in SMs \ {c[k - 1]} : r.next[m] = l.next[m]
    BY <1>1, <2>1, <2>5, <2>6 DEF List
  <2>8. r.head = IF n - 1 = 0 THEN NULL ELSE d[1]
    <3>1. 1 \in 1 .. n - 1 /\ 1 < k /\ n - 1 # 0
      BY <1>1, <1>7
    <3> QED BY <1>1, <1>4, <2>7, <3>1
  <2>9. ASSUME NEW i \in 1 .. n - 1
        PROVE  r.next[d[i]] = IF i = n - 1 THEN NULL ELSE d[i + 1]
    <3>0. i \in 1 .. n /\ i + 1 \in 1 .. n
      BY <1>1
    <3>1. CASE i < k - 1
      <4>1. d[i] = c[i] /\ i # n - 1 /\ d[i + 1] = c[i + 1] /\ i # n
        BY <1>1, <1>4, <3>1
      <4>2. c[i] # c[k - 1] /\ c[i] \in SMs
        BY <1>1, <1>2, <2>1, <3>0, <3>1
      <4> QED BY <1>3, <2>7, <3>0, <4>1, <4>2
    <3>2. CASE i = k - 1
      <4>1. d[i] = c[k - 1] /\ r.next[d[i]] = IF k = n THEN NULL ELSE c[k + 1]
        BY <1>1, <1>3, <1>4, <2>7, <3>2
      <4>2. CASE k = n
        BY <1>1, <3>2, <4>1, <4>2
      <4>3. CASE k # n
        <5>1. i # n - 1 /\ i + 1 \in 1 .. n - 1 /\ i + 1 = k
          BY <1>1, <3>2, <4>3
        <5> QED BY <1>1, <1>4, <4>1, <4>3, <5>1
      <4> QED BY <4>2, <4>3
    <3>3. CASE i >= k
      <4>1. d[i] = c[i + 1] /\ c[i + 1] # c[k - 1] /\ c[i + 1] \in SMs
        BY <1>1, <1>2, <1>4, <2>1, <3>0, <3>3
      <4>2. r.next[d[i]] = IF i + 1 = n THEN NULL ELSE c[(i + 1) + 1]
        BY <1>3, <2>7, <3>0, <4>1
      <4>3. CASE i = n - 1
        BY <1>1, <4>2, <4>3
      <4>4. CASE i # n - 1
        <5>1. i + 1 \in 1 .. n - 1 /\ i + 1 # n /\ ~(i + 1 < k)
          BY <1>1, <3>3, <4>4, SMTT(30)
        <5> QED BY <1>4, <4>2, <4>4, <5>1
      <4> QED BY <4>3, <4>4
    <3> QED BY <1>1, <3>1, <3>2, <3>3
  <2>10. IsChain(r, d)
    BY <1>4, <1>5, <2>7, <2>8, <2>9 DEF IsChain
  <2> QED BY <2>10 DEF d, r
<1> QED BY <1>6, <1>7

-----------------------------------------------------------------------------
(* The critical section.                                                     *)
Inside == {s \in SMs : st[s] = "in"}

\* The variables keep their types, however the list is linked.
TypeOK ==
    /\ cur_value \in Nat
    /\ list \in List
    /\ st \in [SMs -> {"out", "wait", "in"}]
    /\ granting \subseteq SMs
    /\ inflight \subseteq SMs
    /\ lost \in Nat
    /\ mistaken \in BOOLEAN

\* Until somebody enters by mistake: the list spells the queue of waiters, all
\* of them wait, and none for a permit that is free.
Waiters ==
    /\ IsChain(list, waiting)
    /\ \A s \in Elements(waiting) : st[s] = "wait"
    /\ Len(waiting) # 0 => cur_value = 0

SInv == TypeOK /\ PermitConserved /\ (mistaken \/ Waiters)

\* The sets whose sizes PermitConserved adds up are finite.
LEMMA Sizes ==
    ASSUME TypeOK
    PROVE  /\ IsFiniteSet(Inside) /\ Cardinality(Inside) \in Nat
           /\ IsFiniteSet(granting) /\ Cardinality(granting) \in Nat
           /\ IsFiniteSet(inflight) /\ Cardinality(inflight) \in Nat
<1>1. Inside \subseteq SMs /\ granting \subseteq SMs /\ inflight \subseteq SMs
  BY DEF TypeOK, Inside
<1> QED BY <1>1, FiniteSms, FS_Subset, FS_CardinalityType

\* Who has the permit: exactly one, if none was lost.
Permits == cur_value + Cardinality(Inside) + Cardinality(granting) + Cardinality(inflight) + lost

LEMMA PermitsAddUp ==
    /\ PermitConserved <=> Permits = 1
    /\ PermitConserved' <=> Permits' = 1
BY DEF PermitConserved, Permits, Inside

LEMMA SumIsOne ==
    ASSUME NEW a \in Nat, NEW b \in Nat, NEW c \in Nat, NEW d \in Nat, NEW e \in Nat,
           a + b + c + d + e = 1
    PROVE  /\ b # 0 => a = 0 /\ c = 0 /\ d = 0 /\ e = 0
           /\ c # 0 => b = 0 /\ d = 0
           /\ d # 0 => b = 0 /\ c = 0
OBVIOUS

\* There is one permit.  Who has it in one place has it in no other.
LEMMA OnePermit ==
    ASSUME TypeOK, PermitConserved
    PROVE  /\ Inside # {} => cur_value = 0 /\ granting = {} /\ inflight = {} /\ lost = 0
           /\ granting # {} => Inside = {} /\ inflight = {}
           /\ inflight # {} => Inside = {} /\ granting = {}
<1>1. Permits = 1
  BY PermitsAddUp
<1>2. /\ Inside # {} => Cardinality(Inside) # 0
      /\ granting # {} => Cardinality(granting) # 0
      /\ inflight # {} => Cardinality(inflight) # 0
  BY Sizes, FS_EmptySet
<1>3. /\ Cardinality(Inside) = 0 => Inside = {}
      /\ Cardinality(granting) = 0 => granting = {}
      /\ Cardinality(inflight) = 0 => inflight = {}
  BY Sizes, FS_EmptySet
<1>4. cur_value \in Nat /\ lost \in Nat
  BY DEF TypeOK
<1>8. LET a == cur_value
          b == Cardinality(Inside)
          c == Cardinality(granting)
          d == Cardinality(inflight)
          e == lost
      IN  /\ b # 0 => a = 0 /\ c = 0 /\ d = 0 /\ e = 0
          /\ c # 0 => b = 0 /\ d = 0
          /\ d # 0 => b = 0 /\ c = 0
  BY <1>1, <1>4, Sizes, SumIsOne DEF Permits
<1>5. Inside # {} => cur_value = 0 /\ Cardinality(granting) = 0
                     /\ Cardinality(inflight) = 0 /\ lost = 0
  BY <1>2, <1>8
<1>6. granting # {} => Cardinality(Inside) = 0 /\ Cardinality(inflight) = 0
  BY <1>2, <1>8
<1>7. inflight # {} => Cardinality(Inside) = 0 /\ Cardinality(granting) = 0
  BY <1>2, <1>8
<1> QED BY <1>3, <1>5, <1>6, <1>7

\* vsfsm_crit_init
LEMMA InitSInv == Init => SInv
<1> SUFFICES ASSUME Init PROVE SInv
  OBVIOUS
<1>1. TypeOK
  BY DEF Init, TypeOK, EmptyList, List
<1>2. Len(waiting) = 0 /\ waiting \in Seq(SMs) /\ 1 .. Len(waiting) = {}
  BY DEF Init
<1>3. IsChain(list, waiting)
  <2>1. list \in List /\ list.head = NULL
    BY DEF Init, EmptyList, List
  <2> QED BY <1>2, <2>1 DEF IsChain
<1>4. Waiters
  BY <1>2, <1>3 DEF Waiters, Elements
<1>5. PermitConserved
  <2>1. Inside = {} /\ granting = {} /\ inflight = {} /\ cur_value = 1 /\ lost = 0
    BY DEF Init, Inside
  <2>2. Permits = 1
    BY <2>1, FS_EmptySet DEF Permits
  <2> QED BY <2>2, PermitsAddUp
<1> QED BY <1>1, <1>4, <1>5 DEF SInv

\* vsfsm_sync_decrease takes the permit or joins the list.
LEMMA CritEnterSInv ==
    ASSUME SInv, NEW s \in SMs, CritEnter(s)
    PROVE  SInv'
<1> USE DEF SInv
<1>0. /\ st[s] = "out" /\ UNCHANGED <<granting, inflight, lost, mistaken>>
      /\ s \notin Inside /\ (~mistaken => s \notin Elements(waiting))
  BY DEF CritEnter, Waiters, Inside
<1>1. CASE cur_value > 0
  <2>1. /\ cur_value' = cur_value - 1 /\ st' = [st EXCEPT ![s] = "in"]
        /\ list' = list /\ waiting' = waiting
    BY <1>1 DEF CritEnter
  <2>2. TypeOK'
    BY <1>0, <1>1, <2>1 DEF TypeOK
  <2>3. ASSUME ~mistaken PROVE Waiters'
    BY <1>0, <1>1, <2>1, <2>3 DEF Waiters, TypeOK, Elements
  <2>4. PermitConserved'
    <3>1. Inside' = Inside \cup {s}
      BY <2>1 DEF Inside, TypeOK
    <3>2. Cardinality(Inside \cup {s}) = Cardinality(Inside) + 1
      BY <1>0, Sizes, FS_AddElement
    <3>3. Permits' = Permits
      BY <1>0, <2>1, <3>1, <3>2, Sizes DEF Permits, TypeOK
    <3> QED BY <3>3, PermitsAddUp
  <2> QED BY <1>0, <2>2, <2>3, <2>4
<1>2. CASE ~(cur_value > 0)
  <2>1. /\ cur_value' = cur_value /\ st' = [st EXCEPT ![s] = "wait"]
        /\ list' = AppendSm(list, s)
        /\ ~mistaken => waiting' = Append(waiting, s)
    BY <1>2 DEF CritEnter
  <2>2. AppendSm(list, s) \in List
    BY DEF TypeOK, AppendSm, List
  <2>3. TypeOK'
    BY <1>0, <2>1, <2>2 DEF TypeOK
  <2>4. ASSUME ~mistaken PROVE Waiters'
    <3>0. Waiters /\ waiting' = Append(waiting, s)
      BY <2>1, <2>4
    <3>1. waiting \in Seq(SMs) /\ Len(waiting) \in Nat /\ \A t \in Elements(waiting) : t \in SMs
      BY <3>0, SeqFacts DEF Waiters, IsChain, Elements
    <3>2. IsChain(list, waiting)'
      BY <1>0, <2>1, <2>4, <3>0, AppendSpells DEF Waiters
    <3>3. Elements(waiting)' = Elements(waiting) \cup {s}
      <4>1. /\ Len(waiting') = Len(waiting) + 1
            /\ \A i \in 1 .. Len(waiting) : waiting'[i] = waiting[i]
            /\ waiting'[Len(waiting) + 1] = s
        BY <3>0, <3>1, AppendProperties
      <4>2. \A i : i \in 1 .. Len(waiting) + 1 <=> i \in 1 .. Len(waiting) \/ i = Len(waiting) + 1
        BY <3>1
      <4> QED BY <4>1, <4>2 DEF Elements
    <3>4. \A t \in Elements(waiting)' : st'[t] = "wait"
      BY <2>1, <3>0, <3>1, <3>3 DEF Waiters, TypeOK
    <3>5. cur_value' = 0
      BY <1>2, <2>1 DEF TypeOK
    <3> QED BY <3>2, <3>4, <3>5 DEF Waiters
  <2>5. PermitConserved'
    <3>1. Inside' = Inside
      BY <1>0, <2>1 DEF Inside, TypeOK
    <3>2. Permits' = Permits
      BY <1>0, <2>1, <3>1 DEF Permits
    <3> QED BY <3>2, PermitsAddUp
  <2> QED BY <1>0, <2>3, <2>4, <2>5
<1> QED BY <1>1, <1>2

\* vsfsm_sync_increase hands the permit to the first of the list or puts it back.
LEMMA CritLeaveSInv ==
    ASSUME SInv, NEW s \in SMs, CritLeave(s)
    PROVE  SInv'
<1> USE DEF SInv
<1>0. /\ st[s] = "in" /\ UNCHANGED <<inflight, lost, mistaken>>
      /\ st' = [st EXCEPT ![s] = "out"] /\ s \in Inside
  BY DEF CritLeave, Inside
<1>1. /\ Inside' = Inside \ {s} /\ Cardinality(Inside \ {s}) = Cardinality(Inside) - 1
      /\ cur_value = 0 /\ granting = {} /\ inflight = {}
  <2>1. Inside' = Inside \ {s}
    BY <1>0 DEF Inside, TypeOK
  <2> QED BY <1>0, <2>1, Sizes, FS_RemoveElement, OnePermit
<1>2. Permits = 1 /\ Cardinality(granting) = 0 /\ Cardinality(inflight) = 0
  BY <1>1, PermitsAddUp, FS_EmptySet
<1>3. CASE list.head # NULL
  <2> DEFINE h == list.head
  <2>1. /\ granting' = granting \cup {h} /\ list' = RemoveFirst(list)
        /\ ~mistaken => waiting' = Tail(waiting)
        /\ cur_value' = cur_value
    BY <1>3 DEF CritLeave, Served
  <2>2. h \in SMs
    BY <1>3 DEF TypeOK, List
  <2>3. RemoveFirst(list) \in List
    BY <2>2 DEF RemoveFirst, TypeOK, List
  <2> HIDE DEF h
  <2>4. TypeOK'
    BY <1>0, <2>1, <2>2, <2>3 DEF TypeOK
  <2>5. ASSUME ~mistaken PROVE Waiters'
    <3>0. Waiters /\ waiting' = Tail(waiting)
      BY <2>1, <2>5
    <3>1. /\ waiting # <<>> /\ Len(waiting) \in Nat \ {0} /\ waiting \in Seq(SMs)
          /\ IsChain(list, waiting)'
      <4>1. IsChain(list, waiting)
        BY <3>0 DEF Waiters
      <4>2. waiting \in Seq(SMs)
        BY <4>1 DEF IsChain
      <4> QED BY <1>3, <2>1, <3>0, <4>1, <4>2, RemoveFirstSpells
    <3>2. /\ Len(waiting') = Len(waiting) - 1
          /\ \A i \in 1 .. Len(waiting') : waiting'[i] = waiting[i + 1]
      BY <3>0, <3>1, HeadTailProperties
    <3>3. \A i \in 1 .. Len(waiting') : i + 1 \in 1 .. Len(waiting)
      BY <3>1, <3>2
    <3>4. \A t \in Elements(waiting)' : t \in Elements(waiting) /\ t \in SMs
      BY <3>1, <3>2, <3>3, SeqFacts DEF Elements
    <3>5. \A t \in Elements(waiting)' : st'[t] = "wait"
      BY <1>0, <3>0, <3>4 DEF Waiters, TypeOK
    <3> QED BY <1>1, <2>1, <3>1, <3>5 DEF Waiters
  <2>6. PermitConserved'
    <3>1. Cardinality(granting') = 1
      <4>1. granting' = {h}
        BY <1>1, <2>1
      <4> QED BY <4>1, FS_Singleton
    <3>2. Permits' = 1
      BY <1>0, <1>1, <1>2, <2>1, <3>1, Sizes DEF Permits, TypeOK
    <3> QED BY <3>2, PermitsAddUp
  <2> QED BY <1>0, <2>4, <2>5, <2>6
<1>4. CASE list.head = NULL
  <2>1. cur_value' = 1 /\ granting' = granting /\ list' = list /\ waiting' = waiting
    BY <1>1, <1>4 DEF CritLeave
  <2>2. TypeOK'
    BY <1>0, <2>1 DEF TypeOK
  <2>3. ASSUME ~mistaken PROVE Waiters'
    <3>1. Waiters /\ Len(waiting) \in Nat /\ \A i \in 1 .. Len(waiting) : waiting[i] \in SMs
      BY <2>3, SeqFacts DEF Waiters, IsChain
    <3>2. Len(waiting) # 0 => waiting[1] \in SMs
      BY <3>1
    <3>3. Len(waiting) = 0
      BY <1>4, <3>1, <3>2, NullIsNoSm DEF Waiters, IsChain
    <3> QED BY <1>0, <2>1, <3>1, <3>3 DEF Waiters, Elements
  <2>4. PermitConserved'
    <3>1. Permits' = Permits
      BY <1>0, <1>1, <2>1, Sizes DEF Permits, TypeOK
    <3> QED BY <3>1, PermitsAddUp
  <2> QED BY <1>0, <2>2, <2>3, <2>4
<1> QED BY <1>3, <1>4

\* vsfsm_sync_cancel of one that is still on the list.
LEMMA CancelWaiters ==
    ASSUME TypeOK, Waiters, NEW s \in SMs, NEW k \in 1 .. Len(waiting),
           waiting[k] = s, waiting' = Without(waiting, k),
           list' = CancelSm(list, s), st' = [st EXCEPT ![s] = "out"],
           cur_value' = cur_value
    PROVE  Waiters'
<1>1. Len(waiting) \in Nat /\ \A i \in 1 .. Len(waiting) : waiting[i] \in SMs
  BY SeqFacts DEF Waiters, IsChain
<1>2. IsChain(list, waiting)'
  BY CancelSpells DEF Waiters
<1>3. Len(waiting') = Len(waiting) - 1
      /\ \A i \in 1 .. Len(waiting) - 1 :
             waiting'[i] = IF i < k THEN waiting[i] ELSE waiting[i + 1]
  <2>1. waiting' = [i \in 1 .. Len(waiting) - 1 |-> IF i < k THEN waiting[i] ELSE waiting[i + 1]]
    BY DEF Without
  <2>2. Len(waiting) - 1 \in Nat
    BY <1>1
  <2> QED BY <2>1, <2>2
<1>4. ASSUME NEW i \in 1 .. Len(waiting')
      PROVE  waiting'[i] \in Elements(waiting) /\ waiting'[i] # s
  <2>1. i \in 1 .. Len(waiting) - 1 /\ i \in 1 .. Len(waiting) /\ i + 1 \in 1 .. Len(waiting)
    BY <1>1, <1>3
  <2>2. CASE i < k
    BY <1>1, <1>3, <2>1, <2>2 DEF Waiters, IsChain, Elements
  <2>3. CASE ~(i < k)
    <3>1. i + 1 # k
      BY <1>1, <2>1, <2>3
    <3> QED BY <1>3, <2>1, <2>3, <3>1 DEF Waiters, IsChain, Elements
  <2> QED BY <2>2, <2>3
<1>5. \A t \in Elements(waiting)' : t \in Elements(waiting) /\ t # s /\ t \in SMs
  BY <1>1, <1>4 DEF Elements
<1>6. \A t \in Elements(waiting)' : st'[t] = "wait"
  BY <1>5 DEF Waiters, TypeOK
<1>7. Len(waiting') # 0 => cur_value' = 0
  BY <1>1 DEF Waiters
<1> QED BY <1>2, <1>6, <1>7 DEF Waiters

\* vsfsm_sync_cancel; one that the list does not have is not found, and no
\* other is unlinked.
LEMMA CancelSInv ==
    ASSUME SInv, NEW s \in SMs, Cancel(s)
    PROVE  SInv'
<1> USE DEF SInv
<1>1. /\ list' = CancelSm(list, s) /\ st' = [st EXCEPT ![s] = "out"] /\ st[s] = "wait"
      /\ UNCHANGED <<cur_value, granting, inflight, lost, mistaken>>
  BY DEF Cancel
<1>2. TypeOK'
  <2>1. CancelSm(list, s) \in List
    BY DEF CancelSm, TypeOK, List
  <2> QED BY <1>1, <2>1 DEF TypeOK
<1>3. PermitConserved'
  <2>1. Inside' = Inside
    BY <1>1 DEF Inside, TypeOK
  <2>2. Permits' = Permits
    BY <1>1, <2>1 DEF Permits
  <2> QED BY <2>2, PermitsAddUp
<1>4. ASSUME ~mistaken PROVE Waiters'
  <2>0. Waiters
    BY <1>4
  <2>1. CASE s \in Members(list)
    <3>1. PICK k \in 1 .. Len(waiting) : waiting[k] = s /\ waiting' = Without(waiting, k)
      BY <1>4, <2>1 DEF Cancel
    <3> QED BY <1>1, <2>0, <3>1, CancelWaiters
  <2>2. CASE s \notin Members(list)
    <3>1. /\ Members(list) = Elements(waiting) /\ Len(waiting) \in Nat
          /\ \A i \in 1 .. Len(waiting) : waiting[i] \in SMs
      BY <2>0, ChainFacts, SeqFacts DEF Waiters, IsChain
    <3>2. waiting' = waiting
      BY <2>2, <3>1 DEF Cancel, Elements
    <3>3. list.head # s
      <4>1. list.head = s => Len(waiting) # 0 /\ waiting[1] = s
        BY <2>0, NullIsNoSm DEF Waiters, IsChain
      <4>2. Len(waiting) # 0 => 1 \in 1 .. Len(waiting)
        BY <3>1
      <4> QED BY <2>2, <3>1, <4>1, <4>2 DEF Elements
    <3>4. \A m \in Members(list) : list.next[m] # s
      <4> SUFFICES ASSUME NEW i \in 1 .. Len(waiting), list.next[waiting[i]] = s PROVE FALSE
        BY <3>1 DEF Elements
      <4>1. i # Len(waiting) /\ waiting[i + 1] = s
        BY <2>0, NullIsNoSm DEF Waiters, IsChain
      <4>2. i + 1 \in 1 .. Len(waiting)
        BY <3>1, <4>1
      <4> QED BY <2>2, <3>1, <4>1, <4>2 DEF Elements
    <3>5. list' = list
      BY <1>1, <3>3, <3>4 DEF CancelSm
    <3>6. \A t \in Elements(waiting) : t # s /\ t \in SMs
      BY <2>2, <3>1 DEF Elements
    <3>7. \A t \in Elements(waiting) : st'[t] = "wait"
      BY <1>1, <2>0, <3>6 DEF Waiters, TypeOK
    <3> QED BY <1>1, <2>0, <3>2, <3>5, <3>7 DEF Waiters
  <2> QED BY <2>1, <2>2
<1> QED BY <1>1, <1>2, <1>3, <1>4

\* The grant travels: it is posted, or refused by a full queue.
LEMMA PostSInv ==
    ASSUME SInv, NEW s \in SMs, PostGrant(s) \/ PostRefused(s)
    PROVE  SInv'
<1> USE DEF SInv
<1>0. /\ UNCHANGED <<list, waiting, cur_value, st, mistaken>>
      /\ s \in granting /\ granting' = granting \ {s}
  BY DEF PostGrant, PostRefused
<1>1. ~mistaken => Waiters'
  BY <1>0 DEF Waiters, Elements
<1>2. Cardinality(granting \ {s}) = Cardinality(granting) - 1
  BY <1>0, Sizes, FS_RemoveElement
<1>3. Inside' = Inside
  BY <1>0 DEF Inside
<1>4. CASE PostGrant(s)
  <2>1. inflight' = inflight \cup {s} /\ lost' = lost
    BY <1>4 DEF PostGrant
  <2>2. TypeOK'
    BY <1>0, <2>1 DEF TypeOK
  <2>3. s \notin inflight
    BY <1>0, OnePermit
  <2>4. Cardinality(inflight \cup {s}) = Cardinality(inflight) + 1
    BY <2>3, Sizes, FS_AddElement
  <2>5. Permits' = Permits
    BY <1>0, <1>2, <1>3, <2>1, <2>4, Sizes DEF Permits, TypeOK
  <2>6. PermitConserved'
    BY <2>5, PermitsAddUp
  <2> QED BY <1>0, <1>1, <2>2, <2>6
<1>5. CASE PostRefused(s)
  <2>1. inflight' = inflight /\ lost' = lost + 1
    BY <1>5 DEF PostRefused
  <2>2. TypeOK'
    BY <1>0, <2>1 DEF TypeOK
  <2>3. Permits' = Permits
    BY <1>0, <1>2, <1>3, <2>1, Sizes DEF Permits, TypeOK
  <2>4. PermitConserved'
    BY <2>3, PermitsAddUp
  <2> QED BY <1>0, <1>1, <2>2, <2>4
<1> QED BY <1>4, <1>5

\* The grant arrives, at one that waits or at one that has given up.
LEMMA GrantedSInv ==
    ASSUME SInv, NEW s \in SMs, Granted(s)
    PROVE  SInv'
<1> USE DEF SInv
<1>0. /\ UNCHANGED <<list, granting, cur_value>>
      /\ s \in inflight /\ inflight' = inflight \ {s}
  BY DEF Granted
<1>1. Cardinality(inflight \ {s}) = Cardinality(inflight) - 1
  BY <1>0, Sizes, FS_RemoveElement
<1>2. CASE st[s] = "wait"
  <2>1. /\ st' = [st EXCEPT ![s] = "in"] /\ lost' = lost
        /\ mistaken' = (mistaken \/ s \in Members(list))
        /\ waiting' = IF mistaken' THEN <<>> ELSE waiting
    BY <1>2 DEF Granted
  <2>2. TypeOK'
    <3>1. mistaken' \in BOOLEAN
      BY <2>1, Zenon
    <3> QED BY <1>0, <2>1, <3>1 DEF TypeOK
  <2>3. ASSUME ~mistaken' PROVE Waiters'
    <3>1. Waiters /\ s \notin Members(list) /\ waiting' = waiting
      BY <2>1, <2>3, Zenon
    <3>2. /\ s \notin Elements(waiting)
          /\ \A t \in Elements(waiting) : t \in SMs
      BY <3>1, ChainFacts, SeqFacts DEF Waiters, IsChain, Elements
    <3>3. \A t \in Elements(waiting) : st'[t] = "wait"
      BY <2>1, <3>1, <3>2 DEF Waiters, TypeOK
    <3> QED BY <1>0, <3>1, <3>3 DEF Waiters
  <2>4. Inside' = Inside \cup {s} /\ Cardinality(Inside \cup {s}) = Cardinality(Inside) + 1
    <3>1. Inside' = Inside \cup {s}
      BY <2>1 DEF Inside, TypeOK
    <3>2. s \notin Inside
      BY <1>2 DEF Inside
    <3> QED BY <3>1, <3>2, Sizes, FS_AddElement
  <2>5. Permits' = Permits
    BY <1>0, <1>1, <2>1, <2>4, Sizes DEF Permits, TypeOK
  <2>6. PermitConserved'
    BY <2>5, PermitsAddUp
  <2> QED BY <2>2, <2>3, <2>6
<1>3. CASE st[s] = "out"
  <2>1. lost' = lost + 1 /\ UNCHANGED <<st, waiting, mistaken>>
    BY <1>3 DEF Granted
  <2>2. TypeOK'
    BY <1>0, <2>1 DEF TypeOK
  <2>3. ~mistaken => Waiters'
    BY <1>0, <2>1 DEF Waiters, Elements
  <2>4. Inside' = Inside
    BY <2>1 DEF Inside
  <2>5. Permits' = Permits
    BY <1>0, <1>1, <2>1, <2>4, Sizes DEF Permits, TypeOK
  <2>6. PermitConserved'
    BY <2>5, PermitsAddUp
  <2> QED BY <2>1, <2>2, <2>3, <2>6
<1> QED BY <1>2, <1>3 DEF Granted

\* The invariant holds in every reachable state.
THEOREM SInvHolds == Spec => []SInv
<1>1. SInv /\ [Next]_vars => SInv'
  <2> SUFFICES ASSUME SInv, [Next]_vars PROVE SInv'
    OBVIOUS
  <2>1. CASE UNCHANGED vars
    BY <2>1 DEF vars, SInv, TypeOK, Waiters, PermitConserved, Elements
  <2> QED BY <2>1, CritEnterSInv, CritLeaveSInv, CancelSInv, PostSInv, GrantedSInv DEF Next
<1> QED BY InitSInv, <1>1, PTL DEF Spec

(* For every number of state machines: the permit of a critical section is    *)
(* neither duplicated nor destroyed, except by a full event queue or by a     *)
(* waiter that gave up when its grant was on its way, whatever the            *)
(* interleaving of entering, leaving, cancelling and travelling grants, also  *)
(* after a mistaken entry has tangled the list.                               *)
THEOREM PermitIsConserved == Spec => []PermitConserved
<1>1. SInv => PermitConserved
  BY DEF SInv
<1> QED BY SInvHolds, <1>1, PTL

(* For every number of state machines: sm_pending and the pending_next fields *)
(* are a list that ends and holds exactly the waiters in the order in which   *)
(* they came, also after cancellations from its middle and of those that are  *)
(* not on it any more, and nobody is on it while the permit is free, until    *)
(* one takes the event of an earlier wait for its grant.                      *)
THEOREM ListStaysFifo == Spec => []ListIsFifo
<1>1. SInv => ListIsFifo
  <2> SUFFICES ASSUME SInv, ~mistaken
               PROVE  /\ Ends(list) /\ Chain(list) = waiting
                      /\ \A s \in SMs : s \in Members(list) => st[s] = "wait" /\ cur_value = 0
    BY DEF ListIsFifo
  <2>0. Waiters
    BY DEF SInv
  <2>1. Members(list) = Elements(waiting) /\ Ends(list) /\ Chain(list) = waiting
    BY <2>0, ChainFacts DEF Waiters
  <2>2. Elements(waiting) # {} => cur_value = 0
    BY <2>0, SeqFacts DEF Waiters, IsChain, Elements
  <2> QED BY <2>0, <2>1, <2>2 DEF Waiters
<1> QED BY SInvHolds, <1>1, PTL
=============================================================================
