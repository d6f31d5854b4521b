----------------------------- MODULE TimerProofs -----------------------------
(***************************************************************************)
(* Proofs about the timer service of module Timer, for every set of timers,*)
(* state machines, intervals and counts.                                   *)
(*                                                                         *)
(* The argument: the list has no timer twice and is sorted by deadline, so *)
(* the head is due first and the handler may stop at the first timer that  *)
(* is not due.  vsfq_remove, and vsftimer_clean_sm which removes many, keep*)
(* the order of what they leave (KeepFacts, by induction along the walk);  *)
(* vsfq_enqueue puts a timer between smaller and not smaller deadlines     *)
(* (InsertFacts).                                                          *)
(***************************************************************************)
EXTENDS Timer, SequenceTheorems, FiniteSetTheorems, TLAPS

\* Every nonempty set of numbers has a least element.
LEMMA LeastNumber ==
    ASSUME NEW T, T \subseteq Nat, T # {}
    PROVE  \E x \in T : \A y \in T : x <= y
<1>1. PICK x \in T : \A y \in T : ~(<<y, x>> \in OpToRel(<, Nat))
  BY WFMin, NatLessThanWellFounded
<1>2. \A y \in T : ~(y < x)
  BY <1>1 DEF OpToRel
<1>3. \A y \in T : x <= y
  BY <1>2
<1> QED BY <1>3

\* The tick counter before it wraps.
LEMMA NoWrapFacts ==
    ASSUME NEW x \in Nat
    PROVE  x % Wrap \in Nat /\ x % Wrap <= x /\ (x < Wrap => x % Wrap = x)
BY WrapAssumption

-----------------------------------------------------------------------------
(* Keep.                                                                     *)

\* What n steps of the walk leave, from what n - 1 leave.
Step(l, ts, n, s) == IF l[n] \in ts THEN s ELSE Append(s, l[n])

\* G holds what the first 0 .. n steps of the walk leave.
Leaves(l, ts, n, G, S) ==
    /\ G \in [0 .. n -> Seq(S)]
    /\ G[0] = <<>>
    /\ \A i \in 1 .. n : G[i] = Step(l, ts, i, G[i - 1])

\* The walk can be made, step by step.
LEMMA WalkExists ==
    ASSUME NEW S, NEW l \in Seq(S), NEW ts
    PROVE  \E G : Leaves(l, ts, Len(l), G, S)
<1> DEFINE T == {n \in 0 .. Len(l) : ~\E G : Leaves(l, ts, n, G, S)}
<1>0. Len(l) \in Nat /\ \A i \in 1 .. Len(l) : l[i] \in S
  BY LenProperties, ElementOfSeq
<1>1. SUFFICES ASSUME ~\E G : Leaves(l, ts, Len(l), G, S) PROVE FALSE
  OBVIOUS
<1>2. PICK n \in T : \A k \in T : n <= k
  <2>1. Len(l) \in T /\ T \subseteq Nat
    BY <1>0, <1>1
  <2> HIDE DEF T
  <2> QED BY <2>1, LeastNumber
<1>3. n \in 0 .. Len(l) /\ ~\E G : Leaves(l, ts, n, G, S)
  OBVIOUS
<1>4. n # 0
  <2> SUFFICES ASSUME n = 0 PROVE FALSE
    OBVIOUS
  <2> DEFINE G == [i \in 0 .. 0 |-> <<>>]
  <2>1. G \in [0 .. 0 -> Seq(S)] /\ G[0] = <<>> /\ 1 .. 0 = {}
    OBVIOUS
  <2>2. Leaves(l, ts, 0, G, S)
    <3> HIDE DEF G
    <3> QED BY <2>1 DEF Leaves
  <2> QED BY <1>3, <2>2
<1>5. n - 1 \in 0 .. Len(l) /\ ~(n <= n - 1) /\ n \in 1 .. Len(l)
  BY <1>0, <1>3, <1>4
<1>6. PICK G : Leaves(l, ts, n - 1, G, S)
  BY <1>2, <1>5
<1> DEFINE H == [i \in 0 .. n |-> IF i = n THEN Step(l, ts, n, G[n - 1]) ELSE G[i]]
<1>7. \A i \in 0 .. n : i # n => i \in 0 .. n - 1
  BY <1>5
<1>8. Step(l, ts, n, G[n - 1]) \in Seq(S)
  <2>1. G[n - 1] \in Seq(S) /\ l[n] \in S
    BY <1>0, <1>5, <1>6 DEF Leaves
  <2> QED BY <2>1, AppendProperties DEF Step
<1>9. H \in [0 .. n -> Seq(S)]
  BY <1>6, <1>7, <1>8 DEF Leaves
<1>10. H[0] = <<>>
  BY <1>4, <1>5, <1>6 DEF Leaves
<1>11. ASSUME NEW i \in 1 .. n PROVE H[i] = Step(l, ts, i, H[i - 1])
  <2>1. i - 1 \in 0 .. n /\ i - 1 # n /\ i \in 0 .. n
    BY <1>5
  <2>2. H[i - 1] = G[i - 1]
    BY <2>1
  <2>3. CASE i = n
    BY <2>1, <2>2, <2>3
  <2>4. CASE i # n
    <3>1. i \in 1 .. n - 1
      BY <1>5, <2>4
    <3> QED BY <1>6, <2>1, <2>2, <2>4, <3>1 DEF Leaves
  <2> QED BY <2>3, <2>4
<1>12. Leaves(l, ts, n, H, S)
  <2> HIDE DEF H
  <2> QED BY <1>9, <1>10, <1>11 DEF Leaves
<1> QED BY <1>3, <1>12

\* The recursive function in Keep satisfies its equation if any function does.
LEMMA KeepEquation ==
    ASSUME NEW l, NEW ts, NEW W,
           W = [n \in 0 .. Len(l) |->
                   IF n = 0 THEN <<>>
                   ELSE IF l[n] \in ts THEN W[n - 1] ELSE Append(W[n - 1], l[n])]
    PROVE  \E w : /\ w = [n \in 0 .. Len(l) |->
                             IF n = 0 THEN <<>>
                             ELSE IF l[n] \in ts THEN w[n - 1] ELSE Append(w[n - 1], l[n])]
                  /\ Keep(l, ts) = w[Len(l)]
<1> DEFINE w == CHOOSE w : w = [n \in 0 .. Len(l) |->
                             IF n = 0 THEN <<>>
                             ELSE IF l[n] \in ts THEN w[n - 1] ELSE Append(w[n - 1], l[n])]
<1>1. w = [n \in 0 .. Len(l) |->
                   IF n = 0 THEN <<>>
                   ELSE IF l[n] \in ts THEN w[n - 1] ELSE Append(w[n - 1], l[n])]
  OBVIOUS
<1>2. Keep(l, ts) = w[Len(l)]
  BY DEF Keep
<1> HIDE DEF w
<1> QED BY <1>1, <1>2

Elements(s) == {s[i] : i \in 1 .. Len(s)}

\* Removing the timers ts leaves the others, in the same order.
LEMMA KeepFacts ==
    ASSUME NEW S, NEW l \in Seq(S), NEW ts
    PROVE  /\ Keep(l, ts) \in Seq(S)
           /\ Elements(Keep(l, ts)) = Elements(l) \ ts
           /\ \A i, j \in 1 .. Len(Keep(l, ts)) : i < j =>
                 \E a, b \in 1 .. Len(l) : /\ a < b
                                           /\ l[a] = Keep(l, ts)[i]
                                           /\ l[b] = Keep(l, ts)[j]
<1>0. Len(l) \in Nat /\ \A i \in 1 .. Len(l) : l[i] \in S
  BY LenProperties, ElementOfSeq
<1>1. PICK G : Leaves(l, ts, Len(l), G, S)
  BY WalkExists
<1>2. G = [n \in 0 .. Len(l) |->
              IF n = 0 THEN <<>>
              ELSE IF l[n] \in ts THEN G[n - 1] ELSE Append(G[n - 1], l[n])]
  <2>1. G = [n \in 0 .. Len(l) |-> G[n]]
    BY <1>1 DEF Leaves
  <2>2. ASSUME NEW n \in 0 .. Len(l)
        PROVE  G[n] = IF n = 0 THEN <<>>
                      ELSE IF l[n] \in ts THEN G[n - 1] ELSE Append(G[n - 1], l[n])
    <3>1. n = 0 \/ n \in 1 .. Len(l)
      BY <1>0
    <3> QED BY <1>1, <3>1 DEF Leaves, Step
  <2> QED BY <2>1, <2>2
<1>3. PICK w : /\ w = [n \in 0 .. Len(l) |->
                          IF n = 0 THEN <<>>
                          ELSE IF l[n] \in ts THEN w[n - 1] ELSE Append(w[n - 1], l[n])]
               /\ Keep(l, ts) = w[Len(l)]
  BY <1>2, KeepEquation
<1>4. w[0] = <<>> /\ \A n \in 1 .. Len(l) : w[n] = Step(l, ts, n, w[n - 1])
  <2>1. 0 \in 0 .. Len(l) /\ \A n \in 1 .. Len(l) : n \in 0 .. Len(l) /\ n # 0
    BY <1>0
  <2> QED BY <1>3, <2>1 DEF Step
<1> DEFINE Good(n) ==
        /\ w[n] \in Seq(S)
        /\ \A x : x \in Elements(w[n]) <=> (x \notin ts /\ \E a \in 1 .. n : x = l[a])
        /\ \A i, j \in 1 .. Len(w[n]) : i < j =>
              \E a, b \in 1 .. n : a < b /\ l[a] = w[n][i] /\ l[b] = w[n][j]
           T == {n \in 0 .. Len(l) : ~Good(n)}
<1>5. Good(Len(l))
  <2>1. SUFFICES ASSUME ~Good(Len(l)) PROVE FALSE
    OBVIOUS
  <2>2. PICK n \in T : \A k \in T : n <= k
    <3>1. Len(l) \in T /\ T \subseteq Nat
      BY <1>0, <2>1
    <3> HIDE DEF T
    <3> QED BY <3>1, LeastNumber
  <2>3. n \in 0 .. Len(l) /\ ~Good(n)
    OBVIOUS
  <2>4. n # 0
    <3>1. Good(0)
      <4>1. w[0] = <<>> /\ 1 .. Len(<<>>) = {} /\ 1 .. 0 = {}
        BY <1>4
      <4> QED BY <4>1 DEF Elements
    <3> QED BY <2>3, <3>1
  <2>5. n - 1 \in 0 .. Len(l) /\ ~(n <= n - 1) /\ n \in 1 .. Len(l) /\ n \in Nat
    BY <1>0, <2>3, <2>4
  <2>6. Good(n - 1)
    BY <2>2, <2>5
  <2> DEFINE u == w[n - 1]
             v == w[n]
  <2>7. u \in Seq(S) /\ Len(u) \in Nat /\ v = Step(l, ts, n, u) /\ l[n] \in S
    BY <1>0, <1>4, <2>5, <2>6, LenProperties
  <2>8. \A a : a \in 1 .. n <=> a \in 1 .. n - 1 \/ a = n
    BY <2>5
  <2>9. \A a \in 1 .. n - 1 : a < n
    BY <2>5
  <2>10. /\ \A x : x \in Elements(u) <=> (x \notin ts /\ \E a \in 1 .. n - 1 : x = l[a])
         /\ \A i, j \in 1 .. Len(u) : i < j =>
               \E a, b \in 1 .. n - 1 : a < b /\ l[a] = u[i] /\ l[b] = u[j]
    BY <2>6
  <2>11. ~Good(n)
    BY <2>3
  <2> HIDE DEF u
  <2>12. CASE l[n] \in ts
    <3>1. v = u
      BY <2>7, <2>12 DEF Step
    <3>2. \A x : x \in Elements(u) <=> (x \notin ts /\ \E a \in 1 .. n : x = l[a])
      BY <2>8, <2>10, <2>12
    <3>3. \A i, j \in 1 .. Len(u) : i < j =>
               \E a, b \in 1 .. n : a < b /\ l[a] = u[i] /\ l[b] = u[j]
      BY <2>8, <2>10
    <3> QED BY <2>7, <2>11, <3>1, <3>2, <3>3
  <2>13. CASE l[n] \notin ts
    <3>1. v = Append(u, l[n])
      BY <2>7, <2>13 DEF Step
    <3>2. /\ v \in Seq(S) /\ Len(v) = Len(u) + 1
          /\ \A i \in 1 .. Len(u) : v[i] = u[i]
          /\ v[Len(u) + 1] = l[n]
      BY <2>7, <3>1, AppendProperties
    <3>3. \A i : i \in 1 .. Len(u) + 1 <=> i \in 1 .. Len(u) \/ i = Len(u) + 1
      BY <2>7
    <3> HIDE DEF v
    <3>4. Elements(v) = Elements(u) \cup {l[n]}
      BY <3>2, <3>3 DEF Elements
    <3>5. \A x : x \in Elements(v) <=> (x \notin ts /\ \E a \in 1 .. n : x = l[a])
      BY <2>8, <2>10, <2>13, <3>4
    <3>6. ASSUME NEW i \in 1 .. Len(v), NEW j \in 1 .. Len(v), i < j
          PROVE  \E a, b \in 1 .. n : a < b /\ l[a] = v[i] /\ l[b] = v[j]
      <4>0. Len(u) \in Nat /\ Len(v) = Len(u) + 1
        BY <2>7, <3>2
      <4>1. i \in 1 .. Len(u) /\ v[i] = u[i]
        <5>1. i \in 1 .. Len(u)
          BY <3>6, <4>0
        <5> QED BY <3>2, <5>1
      <4>2. CASE j = Len(u) + 1
        <5>1. v[i] \in Elements(u)
          BY <4>1 DEF Elements
        <5>2. PICK a \in 1 .. n - 1 : v[i] = l[a]
          BY <2>10, <5>1
        <5>3. a \in 1 .. n /\ n \in 1 .. n /\ a < n
          BY <2>8, <2>9
        <5> QED BY <3>2, <4>2, <5>2, <5>3
      <4>3. CASE j \in 1 .. Len(u)
        <5>1. PICK a, b \in 1 .. n - 1 : a < b /\ l[a] = u[i] /\ l[b] = u[j]
          BY <2>10, <3>6, <4>1, <4>3
        <5>2. a \in 1 .. n /\ b \in 1 .. n /\ v[j] = u[j]
          BY <2>8, <3>2, <4>3
        <5> QED BY <4>1, <5>1, <5>2
      <4> QED BY <3>2, <3>3, <4>2, <4>3
    <3> QED BY <2>11, <3>2, <3>5, <3>6 DEF v
  <2> QED BY <2>12, <2>13
<1> HIDE DEF T
<1>6. Elements(Keep(l, ts)) = Elements(l) \ ts
  <2>1. \A x : x \in Elements(Keep(l, ts)) <=> (x \notin ts /\ \E a \in 1 .. Len(l) : x = l[a])
    BY <1>3, <1>5
  <2> QED BY <2>1 DEF Elements
<1>7. Keep(l, ts) = w[Len(l)]
  BY <1>3
<1> DEFINE k == w[Len(l)]
<1>8. /\ k \in Seq(S)
      /\ \A i, j \in 1 .. Len(k) : i < j => \E a, b \in 1 .. Len(l) : a < b /\ l[a] = k[i] /\ l[b] = k[j]
  BY <1>5
<1>9. Keep(l, ts) = k /\ Elements(k) = Elements(l) \ ts
  BY <1>6, <1>7
<1> HIDE DEF k
<1> QED BY <1>8, <1>9

-----------------------------------------------------------------------------
(* Insert.                                                                   *)

\* No timer is in the list twice.
Once(l) == \A i, j \in 1 .. Len(l) : l[i] = l[j] => i = j

\* The list is sorted by deadline.
Sorted(l, key) == \A i, j \in 1 .. Len(l) : i < j => key[l[i]] <= key[l[j]]

\* vsfq_enqueue adds its node, between smaller keys and keys that are not.
LEMMA InsertFacts ==
    ASSUME NEW S, NEW l \in Seq(S), NEW t \in S, NEW key \in [S -> Nat],
           t \notin Elements(l), Once(l), Sorted(l, key)
    PROVE  /\ Insert(l, key, t) \in Seq(S)
           /\ Elements(Insert(l, key, t)) = Elements(l) \cup {t}
           /\ Once(Insert(l, key, t))
           /\ Sorted(Insert(l, key, t), key)
<1> DEFINE n == Len(l)
           later == {i \in 1 .. n : key[l[i]] >= key[t]}
           k == IF later = {} THEN n + 1 ELSE CHOOSE i \in later : \A j \in later : i <= j
           r == Insert(l, key, t)
<1>1. n \in Nat /\ \A i \in 1 .. n : l[i] \in S /\ l[i] # t /\ key[l[i]] \in Nat
  BY LenProperties, ElementOfSeq DEF Elements
<1>2. key[t] \in Nat
  OBVIOUS
<1>3. /\ k \in 1 .. n + 1
      /\ \A i \in 1 .. n : i < k => key[l[i]] < key[t]
      /\ \A i \in 1 .. n : i >= k => key[l[i]] >= key[t]
  <2>1. CASE later = {}
    <3>1. k = n + 1
      BY <2>1
    <3>2. \A i \in 1 .. n : key[l[i]] < key[t]
      BY <1>1, <1>2, <2>1
    <3> HIDE DEF k
    <3> QED BY <1>1, <3>1, <3>2
  <2>2. CASE later # {}
    <3>1. later \subseteq Nat
      BY <1>1
    <3>2. \E i \in later : \A j \in later : i <= j
      <4> HIDE DEF later
      <4> QED BY <2>2, <3>1, LeastNumber
    <3>3. k \in later /\ \A j \in later : k <= j
      BY <2>2, <3>2
    <3> HIDE DEF k
    <3>4. k \in 1 .. n /\ key[l[k]] >= key[t]
      BY <3>3
    <3>5. ASSUME NEW i \in 1 .. n, i < k PROVE key[l[i]] < key[t]
      <4>1. i \notin later
        BY <1>1, <3>3, <3>4, <3>5
      <4> QED BY <1>1, <1>2, <4>1
    <3>6. ASSUME NEW i \in 1 .. n, i >= k PROVE key[l[i]] >= key[t]
      <4>1. CASE i = k
        BY <3>4, <4>1
      <4>2. CASE i # k
        <5>1. k < i
          BY <1>1, <3>4, <3>6, <4>2
        <5>2. key[l[k]] <= key[l[i]]
          BY <3>4, <5>1 DEF Sorted
        <5> QED BY <1>1, <1>2, <3>4, <5>2
      <4> QED BY <4>1, <4>2
    <3> QED BY <1>1, <3>4, <3>5, <3>6
  <2> QED BY <2>1, <2>2
<1>4. r = [i \in 1 .. n + 1 |-> IF i < k THEN l[i] ELSE IF i = k THEN t ELSE l[i - 1]]
  BY DEF Insert
<1> HIDE DEF k, r
<1>5. \A i \in 1 .. n + 1 : /\ i < k => i \in 1 .. n
                            /\ i > k => i - 1 \in 1 .. n
                            /\ i < k \/ i = k \/ i > k
  BY <1>1, <1>3
<1>6. /\ r \in Seq(S) /\ Len(r) = n + 1
      /\ r[k] = t
      /\ \A i \in 1 .. n + 1 : i < k => r[i] = l[i]
      /\ \A i \in 1 .. n + 1 : i > k => r[i] = l[i - 1]
  <2>1. \A i \in 1 .. n + 1 : (IF i < k THEN l[i] ELSE IF i = k THEN t ELSE l[i - 1]) \in S
    BY <1>1, <1>5
  <2>2. n + 1 \in Nat
    BY <1>1
  <2>3. r \in Seq(S) /\ Len(r) = n + 1
    BY <1>4, <2>1, <2>2
  <2>4. ~(k < k) /\ \A i \in 1 .. n + 1 : i > k => ~(i < k) /\ i # k
    BY <1>1, <1>3
  <2> QED BY <1>3, <1>4, <2>3, <2>4
<1>7. Elements(r) = Elements(l) \cup {t}
  <2>1. ASSUME NEW i \in 1 .. n + 1 PROVE r[i] \in Elements(l) \cup {t}
    BY <1>5, <1>6 DEF Elements
  <2>2. ASSUME NEW i \in 1 .. n PROVE \E j \in 1 .. n + 1 : r[j] = l[i]
    <3>1. CASE i < k
      <4>1. i \in 1 .. n + 1
        BY <1>1
      <4> QED BY <1>6, <3>1, <4>1
    <3>2. CASE ~(i < k)
      <4>1. i + 1 \in 1 .. n + 1 /\ i + 1 > k /\ (i + 1) - 1 = i
        BY <1>1, <1>3, <3>2
      <4> QED BY <1>6, <4>1
    <3> QED BY <3>1, <3>2
  <2>3. Elements(r) = {r[i] : i \in 1 .. n + 1} /\ t \in Elements(r)
    BY <1>3, <1>6 DEF Elements
  <2>4. Elements(l) = {l[i] : i \in 1 .. n}
    BY DEF Elements
  <2> QED BY <2>1, <2>2, <2>3, <2>4
<1>8. Once(r)
  <2> SUFFICES ASSUME NEW i \in 1 .. n + 1, NEW j \in 1 .. n + 1, i < j, r[i] = r[j]
               PROVE  FALSE
    BY <1>1, <1>6 DEF Once
  <2>1. CASE j < k
    <3>1. i < k
      BY <1>1, <1>3, <2>1
    <3>2. i = j
      BY <1>5, <1>6, <2>1, <3>1 DEF Once
    <3> QED BY <1>1, <3>2
  <2>2. CASE j = k
    <3>1. i < k /\ r[j] = t
      BY <1>6, <2>2
    <3> QED BY <1>1, <1>5, <1>6, <3>1
  <2>3. CASE j > k /\ i = k
    BY <1>1, <1>5, <1>6, <2>3
  <2>4. CASE j > k /\ i < k
    <3>0. i \in 1 .. n /\ j - 1 \in 1 .. n /\ l[i] = l[j - 1]
      BY <1>5, <1>6, <2>4
    <3>1. i = j - 1
      BY <3>0 DEF Once
    <3> QED BY <1>1, <1>3, <2>4, <3>1
  <2>5. CASE j > k /\ i > k
    <3>0. i - 1 \in 1 .. n /\ j - 1 \in 1 .. n /\ l[i - 1] = l[j - 1]
      BY <1>5, <1>6, <2>5
    <3>1. i - 1 = j - 1
      BY <3>0 DEF Once
    <3> QED BY <1>1, <3>1
  <2> QED BY <1>5, <2>1, <2>2, <2>3, <2>4, <2>5
<1>9. Sorted(r, key)
  <2> SUFFICES ASSUME NEW i \in 1 .. n + 1, NEW j \in 1 .. n + 1, i < j
               PROVE  key[r[i]] <= key[r[j]]
    BY <1>6 DEF Sorted
  <2>1. CASE j < k
    <3>1. i < k
      BY <1>1, <1>3, <2>1
    <3> QED BY <1>5, <1>6, <2>1, <3>1 DEF Sorted
  <2>2. CASE j = k
    <3>1. i < k /\ i \in 1 .. n /\ r[i] = l[i] /\ r[j] = t
      BY <1>5, <1>6, <2>2
    <3> QED BY <1>1, <1>2, <1>3, <3>1
  <2>3. CASE j > k /\ i = k
    <3>1. j - 1 \in 1 .. n /\ j - 1 >= k /\ r[j] = l[j - 1] /\ r[i] = t
      BY <1>1, <1>3, <1>5, <1>6, <2>3
    <3> QED BY <1>1, <1>2, <1>3, <3>1
  <2>4. CASE j > k /\ i < k
    <3>1. /\ j - 1 \in 1 .. n /\ j - 1 >= k /\ r[j] = l[j - 1]
          /\ i \in 1 .. n /\ r[i] = l[i]
      BY <1>1, <1>3, <1>5, <1>6, <2>4
    <3>2. key[l[i]] < key[t] /\ key[l[i]] \in Nat
      BY <1>1, <1>3, <2>4, <3>1
    <3>3. key[t] <= key[l[j - 1]] /\ key[l[j - 1]] \in Nat
      BY <1>1, <1>3, <3>1
    <3>4. key[l[i]] <= key[l[j - 1]]
      BY <1>2, <3>2, <3>3
    <3> QED BY <3>1, <3>4
  <2>5. CASE j > k /\ i > k
    <3>1. i - 1 \in 1 .. n /\ j - 1 \in 1 .. n /\ r[i] = l[i - 1] /\ r[j] = l[j - 1]
      BY <1>5, <1>6, <2>5
    <3>2. i - 1 < j - 1
      BY <1>1
    <3> QED BY <3>1, <3>2 DEF Sorted
  <2> QED BY <1>5, <2>1, <2>2, <2>3, <2>4, <2>5
<1> QED BY <1>6, <1>7, <1>8, <1>9 DEF r

\* What is left of a sorted list without repetitions is one, too.
LEMMA KeepSorted ==
    ASSUME NEW S, NEW l \in Seq(S), NEW ts, NEW key, Once(l), Sorted(l, key)
    PROVE  Once(Keep(l, ts)) /\ Sorted(Keep(l, ts), key)
<1> DEFINE r == Keep(l, ts)
<1>1. \A i, j \in 1 .. Len(r) : i < j =>
          \E a, b \in 1 .. Len(l) : a < b /\ l[a] = r[i] /\ l[b] = r[j]
  BY KeepFacts
<1>2. Len(r) \in Nat /\ Len(l) \in Nat
  BY KeepFacts, LenProperties
<1> HIDE DEF r
<1>3. \A i, j \in 1 .. Len(r) : i < j => r[i] # r[j]
  <2> SUFFICES ASSUME NEW i \in 1 .. Len(r), NEW j \in 1 .. Len(r), i < j PROVE r[i] # r[j]
    OBVIOUS
  <2>1. PICK a, b \in 1 .. Len(l) : a < b /\ l[a] = r[i] /\ l[b] = r[j]
    BY <1>1
  <2>2. a # b
    BY <1>2, <2>1
  <2> QED BY <2>1, <2>2 DEF Once
<1>4. Once(r)
  <2> SUFFICES ASSUME NEW i \in 1 .. Len(r), NEW j \in 1 .. Len(r), r[i] = r[j], i # j PROVE FALSE
    BY DEF Once
  <2>1. i < j \/ j < i
    BY <1>2
  <2> QED BY <1>3, <2>1
<1>5. Sorted(r, key)
  <2> SUFFICES ASSUME NEW i \in 1 .. Len(r), NEW j \in 1 .. Len(r), i < j
               PROVE  key[r[i]] <= key[r[j]]
    BY DEF Sorted
  <2>1. PICK a, b \in 1 .. Len(l) : a < b /\ l[a] = r[i] /\ l[b] = r[j]
    BY <1>1
  <2>2. key[l[a]] <= key[l[b]]
    BY <2>1 DEF Sorted
  <2> QED BY <2>1, <2>2
<1> QED BY <1>4, <1>5 DEF r

-----------------------------------------------------------------------------
(* The timer service.                                                        *)
Record == [addr : Nat, interval : Nat, trigger_cnt : Int, sm : SMs \cup {NULL}, set : Int]

\* The variables keep their types.
TypeOK ==
    /\ time \in Nat /\ time <= MaxTime
    /\ cur_tick \in Nat
    /\ list \in Seq(Timers)
    /\ timer \in [Timers -> Record]
    /\ allocated \subseteq Pool
    /\ armed \in [Timers -> Nat]
    /\ fires \in [Timers -> Nat]
    /\ pc = "post" => taken \in Timers

\* What the user of t was told or is about to be told.
Told(t) == fires[t] + Owed(t)

Addr == [u \in Timers |-> timer[u].addr]

Ordered == Once(list) /\ Sorted(list, Addr)

TInv == TypeOK /\ Ordered /\ PoolExact /\ FiresAsAsked

\* The listed timers.
LEMMA RangeFacts ==
    ASSUME list \in Seq(Timers)
    PROVE  /\ Range(list) = Elements(list)
           /\ Elements(list) \subseteq Timers
           /\ list # <<>> => /\ Len(list) \in Nat \ {0} /\ 1 \in 1 .. Len(list)
                             /\ Head(list) = list[1] /\ Head(list) \in Elements(list)
<1>1. Len(list) \in Nat /\ DOMAIN list = 1 .. Len(list) /\ \A i \in 1 .. Len(list) : list[i] \in Timers
  BY LenProperties, ElementOfSeq
<1>2. list # <<>> => Len(list) \in Nat \ {0} /\ 1 \in 1 .. Len(list)
  BY <1>1, EmptySeq
<1>3. Head(list) = list[1]
  OBVIOUS
<1> QED BY <1>1, <1>2, <1>3 DEF Range, Elements

\* What the user asks for is a record.
LEMMA RequestFacts ==
    ASSUME NEW s \in SMs, NEW i \in Intervals, NEW c \in Counts
    PROVE  /\ Request(s, i, c) \in Record
           /\ Request(s, i, c).interval = i
           /\ Request(s, i, c).trigger_cnt = c
           /\ Request(s, i, c).set = c
BY IntervalAssumption, CountAssumption DEF Request, Record

\* vsftimer_enqueue lists the timer by its new deadline.
LEMMA EnqueueFacts ==
    ASSUME TypeOK, Ordered, NEW t \in Timers, NEW rec \in Record, Enqueue(t, rec)
    PROVE  /\ timer' \in [Timers -> Record]
           /\ timer'[t] = [rec EXCEPT !.addr = (rec.interval + Now) % Wrap]
           /\ \A u \in Timers \ {t} : timer'[u] = timer[u]
           /\ armed' \in [Timers -> Nat] /\ armed'[t] = time
           /\ \A u \in Timers \ {t} : armed'[u] = armed[u]
           /\ list' \in Seq(Timers)
           /\ Elements(list') = Elements(list) \cup {t}
           /\ Ordered'
<1> DEFINE new == [rec EXCEPT !.addr = (rec.interval + Now) % Wrap]
           key == [u \in Timers |-> IF u = t THEN new.addr ELSE timer[u].addr]
           l == Dequeue(list, t)
<1>1. timer' = [timer EXCEPT ![t] = new] /\ list' = Insert(l, key, t)
      /\ armed' = [armed EXCEPT ![t] = time]
  BY DEF Enqueue
<1>2. (rec.interval + Now) % Wrap \in Nat
  <2>1. Now \in Nat
    BY NoWrapFacts DEF Now, TypeOK
  <2>2. rec.interval + Now \in Nat
    BY <2>1 DEF Record
  <2> QED BY <2>2, NoWrapFacts
<1>3. new \in Record /\ new.addr \in Nat
  BY <1>2 DEF Record
<1> HIDE DEF new
<1>4. timer' \in [Timers -> Record] /\ timer'[t] = new /\ \A u \in Timers \ {t} : timer'[u] = timer[u]
  BY <1>1, <1>3 DEF TypeOK
<1>5. armed' \in [Timers -> Nat] /\ armed'[t] = time /\ \A u \in Timers \ {t} : armed'[u] = armed[u]
  BY <1>1 DEF TypeOK
<1>6. key \in [Timers -> Nat] /\ Addr' = key
  BY <1>3, <1>4 DEF TypeOK, Record, Addr
<1>7. l \in Seq(Timers) /\ Elements(l) = Elements(list) \ {t} /\ Once(l) /\ Sorted(l, Addr)
  BY KeepFacts, KeepSorted DEF TypeOK, Ordered, Dequeue
<1>8. \A i \in 1 .. Len(l) : l[i] \in Timers /\ l[i] # t
  BY <1>7, ElementOfSeq DEF Elements
<1> HIDE DEF l
<1>9. Sorted(l, key)
  BY <1>7, <1>8 DEF Sorted, Addr
<1> HIDE DEF key
<1>10. /\ list' \in Seq(Timers) /\ Elements(list') = Elements(l) \cup {t}
       /\ Once(list') /\ Sorted(list', key)
  BY <1>1, <1>6, <1>7, <1>9, InsertFacts
<1>11. Ordered'
  BY <1>6, <1>10 DEF Ordered
<1> QED BY <1>4, <1>5, <1>7, <1>10, <1>11 DEF new

\* Taking timers out of the list.
LEMMA RemoveFacts ==
    ASSUME TypeOK, Ordered, NEW ts, list' = Keep(list, ts), timer' = timer
    PROVE  list' \in Seq(Timers) /\ Elements(list') = Elements(list) \ ts /\ Ordered'
<1>1. list' \in Seq(Timers) /\ Elements(list') = Elements(list) \ ts
      /\ Once(list') /\ Sorted(list', Addr)
  BY KeepFacts, KeepSorted DEF TypeOK, Ordered
<1>2. Addr' = Addr
  BY DEF Addr
<1> QED BY <1>1, <1>2 DEF Ordered

\* The invariant in terms of the elements of the list.
LEMMA InvByElements ==
    ASSUME TypeOK', Ordered',
           allocated' = Pool \cap Elements(list'),
           \A t \in Elements(list') \ misfired' : timer'[t].set > 0 =>
               /\ Told(t)' + timer'[t].trigger_cnt = timer'[t].set
               /\ timer'[t].trigger_cnt > 0
    PROVE  TInv'
<1>1. Range(list') = Elements(list')
  <2>1. Len(list') \in Nat /\ DOMAIN list' = 1 .. Len(list')
    BY LenProperties DEF TypeOK
  <2> QED BY <2>1 DEF Range, Elements
<1>2. FiresAsAsked'
  BY <1>1 DEF FiresAsAsked, Told
<1> QED BY <1>1, <1>2 DEF TInv, PoolExact

LEMMA InvElements ==
    ASSUME TInv
    PROVE  /\ allocated = Pool \cap Elements(list)
           /\ \A t \in Elements(list) \ misfired : timer[t].set > 0 =>
                 /\ Told(t) + timer[t].trigger_cnt = timer[t].set
                 /\ timer[t].trigger_cnt > 0
           /\ Elements(list) \subseteq Timers
BY RangeFacts DEF TInv, TypeOK, PoolExact, FiresAsAsked, Told

\* vsftimer_init
LEMMA InitTInv == Init => TInv
<1> SUFFICES ASSUME Init PROVE TInv
  OBVIOUS
<1>1. TypeOK
  <2>1. Request(NULL, 0, 0) \in Record
    BY DEF Request, Record
  <2> QED BY <2>1, BoundAssumption DEF Init, TypeOK
<1>2. 1 .. Len(list) = {} /\ Elements(list) = {}
  BY DEF Init, Elements
<1>3. Ordered
  BY <1>2 DEF Ordered, Once, Sorted
<1>4. Range(list) = {}
  BY <1>1, <1>2, RangeFacts DEF TypeOK
<1> QED BY <1>1, <1>3, <1>4 DEF TInv, PoolExact, FiresAsAsked, Init

\* Ticks and the ends of the handler leave list and timers alone.
LEMMA ClockTInv ==
    ASSUME TInv, Tick \/ RunStart \/ RunEnd \/ UNCHANGED vars
    PROVE  TInv'
<1>1. /\ UNCHANGED <<list, timer, allocated, armed, taken, same, fires, misfired>>
      /\ pc' = "post" <=> pc = "post"
  BY DEF Tick, RunStart, RunEnd, vars, turnVars
<1>2. time' \in Nat /\ time' <= MaxTime /\ cur_tick' \in Nat
  <2>1. Now \in Nat
    BY NoWrapFacts DEF Now, TInv, TypeOK
  <2>2. CASE Tick
    BY <2>2, BoundAssumption DEF Tick, TInv, TypeOK
  <2>3. CASE RunStart
    BY <2>1, <2>3 DEF RunStart, TInv, TypeOK
  <2>4. CASE RunEnd
    BY <2>4 DEF RunEnd, TInv, TypeOK
  <2>5. CASE UNCHANGED vars
    BY <2>5 DEF vars, TInv, TypeOK
  <2> QED BY <2>2, <2>3, <2>4, <2>5
<1>3. TypeOK' /\ Ordered' /\ PoolExact'
  BY <1>1, <1>2 DEF TInv, TypeOK, Ordered, Addr, PoolExact
<1>4. \A t : Owed(t)' = Owed(t)
  BY <1>1 DEF Owed
<1>5. FiresAsAsked'
  BY <1>1, <1>4 DEF TInv, FiresAsAsked
<1> QED BY <1>3, <1>5 DEF TInv

\* Freeing timers, from the handler or by their users.
LEMMA FreeTInv ==
    ASSUME TInv, NEW ts, Free(ts), time' = time, cur_tick' = cur_tick,
           fires' \in [Timers -> Nat], pc' = "post" => taken' \in Timers,
           misfired' = misfired, \A t \in Timers \ ts : Told(t)' = Told(t)
    PROVE  TInv'
<1>1. list' = Keep(list, ts) /\ allocated' = allocated \ ts /\ timer' = timer /\ armed' = armed
  BY DEF Free
<1>2. list' \in Seq(Timers) /\ Elements(list') = Elements(list) \ ts /\ Ordered'
  BY <1>1, RemoveFacts DEF TInv
<1>3. TypeOK'
  BY <1>1, <1>2 DEF TInv, TypeOK
<1> QED BY <1>1, <1>2, <1>3, InvElements, InvByElements

\* Arming a timer keeps the others as they are.
LEMMA ArmTInv ==
    ASSUME TInv, NEW t \in Timers, NEW rec \in Record, Enqueue(t, rec),
           time' = time, cur_tick' = cur_tick,
           fires' \in [Timers -> Nat], pc' = "post" => taken' \in Timers,
           misfired' \in {misfired, misfired \ {t}},
           \A u \in Timers \ {t} : Told(u)' = Told(u),
           allocated' = allocated \cup (Pool \cap {t}),
           rec.set > 0 /\ t \notin misfired' =>
               Told(t)' + rec.trigger_cnt = rec.set /\ rec.trigger_cnt > 0
    PROVE  TInv'
<1>1. /\ timer' \in [Timers -> Record]
      /\ timer'[t] = [rec EXCEPT !.addr = (rec.interval + Now) % Wrap]
      /\ \A u \in Timers \ {t} : timer'[u] = timer[u]
      /\ armed' \in [Timers -> Nat] /\ list' \in Seq(Timers)
      /\ Elements(list') = Elements(list) \cup {t} /\ Ordered'
  BY EnqueueFacts DEF TInv
<1>2. timer'[t].set = rec.set /\ timer'[t].trigger_cnt = rec.trigger_cnt
  BY <1>1 DEF Record
<1>3. TypeOK'
  BY <1>1, InvElements DEF TInv, TypeOK
<1>4. allocated' = Pool \cap Elements(list')
  BY <1>1, InvElements
<1>5. ASSUME NEW u \in Elements(list') \ misfired', timer'[u].set > 0
      PROVE  Told(u)' + timer'[u].trigger_cnt = timer'[u].set /\ timer'[u].trigger_cnt > 0
  <2>1. CASE u = t
    BY <1>2, <1>5, <2>1
  <2>2. CASE u # t
    <3>1. u \in Elements(list) /\ u \in Timers /\ u \notin misfired
      BY <1>1, <1>5, <2>2, InvElements
    <3> QED BY <1>1, <1>5, <2>2, <3>1, InvElements
  <2> QED BY <2>1, <2>2
<1> QED BY <1>1, <1>3, <1>4, <1>5, InvByElements

\* The first half of a turn: what is taken from the count is owed.
LEMMA FireHeadTInv ==
    ASSUME TInv, FireHead
    PROVE  TInv'
<1>0. PICK t : t = Head(list)
  OBVIOUS
<1> DEFINE cnt == timer[t].trigger_cnt
           left == IF cnt > 0 THEN cnt - 1 ELSE cnt
           rec == [timer[t] EXCEPT !.trigger_cnt = left]
<1>1. t \in Timers /\ t \in Elements(list) /\ timer[t] \in Record /\ fires[t] \in Nat
  BY <1>0, RangeFacts DEF TInv, TypeOK, FireHead
<1>2. cnt \in Int /\ left \in Int
  BY <1>1 DEF Record
<1>3. /\ fires' = fires /\ misfired' = misfired /\ pc = "run" /\ pc' = "post"
      /\ taken' = t /\ same' = TRUE
      /\ time' = time /\ cur_tick' = cur_tick
      /\ IF left # 0 THEN Enqueue(t, rec) /\ allocated' = allocated ELSE Free({t})
  BY <1>0 DEF FireHead
<1>4. /\ fires' \in [Timers -> Nat] /\ taken' \in Timers
      /\ Told(t) = fires[t] /\ Told(t)' = fires[t] + 1
      /\ \A u \in Timers \ {t} : Told(u)' = Told(u)
  BY <1>1, <1>3 DEF TInv, TypeOK, Told, Owed
<1>5. CASE left = 0
  <2>1. Free({t})
    BY <1>3, <1>5
  <2> QED BY <1>3, <1>4, <2>1, FreeTInv
<1>6. CASE left # 0
  <2>1. Enqueue(t, rec) /\ allocated' = allocated
    BY <1>3, <1>6
  <2>2. rec \in Record /\ rec.set = timer[t].set /\ rec.trigger_cnt = left
    BY <1>1, <1>2 DEF Record
  <2>3. timer[t].set > 0 /\ t \notin misfired => fires[t] + cnt = timer[t].set /\ cnt > 0
    BY <1>1, <1>4, InvElements
  <2>4. rec.set > 0 /\ t \notin misfired'
        => Told(t)' + rec.trigger_cnt = rec.set /\ rec.trigger_cnt > 0
    <3> HIDE DEF rec, cnt
    <3>1. left = IF cnt > 0 THEN cnt - 1 ELSE cnt
      OBVIOUS
    <3> HIDE DEF left
    <3> QED BY <1>1, <1>2, <1>3, <1>4, <1>6, <2>2, <2>3, <3>1
  <2>5. allocated' = allocated \cup (Pool \cap {t})
    BY <1>1, <2>1, InvElements
  <2> HIDE DEF rec
  <2> QED BY <1>1, <1>3, <1>4, <2>1, <2>2, <2>4, <2>5, ArmTInv
<1> QED BY <1>5, <1>6

\* The second half: what is owed is told, to the user the timer has now.
LEMMA TellTInv ==
    ASSUME TInv, Tell
    PROVE  TInv'
<1>1. /\ pc = "post" /\ pc' = "run" /\ fires' = [fires EXCEPT ![taken] = @ + 1]
      /\ misfired' = IF same THEN misfired ELSE misfired \cup {taken}
      /\ UNCHANGED <<time, cur_tick, list, timer, allocated, armed>>
  BY DEF Tell
<1>2. taken \in Timers /\ fires \in [Timers -> Nat]
  BY <1>1 DEF TInv, TypeOK
<1>3. TypeOK' /\ Ordered' /\ PoolExact'
  BY <1>1, <1>2 DEF TInv, TypeOK, Ordered, Addr, PoolExact
<1>4. \A t \in Timers \ misfired' : Told(t)' = Told(t) /\ t \notin misfired
  BY <1>1, <1>2 DEF Told, Owed
<1>5. Range(list') = Range(list) /\ Range(list) \subseteq Timers
  BY <1>1, RangeFacts DEF TInv, TypeOK
<1>6. FiresAsAsked'
  BY <1>1, <1>4, <1>5 DEF TInv, FiresAsAsked, Told
<1> QED BY <1>3, <1>6 DEF TInv

\* The operations of the users.
LEMMA UserTInv ==
    ASSUME TInv,
           \/ \E s \in SMs, i \in Intervals, c \in Counts :
                 Create(s, i, c) \/ \E t \in Embedded : Rearm(t, s, i, c)
           \/ \E t \in Timers : UserFree(t) \/ Disarm(t)
           \/ \E s \in SMs : CleanSm(s)
    PROVE  TInv'
<1>0. time' = time /\ cur_tick' = cur_tick /\ pc' = pc /\ taken' = taken
  BY DEF Create, Rearm, UserFree, Disarm, CleanSm, Operation
<1>1. ASSUME NEW s \in SMs, NEW i \in Intervals, NEW c \in Counts, NEW t \in Timers,
             Enqueue(t, Request(s, i, c)), SetUp(t),
             allocated' = allocated \cup (Pool \cap {t})
      PROVE  TInv'
  <2>0. /\ fires' = [fires EXCEPT ![t] = 0] /\ misfired' = misfired \ {t}
        /\ same' = (same /\ t # taken)
    BY <1>1 DEF SetUp
  <2>1. /\ fires' \in [Timers -> Nat] /\ fires'[t] = 0
        /\ \A u \in Timers \ {t} : fires'[u] = fires[u]
    BY <2>0 DEF TInv, TypeOK
  <2>4. /\ pc' = pc /\ taken' = taken /\ pc' = "post" => taken' \in Timers
        /\ misfired' \in {misfired, misfired \ {t}}
    BY <1>0, <2>0 DEF TInv, TypeOK
  <2>5. Owed(t)' = 0
    BY <1>0, <2>0, Zenon DEF Owed
  <2>6. ASSUME NEW u \in Timers \ {t} PROVE Owed(u)' = Owed(u)
    <3>1. u = taken => t # taken
      OBVIOUS
    <3>2. u = taken => (same' <=> same)
      BY <2>0, <3>1, Zenon
    <3> QED BY <1>0, <3>2, Zenon DEF Owed
  <2>7. Told(t)' = 0 /\ \A u \in Timers \ {t} : Told(u)' = Told(u)
    BY <2>1, <2>5, <2>6 DEF Told
  <2>2. c \in Int
    BY CountAssumption
  <2>3. 0 + c = c
    BY <2>2
  <2> QED BY <1>0, <1>1, <2>1, <2>3, <2>4, <2>7, RequestFacts, ArmTInv
<1>2. ASSUME NEW s \in SMs, NEW i \in Intervals, NEW c \in Counts, Create(s, i, c)
      PROVE  TInv'
  <2>1. PICK t \in Pool \ allocated : /\ allocated' = allocated \cup {t}
                                      /\ Enqueue(t, Request(s, i, c))
                                      /\ SetUp(t)
    BY <1>2 DEF Create
  <2>2. t \in Timers /\ Pool \cap {t} = {t}
    BY DEF Timers
  <2> QED BY <1>1, <2>1, <2>2
<1>3. ASSUME NEW s \in SMs, NEW i \in Intervals, NEW c \in Counts, NEW t \in Embedded,
             Rearm(t, s, i, c)
      PROVE  TInv'
  <2>1. t \in Timers /\ Pool \cap {t} = {}
    BY DisjointTimers DEF Timers
  <2>2. /\ Enqueue(t, Request(s, i, c)) /\ SetUp(t)
        /\ allocated' = allocated \cup (Pool \cap {t})
    BY <1>3, <2>1 DEF Rearm
  <2> QED BY <1>1, <2>1, <2>2
<1>4. ASSUME NEW ts, Free(ts), UNCHANGED <<same, fires, misfired>> PROVE TInv'
  <2>1. \A t : Told(t)' = Told(t)
    BY <1>0, <1>4 DEF Told, Owed
  <2> QED BY <1>0, <1>4, <2>1, FreeTInv DEF TInv, TypeOK
<1>5. ASSUME NEW t \in Timers, Disarm(t) PROVE TInv'
  <2>1. /\ list' = Keep(list, {t}) /\ timer' = timer /\ t \in Embedded
        /\ UNCHANGED <<allocated, armed, same, fires, misfired>>
    BY <1>5 DEF Disarm, Dequeue
  <2>2. list' \in Seq(Timers) /\ Elements(list') = Elements(list) \ {t} /\ Ordered'
    BY <2>1, RemoveFacts DEF TInv
  <2>3. TypeOK'
    BY <1>0, <2>1, <2>2 DEF TInv, TypeOK
  <2>4. allocated' = Pool \cap Elements(list')
    BY <2>1, <2>2, InvElements, DisjointTimers
  <2>5. \A u : Told(u)' = Told(u)
    BY <1>0, <2>1 DEF Told, Owed
  <2> QED BY <2>1, <2>2, <2>3, <2>4, <2>5, InvElements, InvByElements
<1> QED BY <1>2, <1>3, <1>4, <1>5 DEF UserFree, CleanSm

\* The invariant holds in every reachable state.
THEOREM TInvHolds == Spec => []TInv
<1>1. TInv /\ [Next]_vars => TInv'
  BY ClockTInv, FireHeadTInv, TellTInv, UserTInv DEF Next, Handler
<1> QED BY InitTInv, <1>1, PTL DEF Spec

(* For every pool: allocated are exactly the pool timers in the list, so none *)
(* leaks and none is handed out while it can still fire.                      *)
THEOREM PoolIsExact == Spec => []PoolExact
<1>1. TInv => PoolExact
  BY DEF TInv
<1> QED BY TInvHolds, <1>1, PTL

(* For every set of timers, counts and users' operations: the user of a timer *)
(* hears of it exactly as often as it asked to, except for a timer set up     *)
(* again between the two halves of the turn that took it.                     *)
THEOREM CountsAreKept == Spec => []FiresAsAsked
<1>1. TInv => FiresAsAsked
  BY DEF TInv
<1> QED BY TInvHolds, <1>1, PTL

-----------------------------------------------------------------------------
(* Deadlines, as long as the tick counter does not wrap (2^32 ms, 49 days).   *)

NoWrap == \A i \in Intervals : MaxTime + i < Wrap

(* The handler works with a tick that is not ahead of the clock, and a listed *)
(* timer is due its interval after it was armed.                              *)
DInv ==
    /\ cur_tick <= time
    /\ \A t \in Elements(list) :
          timer[t].interval \in Intervals /\ timer[t].addr = armed[t] + timer[t].interval

\* Arming a timer sets its deadline one interval ahead.
LEMMA ArmDInv ==
    ASSUME NoWrap, TInv, DInv, NEW t \in Timers, NEW rec \in Record, Enqueue(t, rec),
           rec.interval \in Intervals, time' = time, cur_tick' = cur_tick
    PROVE  DInv'
<1>1. /\ timer'[t] = [rec EXCEPT !.addr = (rec.interval + Now) % Wrap]
      /\ \A u \in Timers \ {t} : timer'[u] = timer[u]
      /\ armed'[t] = time /\ \A u \in Timers \ {t} : armed'[u] = armed[u]
      /\ Elements(list') = Elements(list) \cup {t}
  BY EnqueueFacts DEF TInv
<1>2. time \in Nat /\ time <= MaxTime /\ rec.interval \in Nat
  BY IntervalAssumption DEF TInv, TypeOK
<1>3. MaxTime + rec.interval < Wrap /\ MaxTime \in Nat /\ Wrap \in Nat
  BY BoundAssumption, WrapAssumption DEF NoWrap
<1>4. Now = time
  BY <1>2, <1>3, NoWrapFacts DEF Now
<1>5. (rec.interval + Now) % Wrap = time + rec.interval
  <2>1. rec.interval + time \in Nat /\ rec.interval + time < Wrap
    BY <1>2, <1>3
  <2>2. (rec.interval + time) % Wrap = rec.interval + time
    BY <2>1, NoWrapFacts
  <2> QED BY <1>2, <1>4, <2>2
<1>6. timer'[t].interval = rec.interval /\ timer'[t].addr = time + rec.interval
  BY <1>1, <1>5 DEF Record
<1>7. ASSUME NEW u \in Elements(list')
      PROVE  timer'[u].interval \in Intervals /\ timer'[u].addr = armed'[u] + timer'[u].interval
  <2>1. CASE u = t
    BY <1>1, <1>6, <2>1
  <2>2. CASE u # t
    <3>1. u \in Elements(list) /\ u \in Timers \ {t}
      BY <1>1, <2>2, InvElements
    <3> QED BY <1>1, <3>1 DEF DInv
  <2> QED BY <2>1, <2>2
<1> QED BY <1>7 DEF DInv

\* Taking timers out leaves the deadlines of the others.
LEMMA RemoveDInv ==
    ASSUME TInv, DInv, NEW ts, list' = Keep(list, ts), timer' = timer, armed' = armed,
           time' = time, cur_tick' = cur_tick
    PROVE  DInv'
<1>1. Elements(list') = Elements(list) \ ts
  BY RemoveFacts DEF TInv
<1> QED BY <1>1 DEF DInv

LEMMA StepDInv ==
    ASSUME NoWrap, TInv, DInv, [Next]_vars
    PROVE  DInv'
<1>1. CASE Tick \/ RunStart \/ Tell \/ RunEnd \/ UNCHANGED vars
  <2>1. UNCHANGED <<list, timer, armed>>
    BY <1>1 DEF Tick, RunStart, Tell, RunEnd, vars
  <2>2. Now <= time /\ time \in Nat /\ cur_tick \in Nat /\ Now \in Nat
    BY NoWrapFacts DEF Now, TInv, TypeOK
  <2>3. cur_tick' <= time'
    <3>1. CASE Tick
      BY <2>2, <3>1 DEF Tick, DInv
    <3>2. CASE RunStart
      BY <2>2, <3>2 DEF RunStart
    <3>3. CASE Tell \/ RunEnd \/ UNCHANGED vars
      BY <3>3 DEF Tell, RunEnd, vars, DInv
    <3> QED BY <1>1, <3>1, <3>2, <3>3
  <2> QED BY <2>1, <2>3 DEF DInv
<1>2. CASE FireHead
  <2> DEFINE t == Head(list)
  <2>1. t \in Timers /\ t \in Elements(list) /\ timer[t] \in Record
    BY <1>2, RangeFacts DEF TInv, TypeOK, FireHead
  <2>2. time' = time /\ cur_tick' = cur_tick
    BY <1>2 DEF FireHead
  <2>3. Free({t}) \/ \E left \in Int : Enqueue(t, [timer[t] EXCEPT !.trigger_cnt = left])
    <3> DEFINE cnt == timer[t].trigger_cnt
               left == IF cnt > 0 THEN cnt - 1 ELSE cnt
    <3>1. left \in Int
      BY <2>1 DEF Record
    <3>2. Free({t}) \/ Enqueue(t, [timer[t] EXCEPT !.trigger_cnt = left])
      BY <1>2 DEF FireHead
    <3> QED BY <3>1, <3>2
  <2> HIDE DEF t
  <2>4. CASE Free({t})
    BY <2>2, <2>4, RemoveDInv DEF Free
  <2>5. ASSUME NEW left \in Int, Enqueue(t, [timer[t] EXCEPT !.trigger_cnt = left]) PROVE DInv'
    <3>1. [timer[t] EXCEPT !.trigger_cnt = left] \in Record
      BY <2>1 DEF Record
    <3>2. [timer[t] EXCEPT !.trigger_cnt = left].interval = timer[t].interval
      BY <2>1 DEF Record
    <3>3. timer[t].interval \in Intervals
      BY <2>1 DEF DInv
    <3> QED BY <2>1, <2>2, <2>5, <3>1, <3>2, <3>3, ArmDInv
  <2> QED BY <2>3, <2>4, <2>5
<1>3. ASSUME NEW s \in SMs, NEW i \in Intervals, NEW c \in Counts,
             Create(s, i, c) \/ \E t \in Embedded : Rearm(t, s, i, c)
      PROVE  DInv'
  <2>1. PICK t \in Timers : Enqueue(t, Request(s, i, c))
    BY <1>3 DEF Create, Rearm, Timers
  <2>2. time' = time /\ cur_tick' = cur_tick
    BY <1>3 DEF Create, Rearm, Operation
  <2>3. Request(s, i, c) \in Record /\ Request(s, i, c).interval = i
    BY RequestFacts DEF Request
  <2> QED BY <2>1, <2>2, <2>3, ArmDInv
<1>4. ASSUME NEW t \in Timers, UserFree(t) \/ Disarm(t) PROVE DInv'
  BY <1>4, RemoveDInv DEF UserFree, Disarm, Free, Dequeue, Operation
<1>5. ASSUME NEW s \in SMs, CleanSm(s) PROVE DInv'
  BY <1>5, RemoveDInv DEF CleanSm, Free, Operation
<1> QED BY <1>1, <1>2, <1>3, <1>4, <1>5 DEF Next, Handler

\* A timer that the handler takes was armed its interval ago or earlier.
LEMMA FiresLate ==
    ASSUME TInv, DInv, [Next]_vars, pc = "run", pc' = "post"
    PROVE  time >= armed[taken'] + timer[taken'].interval
<1>0. time \in Nat /\ cur_tick \in Nat
  BY DEF TInv, TypeOK
<1>1. FireHead
  <2>1. pc' # pc
    OBVIOUS
  <2>2. ~RunStart /\ ~Tell /\ ~RunEnd
    BY DEF RunStart, Tell, RunEnd
  <2> QED BY <2>1, <2>2 DEF Next, Handler, Tick, Create, Rearm, UserFree, Disarm,
                          CleanSm, Operation, vars
<1>2. PICK t : t = taken'
  OBVIOUS
<1>3. t \in Timers /\ t \in Elements(list) /\ t = Head(list)
  BY <1>1, <1>2, RangeFacts DEF TInv, TypeOK, FireHead
<1>4. cur_tick >= timer[t].addr
  BY <1>1, <1>3 DEF FireHead, Due
<1>5. cur_tick <= time /\ timer[t].addr = armed[t] + timer[t].interval
  BY <1>3 DEF DInv
<1>6. timer[t].addr \in Nat
  BY <1>3 DEF TInv, TypeOK, Record
<1> QED BY <1>0, <1>2, <1>4, <1>5, <1>6

\* When the handler returns, the head is not due and the list is sorted.
LEMMA NothingDueLeft ==
    ASSUME TInv, [Next]_vars, pc = "run", pc' = "idle", NEW t \in Range(list)
    PROVE  timer[t].addr > cur_tick
<1>1. RunEnd
  <2>1. pc' # pc
    OBVIOUS
  <2>2. ~RunStart /\ ~Tell
    BY DEF RunStart, Tell
  <2> QED BY <2>1, <2>2 DEF Next, Handler, Tick, FireHead, Create, Rearm, UserFree, Disarm,
                          CleanSm, Operation, vars
<1>2. list \in Seq(Timers) /\ Sorted(list, Addr) /\ timer \in [Timers -> Record] /\ cur_tick \in Nat
  BY DEF TInv, TypeOK, Ordered
<1>3. PICK k \in 1 .. Len(list) : list[k] = t
  BY <1>2, RangeFacts DEF Elements
<1>4. Len(list) \in Nat /\ 1 \in 1 .. Len(list) /\ list # <<>> /\ list[1] \in Timers /\ t \in Timers
  <2>1. Len(list) \in Nat /\ 1 <= Len(list)
    BY <1>2, <1>3, LenProperties
  <2>2. list # <<>>
    BY <2>1
  <2> QED BY <1>2, <1>3, <2>1, <2>2, ElementOfSeq
<1>5. Head(list) = list[1]
  BY <1>2, <1>4
<1>6. ~(cur_tick >= timer[list[1]].addr)
  BY <1>1, <1>4, <1>5 DEF RunEnd, Due
<1>7. timer[list[1]].addr <= timer[t].addr
  <2>1. CASE k = 1
    BY <1>2, <1>3, <1>4, <2>1 DEF Record
  <2>2. CASE k # 1
    <3>1. 1 < k
      BY <2>2
    <3> QED BY <1>2, <1>3, <1>4, <3>1 DEF Sorted, Addr
  <2> QED BY <2>1, <2>2
<1>8. timer[t].addr \in Nat /\ timer[list[1]].addr \in Nat
  BY <1>2, <1>4 DEF Record
<1> QED BY <1>2, <1>6, <1>7, <1>8

(* For every set of timers and intervals, before the tick counter wraps: no   *)
(* timer fires before its interval is over, and when the handler of the timer *)
(* state machine returns nothing that was due at the tick it sampled is left. *)
THEOREM FiringIsInTime ==
    ASSUME NoWrap
    PROVE  Spec => FiresInTime
<1>1. Init => DInv
  <2> SUFFICES ASSUME Init PROVE DInv
    OBVIOUS
  <2>1. Elements(list) = {}
    BY DEF Init, Elements
  <2> QED BY <2>1 DEF Init, DInv
<1>2. TInv /\ DInv /\ [Next]_vars => DInv'
  BY StepDInv
<1> DEFINE A == /\ pc = "run" /\ pc' = "post" => time >= armed[taken'] + timer[taken'].interval
                /\ pc = "run" /\ pc' = "idle" => \A t \in Range(list) : timer[t].addr > cur_tick
<1>3. TInv /\ DInv /\ [Next]_vars => [A]_vars
  BY FiresLate, NothingDueLeft
<1> QED BY TInvHolds, <1>1, <1>2, <1>3, PTL DEF Spec, FiresInTime
=============================================================================
