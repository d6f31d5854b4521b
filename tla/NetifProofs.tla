----------------------------- MODULE NetifProofs -----------------------------
(***************************************************************************)
(* Proofs about the network interface of module Netif, for every number of *)
(* buffers, cache entries and retries and every set of addresses.  TCP may *)
(* send a buffer again at any time; the invariant holds until it does so   *)
(* with one that has not left the interface (linkedTwice).                 *)
(*                                                                         *)
(* The argument: outq and requestq spell two sequences of buffers without  *)
(* a common one; every other buffer in use stands alone, with the ARP      *)
(* client, the transmitter, the receiver or in the hands of the step under *)
(* way.  Each operation moves one buffer between these places together     *)
(* with the reference that belongs to the place (Own).  A step of the      *)
(* interface is a composition of such operations.                          *)
(***************************************************************************)
EXTENDS Netif, SequenceTheorems, FiniteSetTheorems, TLAPS

Link == 0 .. NBuf
Frame == [dst : IPs \cup Hops, room : BOOLEAN, proto : {"ip", "arp", "reply"}, mac : Hops]
Entry == [ip : Hops, mac : Hops, time : Nat]
Iface == [next : [Buf -> Link], queue : [Queues -> [head : Link, tail : Link]],
          osem : Nat, rsem : Nat, ref : [Buf -> Nat], frame : [Buf -> Frame], held : SUBSET Buf,
          cache : [1 .. CacheSize -> Entry], arp_time : Nat,
          pc : {"sem", "reply"}, cur : Link, ip : Hops, retry : Nat, tx : Link, rx : Link]

SameLinks(m, e) == e.next = m.next /\ e.queue = m.queue
SameBuffers(m, e) == e.ref = m.ref /\ e.frame = m.frame /\ e.held = m.held
SameSems(m, e) == e.osem = m.osem /\ e.rsem = m.rsem
SameCache(m, e) == e.cache = m.cache /\ e.arp_time = m.arp_time
SameClient(m, e) == e.pc = m.pc /\ e.cur = m.cur /\ e.ip = m.ip /\ e.retry = m.retry
SameDriver(m, e) == e.tx = m.tx /\ e.rx = m.rx

\* What an update of some fields leaves alone.
LEMMA SetLinks ==
    ASSUME NEW m \in Iface, NEW x \in [Buf -> Link], NEW y \in [Queues -> [head : Link, tail : Link]],
           NEW e, e = [m EXCEPT !.next = x, !.queue = y]
    PROVE  /\ e \in Iface /\ e.next = x /\ e.queue = y
           /\ SameBuffers(m, e) /\ SameSems(m, e) /\ SameCache(m, e)
           /\ SameClient(m, e) /\ SameDriver(m, e)
BY DEF Iface, SameBuffers, SameSems, SameCache, SameClient, SameDriver

LEMMA SetBuffers ==
    ASSUME NEW m \in Iface, NEW x \in [Buf -> Nat], NEW y \in [Buf -> Frame], NEW z \in SUBSET Buf,
           NEW e, e = [m EXCEPT !.ref = x, !.frame = y, !.held = z]
    PROVE  /\ e \in Iface /\ e.ref = x /\ e.frame = y /\ e.held = z
           /\ SameLinks(m, e) /\ SameSems(m, e) /\ SameCache(m, e)
           /\ SameClient(m, e) /\ SameDriver(m, e)
BY DEF Iface, SameLinks, SameSems, SameCache, SameClient, SameDriver

LEMMA SetOsem ==
    ASSUME NEW m \in Iface, NEW x \in Nat, NEW e, e = [m EXCEPT !.osem = x]
    PROVE  /\ e \in Iface /\ e.osem = x /\ e.rsem = m.rsem
           /\ SameLinks(m, e) /\ SameBuffers(m, e) /\ SameCache(m, e)
           /\ SameClient(m, e) /\ SameDriver(m, e)
BY DEF Iface, SameLinks, SameBuffers, SameCache, SameClient, SameDriver

LEMMA SetRsem ==
    ASSUME NEW m \in Iface, NEW x \in Nat, NEW e, e = [m EXCEPT !.rsem = x]
    PROVE  /\ e \in Iface /\ e.rsem = x /\ e.osem = m.osem
           /\ SameLinks(m, e) /\ SameBuffers(m, e) /\ SameCache(m, e)
           /\ SameClient(m, e) /\ SameDriver(m, e)
BY DEF Iface, SameLinks, SameBuffers, SameCache, SameClient, SameDriver

\* vsfq_append writes the buffer's own link, the last one's, and the ends.
Appended(m, q, b, e) ==
    LET t == m.queue[q].tail IN
    /\ e \in Iface
    /\ e.next = IF t = NIL THEN [m.next EXCEPT ![b] = NIL]
                ELSE [[m.next EXCEPT ![b] = NIL] EXCEPT ![t] = b]
    /\ e.queue = [m.queue EXCEPT ![q] = [head |-> IF t = NIL THEN b ELSE m.queue[q].head,
                                         tail |-> b]]
    /\ SameBuffers(m, e) /\ SameSems(m, e) /\ SameCache(m, e)
    /\ SameClient(m, e) /\ SameDriver(m, e)

LEMMA AppendToIs ==
    ASSUME NEW m \in Iface, NEW q \in Queues, NEW b \in Buf, NEW e, e = AppendTo(m, q, b)
    PROVE  Appended(m, q, b, e)
<1> DEFINE t == m.queue[q].tail
           clear == [m.next EXCEPT ![b] = NIL]
           qu == [m.queue EXCEPT ![q] = [head |-> IF t = NIL THEN b ELSE m.queue[q].head, tail |-> b]]
           nx == IF t = NIL THEN clear ELSE [clear EXCEPT ![t] = b]
<1>1. /\ m.queue \in [Queues -> [head : Link, tail : Link]] /\ m.next \in [Buf -> Link]
      /\ m.queue[q] \in [head : Link, tail : Link] /\ t \in Link /\ b \in Link
  BY DEF Iface, Link, Buf
<1>2. nx \in [Buf -> Link]
  <2>1. clear \in [Buf -> Link]
    BY <1>1, NetifAssumption DEF Link, NIL
  <2> HIDE DEF t, clear
  <2>2. [clear EXCEPT ![t] = b] \in [Buf -> Link]
    BY <2>1, <1>1
  <2> QED  BY <2>1, <2>2
<1>3. qu \in [Queues -> [head : Link, tail : Link]]
  <2>1. [head |-> IF t = NIL THEN b ELSE m.queue[q].head, tail |-> b] \in [head : Link, tail : Link]
    BY <1>1
  <2> QED  BY <1>1, <2>1
<1>4. e = [m EXCEPT !.next = nx, !.queue = qu]
  <2>1. CASE t = NIL
    BY <2>1, <1>1 DEF AppendTo, Iface
  <2>2. CASE t # NIL
    <3>1. [m.queue EXCEPT ![q].tail = b] = qu
      BY <1>1, <2>2
    <3>2. e = [m EXCEPT !.next = nx, !.queue[q].tail = b]
      BY <2>2 DEF AppendTo
    <3> HIDE DEF nx, qu
    <3> QED  BY <3>1, <3>2, <1>1 DEF Iface
  <2> QED  BY <2>1, <2>2
<1> HIDE DEF nx, qu
<1>5. /\ e \in Iface /\ e.next = nx /\ e.queue = qu
      /\ SameBuffers(m, e) /\ SameSems(m, e) /\ SameCache(m, e)
      /\ SameClient(m, e) /\ SameDriver(m, e)
  BY <1>2, <1>3, <1>4, SetLinks
<1> QED  BY <1>5 DEF nx, qu, Appended

Dequeued(m, q, e) ==
    LET h == m.queue[q].head IN
    /\ e \in Iface /\ e.next = m.next
    /\ e.queue = [m.queue EXCEPT ![q] =
          [head |-> m.next[h], tail |-> IF m.next[h] = NIL THEN NIL ELSE m.queue[q].tail]]
    /\ SameBuffers(m, e) /\ SameSems(m, e) /\ SameCache(m, e)
    /\ SameClient(m, e) /\ SameDriver(m, e)

LEMMA DequeueIs ==
    ASSUME NEW m \in Iface, NEW q \in Queues, m.queue[q].head # NIL,
           NEW e, e = Dequeue(m, q)
    PROVE  Dequeued(m, q, e)
<1> DEFINE h == m.queue[q].head
           qu == [m.queue EXCEPT ![q] =
                 [head |-> m.next[h], tail |-> IF m.next[h] = NIL THEN NIL ELSE m.queue[q].tail]]
<1>1. /\ m.queue \in [Queues -> [head : Link, tail : Link]] /\ m.next \in [Buf -> Link]
      /\ m.queue[q] \in [head : Link, tail : Link] /\ h \in Buf /\ NIL \in Link
  <2>1. m.queue \in [Queues -> [head : Link, tail : Link]] /\ m.next \in [Buf -> Link]
    BY DEF Iface
  <2>2. m.queue[q] \in [head : Link, tail : Link] /\ h \in Link
    BY <2>1
  <2> QED  BY <2>1, <2>2, NetifAssumption DEF Link, Buf, NIL
<1>2. m.next[h] \in Link
  BY <1>1
<1>3. qu \in [Queues -> [head : Link, tail : Link]]
  <2>1. [head |-> m.next[h], tail |-> IF m.next[h] = NIL THEN NIL ELSE m.queue[q].tail] \in [head : Link, tail : Link]
    BY <1>1, <1>2
  <2> QED  BY <1>1, <2>1
<1>4. e = [m EXCEPT !.next = m.next, !.queue = qu]
  <2>1. e = [m EXCEPT !.queue = qu]
    BY DEF Dequeue
  <2> HIDE DEF qu
  <2> QED  BY <2>1 DEF Iface
<1> HIDE DEF qu
<1>5. /\ e \in Iface /\ e.next = m.next /\ e.queue = qu
      /\ SameBuffers(m, e) /\ SameSems(m, e) /\ SameCache(m, e)
      /\ SameClient(m, e) /\ SameDriver(m, e)
  BY <1>1, <1>3, <1>4, SetLinks, ZenonT(60)
<1> QED  BY <1>5 DEF qu, Dequeued

LEMMA NoFrameIs == NoFrame \in Frame /\ Bcast \in IPs /\ Bcast \in Hops
BY NetifAssumption DEF NoFrame, Frame

Released(m, b, e) ==
    /\ e \in Iface
    /\ e.ref = [m.ref EXCEPT ![b] = IF m.ref[b] > 1 THEN m.ref[b] - 1 ELSE 0]
    /\ e.frame = IF m.ref[b] > 1 THEN m.frame ELSE [m.frame EXCEPT ![b] = NoFrame]
    /\ e.next = IF m.ref[b] > 1 THEN m.next ELSE [m.next EXCEPT ![b] = NIL]
    /\ e.queue = m.queue /\ e.held = m.held
    /\ SameSems(m, e) /\ SameCache(m, e) /\ SameClient(m, e) /\ SameDriver(m, e)

LEMMA ReleaseIs ==
    ASSUME NEW m \in Iface, NEW b \in Buf, NEW e, e = Release(m, b)
    PROVE  Released(m, b, e)
<1>1. m.ref \in [Buf -> Nat] /\ m.ref[b] \in Nat /\ m.frame \in [Buf -> Frame]
      /\ m.next \in [Buf -> Link] /\ NIL \in Link
  <2>1. NIL \in Link
    BY NetifAssumption DEF Link, NIL
  <2> QED  BY <2>1 DEF Iface
<1>2. CASE m.ref[b] > 1
  <2> DEFINE rf == [m.ref EXCEPT ![b] = m.ref[b] - 1]
  <2>1. rf \in [Buf -> Nat]
    BY <1>1, <1>2
  <2>2. e = [m EXCEPT !.ref = rf]
    BY <1>1, <1>2 DEF Release, Iface
  <2> HIDE DEF rf
  <2>3. e \in Iface /\ e.ref = rf /\ e.frame = m.frame /\ e.next = m.next
        /\ e.queue = m.queue /\ e.held = m.held
        /\ SameSems(m, e) /\ SameCache(m, e) /\ SameClient(m, e) /\ SameDriver(m, e)
    BY <2>1, <2>2 DEF Iface, SameSems, SameCache, SameClient, SameDriver
  <2> QED  BY <2>3, <1>2 DEF rf, Released
<1>3. CASE ~(m.ref[b] > 1)
  <2> DEFINE rf == [m.ref EXCEPT ![b] = 0]
             fr == [m.frame EXCEPT ![b] = NoFrame]
             nx == [m.next EXCEPT ![b] = NIL]
  <2>1. rf \in [Buf -> Nat]
    BY <1>1
  <2>2. fr \in [Buf -> Frame]
    BY <1>1, NoFrameIs
  <2>3. nx \in [Buf -> Link]
    BY <1>1
  <2>4. e = [m EXCEPT !.ref = rf, !.frame = fr, !.next = nx]
    BY <1>1, <1>3 DEF Release, Iface
  <2> HIDE DEF rf, fr, nx
  <2>5. e \in Iface /\ e.ref = rf /\ e.frame = fr /\ e.next = nx
        /\ e.queue = m.queue /\ e.held = m.held
        /\ SameSems(m, e) /\ SameCache(m, e) /\ SameClient(m, e) /\ SameDriver(m, e)
    BY <2>1, <2>2, <2>3, <2>4 DEF Iface, SameSems, SameCache, SameClient, SameDriver
  <2> QED  BY <2>5, <1>3 DEF rf, fr, nx, Released
<1> QED  BY <1>2, <1>3

Gotten(m, b, e) ==
    /\ e \in Iface /\ e.ref = [m.ref EXCEPT ![b] = 1]
    /\ e.frame = m.frame /\ e.held = m.held
    /\ SameLinks(m, e) /\ SameSems(m, e) /\ SameCache(m, e)
    /\ SameClient(m, e) /\ SameDriver(m, e)

LEMMA GetIs ==
    ASSUME NEW m \in Iface, NEW b \in Buf, NEW e, e = Get(m, b)
    PROVE  Gotten(m, b, e)
<1> DEFINE rf == [m.ref EXCEPT ![b] = 1]
<1>1. m.ref \in [Buf -> Nat] /\ m.frame \in [Buf -> Frame]
  BY DEF Iface
<1>2. rf \in [Buf -> Nat]
  BY <1>1
<1>3. e = [m EXCEPT !.ref = rf]
  BY <1>1 DEF Get, Iface
<1> HIDE DEF rf
<1>4. /\ e \in Iface /\ e.ref = rf /\ e.frame = m.frame /\ e.held = m.held
      /\ SameLinks(m, e) /\ SameSems(m, e) /\ SameCache(m, e)
      /\ SameClient(m, e) /\ SameDriver(m, e)
  BY <1>2, <1>3 DEF Iface, SameLinks, SameSems, SameCache, SameClient, SameDriver
<1> QED  BY <1>4 DEF rf, Gotten

-----------------------------------------------------------------------------
(* Ownership: c holds what the two queues spell, S the buffers that stand  *)
(* alone.                                                                  *)

Spells(m, q, s) ==
    /\ m.queue[q].head = IF s = <<>> THEN NIL ELSE s[1]
    /\ m.queue[q].tail = IF s = <<>> THEN NIL ELSE s[Len(s)]
    /\ \A i \in 1 .. Len(s) : m.next[s[i]] = IF i = Len(s) THEN NIL ELSE s[i + 1]

In(c, b) == \E q \in Queues : \E i \in 1 .. Len(c[q]) : c[q][i] = b

Apart(c) ==
    \A q, r \in Queues : \A i \in 1 .. Len(c[q]) : \A j \in 1 .. Len(c[r]) :
        c[q][i] = c[r][j] => q = r /\ i = j

One(P) == IF P THEN 1 ELSE 0

Own(m, c, S) ==
    /\ c \in [Queues -> Seq(Buf)] /\ S \in SUBSET Buf
    /\ \A q \in Queues : Spells(m, q, c[q])
    /\ Apart(c)
    /\ \A b \in S : ~In(c, b)
    /\ \A b \in Buf : m.ref[b] = One(In(c, b) \/ b \in S) + One(b \in m.held)

LEMMA DotNat == \A k : \A i \in 1 .. k : i \in Nat
OBVIOUS

\* Appending to one of the sequences.
Grown(c, q, b, d) ==
    /\ d \in [Queues -> Seq(Buf)] /\ Apart(d)
    /\ \A x \in Buf : In(d, x) <=> In(c, x) \/ x = b
    /\ d[q] # <<>> /\ Len(d[q]) = Len(c[q]) + 1 /\ d[q][Len(d[q])] = b
    /\ \A i \in 1 .. Len(c[q]) : d[q][i] = c[q][i]
    /\ \A r \in Queues \ {q} : d[r] = c[r]

LEMMA InAppend ==
    ASSUME NEW c \in [Queues -> Seq(Buf)], NEW q \in Queues, NEW b \in Buf, Apart(c), ~In(c, b),
           NEW d, d = [c EXCEPT ![q] = Append(c[q], b)]
    PROVE  Grown(c, q, b, d)
<1>1. c[q] \in Seq(Buf) /\ Len(c[q]) \in Nat
  OBVIOUS
<1>2. /\ Append(c[q], b) \in Seq(Buf) /\ Len(Append(c[q], b)) = Len(c[q]) + 1
      /\ Append(c[q], b)[Len(c[q]) + 1] = b
      /\ \A i \in 1 .. Len(c[q]) : Append(c[q], b)[i] = c[q][i]
  BY <1>1
<1>3. /\ d \in [Queues -> Seq(Buf)] /\ Len(d[q]) = Len(c[q]) + 1 /\ d[q][Len(d[q])] = b
      /\ \A i \in 1 .. Len(c[q]) : d[q][i] = c[q][i]
      /\ \A r \in Queues \ {q} : d[r] = c[r]
  BY <1>1, <1>2
<1>4. d[q] # <<>>
  BY <1>1, <1>3
<1>5. \A x \in Buf : In(d, x) <=> In(c, x) \/ x = b
  <2> SUFFICES ASSUME NEW x \in Buf PROVE In(d, x) <=> In(c, x) \/ x = b
    OBVIOUS
  <2>1. ASSUME In(d, x) PROVE In(c, x) \/ x = b
    <3>1. PICK r \in Queues, i \in Nat : i \in 1 .. Len(d[r]) /\ d[r][i] = x
      BY <2>1 DEF In
    <3>2. CASE r # q
      BY <3>1, <3>2, <1>3 DEF In
    <3>3. CASE r = q /\ i = Len(d[q])
      BY <3>1, <3>3, <1>3
    <3>4. CASE r = q /\ i # Len(d[q])
      <4>1. i \in 1 .. Len(c[q]) /\ c[q][i] = x
        BY <3>1, <3>4, <1>3, <1>1
      <4> QED  BY <4>1 DEF In
    <3> QED  BY <3>2, <3>3, <3>4
  <2>2. ASSUME In(c, x) PROVE In(d, x)
    <3>1. PICK r \in Queues, i \in Nat : i \in 1 .. Len(c[r]) /\ c[r][i] = x
      BY <2>2 DEF In
    <3>2. i \in 1 .. Len(d[r]) /\ d[r][i] = x
      BY <3>1, <1>3, <1>1
    <3> QED  BY <3>2 DEF In
  <2>3. ASSUME x = b PROVE In(d, x)
    <3>1. Len(d[q]) \in 1 .. Len(d[q])
      BY <1>1, <1>3
    <3> QED  BY <3>1, <2>3, <1>3 DEF In
  <2> QED  BY <2>1, <2>2, <2>3
<1>6. Apart(d)
  <2> SUFFICES ASSUME NEW r \in Queues, NEW s \in Queues, NEW i \in 1 .. Len(d[r]), NEW j \in 1 .. Len(d[s]),
                      d[r][i] = d[s][j]
               PROVE  r = s /\ i = j
    BY DEF Apart
  <2> DEFINE old(u, k) == k \in 1 .. Len(c[u])
  <2>1. /\ old(r, i) => d[r][i] = c[r][i]
        /\ old(s, j) => d[s][j] = c[s][j]
        /\ ~old(r, i) => r = q /\ i = Len(c[q]) + 1 /\ d[r][i] = b
        /\ ~old(s, j) => s = q /\ j = Len(c[q]) + 1 /\ d[s][j] = b
    BY <1>1, <1>3
  <2>2. \A u \in Queues : \A k \in 1 .. Len(c[u]) : c[u][k] # b
    BY DEF In
  <2>3. CASE old(r, i) /\ old(s, j)
    BY <2>1, <2>3 DEF Apart
  <2> QED  BY <2>1, <2>2, <2>3
<1> QED  BY <1>3, <1>4, <1>5, <1>6 DEF Grown

\* Taking the first of one of the sequences.
Shrunk(c, q, d) ==
    /\ d \in [Queues -> Seq(Buf)] /\ Apart(d)
    /\ c[q][1] \in Buf /\ ~In(d, c[q][1]) /\ In(c, c[q][1])
    /\ \A x \in Buf : In(c, x) <=> In(d, x) \/ x = c[q][1]
    /\ Len(d[q]) = Len(c[q]) - 1 /\ Len(c[q]) \in Nat \ {0}
    /\ \A i \in 1 .. Len(d[q]) : d[q][i] = c[q][i + 1]
    /\ \A r \in Queues \ {q} : d[r] = c[r]

LEMMA InTail ==
    ASSUME NEW c \in [Queues -> Seq(Buf)], NEW q \in Queues, Apart(c), c[q] # <<>>,
           NEW d, d = [c EXCEPT ![q] = Tail(c[q])]
    PROVE  Shrunk(c, q, d)
<1>1. c[q] \in Seq(Buf) /\ Len(c[q]) \in Nat \ {0} /\ c[q][1] \in Buf /\ 1 \in 1 .. Len(c[q])
  OBVIOUS
<1>2. /\ Tail(c[q]) \in Seq(Buf) /\ Len(Tail(c[q])) = Len(c[q]) - 1
      /\ \A i \in 1 .. Len(Tail(c[q])) : Tail(c[q])[i] = c[q][i + 1]
  BY <1>1
<1>3. /\ d \in [Queues -> Seq(Buf)] /\ Len(d[q]) = Len(c[q]) - 1
      /\ \A i \in 1 .. Len(d[q]) : d[q][i] = c[q][i + 1] /\ i + 1 \in 1 .. Len(c[q])
      /\ \A r \in Queues \ {q} : d[r] = c[r]
  BY <1>1, <1>2
<1>4. ~In(d, c[q][1])
  <2> SUFFICES ASSUME In(d, c[q][1]) PROVE FALSE
    OBVIOUS
  <2>1. PICK r \in Queues, i \in Nat : i \in 1 .. Len(d[r]) /\ d[r][i] = c[q][1]
    BY Zenon, <1>3, DotNat DEF In
  <2>2. CASE r = q
    <3>1. c[q][i + 1] = c[q][1] /\ i + 1 \in 1 .. Len(c[q]) /\ i \in Nat \ {0}
      BY <2>1, <2>2, <1>3, <1>1
    <3>2. i + 1 = 1
      BY <3>1, <1>1 DEF Apart
    <3> QED  BY <3>1, <3>2
  <2>3. CASE r # q
    BY <2>1, <2>3, <1>1, <1>3 DEF Apart
  <2> QED  BY <2>2, <2>3
<1>5. In(c, c[q][1])
  BY <1>1 DEF In
<1>6. \A x \in Buf : In(c, x) <=> In(d, x) \/ x = c[q][1]
  <2> SUFFICES ASSUME NEW x \in Buf PROVE In(c, x) <=> In(d, x) \/ x = c[q][1]
    OBVIOUS
  <2>1. ASSUME In(c, x), x # c[q][1] PROVE In(d, x)
    <3>1. PICK r \in Queues, i \in Nat : i \in 1 .. Len(c[r]) /\ c[r][i] = x
      BY <2>1 DEF In
    <3>2. CASE r # q
      BY <3>1, <3>2, <1>3 DEF In
    <3>3. CASE r = q
      <4>1. i - 1 \in 1 .. Len(d[q]) /\ d[q][i - 1] = c[q][(i - 1) + 1] /\ (i - 1) + 1 = i
        BY <3>1, <3>3, <2>1, <1>1, <1>3
      <4>2. d[q][i - 1] = x
        BY <4>1, <3>1, <3>3
      <4> QED  BY <4>1, <4>2 DEF In
    <3> QED  BY <3>2, <3>3
  <2>2. ASSUME In(d, x) PROVE In(c, x)
    <3>1. PICK r \in Queues, i \in Nat : i \in 1 .. Len(d[r]) /\ d[r][i] = x
      BY Zenon, <2>2, DotNat DEF In
    <3>2. CASE r # q
      BY <3>1, <3>2, <1>3 DEF In
    <3>3. CASE r = q
      BY <3>1, <3>3, <1>3 DEF In
    <3> QED  BY <3>2, <3>3
  <2> QED  BY <2>1, <2>2, <1>5
<1>7. Apart(d)
  <2> SUFFICES ASSUME NEW r \in Queues, NEW s \in Queues, NEW i \in 1 .. Len(d[r]), NEW j \in 1 .. Len(d[s]),
                      d[r][i] = d[s][j]
               PROVE  r = s /\ i = j
    BY DEF Apart
  <2> DEFINE at(u, k) == IF u = q THEN k + 1 ELSE k
  <2>1. /\ at(r, i) \in 1 .. Len(c[r]) /\ d[r][i] = c[r][at(r, i)]
        /\ at(s, j) \in 1 .. Len(c[s]) /\ d[s][j] = c[s][at(s, j)]
    BY <1>3
  <2>2. r = s /\ at(r, i) = at(s, j)
    <3> HIDE DEF at
    <3> QED  BY <2>1 DEF Apart
  <2> QED  BY <2>2
<1> QED  BY <1>1, <1>3, <1>4, <1>5, <1>6, <1>7 DEF Shrunk

\* A list that a step does not touch.
LEMMA SpellsSame ==
    ASSUME NEW m, NEW e, NEW q \in Queues, NEW s \in Seq(Buf), Spells(m, q, s),
           e.queue[q] = m.queue[q], \A i \in 1 .. Len(s) : e.next[s[i]] = m.next[s[i]]
    PROVE  Spells(e, q, s)
BY DEF Spells

\* A buffer that stands alone joins a queue; its reference goes with it.
LEMMA OwnAppend ==
    ASSUME NEW m \in Iface, NEW c, NEW S, Own(m, c, S), NEW q \in Queues, NEW b \in S,
           NEW e, Appended(m, q, b, e), NEW d, Grown(c, q, b, d)
    PROVE  Own(e, d, S \ {b})
<1> USE DEF NIL
<1>1. /\ c \in [Queues -> Seq(Buf)] /\ S \in SUBSET Buf /\ b \in Buf /\ Apart(c) /\ ~In(c, b)
      /\ c[q] \in Seq(Buf) /\ Len(c[q]) \in Nat
  BY DEF Own
<1>2. /\ d \in [Queues -> Seq(Buf)] /\ Apart(d)
      /\ \A x \in Buf : In(d, x) <=> In(c, x) \/ x = b
      /\ d[q] # <<>> /\ Len(d[q]) = Len(c[q]) + 1 /\ d[q][Len(d[q])] = b
      /\ \A i \in 1 .. Len(c[q]) : d[q][i] = c[q][i]
      /\ \A r \in Queues \ {q} : d[r] = c[r]
  BY DEF Grown
<1> DEFINE t == m.queue[q].tail
<1>3. /\ e.next = IF t = NIL THEN [m.next EXCEPT ![b] = NIL]
                  ELSE [[m.next EXCEPT ![b] = NIL] EXCEPT ![t] = b]
      /\ e.queue = [m.queue EXCEPT ![q] = [head |-> IF t = NIL THEN b ELSE m.queue[q].head,
                                           tail |-> b]]
      /\ e.ref = m.ref /\ e.held = m.held
  BY DEF Appended, SameBuffers
<1>4. m.next \in [Buf -> Link] /\ m.queue \in [Queues -> [head : Link, tail : Link]]
  BY DEF Iface
<1>5. Spells(m, q, c[q])
  BY DEF Own
<1>6. /\ c[q] = <<>> => t = NIL
      /\ c[q] # <<>> => t = c[q][Len(c[q])] /\ Len(c[q]) \in 1 .. Len(c[q]) /\ t \in Buf /\ t # b /\ t # NIL
  <2>1. CASE c[q] = <<>>
    BY <1>5, <2>1 DEF Spells
  <2>2. CASE c[q] # <<>>
    <3>1. t = c[q][Len(c[q])] /\ Len(c[q]) \in 1 .. Len(c[q]) /\ t \in Buf
      BY <1>1, <1>5, <2>2 DEF Spells
    <3> QED  BY <3>1, <2>2, <1>1 DEF In, Buf
  <2> QED  BY <2>1, <2>2
<1>7. Spells(e, q, d[q])
  <2>1. e.queue[q].tail = b /\ e.queue[q].head = IF t = NIL THEN b ELSE m.queue[q].head
    BY <1>3, <1>4
  <2>2. e.queue[q].head = d[q][1]
    <3>1. CASE c[q] = <<>>
      BY <3>1, <1>6, <1>2, <2>1
    <3>2. CASE c[q] # <<>>
      <4>1. m.queue[q].head = c[q][1] /\ 1 \in 1 .. Len(c[q])
        BY <3>2, <1>5, <1>1 DEF Spells
      <4> QED  BY <3>2, <4>1, <1>6, <1>2, <2>1
    <3> QED  BY <3>1, <3>2
  <2>3. ASSUME NEW i \in 1 .. Len(d[q])
        PROVE  e.next[d[q][i]] = IF i = Len(d[q]) THEN NIL ELSE d[q][i + 1]
    <3>1. CASE i = Len(d[q])
      BY <3>1, <1>2, <1>3, <1>4, <1>6, <1>1
    <3>2. CASE i # Len(d[q]) /\ i = Len(c[q])
      <4>1. c[q] # <<>> /\ d[q][i] = t /\ d[q][i + 1] = b
        BY <3>2, <1>2, <1>6, <1>1
      <4>2. e.next[t] = b
        BY <4>1, <1>6, <1>3, <1>4
      <4> QED  BY <4>1, <4>2, <3>2
    <3>3. CASE i # Len(d[q]) /\ i # Len(c[q])
      <4>1. /\ i \in 1 .. Len(c[q]) /\ i + 1 \in 1 .. Len(c[q]) /\ c[q] # <<>>
            /\ d[q][i] = c[q][i] /\ d[q][i + 1] = c[q][i + 1] /\ c[q][i] \in Buf
        BY <3>3, <1>2, <1>1
      <4>2. c[q][i] # b /\ c[q][i] # t
        BY <4>1, <3>3, <1>1, <1>6 DEF In, Apart
      <4>3. e.next[c[q][i]] = m.next[c[q][i]]
        BY <4>1, <4>2, <1>3, <1>4
      <4>4. m.next[c[q][i]] = c[q][i + 1]
        BY <4>1, <3>3, <1>5 DEF Spells
      <4> QED  BY <4>1, <4>3, <4>4, <3>3
    <3> QED  BY <3>1, <3>2, <3>3
  <2> QED  BY <2>1, <2>2, <2>3, <1>2 DEF Spells
<1>8. ASSUME NEW r \in Queues \ {q} PROVE Spells(e, r, d[r])
  <2>1. d[r] = c[r] /\ c[r] \in Seq(Buf) /\ Spells(m, r, c[r])
    BY <1>2, <1>1 DEF Own
  <2>2. e.queue[r] = m.queue[r]
    BY <1>3, <1>4
  <2>3. ASSUME NEW i \in 1 .. Len(c[r]) PROVE e.next[c[r][i]] = m.next[c[r][i]]
    <3>1. c[r][i] \in Buf /\ c[r][i] # b
      BY <2>1, <1>1 DEF In
    <3>2. c[q] # <<>> => c[r][i] # t
      BY <1>6, <1>1 DEF Apart
    <3>3. t # NIL => c[q] # <<>>
      BY <1>6
    <3> QED  BY <3>1, <3>2, <3>3, <1>3, <1>4
  <2> QED  BY <2>1, <2>2, <2>3, SpellsSame
<1>9. \A x \in S \ {b} : ~In(d, x)
  BY <1>1, <1>2 DEF Own
<1>10. ASSUME NEW x \in Buf
       PROVE  e.ref[x] = One(In(d, x) \/ x \in S \ {b}) + One(x \in e.held)
  <2>1. (In(d, x) \/ x \in S \ {b}) <=> (In(c, x) \/ x \in S)
    BY <1>2
  <2> QED  BY <2>1, <1>3 DEF Own, One
<1> QED  BY <1>1, <1>2, <1>7, <1>8, <1>9, <1>10 DEF Own

\* The first of a queue is taken out and stands alone.
LEMMA OwnDequeue ==
    ASSUME NEW m \in Iface, NEW c, NEW S, Own(m, c, S), NEW q \in Queues, c[q] # <<>>,
           NEW e, Dequeued(m, q, e), NEW d, Shrunk(c, q, d)
    PROVE  Own(e, d, S \cup {c[q][1]}) /\ m.queue[q].head = c[q][1] /\ c[q][1] \in Buf /\ c[q][1] \notin S
<1> USE DEF NIL
<1> DEFINE h == c[q][1]
<1>1. /\ c \in [Queues -> Seq(Buf)] /\ S \in SUBSET Buf /\ Apart(c) /\ Spells(m, q, c[q])
      /\ c[q] \in Seq(Buf) /\ Len(c[q]) \in Nat
  BY DEF Own
<1>2. /\ d \in [Queues -> Seq(Buf)] /\ Apart(d)
      /\ h \in Buf /\ ~In(d, h) /\ In(c, h)
      /\ \A x \in Buf : In(c, x) <=> In(d, x) \/ x = h
      /\ Len(d[q]) = Len(c[q]) - 1 /\ Len(c[q]) \in Nat \ {0}
      /\ \A i \in 1 .. Len(d[q]) : d[q][i] = c[q][i + 1]
      /\ \A r \in Queues \ {q} : d[r] = c[r]
  BY DEF Shrunk
<1>3. m.queue[q].head = h /\ h # NIL /\ h \notin S
  BY <1>1, <1>2 DEF Spells, Own, Buf
<1>4. /\ e.next = m.next
      /\ e.queue = [m.queue EXCEPT ![q] =
            [head |-> m.next[h], tail |-> IF m.next[h] = NIL THEN NIL ELSE m.queue[q].tail]]
      /\ e.ref = m.ref /\ e.held = m.held
  BY <1>3 DEF Dequeued, SameBuffers
<1>5. m.queue \in [Queues -> [head : Link, tail : Link]]
  BY DEF Iface
<1>6. m.next[h] = IF Len(c[q]) = 1 THEN NIL ELSE c[q][2]
  <2>1. \A i \in 1 .. Len(c[q]) : m.next[c[q][i]] = IF i = Len(c[q]) THEN NIL ELSE c[q][i + 1]
    BY Zenon, <1>1 DEF Spells
  <2>2. 1 \in 1 .. Len(c[q]) /\ 1 + 1 = 2
    BY <1>2
  <2>3. m.next[h] = IF 1 = Len(c[q]) THEN NIL ELSE c[q][1 + 1]
    BY Zenon, <2>1, <2>2
  <2> QED  BY <2>2, <2>3
<1>7. Spells(e, q, d[q])
  <2>1. /\ e.queue[q].head = m.next[h]
        /\ e.queue[q].tail = IF m.next[h] = NIL THEN NIL ELSE m.queue[q].tail
    BY <1>4, <1>5
  <2>2. d[q] \in Seq(Buf) /\ Len(d[q]) \in Nat /\ (d[q] = <<>> <=> Len(c[q]) = 1)
    <3>1. d[q] \in Seq(Buf)
      BY <1>2
    <3>2. Len(d[q]) \in Nat /\ (d[q] = <<>> <=> Len(d[q]) = 0)
      BY <3>1
    <3>3. Len(d[q]) = Len(c[q]) - 1
      BY <1>2
    <3> QED  BY <3>1, <3>2, <3>3, <1>1
  <2>3. CASE Len(c[q]) = 1
    BY <2>3, <2>1, <2>2, <1>2, <1>6 DEF Spells
  <2>4. CASE Len(c[q]) # 1
    <3>1. /\ 2 \in 1 .. Len(c[q]) /\ 1 \in 1 .. Len(d[q]) /\ Len(d[q]) \in 1 .. Len(d[q])
          /\ Len(d[q]) + 1 = Len(c[q]) /\ d[q][1] = c[q][2] /\ d[q][Len(d[q])] = c[q][Len(c[q])]
          /\ c[q][2] \in Buf /\ c[q][2] # NIL
      <4>1. /\ 2 \in 1 .. Len(c[q]) /\ 1 \in 1 .. Len(d[q]) /\ Len(d[q]) \in 1 .. Len(d[q])
            /\ Len(d[q]) + 1 = Len(c[q]) /\ 1 + 1 = 2
        BY <2>2, <2>4, <1>1, <1>2
      <4>2. \A i \in 1 .. Len(d[q]) : d[q][i] = c[q][i + 1]
        BY Zenon, <1>2
      <4>3. d[q][1] = c[q][1 + 1] /\ d[q][Len(d[q])] = c[q][Len(d[q]) + 1]
        BY Zenon, <4>1, <4>2
      <4>4. c[q][2] \in Buf
        BY <4>1, <1>1
      <4> QED  BY <4>1, <4>3, <4>4 DEF Buf
    <3>2. m.queue[q].tail = c[q][Len(c[q])]
      BY <1>1 DEF Spells
    <3>3. ASSUME NEW i \in 1 .. Len(d[q])
          PROVE  e.next[d[q][i]] = IF i = Len(d[q]) THEN NIL ELSE d[q][i + 1]
      <4>1. /\ d[q][i] = c[q][i + 1] /\ i + 1 \in 1 .. Len(c[q])
            /\ (i = Len(d[q]) <=> i + 1 = Len(c[q]))
            /\ i # Len(d[q]) => d[q][i + 1] = c[q][(i + 1) + 1]
        <5>1. /\ i + 1 \in 1 .. Len(c[q]) /\ (i = Len(d[q]) <=> i + 1 = Len(c[q]))
              /\ i # Len(d[q]) => i + 1 \in 1 .. Len(d[q])
          BY <3>1, <2>2
        <5>2. \A j \in 1 .. Len(d[q]) : d[q][j] = c[q][j + 1]
          BY Zenon, <1>2
        <5> QED  BY Zenon, <5>1, <5>2
      <4>2. m.next[c[q][i + 1]] = IF i + 1 = Len(c[q]) THEN NIL ELSE c[q][(i + 1) + 1]
        BY <4>1, <1>1 DEF Spells
      <4> QED  BY <4>1, <4>2, <1>4
    <3> QED  BY <3>1, <3>2, <3>3, <2>1, <2>2, <2>4, <1>6 DEF Spells
  <2> QED  BY <2>3, <2>4
<1>8. ASSUME NEW r \in Queues \ {q} PROVE Spells(e, r, d[r])
  <2>1. d[r] = c[r] /\ c[r] \in Seq(Buf) /\ Spells(m, r, c[r]) /\ e.queue[r] = m.queue[r]
    BY <1>1, <1>2, <1>4, <1>5 DEF Own
  <2> QED  BY <2>1, <1>4, SpellsSame
<1>9. \A x \in S \cup {h} : ~In(d, x)
  BY <1>1, <1>2 DEF Own
<1>10. ASSUME NEW x \in Buf
       PROVE  e.ref[x] = One(In(d, x) \/ x \in S \cup {h}) + One(x \in e.held)
  <2>1. (In(d, x) \/ x \in S \cup {h}) <=> (In(c, x) \/ x \in S)
    BY <1>2
  <2> QED  BY <2>1, <1>4 DEF Own, One
<1> QED  BY <1>1, <1>2, <1>3, <1>7, <1>8, <1>9, <1>10 DEF Own

\* The reference of a buffer that stands alone is dropped.
LEMMA OwnRelease ==
    ASSUME NEW m \in Iface, NEW c, NEW S, Own(m, c, S), NEW b \in S, NEW e, Released(m, b, e)
    PROVE  Own(e, c, S \ {b}) /\ (m.ref[b] > 1 <=> b \in m.held)
<1>1. /\ c \in [Queues -> Seq(Buf)] /\ S \in SUBSET Buf /\ b \in Buf /\ ~In(c, b)
      /\ m.ref[b] = 1 + One(b \in m.held)
  BY DEF Own, One
<1>2. /\ e.ref = [m.ref EXCEPT ![b] = IF m.ref[b] > 1 THEN m.ref[b] - 1 ELSE 0]
      /\ e.next = IF m.ref[b] > 1 THEN m.next ELSE [m.next EXCEPT ![b] = NIL]
      /\ e.queue = m.queue /\ e.held = m.held
  BY DEF Released
<1>3. m.next \in [Buf -> Link] /\ m.ref \in [Buf -> Nat]
  BY DEF Iface
<1>4. \A q \in Queues : Spells(e, q, c[q])
  <2> SUFFICES ASSUME NEW q \in Queues PROVE Spells(e, q, c[q])
    OBVIOUS
  <2>1. c[q] \in Seq(Buf) /\ Spells(m, q, c[q]) /\ \A i \in 1 .. Len(c[q]) : c[q][i] # b
    BY <1>1 DEF Own, In
  <2>2. \A i \in 1 .. Len(c[q]) : e.next[c[q][i]] = m.next[c[q][i]]
    BY <2>1, <1>2, <1>3
  <2> QED  BY <2>1, <2>2, <1>2, SpellsSame
<1>5. ASSUME NEW x \in Buf
      PROVE  e.ref[x] = One(In(c, x) \/ x \in S \ {b}) + One(x \in e.held)
  <2>1. CASE x = b
    BY <2>1, <1>1, <1>2, <1>3 DEF One
  <2>2. CASE x # b
    BY <2>2, <1>2, <1>3 DEF Own, One
  <2> QED  BY <2>1, <2>2
<1>6. m.ref[b] > 1 <=> b \in m.held
  BY <1>1 DEF One
<1> QED  BY <1>1, <1>4, <1>5, <1>6 DEF Own

\* A buffer nobody refers to is taken.
LEMMA OwnGet ==
    ASSUME NEW m \in Iface, NEW c, NEW S, Own(m, c, S), NEW b \in Unused(m), NEW e, Gotten(m, b, e)
    PROVE  Own(e, c, S \cup {b}) /\ ~In(c, b) /\ b \notin S /\ b \notin m.held
<1>1. /\ c \in [Queues -> Seq(Buf)] /\ S \in SUBSET Buf /\ b \in Buf
      /\ ~In(c, b) /\ b \notin S /\ b \notin m.held
  BY DEF Own, One, Unused
<1>2. e.ref = [m.ref EXCEPT ![b] = 1] /\ e.next = m.next /\ e.queue = m.queue /\ e.held = m.held
  BY DEF Gotten, SameLinks
<1>3. m.ref \in [Buf -> Nat]
  BY DEF Iface
<1>4. \A q \in Queues : Spells(e, q, c[q])
  BY <1>2 DEF Own, Spells
<1>5. ASSUME NEW x \in Buf
      PROVE  e.ref[x] = One(In(c, x) \/ x \in S \cup {b}) + One(x \in e.held)
  <2>1. CASE x = b
    BY <2>1, <1>1, <1>2, <1>3 DEF One
  <2>2. CASE x # b
    BY <2>2, <1>2, <1>3 DEF Own, One
  <2> QED  BY <2>1, <2>2
<1> QED  BY <1>1, <1>4, <1>5 DEF Own

-----------------------------------------------------------------------------
(* The frames, the cache and the count of requestq.                        *)

Right(f) == /\ f.proto = "ip" => f.mac = Via[f.dst]
            /\ f.proto = "arp" => f.mac = Bcast

Good(m, c, S) ==
    /\ m \in Iface /\ Own(m, c, S)
    /\ \A i \in 1 .. CacheSize : m.cache[i].time > 0 => m.cache[i].mac = m.cache[i].ip
    /\ \A i \in 1 .. Len(c["outq"]) : Right(m.frame[c["outq"][i]])
    /\ \A i \in 1 .. Len(c["requestq"]) : m.frame[c["requestq"][i]].dst \in IPs
    /\ \A b \in m.held : m.frame[b].dst \in IPs
    /\ m.rsem = Len(c["requestq"])

Comes(m, c) == c["outq"] # <<>> => m.osem > 0 \/ m.tx # NIL

\* What an operation on buffer b leaves alone.
Keeps(m, e, b) ==
    /\ SameCache(m, e) /\ SameClient(m, e) /\ SameDriver(m, e) /\ e.held = m.held
    /\ \A x \in Buf \ {b} : e.frame[x] = m.frame[x]

LEMMA QueueNames == "outq" \in Queues /\ "requestq" \in Queues /\ "outq" # "requestq"
BY DEF Queues

LEMMA GoodSame ==
    ASSUME NEW m, NEW c, NEW S, Good(m, c, S), NEW e \in Iface,
           SameLinks(m, e), SameBuffers(m, e), SameCache(m, e), e.rsem = m.rsem
    PROVE  Good(e, c, S)
<1>1. Own(e, c, S)
  BY DEF Good, Own, Spells, SameLinks, SameBuffers
<1> QED  BY <1>1 DEF Good, SameBuffers, SameCache

LEMMA MinIn ==
    ASSUME NEW T \in SUBSET Nat, T # {}
    PROVE  Min(T) \in T /\ \A y \in T : Min(T) <= y
<1>1. \E x \in T : \A y \in T : x <= y
  <2>1. PICK x \in T : \A y \in T : ~(<<y, x>> \in OpToRel(<, Nat))
    BY Zenon, WFMin, NatLessThanWellFounded
  <2>2. \A y \in T : ~(y < x)
    BY <2>1 DEF OpToRel
  <2> QED  BY <2>2
<1> QED  BY <1>1 DEF Min

LEMMA MacIs ==
    ASSUME NEW m, NEW c, NEW S, Good(m, c, S), NEW hop \in Hops, Known(m, hop)
    PROVE  Mac(m, hop) = hop
<1>1. CASE hop = Bcast
  BY <1>1 DEF Mac
<1>2. CASE hop # Bcast
  <2> DEFINE T == {i \in 1 .. CacheSize : m.cache[i].time > 0 /\ m.cache[i].ip = hop}
  <2>1. T \in SUBSET Nat /\ T # {}
    BY <1>2 DEF Known
  <2>2. Min(T) \in T
    BY <2>1, MinIn
  <2>3. Mac(m, hop) = m.cache[Min(T)].mac
    BY <1>2 DEF Mac
  <2> HIDE DEF T
  <2>4. \A i \in T : m.cache[i].mac = hop
    BY DEF T, Good
  <2> QED  BY <2>2, <2>3, <2>4
<1> QED  BY <1>1, <1>2

LEMMA GoodRelease ==
    ASSUME NEW m, NEW c, NEW S, Good(m, c, S), NEW b \in S, NEW e, e = Release(m, b)
    PROVE  Good(e, c, S \ {b}) /\ Keeps(m, e, b) /\ SameSems(m, e)
<1>1. m \in Iface /\ Own(m, c, S) /\ b \in Buf /\ ~In(c, b) /\ c \in [Queues -> Seq(Buf)]
      /\ m.frame \in [Buf -> Frame] /\ m.held \in SUBSET Buf
  BY DEF Good, Own, Iface
<1>2. Released(m, b, e)
  BY <1>1, ReleaseIs
<1>3. Own(e, c, S \ {b}) /\ (m.ref[b] > 1 <=> b \in m.held)
  BY <1>1, <1>2, OwnRelease
<1>4. /\ e \in Iface /\ e.held = m.held /\ e.rsem = m.rsem /\ SameCache(m, e)
      /\ SameSems(m, e) /\ SameClient(m, e) /\ SameDriver(m, e)
      /\ e.frame = IF m.ref[b] > 1 THEN m.frame ELSE [m.frame EXCEPT ![b] = NoFrame]
  BY <1>2 DEF Released, SameSems
<1>5. \A x \in Buf : x # b \/ b \in m.held => e.frame[x] = m.frame[x]
  BY <1>1, <1>3, <1>4
<1>6. \A q \in Queues : \A i \in 1 .. Len(c[q]) : c[q][i] \in Buf /\ c[q][i] # b
  BY <1>1 DEF In
<1>7. /\ \A i \in 1 .. Len(c["outq"]) : e.frame[c["outq"][i]] = m.frame[c["outq"][i]]
      /\ \A i \in 1 .. Len(c["requestq"]) : e.frame[c["requestq"][i]] = m.frame[c["requestq"][i]]
      /\ \A x \in m.held : e.frame[x] = m.frame[x]
  BY <1>1, <1>5, <1>6, QueueNames
<1> QED  BY <1>3, <1>4, <1>5, <1>7 DEF Good, Keeps, SameCache

\* Writing the frame of a buffer that stands alone.
Written(m, b, f, e) ==
    /\ e \in Iface /\ SameLinks(m, e) /\ SameSems(m, e) /\ SameCache(m, e)
    /\ SameClient(m, e) /\ SameDriver(m, e) /\ e.ref = m.ref /\ e.held = m.held
    /\ f \in Frame /\ (b \in m.held => f.dst \in IPs) /\ e.frame = [m.frame EXCEPT ![b] = f]

LEMMA GoodWrite ==
    ASSUME NEW m, NEW c, NEW S, Good(m, c, S), NEW b \in S, NEW f, NEW e, Written(m, b, f, e)
    PROVE  Good(e, c, S) /\ Keeps(m, e, b) /\ e.frame[b] = f
<1> USE DEF Written
<1>1. m \in Iface /\ Own(m, c, S) /\ b \in Buf /\ ~In(c, b) /\ c \in [Queues -> Seq(Buf)]
      /\ m.frame \in [Buf -> Frame] /\ m.held \in SUBSET Buf
  BY DEF Good, Own, Iface
<1>2. Own(e, c, S)
  BY DEF Good, Own, Spells, SameLinks
<1>3. \A x \in Buf \ {b} : e.frame[x] = m.frame[x]
  BY <1>1
<1>4. \A q \in Queues : \A i \in 1 .. Len(c[q]) : c[q][i] \in Buf /\ c[q][i] # b
  BY <1>1 DEF In
<1>5. /\ \A i \in 1 .. Len(c["outq"]) : e.frame[c["outq"][i]] = m.frame[c["outq"][i]]
      /\ \A i \in 1 .. Len(c["requestq"]) : e.frame[c["requestq"][i]] = m.frame[c["requestq"][i]]
      /\ \A x \in m.held \ {b} : e.frame[x] = m.frame[x]
      /\ e.frame[b] = f
  BY <1>1, <1>3, <1>4, QueueNames
<1>6. e.rsem = m.rsem
  BY DEF SameSems
<1> QED  BY <1>2, <1>3, <1>5, <1>6 DEF Good, Keeps, SameCache

\* A buffer joins outq with its header, or requestq and is counted.
Joined(m, q, b, a, e) ==
    /\ e \in Iface /\ SameLinks(a, e) /\ SameBuffers(a, e) /\ SameCache(a, e)
    /\ q = "outq" => Right(m.frame[b])
    /\ q = "requestq" => m.frame[b].dst \in IPs
    /\ e.rsem = IF q = "requestq" THEN m.rsem + 1 ELSE m.rsem

LEMMA GoodAppend ==
    ASSUME NEW m, NEW c, NEW S, Good(m, c, S), NEW b \in S, NEW q \in Queues,
           NEW a, a = AppendTo(m, q, b), NEW e, Joined(m, q, b, a, e)
    PROVE  \E d : /\ Good(e, d, S \ {b}) /\ e.frame = m.frame /\ e.held = m.held
                  /\ q = "requestq" => d["outq"] = c["outq"]
<1> USE DEF Joined
<1>1. m \in Iface /\ Own(m, c, S) /\ b \in Buf /\ ~In(c, b) /\ c \in [Queues -> Seq(Buf)] /\ Apart(c)
  BY DEF Good, Own
<1>2. Appended(m, q, b, a)
  BY <1>1, AppendToIs
<1>3. PICK d : Grown(c, q, b, d)
  BY <1>1, InAppend
<1>4. Own(a, d, S \ {b})
  BY <1>1, <1>2, <1>3, OwnAppend
<1>5. Own(e, d, S \ {b})
  BY <1>4 DEF Own, Spells, SameLinks, SameBuffers
<1>6. e.frame = m.frame /\ e.held = m.held /\ SameCache(m, e)
  BY <1>2 DEF Appended, SameBuffers, SameCache
<1>7. /\ d \in [Queues -> Seq(Buf)] /\ Len(d[q]) = Len(c[q]) + 1 /\ Len(c[q]) \in Nat /\ d[q][Len(d[q])] = b
      /\ \A i \in 1 .. Len(c[q]) : d[q][i] = c[q][i]
      /\ \A r \in Queues \ {q} : d[r] = c[r]
  BY <1>1, <1>3 DEF Grown
<1>8. \A i \in 1 .. Len(d["outq"]) : Right(e.frame[d["outq"][i]])
  <2>1. CASE q = "outq"
    <3> SUFFICES ASSUME NEW i \in 1 .. Len(d[q]) PROVE Right(m.frame[d[q][i]])
      BY <2>1, <1>6
    <3>1. CASE i = Len(d[q])
      BY <2>1, <3>1, <1>7
    <3>2. CASE i # Len(d[q])
      <4>1. i \in 1 .. Len(c[q]) /\ d[q][i] = c[q][i]
        BY <3>2, <1>7
      <4>2. Right(m.frame[c[q][i]])
        BY <4>1, <2>1 DEF Good
      <4> QED  BY <4>1, <4>2
    <3> QED  BY <3>1, <3>2
  <2>2. CASE q # "outq"
    BY <2>2, <1>6, <1>7, QueueNames DEF Good
  <2> QED  BY <2>1, <2>2
<1>9. \A i \in 1 .. Len(d["requestq"]) : e.frame[d["requestq"][i]].dst \in IPs
  <2>1. CASE q = "requestq"
    <3> SUFFICES ASSUME NEW i \in 1 .. Len(d[q]) PROVE m.frame[d[q][i]].dst \in IPs
      BY <2>1, <1>6
    <3>1. CASE i = Len(d[q])
      BY <2>1, <3>1, <1>7
    <3>2. CASE i # Len(d[q])
      <4>1. i \in 1 .. Len(c[q]) /\ d[q][i] = c[q][i]
        BY <3>2, <1>7
      <4>2. m.frame[c[q][i]].dst \in IPs
        BY <4>1, <2>1 DEF Good
      <4> QED  BY <4>1, <4>2
    <3> QED  BY <3>1, <3>2
  <2>2. CASE q # "requestq"
    BY <2>2, <1>6, <1>7, QueueNames DEF Good
  <2> QED  BY <2>1, <2>2
<1>10. e.rsem = Len(d["requestq"])
  BY <1>7, QueueNames DEF Good
<1>11. q = "requestq" => d["outq"] = c["outq"]
  BY <1>7, QueueNames
<1>12. \A x \in e.held : e.frame[x].dst \in IPs
  BY <1>6 DEF Good
<1>13. \A i \in 1 .. CacheSize : e.cache[i].time > 0 => e.cache[i].mac = e.cache[i].ip
  BY <1>6 DEF Good, SameCache
<1> QED  BY <1>5, <1>6, <1>8, <1>9, <1>10, <1>11, <1>12, <1>13 DEF Good

\* vsfip_netif_ip_output_do: the buffer is dropped or joins outq.
LEMMA GoodOutputDo ==
    ASSUME NEW m, NEW c, NEW S, Good(m, c, S), NEW b \in S,
           NEW proto \in {"ip", "arp", "reply"}, NEW mac \in Hops,
           proto = "ip" => mac = Via[m.frame[b].dst], proto = "arp" => mac = Bcast,
           NEW e, e = OutputDo(m, b, proto, mac)
    PROVE  \E d : Good(e, d, S \ {b}) /\ Keeps(m, e, b) /\ (Comes(m, c) => Comes(e, d))
<1>1. m \in Iface /\ b \in Buf /\ m.frame \in [Buf -> Frame] /\ m.frame[b] \in Frame /\ S \in SUBSET Buf
      /\ c \in [Queues -> Seq(Buf)]
  BY DEF Good, Own, Iface
<1>2. CASE ~m.frame[b].room
  <2>1. e = Release(m, b)
    BY <1>2 DEF OutputDo
  <2>2. Good(e, c, S \ {b}) /\ Keeps(m, e, b) /\ SameSems(m, e)
    BY <2>1, GoodRelease
  <2>3. Comes(m, c) => Comes(e, c)
    BY <2>2 DEF Comes, Keeps, SameSems, SameDriver
  <2> QED  BY <2>2, <2>3
<1>3. CASE m.frame[b].room
  <2> DEFINE f == [m.frame[b] EXCEPT !.proto = proto, !.mac = mac]
             fr == [m.frame EXCEPT ![b] = f]
             w == [m EXCEPT !.frame[b] = f]
             a == AppendTo(w, "outq", b)
  <2>1. f \in Frame /\ Right(f) /\ f.dst = m.frame[b].dst
    BY <1>1 DEF Frame, Right
  <2>2. fr \in [Buf -> Frame]
    BY <1>1, <2>1
  <2>3. w = [m EXCEPT !.frame = fr]
    BY <1>1 DEF Iface
  <2>4. /\ w \in Iface /\ SameLinks(m, w) /\ SameSems(m, w) /\ SameCache(m, w) /\ SameClient(m, w)
        /\ SameDriver(m, w) /\ w.ref = m.ref /\ w.held = m.held /\ w.frame = fr
    <3> HIDE DEF fr, w
    <3> QED  BY <1>1, <2>2, <2>3 DEF Iface, SameLinks, SameSems, SameCache, SameClient, SameDriver
  <2>5. e = [a EXCEPT !.osem = a.osem + 1]
    BY <1>3 DEF OutputDo
  <2> HIDE DEF f, w
  <2>6. b \in m.held => f.dst \in IPs
    BY <2>1 DEF Good
  <2>7. Good(w, c, S) /\ Keeps(m, w, b) /\ w.frame[b] = f
    <3>1. Written(m, b, f, w)
      BY <2>1, <2>4, <2>6 DEF Written
    <3> QED  BY <3>1, GoodWrite
  <2> HIDE DEF fr, a
  <2>8. Appended(w, "outq", b, a)
    BY <1>1, <2>4, QueueNames, AppendToIs DEF a
  <2>9. a \in Iface /\ a.osem = m.osem /\ a.rsem = m.rsem /\ w.rsem = m.rsem
        /\ SameClient(w, a) /\ SameDriver(w, a) /\ SameCache(w, a)
    BY <2>4, <2>8 DEF Appended, SameSems
  <2>10. a.osem \in Nat /\ a.rsem \in Nat
    BY <2>9 DEF Iface
  <2>11. /\ e \in Iface /\ SameLinks(a, e) /\ SameBuffers(a, e) /\ SameCache(a, e)
         /\ SameClient(a, e) /\ SameDriver(a, e) /\ e.rsem = a.rsem /\ e.osem = a.osem + 1
    <3>1. a.osem + 1 \in Nat
      BY <2>10
    <3> QED  BY <2>5, <2>9, <3>1, SetOsem
  <2>12. PICK d : Good(e, d, S \ {b}) /\ e.frame = w.frame /\ e.held = w.held
    <3> DEFINE q == "outq"
    <3>1. Joined(w, q, b, a, e)
      BY <2>1, <2>7, <2>9, <2>11, QueueNames DEF Joined
    <3>2. a = AppendTo(w, q, b) /\ q \in Queues
      BY QueueNames DEF a
    <3> HIDE DEF q
    <3> QED  BY <2>7, <3>1, <3>2, GoodAppend
  <2>13. Keeps(m, e, b)
    BY <2>4, <2>7, <2>9, <2>11, <2>12 DEF Keeps, SameCache, SameClient, SameDriver
  <2>14. Comes(e, d)
    BY <2>10, <2>11 DEF Comes
  <2> QED  BY <2>12, <2>13, <2>14
<1> QED  BY <1>1, <1>2, <1>3 DEF Frame

\* vsfip_netif_ip_output: outq when the next hop is known, else requestq.
LEMMA GoodIpOutput ==
    ASSUME NEW m, NEW c, NEW S, Good(m, c, S), NEW b \in S, m.frame[b].dst \in IPs,
           NEW e, e = IpOutput(m, b)
    PROVE  \E d : Good(e, d, S \ {b}) /\ Keeps(m, e, b) /\ (Comes(m, c) => Comes(e, d))
<1> DEFINE hop == Via[m.frame[b].dst]
<1>1. m \in Iface /\ b \in Buf /\ hop \in Hops /\ S \in SUBSET Buf
  BY NetifAssumption DEF Good, Own
<1>2. CASE Known(m, hop)
  <2>1. Mac(m, hop) = hop
    BY <1>1, <1>2, MacIs
  <2>2. e = OutputDo(m, b, "ip", hop)
    BY <1>2, <2>1 DEF IpOutput
  <2> QED  BY <1>1, <2>2, GoodOutputDo
<1>3. CASE ~Known(m, hop)
  <2> DEFINE a == AppendTo(m, "requestq", b)
  <2>1. e = [a EXCEPT !.rsem = a.rsem + 1]
    BY <1>3 DEF IpOutput
  <2> HIDE DEF a
  <2>2. Appended(m, "requestq", b, a)
    BY <1>1, QueueNames, AppendToIs DEF a
  <2>3. a \in Iface /\ a.osem = m.osem /\ a.rsem = m.rsem
        /\ SameClient(m, a) /\ SameDriver(m, a) /\ SameCache(m, a)
    BY <2>2 DEF Appended, SameSems
  <2>4. a.osem \in Nat /\ a.rsem \in Nat
    BY <2>3 DEF Iface
  <2>5. /\ e \in Iface /\ SameLinks(a, e) /\ SameBuffers(a, e) /\ SameCache(a, e)
        /\ SameClient(a, e) /\ SameDriver(a, e) /\ e.rsem = a.rsem + 1 /\ e.osem = a.osem
    <3>1. a.rsem + 1 \in Nat
      BY <2>4
    <3> QED  BY <2>1, <2>3, <3>1, SetRsem
  <2>6. PICK d : Good(e, d, S \ {b}) /\ e.frame = m.frame /\ e.held = m.held /\ d["outq"] = c["outq"]
    <3> DEFINE q == "requestq"
    <3>1. Joined(m, q, b, a, e)
      BY <2>3, <2>5, QueueNames DEF Joined
    <3>2. a = AppendTo(m, q, b) /\ q \in Queues /\ q = "requestq"
      BY QueueNames DEF a
    <3> HIDE DEF q
    <3> QED  BY <3>1, <3>2, GoodAppend
  <2>7. Keeps(m, e, b)
    BY <2>3, <2>5, <2>6 DEF Keeps, SameCache, SameClient, SameDriver
  <2>8. Comes(m, c) => Comes(e, d)
    BY <2>3, <2>5, <2>6 DEF Comes, SameDriver
  <2> QED  BY <2>6, <2>7, <2>8
<1> QED  BY <1>2, <1>3

\* The first of a queue is taken; one of requestq is no longer counted.
Left(m, q, a, e) ==
    /\ e \in Iface /\ SameLinks(a, e) /\ SameBuffers(a, e) /\ SameCache(a, e)
    /\ e.rsem = IF q = "requestq" THEN m.rsem - 1 ELSE m.rsem

Taken(m, c, S, q, h, e) ==
    /\ h \in Buf \ S /\ e.frame = m.frame /\ e.held = m.held
    /\ q = "outq" => Right(m.frame[h])
    /\ q = "requestq" => m.frame[h].dst \in IPs
    /\ \E d : Good(e, d, S \cup {h}) /\ (q = "requestq" => d["outq"] = c["outq"])

LEMMA GoodDequeue ==
    ASSUME NEW m, NEW c, NEW S, Good(m, c, S), NEW q \in Queues, c[q] # <<>>,
           NEW a, a = Dequeue(m, q), NEW e, Left(m, q, a, e), NEW h, h = m.queue[q].head
    PROVE  Taken(m, c, S, q, h, e)
<1> USE DEF Left
<1>1. /\ m \in Iface /\ Own(m, c, S) /\ c \in [Queues -> Seq(Buf)] /\ Apart(c) /\ Spells(m, q, c[q])
      /\ m.queue[q].head \in Link /\ c[q] \in Seq(Buf)
  BY DEF Good, Own, Iface
<1>2. PICK d : Shrunk(c, q, d)
  BY <1>1, InTail
<1>3. h = c[q][1] /\ h \in Buf /\ 1 \in 1 .. Len(c[q]) /\ h # NIL
  <2>1. h = c[q][1]
    BY Zenon, <1>1 DEF Spells
  <2>2. c[q][1] \in Buf /\ 1 \in 1 .. Len(c[q])
    BY <1>1
  <2> QED  BY <2>1, <2>2 DEF Buf, NIL
<1>4. Dequeued(m, q, a)
  BY <1>1, <1>3, DequeueIs
<1>5. Own(a, d, S \cup {h}) /\ h \notin S
  BY <1>1, <1>2, <1>3, <1>4, OwnDequeue, SMTT(30)
<1>6. Own(e, d, S \cup {h})
  <2> DEFINE U == S \cup {h}
  <2>1. Own(a, d, U) /\ e.next = a.next /\ e.queue = a.queue /\ e.ref = a.ref /\ e.held = a.held
    BY <1>5 DEF SameLinks, SameBuffers
  <2> HIDE DEF U
  <2>2. Own(e, d, U)
    BY <2>1 DEF Own, Spells
  <2> QED  BY <2>2 DEF U
<1>7. e.frame = m.frame /\ e.held = m.held /\ SameCache(m, e)
  BY <1>4 DEF Dequeued, SameBuffers, SameCache
<1>8. /\ d \in [Queues -> Seq(Buf)] /\ Len(d[q]) = Len(c[q]) - 1 /\ Len(c[q]) \in Nat \ {0}
      /\ \A i \in 1 .. Len(d[q]) : d[q][i] = c[q][i + 1] /\ i + 1 \in 1 .. Len(c[q])
      /\ \A r \in Queues \ {q} : d[r] = c[r]
  BY <1>2 DEF Shrunk
<1>9. \A i \in 1 .. Len(d["outq"]) : Right(e.frame[d["outq"][i]])
  <2>1. CASE q = "outq"
    BY <2>1, <1>7, <1>8 DEF Good
  <2>2. CASE q # "outq"
    BY <2>2, <1>7, <1>8, QueueNames DEF Good
  <2> QED  BY <2>1, <2>2
<1>10. \A i \in 1 .. Len(d["requestq"]) : e.frame[d["requestq"][i]].dst \in IPs
  <2>1. CASE q = "requestq"
    BY <2>1, <1>7, <1>8 DEF Good
  <2>2. CASE q # "requestq"
    BY <2>2, <1>7, <1>8, QueueNames DEF Good
  <2> QED  BY <2>1, <2>2
<1>11. e.rsem = Len(d["requestq"])
  BY <1>8, QueueNames DEF Good
<1>12. q = "requestq" => d["outq"] = c["outq"]
  BY <1>8, QueueNames
<1>13. \A x \in e.held : e.frame[x].dst \in IPs
  BY <1>7 DEF Good
<1>14. \A i \in 1 .. CacheSize : e.cache[i].time > 0 => e.cache[i].mac = e.cache[i].ip
  BY <1>7 DEF Good, SameCache
<1>15. Good(e, d, S \cup {h})
  BY <1>6, <1>9, <1>10, <1>11, <1>13, <1>14 DEF Good
<1>16. (q = "outq" => Right(m.frame[h])) /\ (q = "requestq" => m.frame[h].dst \in IPs)
  BY <1>3 DEF Good
<1> QED  BY <1>3, <1>5, <1>7, <1>12, <1>15, <1>16 DEF Taken

\* A buffer is taken from the pool.
LEMMA GoodGet ==
    ASSUME NEW m, NEW c, NEW S, Good(m, c, S), Unused(m) # {}, NEW b, b = Min(Unused(m)),
           NEW e, e = Get(m, b)
    PROVE  Good(e, c, S \cup {b}) /\ b \in Buf \ S /\ b \notin m.held /\ Gotten(m, b, e)
<1>1. m \in Iface /\ Own(m, c, S)
  BY DEF Good
<1>2. b \in Unused(m) /\ b \in Buf
  BY MinIn DEF Unused, Buf
<1>3. Gotten(m, b, e)
  BY <1>1, <1>2, GetIs
<1>4. Own(e, c, S \cup {b}) /\ b \notin S /\ b \notin m.held
  BY <1>1, <1>2, <1>3, OwnGet
<1>5. e \in Iface /\ e.frame = m.frame /\ e.held = m.held /\ SameCache(m, e) /\ e.rsem = m.rsem
  BY <1>3 DEF Gotten, SameSems
<1> QED  BY <1>2, <1>3, <1>4, <1>5 DEF Good, SameCache

-----------------------------------------------------------------------------
(* The ARP cache and client.                                               *)

\* vsfip_netif_arp_add_assoc only writes the cache, with the sender's own pair.
LEMMA GoodAddAssoc ==
    ASSUME NEW m, NEW c, NEW S, Good(m, c, S), NEW ip \in Hops, NEW e, e = AddAssoc(m, ip, ip)
    PROVE  /\ Good(e, c, S) /\ SameBuffers(m, e) /\ SameSems(m, e)
           /\ SameClient(m, e) /\ SameDriver(m, e)
<1>1. CASE Known(m, ip)
  BY <1>1 DEF AddAssoc, SameBuffers, SameSems, SameClient, SameDriver
<1>2. CASE ~Known(m, ip)
  <2> DEFINE v == Victim(m)
             en == [ip |-> ip, mac |-> ip, time |-> m.arp_time]
             ch == [m.cache EXCEPT ![v] = en]
             t == m.arp_time + 1
  <2>1. m \in Iface /\ m.cache \in [1 .. CacheSize -> Entry] /\ m.arp_time \in Nat /\ t \in Nat
    BY DEF Good, Iface
  <2>2. en \in Entry
    BY <2>1 DEF Entry
  <2>3. ch \in [1 .. CacheSize -> Entry]
    BY <2>1, <2>2
  <2>4. e = [m EXCEPT !.cache = ch, !.arp_time = t]
    BY <1>2, <2>1 DEF AddAssoc, Iface
  <2>5. \A i \in 1 .. CacheSize : ch[i].time > 0 => ch[i].mac = ch[i].ip
    BY <2>1 DEF Good
  <2> HIDE DEF ch, t
  <2>6. /\ e \in Iface /\ e.cache = ch /\ SameLinks(m, e) /\ SameBuffers(m, e) /\ SameSems(m, e)
        /\ SameClient(m, e) /\ SameDriver(m, e)
    BY <2>1, <2>3, <2>4 DEF Iface, SameLinks, SameBuffers, SameSems, SameClient, SameDriver
  <2>7. Own(e, c, S)
    BY <2>6 DEF Good, Own, Spells, SameLinks, SameBuffers
  <2> QED  BY <2>5, <2>6, <2>7 DEF Good, SameBuffers, SameSems
<1> QED  BY <1>1, <1>2

\* The client has a packet in hand.
Waiting(m, S) ==
    m.cur \in S /\ m.frame[m.cur].dst \in IPs /\ m.ip = Via[m.frame[m.cur].dst]

\* What a wake-up of the client does: it is done with the packet or keeps waiting.
Served(m, c, S, e) ==
    /\ SameDriver(m, e) /\ e.held = m.held
    /\ \A x \in S \ {m.cur} : e.frame[x] = m.frame[x]
    /\ \E d : /\ Comes(m, c) => Comes(e, d)
              /\ \/ e.pc = "sem" /\ e.cur = NIL /\ Good(e, d, S \ {m.cur})
                 \/ e.pc = "reply" /\ e.cur = m.cur /\ Good(e, d, S) /\ Waiting(e, S)

LEMMA SetClient ==
    ASSUME NEW m \in Iface, NEW pc \in {"sem", "reply"}, NEW cur \in Link, NEW ip \in Hops, NEW retry \in Nat,
           NEW e, e = [m EXCEPT !.pc = pc, !.cur = cur, !.ip = ip, !.retry = retry]
    PROVE  /\ e \in Iface /\ e.pc = pc /\ e.cur = cur /\ e.ip = ip /\ e.retry = retry
           /\ SameLinks(m, e) /\ SameBuffers(m, e) /\ SameSems(m, e) /\ SameCache(m, e) /\ SameDriver(m, e)
BY DEF Iface, SameLinks, SameBuffers, SameSems, SameCache, SameDriver

LEMMA ClientEndServes ==
    ASSUME NEW m, NEW c, NEW S, Good(m, c, S), Waiting(m, S), NEW e, e = ClientEnd(m)
    PROVE  Served(m, c, S, e)
<1> DEFINE a == [m EXCEPT !.pc = "sem", !.cur = NIL, !.ip = Bcast, !.retry = 0]
<1>1. m \in Iface /\ NIL \in Link /\ Bcast \in Hops /\ S \in SUBSET Buf /\ m.ip \in Hops /\ m.cur \in Buf
  <2>1. m \in Iface /\ S \in SUBSET Buf
    BY DEF Good, Own
  <2>2. m.ip \in Hops /\ m.cur \in Buf
    BY <2>1 DEF Waiting, Iface
  <2>3. NIL \in Link
    BY NetifAssumption DEF Link, NIL
  <2> QED  BY <2>1, <2>2, <2>3, NoFrameIs
<1>2. /\ a \in Iface /\ a.pc = "sem" /\ a.cur = NIL
      /\ SameLinks(m, a) /\ SameBuffers(m, a) /\ SameSems(m, a) /\ SameCache(m, a) /\ SameDriver(m, a)
  BY <1>1 DEF Iface, SameLinks, SameBuffers, SameSems, SameCache, SameDriver
<1>3. Good(a, c, S)
  BY <1>2, GoodSame DEF SameSems
<1>4. a.frame = m.frame /\ (Comes(m, c) => Comes(a, c))
  BY <1>2 DEF SameBuffers, Comes, SameSems, SameDriver
<1>5. PICK d : Good(e, d, S \ {m.cur}) /\ Keeps(a, e, m.cur) /\ (Comes(a, c) => Comes(e, d))
  <2>1. CASE Known(m, m.ip)
    <3>1. Mac(m, m.ip) = m.ip
      BY <1>1, <2>1, MacIs
    <3>2. e = OutputDo(a, m.cur, "ip", m.ip)
      BY <2>1, <3>1 DEF ClientEnd
    <3>3. m.ip = Via[a.frame[m.cur].dst] /\ m.cur \in S
      BY <1>4 DEF Waiting
    <3> HIDE DEF a
    <3> QED  BY <1>1, <1>3, <3>2, <3>3, GoodOutputDo
  <2>2. CASE ~Known(m, m.ip)
    <3>1. e = Release(a, m.cur) /\ m.cur \in S
      BY <2>2 DEF ClientEnd, Waiting
    <3> HIDE DEF a
    <3>2. Good(e, c, S \ {m.cur}) /\ Keeps(a, e, m.cur) /\ SameSems(a, e)
      BY <1>3, <3>1, GoodRelease
    <3> QED  BY <3>2 DEF Comes, Keeps, SameSems, SameDriver
  <2> QED  BY <2>1, <2>2
<1> HIDE DEF a
<1>6. /\ e.pc = "sem" /\ e.cur = NIL /\ SameDriver(m, e) /\ e.held = m.held
      /\ \A x \in S \ {m.cur} : e.frame[x] = m.frame[x]
  BY <1>1, <1>2, <1>4, <1>5 DEF Keeps, SameClient, SameDriver, SameBuffers
<1> QED  BY <1>4, <1>5, <1>6 DEF Served

LEMMA ClientAskServes ==
    ASSUME NEW m, NEW c, NEW S, Good(m, c, S), Waiting(m, S), NEW e, e = ClientAsk(m)
    PROVE  Served(m, c, S, e)
<1>1. CASE Unused(m) = {}
  BY <1>1, ClientEndServes DEF ClientAsk
<1>2. CASE Unused(m) # {}
  <2> DEFINE b == Min(Unused(m))
             f == [dst |-> m.ip, room |-> TRUE, proto |-> "arp", mac |-> Bcast]
             g == Get(m, b)
             a == [g EXCEPT !.frame[b] = f]
             o == OutputDo(a, b, "arp", Bcast)
  <2>1. e = [o EXCEPT !.pc = "reply"]
    BY <1>2 DEF ClientAsk
  <2>2. m \in Iface /\ m.ip \in Hops /\ S \in SUBSET Buf /\ m.cur \in S /\ Bcast \in Hops
    BY NoFrameIs DEF Good, Own, Iface, Waiting
  <2>3. f \in Frame
    BY <2>2 DEF Frame
  <2> HIDE DEF f
  <2>4. Good(g, c, S \cup {b}) /\ b \in Buf \ S /\ b \notin m.held /\ Gotten(m, b, g)
    <3> HIDE DEF b, g
    <3> QED  BY <1>2, GoodGet DEF b, g
  <2> HIDE DEF b, g
  <2>5. /\ g \in Iface /\ g.frame = m.frame /\ g.held = m.held /\ SameSems(m, g) /\ SameCache(m, g)
        /\ SameClient(m, g) /\ SameDriver(m, g)
    BY <2>4 DEF Gotten
  <2>6. Written(g, b, f, a)
    <3> DEFINE fr == [g.frame EXCEPT ![b] = f]
    <3>1. g.frame \in [Buf -> Frame]
      BY <2>5 DEF Iface
    <3>2. fr \in [Buf -> Frame]
      BY <2>3, <3>1
    <3>3. a = [g EXCEPT !.frame = fr]
      BY <2>5 DEF Iface
    <3> HIDE DEF fr, a
    <3>4. /\ a \in Iface /\ SameLinks(g, a) /\ SameSems(g, a) /\ SameCache(g, a)
          /\ SameClient(g, a) /\ SameDriver(g, a) /\ a.ref = g.ref /\ a.held = g.held /\ a.frame = fr
      BY <2>5, <3>2, <3>3 DEF Iface, SameLinks, SameSems, SameCache, SameClient, SameDriver
    <3> QED  BY <2>3, <2>4, <2>5, <3>4 DEF Written, fr
  <2> HIDE DEF a
  <2>7. Good(a, c, S \cup {b}) /\ Keeps(g, a, b) /\ a.frame[b] = f
    BY <2>4, <2>6, GoodWrite
  <2>8. PICK d : Good(o, d, (S \cup {b}) \ {b}) /\ Keeps(a, o, b) /\ (Comes(a, c) => Comes(o, d))
    BY <2>2, <2>7, GoodOutputDo
  <2>9. (S \cup {b}) \ {b} = S
    BY <2>4
  <2> HIDE DEF o
  <2>10. o \in Iface /\ o.cur \in Link /\ o.ip \in Hops /\ o.retry \in Nat
    BY <2>8 DEF Good, Iface
  <2>11. /\ e \in Iface /\ e.pc = "reply" /\ e.cur = o.cur /\ e.ip = o.ip /\ SameLinks(o, e) /\ SameBuffers(o, e)
         /\ SameSems(o, e) /\ SameCache(o, e) /\ SameDriver(o, e)
    BY <2>1, <2>10 DEF Iface, SameLinks, SameBuffers, SameSems, SameCache, SameDriver
  <2>12. Good(e, d, S)
    BY <2>8, <2>9, <2>11, GoodSame DEF SameSems
  <2>13. /\ e.cur = m.cur /\ e.ip = m.ip /\ SameDriver(m, e) /\ e.held = m.held
         /\ \A x \in S : e.frame[x] = m.frame[x]
    BY <2>2, <2>4, <2>5, <2>7, <2>8, <2>11 DEF Keeps, SameClient, SameDriver, SameBuffers
  <2>14. Waiting(e, S)
    BY <2>2, <2>13 DEF Waiting
  <2>15. Comes(m, c) => Comes(e, d)
    <3>1. a.osem = m.osem /\ a.tx = m.tx
      BY <2>5, <2>6 DEF Written, SameSems, SameDriver
    <3> QED  BY <3>1, <2>8, <2>11 DEF Comes, SameSems, SameDriver
  <2> QED  BY <2>11, <2>12, <2>13, <2>14, <2>15 DEF Served
<1> QED  BY <1>1, <1>2

LEMMA ClientWokenServes ==
    ASSUME NEW m, NEW c, NEW S, Good(m, c, S), Waiting(m, S), NEW e, e = ClientWoken(m)
    PROVE  Served(m, c, S, e)
<1>1. CASE ~Known(m, m.ip) /\ m.retry > 0
  <2> DEFINE r == m.retry - 1
             a == [m EXCEPT !.retry = r]
  <2>1. e = ClientAsk(a)
    BY <1>1 DEF ClientWoken
  <2>2. m \in Iface /\ r \in Nat
    BY <1>1 DEF Good, Iface
  <2> HIDE DEF r
  <2>3. /\ a \in Iface /\ a.cur = m.cur /\ a.ip = m.ip
        /\ SameLinks(m, a) /\ SameBuffers(m, a) /\ SameSems(m, a) /\ SameCache(m, a) /\ SameDriver(m, a)
    BY <2>2 DEF Iface, SameLinks, SameBuffers, SameSems, SameCache, SameDriver
  <2> HIDE DEF a
  <2>4. Good(a, c, S)
    BY <2>3, GoodSame DEF SameSems
  <2>5. Waiting(a, S) /\ a.frame = m.frame /\ a.held = m.held /\ (Comes(m, c) => Comes(a, c))
    BY <2>3 DEF Waiting, SameBuffers, Comes, SameSems, SameDriver
  <2>6. Served(a, c, S, e)
    BY <2>1, <2>4, <2>5, ClientAskServes
  <2> QED  BY <2>3, <2>5, <2>6 DEF Served, SameDriver
<1>2. CASE ~(~Known(m, m.ip) /\ m.retry > 0)
  BY <1>2, ClientEndServes DEF ClientWoken
<1> QED  BY <1>1, <1>2

-----------------------------------------------------------------------------
(* The invariant.                                                          *)

Alone(m) == {m.cur, m.tx, m.rx} \ {NIL}

\* The client and the transmitter, with the buffers S standing alone.
Steady(m, c, S) ==
    /\ Good(m, c, S)
    /\ (m.pc = "sem" /\ m.cur = NIL) \/ (m.pc = "reply" /\ Waiting(m, S))
    /\ m.tx # NIL => m.tx \in S /\ m.tx # m.cur /\ Right(m.frame[m.tx])

Quiet(m, c) ==
    /\ Steady(m, c, Alone(m))
    /\ m.rx # NIL => m.rx # m.cur /\ m.rx # m.tx /\ m.rx \notin m.held

NInv(m, c) == Quiet(m, c) /\ Comes(m, c)

LEMMA SetRx ==
    ASSUME NEW m \in Iface, NEW x \in Link, NEW e, e = [m EXCEPT !.rx = x]
    PROVE  /\ e \in Iface /\ e.rx = x /\ e.tx = m.tx
           /\ SameLinks(m, e) /\ SameBuffers(m, e) /\ SameSems(m, e) /\ SameCache(m, e) /\ SameClient(m, e)
BY DEF Iface, SameLinks, SameBuffers, SameSems, SameCache, SameClient

LEMMA SetTx ==
    ASSUME NEW m \in Iface, NEW x \in Link, NEW e, e = [m EXCEPT !.tx = x]
    PROVE  /\ e \in Iface /\ e.tx = x /\ e.rx = m.rx
           /\ SameLinks(m, e) /\ SameBuffers(m, e) /\ SameSems(m, e) /\ SameCache(m, e) /\ SameClient(m, e)
BY DEF Iface, SameLinks, SameBuffers, SameSems, SameCache, SameClient

\* A wake-up of the client keeps the invariant.
LEMMA ServedInv ==
    ASSUME NEW m, NEW c, NEW S, S = Alone(m), Good(m, c, S), Comes(m, c), Waiting(m, S),
           m.tx # NIL => m.tx # m.cur /\ Right(m.frame[m.tx]),
           m.rx # NIL => m.rx # m.cur /\ m.rx # m.tx /\ m.rx \notin m.held,
           NEW e, Served(m, c, S, e)
    PROVE  \E d : NInv(e, d) /\ e.rx = m.rx
<1>1. /\ e.tx = m.tx /\ e.rx = m.rx /\ m.cur # NIL /\ e.held = m.held
      /\ \A x \in S \ {m.cur} : e.frame[x] = m.frame[x]
  BY DEF Served, SameDriver, Alone, Waiting
<1>2. m.tx # NIL => m.tx \in S /\ m.tx # m.cur /\ Right(e.frame[m.tx])
  BY <1>1 DEF Alone
<1>3. PICK d : /\ Comes(e, d)
               /\ \/ e.pc = "sem" /\ e.cur = NIL /\ Good(e, d, S \ {m.cur})
                  \/ e.pc = "reply" /\ e.cur = m.cur /\ Good(e, d, S) /\ Waiting(e, S)
  BY DEF Served
<1>4. CASE e.pc = "sem" /\ e.cur = NIL /\ Good(e, d, S \ {m.cur})
  <2>1. Alone(e) = S \ {m.cur}
    BY <1>1, <1>2, <1>4 DEF Alone
  <2>2. Steady(e, d, Alone(e))
    <3>1. e.tx # NIL => e.tx \in S \ {m.cur} /\ e.tx # e.cur /\ Right(e.frame[e.tx])
      BY <1>1, <1>2, <1>4
    <3>2. Steady(e, d, S \ {m.cur})
      BY Zenon, <1>4, <3>1 DEF Steady
    <3> QED  BY Zenon, <2>1, <3>2
  <2> QED  BY <1>1, <1>3, <1>4, <2>2 DEF NInv, Quiet
<1>5. CASE e.pc = "reply" /\ e.cur = m.cur /\ Good(e, d, S) /\ Waiting(e, S)
  <2>1. Alone(e) = S
    BY <1>1, <1>5 DEF Alone
  <2>2. Steady(e, d, Alone(e))
    BY <1>1, <1>2, <1>5, <2>1 DEF Steady
  <2> QED  BY <1>1, <1>3, <1>5, <2>2 DEF NInv, Quiet
<1> QED  BY <1>3, <1>4, <1>5

\* vsfusbd_RNDIS_on_rx_finish: the receiver has no buffer and takes one.
LEMMA NextRxInv ==
    ASSUME NEW m, NEW c, Steady(m, c, {m.cur, m.tx} \ {NIL}), Comes(m, c), NEW e, e = NextRx(m)
    PROVE  NInv(e, c)
<1> DEFINE S == {m.cur, m.tx} \ {NIL}
<1>1. m \in Iface /\ Good(m, c, S) /\ NIL \in Link /\ S \in SUBSET Buf
  <2>1. Good(m, c, S)
    BY DEF Steady
  <2>2. m \in Iface /\ Own(m, c, S)
    BY <2>1 DEF Good
  <2>3. S \in SUBSET Buf
    BY <2>2 DEF Own
  <2>4. NIL \in Link
    BY NetifAssumption DEF Link, NIL
  <2> QED  BY <2>1, <2>2, <2>3, <2>4
<1>2. CASE Unused(m) = {}
  <2>1. e = [m EXCEPT !.rx = NIL]
    BY <1>2 DEF NextRx
  <2>2. /\ e \in Iface /\ e.rx = NIL /\ e.tx = m.tx
        /\ SameLinks(m, e) /\ SameBuffers(m, e) /\ SameSems(m, e) /\ SameCache(m, e) /\ SameClient(m, e)
    BY <1>1, <2>1, SetRx
  <2>3. Good(e, c, S)
    BY <1>1, <2>2, GoodSame DEF SameSems
  <2>4. Alone(e) = S
    BY <2>2 DEF Alone, SameClient
  <2> HIDE DEF S
  <2>5. Steady(e, c, S)
    BY <2>2, <2>3 DEF S, Steady, Waiting, SameClient, SameBuffers
  <2>6. Comes(e, c)
    BY <2>2 DEF Comes, SameSems
  <2> QED  BY <2>2, <2>4, <2>5, <2>6 DEF NInv, Quiet
<1>3. CASE Unused(m) # {}
  <2> DEFINE b == Min(Unused(m))
             g == Get(m, b)
  <2>1. e = [g EXCEPT !.rx = b]
    BY <1>3 DEF NextRx
  <2> HIDE DEF S
  <2>2. Good(g, c, S \cup {b}) /\ b \in Buf \ S /\ b \notin m.held /\ Gotten(m, b, g)
    <3> HIDE DEF b, g
    <3> QED  BY <1>1, <1>3, GoodGet DEF b, g
  <2> HIDE DEF b, g
  <2>3. /\ g \in Iface /\ g.frame = m.frame /\ g.held = m.held /\ SameSems(m, g)
        /\ SameClient(m, g) /\ SameDriver(m, g)
    BY <2>2 DEF Gotten
  <2>4. b \in Link /\ b # NIL
    BY <2>2 DEF Buf, Link, NIL
  <2>5. /\ e \in Iface /\ e.rx = b /\ e.tx = g.tx
        /\ SameLinks(g, e) /\ SameBuffers(g, e) /\ SameSems(g, e) /\ SameCache(g, e) /\ SameClient(g, e)
    BY <2>1, <2>3, <2>4, SetRx
  <2>6. Good(e, c, S \cup {b})
    BY <2>2, <2>5, GoodSame DEF SameSems
  <2>7. /\ e.cur = m.cur /\ e.tx = m.tx /\ e.pc = m.pc /\ e.ip = m.ip /\ e.frame = m.frame /\ e.held = m.held
        /\ e.osem = m.osem
    BY <2>3, <2>5 DEF SameClient, SameDriver, SameBuffers, SameSems
  <2>8. Alone(e) = S \cup {b}
    BY <2>4, <2>5, <2>7 DEF Alone, S
  <2>9. Steady(e, c, S \cup {b})
    BY <2>6, <2>7 DEF S, Steady, Waiting
  <2>10. Comes(e, c)
    BY <2>7 DEF Comes
  <2>11. e.rx # e.cur /\ e.rx # e.tx /\ e.rx \notin e.held
    BY <2>2, <2>4, <2>5, <2>7 DEF S
  <2> QED  BY <2>8, <2>9, <2>10, <2>11 DEF NInv, Quiet
<1> QED  BY <1>2, <1>3

\* The received packet is done with.
LEMMA RxDoneInv ==
    ASSUME NEW m, NEW c, NInv(m, c), m.rx # NIL, NEW e, e = NextRx(Release(m, m.rx))
    PROVE  NInv(e, c)
<1> DEFINE r == Release(m, m.rx)
           S == Alone(m)
<1>1. Good(m, c, S) /\ m.rx \in S /\ m.rx # m.cur /\ m.rx # m.tx /\ S \in SUBSET Buf
  BY DEF NInv, Quiet, Steady, Alone, Good, Own
<1> HIDE DEF S, r
<1>2. Good(r, c, S \ {m.rx}) /\ Keeps(m, r, m.rx) /\ SameSems(m, r)
  BY <1>1, GoodRelease DEF r
<1>3. /\ r.cur = m.cur /\ r.tx = m.tx /\ r.pc = m.pc /\ r.ip = m.ip /\ r.osem = m.osem
      /\ \A x \in S \ {m.rx} : r.frame[x] = m.frame[x]
  BY <1>1, <1>2 DEF Keeps, SameClient, SameDriver, SameSems
<1>4. S \ {m.rx} = {r.cur, r.tx} \ {NIL}
  BY <1>1, <1>3 DEF S, Alone
<1>5. Steady(r, c, S \ {m.rx})
  BY <1>1, <1>2, <1>3 DEF NInv, Quiet, Steady, Waiting, S
<1>6. Comes(r, c)
  BY <1>3 DEF NInv, Comes
<1> QED  BY <1>4, <1>5, <1>6, NextRxInv DEF r

\* vsfusbd_RNDIS_on_tx_finish: the sent frame is dropped and the next one taken.
LEMMA TxFinishInv ==
    ASSUME NEW m, NEW c, Quiet(m, c), NEW e, e = TxFinish(m)
    PROVE  \E d : NInv(e, d)
<1> DEFINE S == Alone(m)
           h == m.queue["outq"].head
           a == Dequeue(m, "outq")
           t == [a EXCEPT !.tx = h]
<1>1. /\ m \in Iface /\ Good(m, c, S) /\ S \in SUBSET Buf /\ NIL \in Link /\ "outq" \in Queues
      /\ m.queue \in [Queues -> [head : Link, tail : Link]] /\ Spells(m, "outq", c["outq"])
  <2>1. Good(m, c, S)
    BY DEF Quiet, Steady
  <2>2. m \in Iface /\ Own(m, c, S)
    BY <2>1 DEF Good
  <2> HIDE DEF S
  <2>3. S \in SUBSET Buf /\ "outq" \in Queues /\ Spells(m, "outq", c["outq"])
    BY <2>2, QueueNames DEF Own
  <2>4. NIL \in Link
    BY NetifAssumption DEF Link, NIL
  <2>5. m.queue \in [Queues -> [head : Link, tail : Link]]
    BY <2>2 DEF Iface
  <2> QED  BY <2>1, <2>2, <2>3, <2>4, <2>5
<1>2. e = IF m.tx = NIL THEN t ELSE Release(t, m.tx)
  BY DEF TxFinish
<1> HIDE DEF S, h, a, t
<1>3. \E d : /\ t \in Iface /\ t.tx = h /\ t.rx = m.rx /\ SameClient(m, t)
             /\ t.frame = m.frame /\ t.held = m.held
             /\ \/ h = NIL /\ Good(t, d, S) /\ d["outq"] = <<>>
                \/ h \in Buf \ S /\ Right(m.frame[h]) /\ Good(t, d, S \cup {h})
  <2>1. CASE c["outq"] = <<>>
    <3>1. h = NIL
      BY <1>1, <2>1 DEF Spells, h
    <3>2. a = m
      BY <3>1 DEF Dequeue, a, h
    <3>3. /\ t \in Iface /\ t.tx = h /\ t.rx = m.rx
          /\ SameLinks(m, t) /\ SameBuffers(m, t) /\ SameSems(m, t) /\ SameCache(m, t) /\ SameClient(m, t)
      BY <1>1, <3>1, <3>2, SetTx DEF t
    <3>4. Good(t, c, S)
      BY <1>1, <3>3, GoodSame DEF SameSems
    <3> QED  BY <2>1, <3>1, <3>3, <3>4 DEF SameBuffers
  <2>2. CASE c["outq"] # <<>>
    <3>1. h \in Link /\ h # NIL
      <4>1. c["outq"] \in Seq(Buf)
        BY <1>1 DEF Good, Own
      <4>2. c["outq"][1] \in Buf
        BY <4>1, <2>2
      <4>3. h = c["outq"][1]
        BY Zenon, <1>1, <2>2 DEF Spells, h
      <4> QED  BY <4>2, <4>3 DEF Buf, Link, NIL
    <3>2. Dequeued(m, "outq", a)
      BY <1>1, <3>1, DequeueIs DEF a, h
    <3>3. a \in Iface /\ SameSems(m, a) /\ SameClient(m, a) /\ SameDriver(m, a)
      BY <3>2 DEF Dequeued
    <3>4. /\ t \in Iface /\ t.tx = h /\ t.rx = a.rx
          /\ SameLinks(a, t) /\ SameBuffers(a, t) /\ SameSems(a, t) /\ SameCache(a, t) /\ SameClient(a, t)
      BY <3>1, <3>3, SetTx DEF t
    <3>5. Left(m, "outq", a, t)
      BY <3>3, <3>4, QueueNames DEF Left, SameSems
    <3> DEFINE q == "outq"
    <3>6. /\ Left(m, q, a, t) /\ a = Dequeue(m, q) /\ q \in Queues /\ c[q] # <<>> /\ q = "outq"
          /\ h = m.queue[q].head
      BY <1>1, <2>2, <3>5 DEF a, h
    <3> HIDE DEF q
    <3>7. Taken(m, c, S, q, h, t)
      BY <1>1, <3>6, GoodDequeue
    <3> QED  BY <3>3, <3>4, <3>6, <3>7 DEF SameClient, SameDriver, Taken
  <2> QED  BY <2>1, <2>2
<1>4. PICK d : /\ t \in Iface /\ t.tx = h /\ t.rx = m.rx /\ SameClient(m, t)
               /\ t.frame = m.frame /\ t.held = m.held
               /\ \/ h = NIL /\ Good(t, d, S) /\ d["outq"] = <<>>
                  \/ h \in Buf \ S /\ Right(m.frame[h]) /\ Good(t, d, S \cup {h})
  BY <1>3
<1> DEFINE H == {h} \ {NIL}
<1>5. /\ Good(t, d, S \cup H) /\ h \notin S /\ (h = NIL => d["outq"] = <<>>)
      /\ h # NIL => h \in Buf /\ Right(m.frame[h])
  <2>1. NIL \notin S /\ NIL \notin Buf
    BY <1>1 DEF Buf, NIL
  <2>2. CASE h = NIL
    <3>1. S \cup H = S
      BY <2>1, <2>2
    <3> QED  BY <1>4, <2>1, <2>2, <3>1
  <2>3. CASE h # NIL
    <3>1. H = {h}
      BY <2>3
    <3> QED  BY <1>4, <2>3, <3>1
  <2> QED  BY <2>2, <2>3
<1> HIDE DEF H
<1>6. /\ (m.pc = "sem" /\ m.cur = NIL) \/ (m.pc = "reply" /\ Waiting(m, S))
      /\ m.tx # NIL => m.tx \in S /\ m.tx # m.cur
      /\ m.rx # NIL => m.rx # m.cur /\ m.rx # m.tx /\ m.rx \notin m.held
  BY DEF Quiet, Steady, S
<1>7. /\ Good(e, d, (S \cup H) \ ({m.tx} \ {NIL})) /\ e.tx = h /\ e.rx = m.rx /\ SameClient(m, e) /\ e.held = m.held
      /\ \A x \in Buf \ {m.tx} : e.frame[x] = m.frame[x]
  <2>1. CASE m.tx = NIL
    <3>1. (S \cup H) \ ({m.tx} \ {NIL}) = S \cup H /\ e = t
      BY <2>1, <1>2
    <3> QED  BY <3>1, <1>4, <1>5
  <2>2. CASE m.tx # NIL
    <3>1. {m.tx} \ {NIL} = {m.tx} /\ e = Release(t, m.tx) /\ m.tx \in S \cup H
      BY <2>2, <1>2, <1>6
    <3>2. Good(e, d, (S \cup H) \ {m.tx}) /\ Keeps(t, e, m.tx)
      BY <3>1, <1>5, GoodRelease
    <3> QED  BY <3>1, <3>2, <1>4 DEF Keeps, SameClient, SameDriver
  <2> QED  BY <2>1, <2>2
<1>8. e.cur = m.cur /\ e.pc = m.pc /\ e.ip = m.ip
  BY <1>7 DEF SameClient
<1>9. Alone(e) = (S \cup H) \ ({m.tx} \ {NIL})
  <2>1. h # m.tx \/ h = NIL
    BY <1>5, <1>6
  <2>2. m.cur # m.tx \/ m.cur = NIL
    BY <1>6
  <2>3. m.rx # m.tx \/ m.rx = NIL
    BY <1>6
  <2> QED  BY <1>5, <1>7, <1>8, <2>1, <2>2, <2>3 DEF Alone, S, H
<1>10. e.tx # NIL => e.tx \in Alone(e) /\ e.tx # e.cur /\ Right(e.frame[e.tx])
  <2> SUFFICES ASSUME h # NIL PROVE h \in Alone(e) /\ h # m.cur /\ Right(e.frame[h])
    BY <1>7, <1>8
  <2>1. h # m.cur /\ h # m.tx /\ h \in Buf
    BY <1>5 DEF S, Alone
  <2> QED  BY <2>1, <1>5, <1>7 DEF Alone
<1>11. (e.pc = "sem" /\ e.cur = NIL) \/ (e.pc = "reply" /\ Waiting(e, Alone(e)))
  <2>1. CASE m.pc = "sem" /\ m.cur = NIL
    BY <2>1, <1>8
  <2>2. CASE m.pc = "reply" /\ Waiting(m, S)
    <3>1. m.cur \in S /\ m.cur # NIL /\ m.cur # m.tx /\ m.cur \in Buf /\ m.cur \in Alone(e)
      BY <2>2, <1>1, <1>6, <1>8 DEF Waiting, S, Alone
    <3> QED  BY <2>2, <3>1, <1>7, <1>8 DEF Waiting
  <2> QED  BY <2>1, <2>2, <1>6
<1>12. Good(e, d, Alone(e))
  BY Zenon, <1>7, <1>9
<1>13. e.rx # NIL => e.rx # e.cur /\ e.rx # e.tx /\ e.rx \notin e.held
  BY <1>5, <1>6, <1>7, <1>8 DEF S, Alone
<1>14. Comes(e, d)
  BY <1>5, <1>7 DEF Comes
<1> QED  BY <1>10, <1>11, <1>12, <1>13, <1>14 DEF NInv, Quiet, Steady

-----------------------------------------------------------------------------
(* The steps.                                                              *)

LEMMA NInvFacts ==
    ASSUME NEW m, NEW c, NInv(m, c)
    PROVE  /\ m \in Iface /\ Good(m, c, Alone(m)) /\ Own(m, c, Alone(m)) /\ Comes(m, c)
           /\ (m.pc = "sem" /\ m.cur = NIL) \/ (m.pc = "reply" /\ Waiting(m, Alone(m)))
           /\ m.tx # NIL => m.tx # m.cur /\ Right(m.frame[m.tx])
           /\ m.rx # NIL => m.rx # m.cur /\ m.rx # m.tx /\ m.rx \notin m.held
           /\ Alone(m) \in SUBSET Buf /\ NIL \in Link
<1>1. Good(m, c, Alone(m))
  BY DEF NInv, Quiet, Steady
<1>2. m \in Iface /\ Own(m, c, Alone(m))
  BY <1>1 DEF Good
<1>3. Alone(m) \in SUBSET Buf
  BY <1>2 DEF Own
<1>4. NIL \in Link
  BY NetifAssumption DEF NIL, Link
<1> QED  BY <1>1, <1>2, <1>3, <1>4 DEF NInv, Quiet, Steady

\* A step that leaves the hands alone.
LEMMA SameHands ==
    ASSUME NEW m, NEW c, NInv(m, c), NEW e, NEW d, Good(e, d, Alone(m)), Comes(e, d),
           SameClient(m, e), SameDriver(m, e), \A x \in Alone(m) : e.frame[x] = m.frame[x],
           m.rx # NIL => m.rx \notin e.held
    PROVE  NInv(e, d)
<1>1. /\ (m.pc = "sem" /\ m.cur = NIL) \/ (m.pc = "reply" /\ Waiting(m, Alone(m)))
      /\ m.tx # NIL => m.tx # m.cur /\ Right(m.frame[m.tx])
      /\ m.rx # NIL => m.rx # m.cur /\ m.rx # m.tx /\ m.rx \notin m.held
  BY NInvFacts
<1>2. Alone(e) = Alone(m) /\ e.tx = m.tx /\ e.rx = m.rx /\ e.cur = m.cur /\ e.pc = m.pc /\ e.ip = m.ip
  BY DEF Alone, SameClient, SameDriver
<1>3. (m.tx # NIL => m.tx \in Alone(m)) /\ (Waiting(m, Alone(m)) => m.cur \in Alone(m))
  BY DEF Alone, Waiting
<1>4. Waiting(m, Alone(m)) => Waiting(e, Alone(m))
  BY <1>2 DEF Waiting
<1>5. Steady(e, d, Alone(m))
  BY <1>1, <1>2, <1>3, <1>4 DEF Steady
<1>6. Steady(e, d, Alone(e))
  BY Zenon, <1>2, <1>5
<1> QED  BY <1>1, <1>2, <1>6 DEF NInv, Quiet

LEMMA ClientWokenInv ==
    ASSUME NEW m, NEW c, NInv(m, c), m.pc = "reply", NEW e, e = ClientWoken(m)
    PROVE  \E d : NInv(e, d) /\ e.rx = m.rx
<1>1. Waiting(m, Alone(m)) /\ Good(m, c, Alone(m)) /\ Comes(m, c)
  BY NInvFacts
<1>2. Served(m, c, Alone(m), e)
  BY <1>1, ClientWokenServes
<1>3. /\ m.tx # NIL => m.tx # m.cur /\ Right(m.frame[m.tx])
      /\ m.rx # NIL => m.rx # m.cur /\ m.rx # m.tx /\ m.rx \notin m.held
  BY NInvFacts
<1> QED  BY <1>1, <1>2, <1>3, ServedInv

LEMMA ClientNextInv ==
    ASSUME NEW m, NEW c, NInv(m, c), m.pc = "sem", m.rsem > 0, NEW e, e = ClientNext(m)
    PROVE  \E d : NInv(e, d)
<1> DEFINE S == Alone(m)
           q == "requestq"
           h == m.queue[q].head
           a == Dequeue(m, q)
           r == m.rsem - 1
           t == [a EXCEPT !.rsem = r]
           ip == Via[m.frame[h].dst]
           w == [t EXCEPT !.cur = h, !.ip = ip, !.retry = Retry]
<1>1. /\ m \in Iface /\ Good(m, c, S) /\ Own(m, c, S) /\ S \in SUBSET Buf /\ NIL \in Link /\ m.cur = NIL
      /\ Comes(m, c)
      /\ m.tx # NIL => m.tx # m.cur /\ Right(m.frame[m.tx])
      /\ m.rx # NIL => m.rx # m.cur /\ m.rx # m.tx /\ m.rx \notin m.held
  BY NInvFacts
<1>2. q \in Queues /\ q = "requestq" /\ "requestq" # "outq"
  BY QueueNames
<1>3. e = IF h = NIL THEN t ELSE IF Known(w, w.ip) THEN ClientEnd(w) ELSE ClientAsk(w)
  <2>1. Dequeue(m, q).rsem = m.rsem
    BY <1>1 DEF Dequeue, Iface
  <2> QED  BY <2>1 DEF ClientNext
<1>4. c \in [Queues -> Seq(Buf)] /\ c[q] \in Seq(Buf) /\ Spells(m, q, c[q]) /\ m.rsem = Len(c[q]) /\ m.rsem \in Nat
  BY <1>1, <1>2 DEF Own, Good, Iface
<1> HIDE DEF S, q, h, a, t, ip, w
<1>5. c[q] # <<>> /\ r \in Nat
  BY <1>4
<1>6. h \in Link /\ h # NIL
  <2>1. c[q][1] \in Buf
    BY <1>4, <1>5
  <2>2. h = c[q][1]
    BY Zenon, <1>4, <1>5 DEF Spells, h
  <2> QED  BY <2>1, <2>2 DEF Buf, Link, NIL
<1> HIDE DEF r
<1>7. Dequeued(m, q, a)
  BY <1>1, <1>2, <1>6, DequeueIs DEF a, h
<1>8. a \in Iface /\ a.osem = m.osem /\ SameClient(m, a) /\ SameDriver(m, a)
  BY <1>7 DEF Dequeued, SameSems
<1>9. /\ t \in Iface /\ t.rsem = r /\ t.osem = a.osem
      /\ SameLinks(a, t) /\ SameBuffers(a, t) /\ SameCache(a, t) /\ SameClient(a, t) /\ SameDriver(a, t)
  BY <1>5, <1>8, SetRsem DEF t
<1>10. Left(m, q, a, t)
  BY <1>2, <1>9 DEF Left, r
<1>11. Taken(m, c, S, q, h, t)
  BY <1>1, <1>2, <1>5, <1>10, GoodDequeue DEF a, h
<1>12. PICK d : Good(t, d, S \cup {h}) /\ d["outq"] = c["outq"]
  BY <1>2, <1>11 DEF Taken
<1>13. h \in Buf \ S /\ t.frame = m.frame /\ t.held = m.held /\ m.frame[h].dst \in IPs /\ ip \in Hops
  BY <1>2, <1>11, NetifAssumption DEF Taken, ip
<1>14. /\ w \in Iface /\ w.cur = h /\ w.ip = ip
       /\ SameLinks(t, w) /\ SameBuffers(t, w) /\ SameSems(t, w) /\ SameCache(t, w) /\ SameDriver(t, w)
  BY <1>6, <1>9, <1>13, NetifAssumption DEF w, Iface, SameLinks, SameBuffers, SameSems, SameCache, SameDriver
<1>15. Good(w, d, S \cup {h})
  BY <1>12, <1>14, GoodSame DEF SameSems
<1>16. /\ w.frame = m.frame /\ w.held = m.held /\ w.tx = m.tx /\ w.rx = m.rx /\ w.osem = m.osem
  BY <1>8, <1>9, <1>13, <1>14 DEF SameBuffers, SameSems, SameDriver
<1>17. Waiting(w, S \cup {h})
  BY <1>13, <1>14, <1>16 DEF Waiting, ip
<1>18. Comes(w, d)
  BY <1>1, <1>12, <1>16 DEF Comes
<1>19. S \cup {h} = Alone(w)
  BY <1>1, <1>6, <1>14, <1>16 DEF Alone, S
<1>20. Served(w, d, S \cup {h}, e)
  <2>1. CASE Known(w, w.ip)
    BY <2>1, <1>3, <1>6, <1>15, <1>17, ClientEndServes
  <2>2. CASE ~Known(w, w.ip)
    BY <2>2, <1>3, <1>6, <1>15, <1>17, ClientAskServes
  <2> QED  BY <2>1, <2>2
<1>21. /\ w.tx # NIL => w.tx # w.cur /\ Right(w.frame[w.tx])
       /\ w.rx # NIL => w.rx # w.cur /\ w.rx # w.tx /\ w.rx \notin w.held
  BY <1>1, <1>13, <1>14, <1>16 DEF S, Alone
<1> QED  BY <1>15, <1>17, <1>18, <1>19, <1>20, <1>21, ServedInv

LEMMA InputReplyInv ==
    ASSUME NEW m, NEW c, NInv(m, c), m.rx # NIL, NEW ip \in Hops, NEW e, e = InputReply(m, ip)
    PROVE  \E d : NInv(e, d)
<1> DEFINE a == AddAssoc(m, ip, ip)
           w == IF a.pc = "reply" THEN ClientWoken(a) ELSE a
<1>1. e = NextRx(Release(w, m.rx))
  BY DEF InputReply
<1> HIDE DEF a
<1>2. /\ Good(a, c, Alone(m)) /\ SameBuffers(m, a) /\ SameSems(m, a)
      /\ SameClient(m, a) /\ SameDriver(m, a)
  BY NInvFacts, GoodAddAssoc DEF a
<1>3. NInv(a, c) /\ a.rx = m.rx
  <2>1. Comes(a, c)
    BY <1>2 DEF NInv, Comes, SameSems, SameDriver
  <2>2. m.rx \notin a.held /\ a.frame = m.frame
    BY <1>2, NInvFacts DEF SameBuffers
  <2>3. NInv(a, c)
    BY <1>2, <2>1, <2>2, SameHands
  <2> QED  BY <1>2, <2>3 DEF SameDriver
<1>4. PICK d : NInv(w, d) /\ w.rx = m.rx
  <2>1. CASE a.pc = "reply"
    BY <2>1, <1>3, ClientWokenInv
  <2>2. CASE a.pc # "reply"
    BY <2>2, <1>3
  <2> QED  BY <2>1, <2>2
<1> HIDE DEF w
<1> QED  BY <1>1, <1>4, RxDoneInv

LEMMA InputRequestInv ==
    ASSUME NEW m, NEW c, NInv(m, c), m.rx # NIL, NEW ip \in Hops, NEW e, e = InputRequest(m, ip)
    PROVE  \E d : NInv(e, d)
<1> DEFINE S == Alone(m)
           b == m.rx
           f == [dst |-> ip, room |-> TRUE, proto |-> "reply", mac |-> ip]
           fr == [m.frame EXCEPT ![b] = f]
           a == [m EXCEPT !.frame[b] = f]
           o == OutputDo(a, b, "reply", ip)
<1>1. e = NextRx(o)
  BY DEF InputRequest
<1>2. /\ m \in Iface /\ Good(m, c, S) /\ S \in SUBSET Buf /\ Comes(m, c) /\ b \in S /\ b \in Buf
      /\ (m.pc = "sem" /\ m.cur = NIL) \/ (m.pc = "reply" /\ Waiting(m, S))
      /\ m.tx # NIL => m.tx # m.cur /\ Right(m.frame[m.tx])
      /\ b # m.cur /\ b # m.tx /\ b \notin m.held
  <2>1. b \in S
    BY DEF Alone
  <2>2. b \in Buf
    BY <2>1, NInvFacts
  <2> QED  BY <2>1, <2>2, NInvFacts
<1>3. f \in Frame /\ m.frame \in [Buf -> Frame]
  BY <1>2 DEF Frame, Iface
<1> HIDE DEF f
<1>4. fr \in [Buf -> Frame]
  BY <1>2, <1>3
<1>5. a = [m EXCEPT !.frame = fr]
  BY <1>2 DEF Iface
<1> HIDE DEF fr, a
<1>6. /\ a \in Iface /\ SameLinks(m, a) /\ SameSems(m, a) /\ SameCache(m, a)
      /\ SameClient(m, a) /\ SameDriver(m, a) /\ a.ref = m.ref /\ a.held = m.held /\ a.frame = fr
  BY <1>2, <1>4, <1>5 DEF Iface, SameLinks, SameSems, SameCache, SameClient, SameDriver
<1>7. Written(m, b, f, a)
  BY <1>2, <1>3, <1>6 DEF Written, fr
<1> HIDE DEF S, b
<1>8. Good(a, c, S) /\ Keeps(m, a, b)
  BY <1>2, <1>7, GoodWrite
<1>9. PICK d : Good(o, d, S \ {b}) /\ Keeps(a, o, b) /\ (Comes(a, c) => Comes(o, d))
  BY <1>2, <1>8, GoodOutputDo
<1> HIDE DEF o
<1>10. /\ o.cur = m.cur /\ o.tx = m.tx /\ o.pc = m.pc /\ o.ip = m.ip
       /\ \A x \in S \ {b} : o.frame[x] = m.frame[x]
  BY <1>2, <1>8, <1>9 DEF Keeps, SameClient, SameDriver
<1>11. S \ {b} = {o.cur, o.tx} \ {NIL}
  BY <1>2, <1>10 DEF S, Alone, b
<1>12. Comes(o, d)
  BY <1>2, <1>6, <1>9 DEF Comes, SameSems, SameDriver
<1>13. Waiting(m, S) => Waiting(o, S \ {b})
  BY <1>2, <1>10 DEF Waiting
<1>14. m.tx # NIL => m.tx \in S \ {b}
  BY <1>2 DEF S, Alone
<1>15. Steady(o, d, S \ {b})
  BY <1>2, <1>9, <1>10, <1>13, <1>14 DEF Steady
<1> QED  BY <1>1, <1>11, <1>12, <1>15, NextRxInv

\* vsfip_ip_output: a buffer is taken from the pool, perhaps held by TCP, and given to the interface.
LEMMA SendInv ==
    ASSUME NEW m, NEW c, NInv(m, c), Unused(m) # {}, NEW p \in [dst : IPs, room : BOOLEAN, held : BOOLEAN],
           NEW b, b = Min(Unused(m)),
           NEW e, e = IpOutput([Get(m, b) EXCEPT
                    !.frame[b] = [dst |-> p.dst, room |-> p.room, proto |-> "ip", mac |-> Bcast],
                    !.held = IF p.held THEN @ \cup {b} ELSE @,
                    !.ref[b] = IF p.held THEN 2 ELSE 1], b)
    PROVE  \E d : NInv(e, d)
<1> DEFINE S == Alone(m)
           g == Get(m, b)
           f == [dst |-> p.dst, room |-> p.room, proto |-> "ip", mac |-> Bcast]
           fr == [m.frame EXCEPT ![b] = f]
           hd == IF p.held THEN m.held \cup {b} ELSE m.held
           rf == [m.ref EXCEPT ![b] = IF p.held THEN 2 ELSE 1]
           a == [g EXCEPT !.frame[b] = f, !.held = IF p.held THEN @ \cup {b} ELSE @,
                          !.ref[b] = IF p.held THEN 2 ELSE 1]
<1>1. m \in Iface /\ Good(m, c, S) /\ Own(m, c, S) /\ S \in SUBSET Buf /\ Comes(m, c)
  BY NInvFacts
<1> HIDE DEF S
<1>2. Good(g, c, S \cup {b}) /\ b \in Buf \ S /\ b \notin m.held /\ Gotten(m, b, g)
  BY <1>1, GoodGet
<1>3. ~In(c, b)
  BY <1>2 DEF Good, Own
<1> HIDE DEF g
<1>4. /\ g \in Iface /\ g.frame = m.frame /\ g.held = m.held /\ g.ref = [m.ref EXCEPT ![b] = 1]
      /\ SameLinks(m, g) /\ SameSems(m, g) /\ SameCache(m, g) /\ SameClient(m, g) /\ SameDriver(m, g)
  BY <1>2 DEF Gotten
<1>5. m.frame \in [Buf -> Frame] /\ m.ref \in [Buf -> Nat] /\ m.held \in SUBSET Buf
  BY <1>1 DEF Iface
<1>6. f \in Frame /\ f.dst = p.dst /\ p.dst \in IPs
  BY NoFrameIs DEF Frame
<1>7. fr \in [Buf -> Frame]
  BY <1>5, <1>6
<1>8. hd \in SUBSET Buf
  BY <1>2, <1>5
<1>9. rf \in [Buf -> Nat]
  BY <1>5
<1>10. [g.ref EXCEPT ![b] = IF p.held THEN 2 ELSE 1] = rf
  BY <1>2, <1>4, <1>5
<1> HIDE DEF f
<1>11. a = [g EXCEPT !.frame = fr, !.held = hd, !.ref = rf]
  <2> HIDE DEF rf
  <2> QED  BY <1>4, <1>10 DEF Iface
<1>12. e = IpOutput(a, b)
  BY DEF a, f, g
<1> HIDE DEF a
<1>13. /\ a \in Iface /\ a.frame = fr /\ a.held = hd /\ a.ref = rf
       /\ SameLinks(g, a) /\ SameSems(g, a) /\ SameCache(g, a) /\ SameClient(g, a) /\ SameDriver(g, a)
  <2> HIDE DEF fr, hd, rf
  <2> QED  BY <1>4, <1>7, <1>8, <1>9, <1>11 DEF Iface, SameLinks, SameSems, SameCache, SameClient, SameDriver
<1>14. /\ \A x \in Buf \ {b} : a.frame[x] = m.frame[x] /\ a.ref[x] = m.ref[x] /\ (x \in a.held <=> x \in m.held)
       /\ a.frame[b] = f /\ a.ref[b] = IF p.held THEN 2 ELSE 1
       /\ b \in a.held <=> p.held
  BY <1>2, <1>5, <1>13
<1> HIDE DEF fr, hd, rf
<1>15. SameLinks(m, a) /\ SameSems(m, a) /\ SameCache(m, a) /\ SameClient(m, a) /\ SameDriver(m, a)
  BY <1>4, <1>13 DEF SameLinks, SameSems, SameCache, SameClient, SameDriver
<1>16. Own(a, c, S \cup {b})
  <2>1. c \in [Queues -> Seq(Buf)] /\ S \cup {b} \in SUBSET Buf /\ Apart(c)
        /\ \A x \in S \cup {b} : ~In(c, x)
    BY <1>1, <1>2, <1>3 DEF Own
  <2>2. \A q \in Queues : Spells(a, q, c[q])
    BY <1>1, <1>15 DEF Own, Spells, SameLinks
  <2>3. ASSUME NEW x \in Buf
        PROVE  a.ref[x] = One(In(c, x) \/ x \in S \cup {b}) + One(x \in a.held)
    <3>1. CASE x = b
      BY <3>1, <1>14 DEF One
    <3>2. CASE x # b
      BY <3>2, <1>1, <1>14 DEF Own, One
    <3> QED  BY <3>1, <3>2
  <2> QED  BY <2>1, <2>2, <2>3 DEF Own
<1>17. Good(a, c, S \cup {b})
  <2>1. \A q \in Queues : \A i \in 1 .. Len(c[q]) : c[q][i] \in Buf \ {b}
    BY <1>1, <1>3 DEF Own, In
  <2>2. /\ \A i \in 1 .. Len(c["outq"]) : a.frame[c["outq"][i]] = m.frame[c["outq"][i]]
        /\ \A i \in 1 .. Len(c["requestq"]) : a.frame[c["requestq"][i]] = m.frame[c["requestq"][i]]
    BY <1>14, <2>1, QueueNames
  <2>3. \A x \in a.held : a.frame[x].dst \in IPs
    BY <1>1, <1>5, <1>6, <1>13, <1>14 DEF Good, Iface
  <2>4. /\ \A i \in 1 .. Len(c["outq"]) : Right(a.frame[c["outq"][i]])
        /\ \A i \in 1 .. Len(c["requestq"]) : a.frame[c["requestq"][i]].dst \in IPs
        /\ a.rsem = Len(c["requestq"])
        /\ \A i \in 1 .. CacheSize : a.cache[i].time > 0 => a.cache[i].mac = a.cache[i].ip
    BY <1>1, <1>15, <2>2 DEF Good, SameSems, SameCache
  <2> QED  BY <1>13, <1>16, <2>3, <2>4 DEF Good
<1>18. a.frame[b].dst \in IPs
  BY <1>6, <1>14
<1>19. PICK d : Good(e, d, (S \cup {b}) \ {b}) /\ Keeps(a, e, b) /\ (Comes(a, c) => Comes(e, d))
  BY <1>12, <1>17, <1>18, GoodIpOutput
<1>20. (S \cup {b}) \ {b} = S
  BY <1>2
<1>21. Comes(e, d)
  BY <1>1, <1>15, <1>19 DEF Comes, SameSems, SameDriver
<1>22. SameClient(m, e) /\ SameDriver(m, e) /\ e.held = a.held /\ \A x \in S : e.frame[x] = m.frame[x]
  BY <1>1, <1>2, <1>14, <1>15, <1>19 DEF Keeps, SameClient, SameDriver
<1>23. m.rx # NIL => m.rx \notin e.held
  <2> SUFFICES ASSUME m.rx # NIL PROVE m.rx \notin e.held
    OBVIOUS
  <2>1. m.rx \in S /\ m.rx \notin m.held
    BY NInvFacts DEF S, Alone
  <2> QED  BY <2>1, <1>1, <1>2, <1>14, <1>22
<1> QED  BY <1>19, <1>20, <1>21, <1>22, <1>23, SameHands DEF S

\* vsfip_tcp_socket_tick: a buffer that has left the interface is given to it again.
LEMMA ResendInv ==
    ASSUME NEW m, NEW c, NInv(m, c), NEW b \in m.held, ~In(c, b), b \notin Alone(m),
           NEW e, e = IpOutput([m EXCEPT !.ref[b] = @ + 1], b)
    PROVE  \E d : NInv(e, d)
<1> DEFINE S == Alone(m)
           rf == [m.ref EXCEPT ![b] = m.ref[b] + 1]
           a == [m EXCEPT !.ref[b] = @ + 1]
<1>1. m \in Iface /\ Good(m, c, S) /\ Own(m, c, S) /\ S \in SUBSET Buf /\ Comes(m, c)
  BY NInvFacts
<1>2. m.ref \in [Buf -> Nat] /\ m.held \in SUBSET Buf /\ b \in Buf /\ m.ref[b] \in Nat
  BY <1>1 DEF Iface
<1>3. rf \in [Buf -> Nat]
  BY <1>2
<1>4. a = [m EXCEPT !.ref = rf]
  BY <1>1 DEF Iface
<1>5. e = IpOutput(a, b)
  OBVIOUS
<1> HIDE DEF a, rf, S
<1>6. /\ a \in Iface /\ a.frame = m.frame /\ a.held = m.held /\ a.ref = rf
      /\ SameLinks(m, a) /\ SameSems(m, a) /\ SameCache(m, a) /\ SameClient(m, a) /\ SameDriver(m, a)
  BY <1>1, <1>3, <1>4 DEF Iface, SameLinks, SameSems, SameCache, SameClient, SameDriver
<1>7. a.ref[b] = m.ref[b] + 1 /\ \A x \in Buf \ {b} : a.ref[x] = m.ref[x]
  BY <1>2, <1>6 DEF rf
<1>8. Own(a, c, S \cup {b})
  <2>1. c \in [Queues -> Seq(Buf)] /\ S \cup {b} \in SUBSET Buf /\ Apart(c)
        /\ \A x \in S \cup {b} : ~In(c, x)
    BY <1>1, <1>2 DEF Own
  <2>2. \A q \in Queues : Spells(a, q, c[q])
    BY <1>1, <1>6 DEF Own, Spells, SameLinks
  <2>3. ASSUME NEW x \in Buf
        PROVE  a.ref[x] = One(In(c, x) \/ x \in S \cup {b}) + One(x \in a.held)
    <3>0. m.ref[x] = One(In(c, x) \/ x \in S) + One(x \in m.held)
      BY <1>1 DEF Own
    <3>1. CASE x = b
      BY <3>0, <3>1, <1>6, <1>7 DEF One, S
    <3>2. CASE x # b
      BY <3>0, <3>2, <1>6, <1>7 DEF One
    <3> QED  BY <3>1, <3>2
  <2> QED  BY <2>1, <2>2, <2>3 DEF Own
<1>9. Good(a, c, S \cup {b}) /\ a.frame[b].dst \in IPs
  BY <1>1, <1>6, <1>8 DEF Good, SameSems, SameCache
<1>10. PICK d : Good(e, d, (S \cup {b}) \ {b}) /\ Keeps(a, e, b) /\ (Comes(a, c) => Comes(e, d))
  BY <1>5, <1>9, GoodIpOutput
<1>11. (S \cup {b}) \ {b} = S
  BY DEF S
<1>12. Comes(e, d)
  BY <1>1, <1>6, <1>10 DEF Comes, SameSems, SameDriver
<1>13. SameClient(m, e) /\ SameDriver(m, e) /\ e.held = m.held /\ \A x \in S : e.frame[x] = m.frame[x]
  BY <1>1, <1>6, <1>10 DEF Keeps, SameClient, SameDriver, S
<1>14. m.rx # NIL => m.rx \notin e.held
  BY <1>13, NInvFacts
<1> QED  BY <1>10, <1>11, <1>12, <1>13, <1>14, SameHands DEF S

\* The data is acknowledged: TCP drops its reference wherever the buffer stands.
LEMMA AcknowledgedInv ==
    ASSUME NEW m, NEW c, NInv(m, c), NEW b \in m.held,
           NEW e, e = [Release(m, b) EXCEPT !.held = @ \ {b}]
    PROVE  NInv(e, c)
<1> DEFINE S == Alone(m)
           r == Release(m, b)
           hd == m.held \ {b}
<1>1. m \in Iface /\ Good(m, c, S) /\ Own(m, c, S) /\ S \in SUBSET Buf /\ Comes(m, c)
  BY NInvFacts
<1>2. /\ m.ref \in [Buf -> Nat] /\ m.held \in SUBSET Buf /\ b \in Buf /\ m.ref[b] \in Nat /\ hd \in SUBSET Buf
      /\ m.frame \in [Buf -> Frame] /\ m.next \in [Buf -> Link]
  BY <1>1 DEF Iface
<1> HIDE DEF r, S
<1>3. Released(m, b, r)
  BY <1>1, <1>2, ReleaseIs DEF r
<1>4. /\ r \in Iface
      /\ r.ref = [m.ref EXCEPT ![b] = IF m.ref[b] > 1 THEN m.ref[b] - 1 ELSE 0]
      /\ r.frame = IF m.ref[b] > 1 THEN m.frame ELSE [m.frame EXCEPT ![b] = NoFrame]
      /\ r.next = IF m.ref[b] > 1 THEN m.next ELSE [m.next EXCEPT ![b] = NIL]
      /\ r.queue = m.queue /\ r.held = m.held
      /\ SameSems(m, r) /\ SameCache(m, r) /\ SameClient(m, r) /\ SameDriver(m, r)
  BY <1>3 DEF Released
<1>5. e = [r EXCEPT !.held = hd]
  BY <1>4 DEF r
<1> HIDE DEF hd
<1>6. /\ e \in Iface /\ e.held = hd /\ e.ref = r.ref /\ e.frame = r.frame /\ e.next = r.next /\ e.queue = r.queue
      /\ SameSems(r, e) /\ SameCache(r, e) /\ SameClient(r, e) /\ SameDriver(r, e)
  <2>1. r \in Iface /\ hd \in SUBSET Buf
    BY <1>2, <1>4
  <2> QED  BY <2>1, <1>5 DEF Iface, SameSems, SameCache, SameClient, SameDriver
<1>7. /\ m.ref[b] = One(In(c, b) \/ b \in S) + 1
      /\ m.ref[b] > 1 <=> In(c, b) \/ b \in S
  BY <1>1, <1>2 DEF Own, One
<1>8. /\ e.ref[b] = One(In(c, b) \/ b \in S)
      /\ \A x \in Buf \ {b} : e.ref[x] = m.ref[x]
  BY <1>2, <1>4, <1>6, <1>7 DEF One
<1>9. \A x \in Buf : x # b \/ In(c, b) \/ b \in S => e.frame[x] = m.frame[x] /\ e.next[x] = m.next[x]
  BY <1>2, <1>4, <1>6, <1>7
<1>10. \A x \in Buf : In(c, x) \/ x \in S => e.frame[x] = m.frame[x] /\ e.next[x] = m.next[x]
  BY <1>9
<1>11. \A q \in Queues : \A i \in 1 .. Len(c[q]) : c[q][i] \in Buf /\ In(c, c[q][i])
  BY <1>1 DEF Own, In
<1>12. Own(e, c, S)
  <2>1. c \in [Queues -> Seq(Buf)] /\ Apart(c) /\ \A x \in S : ~In(c, x)
    BY <1>1 DEF Own
  <2>2. \A q \in Queues : Spells(e, q, c[q])
    <3> SUFFICES ASSUME NEW q \in Queues PROVE Spells(e, q, c[q])
      OBVIOUS
    <3>1. Spells(m, q, c[q]) /\ c[q] \in Seq(Buf) /\ e.queue[q] = m.queue[q]
      BY <1>1, <1>4, <1>6 DEF Own
    <3>2. \A i \in 1 .. Len(c[q]) : e.next[c[q][i]] = m.next[c[q][i]]
      BY <1>10, <1>11
    <3> QED  BY <3>1, <3>2, SpellsSame, ZenonT(60)
  <2>3. ASSUME NEW x \in Buf
        PROVE  e.ref[x] = One(In(c, x) \/ x \in S) + One(x \in e.held)
    <3>0. m.ref[x] = One(In(c, x) \/ x \in S) + One(x \in m.held)
      BY <1>1 DEF Own
    <3>1. CASE x = b
      BY <3>1, <1>6, <1>8 DEF One, hd
    <3>2. CASE x # b
      BY <3>0, <3>2, <1>6, <1>8 DEF One, hd
    <3> QED  BY <3>1, <3>2
  <2> QED  BY <1>1, <2>1, <2>2, <2>3 DEF Own
<1>13. Good(e, c, S)
  <2>1. /\ \A i \in 1 .. Len(c["outq"]) : e.frame[c["outq"][i]] = m.frame[c["outq"][i]]
        /\ \A i \in 1 .. Len(c["requestq"]) : e.frame[c["requestq"][i]] = m.frame[c["requestq"][i]]
    BY <1>10, <1>11, QueueNames
  <2>2. \A x \in e.held : e.frame[x].dst \in IPs
    BY <1>1, <1>2, <1>6, <1>9 DEF Good, hd
  <2>3. /\ \A i \in 1 .. Len(c["outq"]) : Right(e.frame[c["outq"][i]])
        /\ \A i \in 1 .. Len(c["requestq"]) : e.frame[c["requestq"][i]].dst \in IPs
        /\ e.rsem = Len(c["requestq"])
        /\ \A i \in 1 .. CacheSize : e.cache[i].time > 0 => e.cache[i].mac = e.cache[i].ip
    BY <1>1, <1>4, <1>6, <2>1 DEF Good, SameSems, SameCache
  <2> QED  BY <1>6, <1>12, <2>2, <2>3 DEF Good
<1>14. SameClient(m, e) /\ SameDriver(m, e) /\ Comes(e, c)
  BY <1>1, <1>4, <1>6 DEF SameClient, SameDriver, Comes, SameSems
<1>15. /\ \A x \in S : e.frame[x] = m.frame[x]
       /\ m.rx # NIL => m.rx \notin e.held
  BY <1>1, <1>6, <1>10, NInvFacts DEF hd
<1> QED  BY <1>13, <1>14, <1>15, SameHands DEF S

\* vsfusbd_RNDIS_evt_handler: a wake-up is skipped while a frame is being sent.
LEMMA DriverInv ==
    ASSUME NEW m, NEW c, NInv(m, c), m.osem > 0,
           NEW e, e = LET o == [m EXCEPT !.osem = @ - 1] IN IF m.tx = NIL THEN TxFinish(o) ELSE o
    PROVE  \E d : NInv(e, d)
<1> DEFINE k == m.osem - 1
           o == [m EXCEPT !.osem = k]
<1>1. m \in Iface /\ Good(m, c, Alone(m))
  BY NInvFacts
<1>2. k \in Nat
  BY <1>1 DEF Iface
<1>3. e = IF m.tx = NIL THEN TxFinish(o) ELSE o
  OBVIOUS
<1> HIDE DEF k
<1>4. /\ o \in Iface /\ o.rsem = m.rsem
      /\ SameLinks(m, o) /\ SameBuffers(m, o) /\ SameCache(m, o)
      /\ SameClient(m, o) /\ SameDriver(m, o)
  BY <1>1, <1>2, SetOsem
<1> HIDE DEF o
<1>5. Good(o, c, Alone(m))
  BY <1>1, <1>4, GoodSame
<1>6. Alone(o) = Alone(m)
  BY <1>4 DEF Alone, SameClient, SameDriver
<1>7. Good(o, c, Alone(o))
  BY Zenon, <1>5, <1>6
<1>8. Quiet(o, c)
  BY <1>4, <1>6, <1>7 DEF NInv, Quiet, Steady, Waiting, SameClient, SameDriver, SameBuffers
<1>9. CASE m.tx = NIL
  BY <1>3, <1>8, <1>9, TxFinishInv
<1>10. CASE m.tx # NIL
  <2>1. Comes(o, c)
    BY <1>4, <1>10 DEF Comes, SameDriver
  <2> QED  BY <1>3, <1>8, <1>10, <2>1 DEF NInv
<1> QED  BY <1>9, <1>10

-----------------------------------------------------------------------------
(* Walking a list gives what it spells.                                    *)

Further(m, q, i, w) ==
    LET b == IF w = <<>> THEN m.queue[q].head ELSE m.next[w[Len(w)]]
    IN  IF Len(w) < i - 1 \/ b = NIL THEN w ELSE Append(w, b)

Walks(m, q, w) == w = [i \in 0 .. NBuf |-> IF i = 0 THEN <<>> ELSE Further(m, q, i, w[i - 1])]

\* The recursive function in Listed satisfies its equation if any function does.
LEMMA ListedEquation ==
    ASSUME NEW m, NEW q, NEW W, Walks(m, q, W)
    PROVE  \E w : Walks(m, q, w) /\ Listed(m, q) = w[NBuf]
<1> DEFINE w == CHOOSE w : w = [i \in 0 .. NBuf |-> IF i = 0 THEN <<>> ELSE Further(m, q, i, w[i - 1])]
<1>1. Walks(m, q, w)
  BY DEF Walks
<1>2. Listed(m, q) = w[NBuf]
  BY DEF Listed, Further
<1> HIDE DEF w
<1> QED  BY <1>1, <1>2

\* The first i of a sequence, or all of it.
Upto(s, i) == SubSeq(s, 1, IF i <= Len(s) THEN i ELSE Len(s))

LEMMA UptoIs ==
    ASSUME NEW s \in Seq(Buf), NEW i \in Nat
    PROVE  /\ Upto(s, i) \in Seq(Buf) /\ Len(Upto(s, i)) = IF i <= Len(s) THEN i ELSE Len(s)
           /\ \A k \in 1 .. Len(Upto(s, i)) : Upto(s, i)[k] = s[k]
           /\ i >= Len(s) => Upto(s, i) = s
           /\ i < Len(s) => Upto(s, i + 1) = Append(Upto(s, i), s[i + 1])
<1>1. Len(s) \in Nat
  OBVIOUS
<1>2. Upto(s, i) \in Seq(Buf) /\ Len(Upto(s, i)) = (IF i <= Len(s) THEN i ELSE Len(s))
  <2>1. CASE i <= Len(s)
    BY <2>1, <1>1, SubSeqProperties DEF Upto
  <2>2. CASE ~(i <= Len(s))
    BY <2>2, <1>1, SubSeqProperties DEF Upto
  <2> QED  BY <2>1, <2>2
<1>3. \A k \in 1 .. Len(Upto(s, i)) : Upto(s, i)[k] = s[k]
  <2>1. CASE i <= Len(s)
    BY <2>1, <1>1, <1>2, SubSeqProperties DEF Upto
  <2>2. CASE ~(i <= Len(s))
    BY <2>2, <1>1, <1>2, SubSeqProperties DEF Upto
  <2> QED  BY <2>1, <2>2
<1>4. i >= Len(s) => Upto(s, i) = s
  <2> SUFFICES ASSUME i >= Len(s) PROVE Upto(s, i) = s
    OBVIOUS
  <2>1. Len(Upto(s, i)) = Len(s)
    BY <1>1, <1>2
  <2> QED  BY <1>2, <1>3, <2>1, SeqEqual
<1>5. i < Len(s) => Upto(s, i + 1) = Append(Upto(s, i), s[i + 1])
  <2> SUFFICES ASSUME i < Len(s) PROVE Upto(s, i + 1) = Append(Upto(s, i), s[i + 1])
    OBVIOUS
  <2>1. i + 1 <= Len(s) /\ i <= Len(s) /\ i + 1 \in 1 .. Len(s)
    BY <1>1
  <2> DEFINE x == SubSeq(s, 1, i + 1)
             y == Append(Upto(s, i), s[i + 1])
  <2>2. x \in Seq(Buf) /\ Len(x) = i + 1 /\ \A k \in 1 .. i + 1 : x[k] = s[k]
    BY <1>1, <2>1, SubSeqProperties
  <2>3. y \in Seq(Buf) /\ Len(y) = i + 1 /\ (\A k \in 1 .. i : y[k] = s[k]) /\ y[i + 1] = s[i + 1]
    <3>1. s[i + 1] \in Buf /\ Len(Upto(s, i)) = i
      BY <2>1, <1>2
    <3> QED  BY <1>2, <1>3, <3>1, AppendProperties
  <2>4. Upto(s, i + 1) = x
    BY <2>1 DEF Upto
  <2> HIDE DEF x, y
  <2>5. \A k \in 1 .. Len(x) : x[k] = y[k]
    BY <2>2, <2>3
  <2>6. x = y
    BY <2>2, <2>3, <2>5, SeqEqual
  <2> QED  BY <2>4, <2>6 DEF y
<1> QED  BY <1>2, <1>3, <1>4, <1>5

\* No more buffers in a list than there are.
LEMMA ListFits ==
    ASSUME NEW c \in [Queues -> Seq(Buf)], Apart(c), NEW q \in Queues
    PROVE  Len(c[q]) \in Nat /\ Len(c[q]) <= NBuf
<1>1. c[q] \in Seq(Buf) /\ Len(c[q]) \in Nat /\ c[q] \in [1 .. Len(c[q]) -> Buf] /\ NBuf \in Nat
  BY NetifAssumption
<1>2. /\ IsFiniteSet(1 .. Len(c[q])) /\ Cardinality(1 .. Len(c[q])) = Len(c[q])
      /\ IsFiniteSet(Buf) /\ Cardinality(Buf) = NBuf
  <2>1. IsFiniteSet(1 .. Len(c[q])) /\ Cardinality(1 .. Len(c[q])) = IF 1 > Len(c[q]) THEN 0 ELSE Len(c[q]) - 1 + 1
    BY <1>1, FS_Interval
  <2>2. IsFiniteSet(1 .. NBuf) /\ Cardinality(1 .. NBuf) = IF 1 > NBuf THEN 0 ELSE NBuf - 1 + 1
    BY <1>1, FS_Interval
  <2> QED  BY <1>1, <2>1, <2>2 DEF Buf
<1>3. ASSUME NBuf < Len(c[q]) PROVE FALSE
  <2>1. \E x, y \in 1 .. Len(c[q]) : x # y /\ c[q][x] = c[q][y]
    BY <1>1, <1>2, <1>3, FS_PigeonHole
  <2> QED  BY <2>1 DEF Apart
<1> QED  BY <1>1, <1>3

LEMMA ListedIs ==
    ASSUME NEW m \in Iface, NEW c, NEW S, Own(m, c, S), NEW q \in Queues
    PROVE  Listed(m, q) = c[q]
<1> DEFINE s == c[q]
           W == [i \in 0 .. NBuf |-> Upto(s, i)]
<1>1. c \in [Queues -> Seq(Buf)] /\ Apart(c) /\ Spells(m, q, s)
  BY DEF Own
<1>2. s \in Seq(Buf) /\ Len(s) \in Nat /\ Len(s) <= NBuf /\ NBuf \in Nat
  BY <1>1, ListFits, NetifAssumption
<1> HIDE DEF s
<1>3. /\ m.queue[q].head = IF s = <<>> THEN NIL ELSE s[1]
      /\ \A k \in 1 .. Len(s) : m.next[s[k]] = IF k = Len(s) THEN NIL ELSE s[k + 1]
  BY Zenon, <1>1 DEF Spells
<1>4. ASSUME NEW i \in 1 .. NBuf PROVE Upto(s, i) = Further(m, q, i, Upto(s, i - 1))
  <2> DEFINE w == Upto(s, i - 1)
             b == IF w = <<>> THEN m.queue[q].head ELSE m.next[w[Len(w)]]
  <2>1. i - 1 \in Nat /\ i \in Nat /\ (i - 1) + 1 = i
    BY <1>2
  <2>2. /\ w \in Seq(Buf) /\ Len(w) = (IF i - 1 <= Len(s) THEN i - 1 ELSE Len(s))
        /\ \A k \in 1 .. Len(w) : w[k] = s[k]
        /\ i - 1 >= Len(s) => w = s
        /\ i - 1 < Len(s) => Upto(s, (i - 1) + 1) = Append(w, s[(i - 1) + 1])
    BY <1>2, <2>1, UptoIs
  <2>3. Further(m, q, i, w) = IF Len(w) < i - 1 \/ b = NIL THEN w ELSE Append(w, b)
    BY DEF Further
  <2>4. CASE i <= Len(s)
    <3>1. Len(w) = i - 1 /\ Upto(s, i) = Append(w, s[i]) /\ i \in 1 .. Len(s) /\ s # <<>>
      BY <2>1, <2>2, <2>4, <1>2
    <3>2. s[i] \in Buf /\ s[i] # NIL
      BY <3>1, <1>2 DEF Buf, NIL
    <3>3. b = s[i]
      <4>1. CASE i = 1
        <5>1. w = <<>>
          BY <4>1, <2>2, <3>1
        <5> QED  BY <5>1, <4>1, <3>1, <1>3
      <4>2. CASE i # 1
        <5>1. /\ w # <<>> /\ i - 1 \in 1 .. Len(w) /\ i - 1 \in 1 .. Len(s) /\ i - 1 # Len(s)
          BY <4>2, <2>2, <3>1, <1>2
        <5>2. w[Len(w)] = s[i - 1]
          BY <5>1, <2>2, <3>1
        <5>3. m.next[s[i - 1]] = s[(i - 1) + 1]
          BY Zenon, <5>1, <1>3
        <5> QED  BY <5>1, <5>2, <5>3, <2>1
      <4> QED  BY <4>1, <4>2
    <3> HIDE DEF w, b
    <3>4. ~(Len(w) < i - 1)
      BY <3>1, <2>1
    <3> QED  BY <2>3, <3>1, <3>2, <3>3, <3>4 DEF w
  <2>5. CASE ~(i <= Len(s))
    <3>1. w = s /\ Upto(s, i) = s
      BY <2>1, <2>2, <2>5, <1>2, UptoIs
    <3>2. Len(w) < i - 1 \/ b = NIL
      <4>1. CASE Len(s) = i - 1
        <5>1. CASE s = <<>>
          BY <5>1, <3>1, <1>3
        <5>2. CASE s # <<>>
          <6>1. Len(s) \in 1 .. Len(s)
            BY <5>2, <1>2
          <6>2. m.next[s[Len(s)]] = NIL
            BY <6>1, <1>3
          <6> QED  BY <5>2, <6>2, <3>1
        <5> QED  BY <5>1, <5>2
      <4>2. CASE Len(s) # i - 1
        BY <4>2, <2>1, <2>5, <3>1, <1>2
      <4> QED  BY <4>1, <4>2
    <3> HIDE DEF w, b
    <3> QED  BY <2>3, <3>1, <3>2 DEF w
  <2> QED  BY <2>4, <2>5
<1>5. Upto(s, 0) = <<>>
  <2>1. Upto(s, 0) \in Seq(Buf) /\ Len(Upto(s, 0)) = (IF 0 <= Len(s) THEN 0 ELSE Len(s))
    BY <1>2, UptoIs
  <2> QED  BY <2>1, <1>2
<1>6. \A i \in 0 .. NBuf : i = 0 \/ (i \in 1 .. NBuf /\ i - 1 \in 0 .. NBuf)
  BY <1>2
<1>7. Walks(m, q, W)
  <2>1. ASSUME NEW i \in 0 .. NBuf
        PROVE  Upto(s, i) = IF i = 0 THEN <<>> ELSE Further(m, q, i, W[i - 1])
    BY <1>4, <1>5, <1>6
  <2> QED  BY <2>1 DEF Walks
<1>8. PICK w : Walks(m, q, w) /\ Listed(m, q) = w[NBuf]
  <2> HIDE DEF W
  <2> QED  BY <1>7, ListedEquation
<1> HIDE DEF W
<1>12. /\ w[0] = <<>>
       /\ \A i \in 1 .. NBuf : w[i] = Further(m, q, i, w[i - 1])
  BY <1>2, <1>8 DEF Walks
<1> DEFINE T == {i \in 0 .. NBuf : w[i] # Upto(s, i)}
<1>9. T = {}
  <2> SUFFICES ASSUME T # {} PROVE FALSE
    OBVIOUS
  <2>1. T \in SUBSET Nat
    OBVIOUS
  <2> DEFINE i == Min(T)
  <2>2. i \in T /\ \A k \in T : i <= k
    <3> HIDE DEF T, i
    <3> QED  BY <2>1, MinIn DEF i
  <2> HIDE DEF i
  <2>3. i \in 0 .. NBuf /\ w[i] # Upto(s, i)
    BY <2>2
  <2>4. i # 0
    BY <2>3, <1>5, <1>12
  <2>5. i \in 1 .. NBuf /\ i - 1 \in 0 .. NBuf /\ ~(i <= i - 1)
    BY <2>3, <2>4, <1>2
  <2>6. w[i - 1] = Upto(s, i - 1)
    BY <2>2, <2>5
  <2>7. w[i] = Further(m, q, i, w[i - 1])
    BY <2>5, <1>12
  <2> QED  BY <2>3, <2>5, <2>6, <2>7, <1>4
<1>10. w[NBuf] = Upto(s, NBuf)
  BY <1>2, <1>9
<1>11. Upto(s, NBuf) = s
  BY <1>2, UptoIs
<1> QED  BY <1>8, <1>10, <1>11 DEF s

-----------------------------------------------------------------------------
(* Theorems                                                                *)

IInv == linkedTwice \/ \E c : NInv(n, c)

LEMMA QueuedIs ==
    ASSUME NEW m, NEW c, NInv(m, c), NEW b \in Buf
    PROVE  Queued(m, b) <=> In(c, b) \/ b \in Alone(m)
<1>1. \A q \in Queues : Listed(m, q) = c[q]
  BY NInvFacts, ListedIs
<1>2. b # NIL
  BY DEF Buf, NIL
<1> QED  BY <1>1, <1>2 DEF Queued, In, Alone

LEMMA InitInv == Init => IInv
<1> SUFFICES ASSUME Init PROVE IInv
  OBVIOUS
<1> DEFINE c == [q \in Queues |-> <<>>]
<1> USE DEF NIL
<1>1. n = [next |-> [b \in Buf |-> NIL], queue |-> [q \in Queues |-> NoQueue],
           osem |-> 0, rsem |-> 0, ref |-> [b \in Buf |-> IF b = 1 THEN 1 ELSE 0],
           frame |-> [b \in Buf |-> NoFrame], held |-> {},
           cache |-> [i \in 1 .. CacheSize |-> [ip |-> Bcast, mac |-> Bcast, time |-> 0]],
           arp_time |-> 1, pc |-> "sem", cur |-> NIL, ip |-> Bcast, retry |-> 0,
           tx |-> NIL, rx |-> 1]
  BY DEF Init
<1>2. /\ NIL \in Link /\ 1 \in Link /\ 1 \in Buf /\ Bcast \in Hops /\ NoFrame \in Frame
      /\ NoQueue \in [head : Link, tail : Link] /\ NoQueue.head = NIL /\ NoQueue.tail = NIL
      /\ [ip |-> Bcast, mac |-> Bcast, time |-> 0] \in Entry
  BY NetifAssumption, NoFrameIs DEF Link, Buf, NoQueue, Entry
<1>3. n \in Iface
  BY <1>1, <1>2 DEF Iface
<1>4. /\ \A q \in Queues : n.queue[q] = NoQueue
      /\ \A b \in Buf : n.ref[b] = IF b = 1 THEN 1 ELSE 0
      /\ \A i \in 1 .. CacheSize : n.cache[i].time = 0
      /\ n.held = {} /\ n.rsem = 0 /\ n.pc = "sem" /\ n.cur = NIL /\ n.tx = NIL /\ n.rx = 1
  BY <1>1
<1>5. /\ c \in [Queues -> Seq(Buf)] /\ \A q \in Queues : c[q] = <<>> /\ Len(c[q]) = 0
      /\ c["outq"] = <<>> /\ c["requestq"] = <<>>
  BY QueueNames
<1> HIDE DEF c
<1>6. \A b : ~In(c, b)
  BY <1>5 DEF In
<1>7. Apart(c)
  BY <1>5 DEF Apart
<1>8. \A q \in Queues : Spells(n, q, c[q])
  BY <1>2, <1>4, <1>5 DEF Spells
<1>9. Alone(n) = {1}
  BY <1>4 DEF Alone
<1>10. Own(n, c, {1})
  BY <1>2, <1>4, <1>5, <1>6, <1>7, <1>8 DEF Own, One
<1>11. Good(n, c, {1})
  BY <1>3, <1>4, <1>5, <1>10 DEF Good
<1>12. Steady(n, c, {1})
  BY <1>4, <1>11 DEF Steady
<1>13. Quiet(n, c)
  BY <1>4, <1>9, <1>12 DEF Quiet
<1>14. Comes(n, c)
  BY <1>5 DEF Comes
<1> QED  BY <1>13, <1>14 DEF IInv, NInv

LEMMA StepInv == IInv /\ [Next]_vars => IInv'
<1> SUFFICES ASSUME IInv, [Next]_vars, linkedTwice' # TRUE PROVE IInv'
  BY DEF IInv
<1>0. linkedTwice # TRUE
  BY DEF Next, vars, Send, Resend, Acknowledged, ArpReply, ArpRequest, Received, Client, ArpTimeout,
         Driver, TxDone
<1>1. PICK c : NInv(n, c)
  BY <1>0 DEF IInv
<1>2. SUFFICES \E d : NInv(n', d)
  BY DEF IInv
<1>3. n \in Iface /\ \A ip \in Peers : ip \in Hops
  BY <1>1, NInvFacts, NetifAssumption
<1>4. ASSUME NEW p \in Packets, Send(p) PROVE \E d : NInv(n', d)
  <2>1. p \in [dst : IPs, room : BOOLEAN, held : BOOLEAN]
    BY NetifAssumption
  <2>2. /\ Unused(n) # {}
        /\ n' = IpOutput([Get(n, Min(Unused(n))) EXCEPT
                    !.frame[Min(Unused(n))] = [dst |-> p.dst, room |-> p.room, proto |-> "ip", mac |-> Bcast],
                    !.held = IF p.held THEN @ \cup {Min(Unused(n))} ELSE @,
                    !.ref[Min(Unused(n))] = IF p.held THEN 2 ELSE 1], Min(Unused(n)))
    BY <1>4 DEF Send
  <2> QED  BY <1>1, <2>1, <2>2, SendInv
<1>5. ASSUME NEW b \in Buf, Resend(b) PROVE \E d : NInv(n', d)
  <2>1. b \in n.held /\ ~Queued(n, b) /\ n' = IpOutput([n EXCEPT !.ref[b] = @ + 1], b)
    BY <1>5 DEF Resend
  <2>2. ~In(c, b) /\ b \notin Alone(n)
    BY <1>1, <2>1, QueuedIs
  <2> QED  BY <1>1, <2>1, <2>2, ResendInv
<1>6. ASSUME NEW b \in Buf, Acknowledged(b) PROVE \E d : NInv(n', d)
  BY <1>1, <1>6, AcknowledgedInv DEF Acknowledged
<1>7. ASSUME NEW ip \in Peers, ArpReply(ip) PROVE \E d : NInv(n', d)
  BY <1>1, <1>3, <1>7, InputReplyInv DEF ArpReply
<1>8. ASSUME NEW ip \in Peers, ArpRequest(ip) PROVE \E d : NInv(n', d)
  BY <1>1, <1>3, <1>8, InputRequestInv DEF ArpRequest
<1>9. CASE Received
  BY <1>1, <1>9, RxDoneInv DEF Received, InputOther
<1>10. CASE Client
  BY <1>1, <1>10, ClientNextInv DEF Client
<1>11. CASE ArpTimeout
  BY <1>1, <1>11, ClientWokenInv DEF ArpTimeout
<1>12. CASE Driver
  BY <1>1, <1>12, DriverInv DEF Driver
<1>13. CASE TxDone
  <2>1. Quiet(n, c) /\ n' = TxFinish(n)
    BY <1>1, <1>13 DEF TxDone, NInv
  <2> QED  BY <2>1, TxFinishInv
<1>14. CASE UNCHANGED vars
  BY <1>1, <1>14 DEF vars
<1> QED  BY <1>4, <1>5, <1>6, <1>7, <1>8, <1>9, <1>10, <1>11, <1>12, <1>13, <1>14 DEF Next

LEMMA IInvHolds == Spec => []IInv
<1>1. IInv /\ [Next]_vars => IInv'
  BY StepInv
<1> QED  BY <1>1, InitInv, PTL DEF Spec

\* What the invariant says of the walks over the lists.
LEMMA WalksAre ==
    ASSUME NEW c, NInv(n, c)
    PROVE  Listed(n, "outq") = c["outq"] /\ Listed(n, "requestq") = c["requestq"]
           /\ \A q \in Queues : Listed(n, q) = c[q]
BY NInvFacts, ListedIs, QueueNames

LEMMA OwnedNow == IInv => BuffersOwned
<1> SUFFICES ASSUME IInv, linkedTwice # TRUE PROVE BuffersOwned
  BY DEF BuffersOwned
<1>1. PICK c : NInv(n, c)
  BY DEF IInv
<1>2. /\ Own(n, c, Alone(n)) /\ n \in Iface
      /\ n.tx # NIL => n.tx # n.cur
      /\ n.rx # NIL => n.rx # n.cur /\ n.rx # n.tx
  BY <1>1, NInvFacts
<1>3. c \in [Queues -> Seq(Buf)] /\ Apart(c) /\ (\A b \in Alone(n) : ~In(c, b)) /\ Alone(n) \in SUBSET Buf
  BY <1>2 DEF Own
<1> DEFINE out == c["outq"]
           req == c["requestq"]
           three == <<n.cur, n.tx, n.rx>>
           places == out \o req \o three
<1>4. out \in Seq(Buf) /\ req \in Seq(Buf) /\ Len(out) \in Nat /\ Len(req) \in Nat
  BY <1>3, QueueNames
<1>5. Buf \subseteq Link /\ n.cur \in Link /\ n.tx \in Link /\ n.rx \in Link /\ NIL \notin Buf
  BY <1>2 DEF Iface, Buf, Link, NIL
<1>6. out \in Seq(Link) /\ req \in Seq(Link) /\ three \in Seq(Link)
      /\ Len(three) = 3 /\ three[1] = n.cur /\ three[2] = n.tx /\ three[3] = n.rx
  <2>1. out \in Seq(Link) /\ req \in Seq(Link)
    BY <1>4, <1>5
  <2> QED  BY <1>5, <2>1
<1> DEFINE A(i) == i \in 1 .. Len(out) /\ places[i] = out[i]
           B(i) == i - Len(out) \in 1 .. Len(req) /\ places[i] = req[i - Len(out)]
           C(i) == i - Len(out) - Len(req) \in 1 .. 3 /\ places[i] = three[i - Len(out) - Len(req)]
<1>7. Len(places) \in Nat /\ \A i \in 1 .. Len(places) : A(i) \/ B(i) \/ C(i)
  <2> DEFINE both == out \o req
             l == Len(out)
             k == Len(req)
  <2>1. both \in Seq(Link) /\ Len(both) = l + k
        /\ \A i \in 1 .. l + k : both[i] = IF i <= l THEN out[i] ELSE req[i - l]
    <3> HIDE DEF out, req
    <3> QED  BY <1>6, ConcatProperties
  <2>2. places = both \o three
    OBVIOUS
  <2> HIDE DEF both, three, out, req
  <2>3. both \o three \in Seq(Link) /\ Len(both \o three) = Len(both) + Len(three)
        /\ \A i \in 1 .. Len(both) + Len(three) :
              (both \o three)[i] = IF i <= Len(both) THEN both[i] ELSE three[i - Len(both)]
    <3>1. both \in Seq(Link) /\ three \in Seq(Link)
      BY <1>6, <2>1
    <3> QED  BY <3>1, ConcatProperties
  <2>5. l \in Nat /\ k \in Nat
    BY <1>4
  <2> HIDE DEF places, l, k
  <2>7. Len(three) = 3
    BY <1>6
  <2>8. Len(places) = (l + k) + 3
        /\ \A i \in 1 .. (l + k) + 3 : places[i] = IF i <= l + k THEN both[i] ELSE three[i - (l + k)]
    BY Zenon, <2>7, <2>1, <2>2, <2>3
  <2>4. Len(places) = l + k + 3
        /\ \A i \in 1 .. l + k + 3 : places[i] = IF i <= l + k THEN both[i] ELSE three[i - (l + k)]
    BY <2>8
  <2>6. ASSUME NEW i \in 1 .. l + k + 3
        PROVE  \/ i \in 1 .. l /\ places[i] = out[i]
               \/ i - l \in 1 .. k /\ places[i] = req[i - l]
               \/ i - l - k \in 1 .. 3 /\ places[i] = three[i - l - k]
    <3>1. CASE i <= l
      BY <3>1, <2>1, <2>4, <2>5
    <3>2. CASE ~(i <= l) /\ i <= l + k
      BY <3>2, <2>1, <2>4, <2>5
    <3>3. CASE ~(i <= l + k)
      <4>1. i - (l + k) = i - l - k /\ i - l - k \in 1 .. 3
        BY <3>3, <2>5
      <4> QED  BY <3>3, <4>1, <2>4
    <3> QED  BY <2>5, <3>1, <3>2, <3>3
  <2>9. Len(places) \in Nat
    BY <2>4, <2>5
  <2>10. ASSUME NEW i \in 1 .. Len(places) PROVE A(i) \/ B(i) \/ C(i)
    <3>1. i \in 1 .. l + k + 3
      BY <2>4
    <3>2. l = Len(out) /\ k = Len(req)
      BY DEF l, k
    <3> QED  BY Zenon, <2>6, <3>1, <3>2
  <2> QED  BY <2>9, <2>10
<1> HIDE DEF places
<1>8. ASSUME NEW i \in 1 .. Len(places), NEW j \in 1 .. Len(places), i # j
      PROVE  places[i] = NIL \/ places[i] # places[j]
  <2>0. i \in Int /\ j \in Int
    OBVIOUS
  <2>1. /\ A(i) \/ B(i) => In(c, places[i])
        /\ A(j) \/ B(j) => In(c, places[j])
    BY QueueNames DEF In
  <2>2. /\ C(i) => places[i] = NIL \/ places[i] \in Alone(n)
        /\ C(j) => places[j] = NIL \/ places[j] \in Alone(n)
    <3>1. \A k \in 1 .. 3 : three[k] = NIL \/ three[k] \in Alone(n)
      BY <1>6 DEF Alone
    <3> HIDE DEF three
    <3> QED  BY <3>1
  <2>3. In(c, NIL) => FALSE
    BY <1>3, <1>5 DEF In
  <2>4. ASSUME A(i), A(j) PROVE places[i] # places[j]
    BY <1>8, <2>4, <1>3, QueueNames DEF Apart
  <2>5. ASSUME B(i), B(j) PROVE places[i] # places[j]
    <3>1. i - Len(out) # j - Len(out)
      BY <1>8, <2>0, <1>4
    <3> QED  BY <2>5, <3>1, <1>3, QueueNames DEF Apart
  <2>6. ASSUME A(i), B(j) PROVE places[i] # places[j]
    BY <2>6, <1>3, QueueNames DEF Apart
  <2>7. ASSUME B(i), A(j) PROVE places[i] # places[j]
    BY <2>7, <1>3, QueueNames DEF Apart
  <2>8. ASSUME C(i), C(j) PROVE places[i] = NIL \/ places[i] # places[j]
    <3>1. \A k, l \in 1 .. 3 : k # l => three[k] = NIL \/ three[k] # three[l]
      BY <1>2, <1>6
    <3>2. i - Len(out) - Len(req) # j - Len(out) - Len(req)
      BY <1>8, <2>0, <1>4
    <3> HIDE DEF three, out, req
    <3> QED  BY <2>8, <3>1, <3>2
  <2>9. ASSUME C(i), A(j) \/ B(j) PROVE places[i] = NIL \/ places[i] # places[j]
    BY <2>1, <2>2, <2>9, <1>3
  <2>10. ASSUME A(i) \/ B(i), C(j) PROVE places[i] # places[j]
    BY <2>1, <2>2, <2>3, <2>10, <1>3
  <2> HIDE DEF A, B, C
  <2>11. (A(i) \/ B(i) \/ C(i)) /\ (A(j) \/ B(j) \/ C(j))
    BY <1>7
  <2> QED  BY <2>4, <2>5, <2>6, <2>7, <2>8, <2>9, <2>10, <2>11
<1>9. \A q \in Queues : n.queue[q].tail = IF c[q] = <<>> THEN NIL ELSE c[q][Len(c[q])]
  BY <1>2 DEF Own, Spells
<1>10. \A b \in Buf : n.ref[b] = (IF Queued(n, b) THEN 1 ELSE 0) + (IF b \in n.held THEN 1 ELSE 0)
  <2> SUFFICES ASSUME NEW b \in Buf
               PROVE  n.ref[b] = (IF Queued(n, b) THEN 1 ELSE 0) + (IF b \in n.held THEN 1 ELSE 0)
    OBVIOUS
  <2>1. Queued(n, b) <=> In(c, b) \/ b \in Alone(n)
    BY <1>1, QueuedIs
  <2>2. n.ref[b] = One(In(c, b) \/ b \in Alone(n)) + One(b \in n.held)
    BY <1>2 DEF Own
  <2> QED  BY <2>1, <2>2 DEF One
<1>11. Listed(n, "outq") = out /\ Listed(n, "requestq") = req /\ \A q \in Queues : Listed(n, q) = c[q]
  BY <1>1, WalksAre
<1> HIDE DEF out, req
<1> QED  BY <1>8, <1>9, <1>10, <1>11, ZenonT(60) DEF BuffersOwned, places

LEMMA ComesNow == IInv => SomebodyComes
<1> SUFFICES ASSUME IInv, linkedTwice # TRUE PROVE SomebodyComes
  BY DEF SomebodyComes
<1>1. PICK c : NInv(n, c)
  BY DEF IInv
<1>2. Good(n, c, Alone(n)) /\ Own(n, c, Alone(n)) /\ Comes(n, c)
  BY <1>1, NInvFacts
<1>3. n.rsem = Len(Listed(n, "requestq"))
  BY <1>1, <1>2, WalksAre DEF Good
<1>4. n.queue["outq"].head # NIL => c["outq"] # <<>>
  BY <1>2, QueueNames DEF Own, Spells
<1> QED  BY <1>2, <1>3, <1>4 DEF SomebodyComes, Comes

LEMMA RightNow == IInv => RightHop
<1> SUFFICES ASSUME IInv, linkedTwice # TRUE PROVE RightHop
  BY DEF RightHop
<1>1. PICK c : NInv(n, c)
  BY DEF IInv
<1>2. Good(n, c, Alone(n)) /\ (n.tx # NIL => Right(n.frame[n.tx]))
  BY <1>1, NInvFacts
<1>3. Listed(n, "outq") = c["outq"]
  BY <1>1, WalksAre
<1>4. ASSUME NEW b \in Buf, b = n.tx \/ \E i \in 1 .. Len(c["outq"]) : c["outq"][i] = b
      PROVE  Right(n.frame[b])
  <2>1. CASE b = n.tx
    BY <2>1, <1>2 DEF Buf, NIL
  <2>2. CASE \E i \in 1 .. Len(c["outq"]) : c["outq"][i] = b
    BY <2>2, <1>2 DEF Good
  <2> QED  BY <1>4, <2>1, <2>2
<1> QED  BY <1>3, <1>4 DEF RightHop, Right

(* vsfip_netif.c:111 and 168: a buffer stands at one place at most, the    *)
(* lists end at their tails, and a buffer is counted once for its place    *)
(* and once for TCP: no leak and no use after release, for any number of   *)
(* buffers, cache entries, retries and addresses.  The one thing that ends *)
(* this is a retransmission of a buffer still in the interface.            *)
THEOREM OwnershipHolds == Spec => []BuffersOwned
BY IInvHolds, OwnedNow, PTL

(* vsfusbd_RNDIS.c:128 and vsfip_netif.c:169: the count of request_sem is  *)
(* the length of requestq, and outq is never left with nobody due to take  *)
(* its head although the driver skips wake-ups while it sends, until TCP   *)
(* sends a buffer again that has not left the interface.                   *)
THEOREM NobodyIsForgotten == Spec => []SomebodyComes
BY IInvHolds, ComesNow, PTL

(* A frame given to the driver carries the MAC of its packet's next hop,   *)
(* whatever happened to the cache while the packet waited, until TCP sends *)
(* a buffer again that has not left the interface.                         *)
THEOREM FramesGoRight == Spec => []RightHop
BY IInvHolds, RightNow, PTL
=============================================================================
