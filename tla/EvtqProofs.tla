----------------------------- MODULE EvtqProofs -----------------------------
(***************************************************************************)
(* Proofs about the ring buffer of module Evtq, for every queue size and   *)
(* every set of state machines and events.                                 *)
(*                                                                         *)
(* The argument: positions are counted from head.  A post writes the slot  *)
(* Stored places after head, which no queued event occupies while          *)
(* evt_count < Size; advancing head renumbers every position by one.       *)
(*                                                                         *)
(* Then vsfsm_fini, whose scan has cleared everything before its position  *)
(* (FInv), removes what it should; and the sequence of the queued events,  *)
(* read from head, is the queue of EvtqAbs (ImplementsFifo).               *)
(***************************************************************************)
EXTENDS Evtq, SequenceTheorems, FiniteSetTheorems, TLAPS

IsTick(k) == queue[Nth(head, k)].evt = TIMER
TickInHand == pc = "advanced" /\ tmp.evt = TIMER

(* What makes TypeOK inductive: at most one tick is queued, and            *)
(* tick_evt_count says whether it is.                                      *)
TickInv ==
    /\ TickInHand => tick_evt_count = 1
    /\ \A k \in 0 .. Stored - 1 :
          IsTick(k) => /\ tick_evt_count = 1
                       /\ ~TickInHand
                       /\ \A l \in 0 .. Stored - 1 : IsTick(l) => l = k
    /\ tick_evt_count = 1 => TickInHand \/ \E k \in 0 .. Stored - 1 : IsTick(k)

IInv == TypeOK /\ RingConsistent /\ TickInv

-----------------------------------------------------------------------------
\* Ring arithmetic: Nth stays inside the ring.
LEMMA NthInRing ==
    ASSUME NEW p \in Slots, NEW k \in 0 .. Size
    PROVE  Nth(p, k) \in Slots
BY SizeAssumption DEF Nth, Slots

\* Ring arithmetic: Advance is the next slot, and stays inside the ring.
LEMMA AdvanceIsNext ==
    ASSUME NEW p \in Slots
    PROVE  Advance(p) = Nth(p, 1) /\ Advance(p) \in Slots
BY SizeAssumption DEF Nth, Slots, Advance

\* Ring arithmetic: advancing the start renumbers the positions by one.
LEMMA NthShift ==
    ASSUME NEW p \in Slots, NEW k \in 0 .. Size - 1
    PROVE  Nth(Advance(p), k) = Nth(p, k + 1)
BY SizeAssumption DEF Nth, Slots, Advance

\* Ring arithmetic: advancing the slot k places away gives the one k + 1 away.
LEMMA NthSucc ==
    ASSUME NEW p \in Slots, NEW k \in 0 .. Size - 1
    PROVE  Advance(Nth(p, k)) = Nth(p, k + 1)
BY SizeAssumption DEF Nth, Slots, Advance

\* Ring arithmetic: different positions are different slots.
LEMMA NthInjective ==
    ASSUME NEW p \in Slots, NEW k \in 0 .. Size - 1, NEW l \in 0 .. Size - 1,
           Nth(p, k) = Nth(p, l)
    PROVE  k = l
BY SizeAssumption DEF Nth, Slots

\* Ring arithmetic: the slot zero places away is the start itself.
LEMMA NthZero ==
    ASSUME NEW p \in Slots
    PROVE  Nth(p, 0) = p
BY SizeAssumption DEF Nth, Slots

-----------------------------------------------------------------------------
\* The empty ring of vsfsm_evtq_init satisfies the invariant.
LEMMA InitIInv == Init => IInv
<1> SUFFICES ASSUME Init PROVE IInv
  OBVIOUS
<1>1. TypeOK
  BY SizeAssumption, TimerAssumption DEF Init, TypeOK, Slots, Element
<1>2. RingConsistent
  BY SizeAssumption DEF Init, RingConsistent, Nth, Stored
<1>3. TickInv
  BY SizeAssumption DEF Init, TickInv, TickInHand, Stored
<1> QED BY <1>1, <1>2, <1>3 DEF IInv

\* vsfsm_evtq_post keeps the invariant, wherever vsfsm_poll is.
LEMMA PostIInv ==
    ASSUME IInv, NEW s \in SMs, NEW e \in Evts, EvtqPost(s, e)
    PROVE  IInv'
<1> USE DEF IInv
<1>0. /\ head' = head /\ pc' = pc /\ tmp' = tmp
      /\ Stored \in 0 .. Size - 1 /\ Stored' = Stored + 1
      /\ tail = Nth(head, Stored)
  BY SizeAssumption DEF EvtqPost, ownerVars, Stored, TypeOK, RingConsistent
<1>n. PICK n \in 0 .. Size - 1 : n = Stored
  BY <1>0
<1>1. TypeOK'
  <2>1. queue' \in [Slots -> Element]
    BY DEF EvtqPost, TypeOK, Element
  <2>2. tail' \in Slots
    BY AdvanceIsNext DEF EvtqPost, TypeOK
  <2>3. evt_count' \in 0 .. Size /\ tick_evt_count' \in 0 .. 1
    BY SizeAssumption DEF EvtqPost, TypeOK
  <2>4. sm_evt_count' \in [SMs -> Int]
    BY DEF EvtqPost, TypeOK
  <2> QED BY <2>1, <2>2, <2>3, <2>4 DEF EvtqPost, TypeOK, ownerVars
<1>2. \A k \in 0 .. Stored - 1 : queue'[Nth(head, k)] = queue[Nth(head, k)]
  <2> TAKE k \in 0 .. Stored - 1
  <2>1. Nth(head, k) # tail
    BY <1>0, NthInjective, SizeAssumption DEF TypeOK
  <2>2. Nth(head, k) \in Slots
    BY <1>0, NthInRing, SizeAssumption DEF TypeOK
  <2> QED BY <2>1, <2>2 DEF EvtqPost, TypeOK
<1>3. queue'[Nth(head, Stored)] = [sm |-> s, evt |-> e]
  BY <1>0 DEF EvtqPost, TypeOK
<1>4. RingConsistent'
  <2>1. tail' = Nth(head', Stored')
    BY <1>0, NthSucc DEF EvtqPost, TypeOK
  <2>2. pc' \in {"copied", "advanced"} => evt_count' > 0
    BY <1>0 DEF EvtqPost, TypeOK
  <2>3. ASSUME pc' = "copied" PROVE tmp' = queue'[head']
    <3>1. tmp = queue[head] /\ Stored > 0
      BY <2>3, <1>0 DEF RingConsistent, Stored
    <3>2. head = Nth(head, 0)
      BY NthZero DEF TypeOK
    <3>3. 0 \in 0 .. Stored - 1
      BY <3>1, <1>0
    <3>4. queue'[Nth(head, 0)] = queue[Nth(head, 0)]
      BY <3>3, <1>2
    <3> QED BY <3>1, <3>2, <3>4, <1>0
  <2> QED BY <2>1, <2>2, <2>3 DEF RingConsistent
<1>5. TickInv'
  <2>1. \A k \in 0 .. Stored - 1 : IsTick(k)' <=> IsTick(k)
    BY <1>0, <1>2 DEF IsTick
  <2>2. IsTick(n)' <=> e = TIMER
    BY <1>0, <1>n, <1>3 DEF IsTick
  <2>3. TickInHand' <=> TickInHand
    BY <1>0 DEF TickInHand
  <2>4. \A k \in 0 .. Stored' - 1 : k \in 0 .. Stored - 1 \/ k = n
    BY <1>0, <1>n
  <2>4a. 0 .. Stored - 1 \subseteq 0 .. Stored' - 1 /\ n \in 0 .. Stored' - 1
    BY <1>0, <1>n
  <2>5. CASE e = TIMER
    <3>1. tick_evt_count = 0 /\ tick_evt_count' = 1
      BY <2>5 DEF EvtqPost, TypeOK
    <3>2. ~TickInHand /\ \A k \in 0 .. Stored - 1 : ~IsTick(k)
      BY <3>1 DEF TickInv
    <3>3. \A k \in 0 .. Stored' - 1 : IsTick(k)' <=> k = n
      BY <3>2, <2>1, <2>2, <2>4, <2>5, <1>0, <1>n
    <3> QED BY <3>1, <3>2, <3>3, <2>3, <2>4a DEF TickInv
  <2>6. CASE e # TIMER
    <3>1. tick_evt_count' = tick_evt_count
      BY <2>6 DEF EvtqPost
    <3>2. \A k \in 0 .. Stored' - 1 : IsTick(k)' => k \in 0 .. Stored - 1 /\ IsTick(k)
      BY <2>1, <2>2, <2>4, <2>6
    <3> QED BY <3>1, <3>2, <2>1, <2>3, <2>4a DEF TickInv
  <2> QED BY <2>5, <2>6
<1> QED BY <1>1, <1>4, <1>5

\* vsfsm_poll copies the head element: nothing moves.
LEMMA PollCopyIInv ==
    ASSUME IInv, PollCopy
    PROVE  IInv'
<1> USE DEF IInv
<1>1. TypeOK'
  BY DEF PollCopy, TypeOK, ringVars
<1>2. RingConsistent'
  BY DEF PollCopy, TypeOK, ringVars, RingConsistent, Stored
<1>3. TickInv'
  BY DEF PollCopy, ringVars, TickInv, TickInHand, IsTick, Stored
<1> QED BY <1>1, <1>2, <1>3

\* vsfsm_poll moves head: every position is renumbered, and the event that
\* was first is now in vsfsm_poll's hands.
LEMMA PollAdvanceIInv ==
    ASSUME IInv, PollAdvance
    PROVE  IInv'
<1> USE DEF IInv
<1>1. TypeOK'
  BY AdvanceIsNext DEF PollAdvance, TypeOK
<1>2. /\ Stored \in 1 .. Size /\ Stored' = Stored - 1
      /\ queue' = queue /\ tmp' = tmp /\ tmp = queue[Nth(head, 0)]
      /\ tick_evt_count' = tick_evt_count
      /\ pc' = "advanced" /\ pc = "copied"
  BY NthZero DEF PollAdvance, TypeOK, RingConsistent, Stored
<1>3. RingConsistent'
  BY <1>2, NthShift, SizeAssumption DEF PollAdvance, RingConsistent, TypeOK
<1>4. TickInv'
  <2>1. \A k \in 0 .. Stored' - 1 :
            /\ k + 1 \in 0 .. Stored - 1
            /\ IsTick(k)' <=> IsTick(k + 1)
    BY <1>2, NthShift, SizeAssumption DEF PollAdvance, IsTick, TypeOK
  <2>2. \A k \in 1 .. Stored - 1 : k - 1 \in 0 .. Stored' - 1 /\ (k - 1) + 1 = k
    BY <1>2
  <2>3. TickInHand' <=> IsTick(0)
    BY <1>2 DEF TickInHand, IsTick
  <2>4. ~TickInHand /\ 0 \in 0 .. Stored - 1
    BY <1>2 DEF TickInHand
  <2>5. TickInHand' => tick_evt_count' = 1
    BY <2>3, <2>4, <1>2 DEF TickInv
  <2>6. ASSUME NEW k \in 0 .. Stored' - 1, IsTick(k)'
        PROVE  /\ tick_evt_count' = 1
               /\ ~TickInHand'
               /\ \A l \in 0 .. Stored' - 1 : IsTick(l)' => l = k
    <3>1. k + 1 \in 0 .. Stored - 1 /\ IsTick(k + 1)
      BY <2>6, <2>1
    <3>2. tick_evt_count = 1 /\ (\A l \in 0 .. Stored - 1 : IsTick(l) => l = k + 1)
      BY <3>1 DEF TickInv
    <3>3. ~IsTick(0)
      BY <3>2, <2>4
    <3>4. ASSUME NEW l \in 0 .. Stored' - 1, IsTick(l)' PROVE l = k
      <4>1. l + 1 \in 0 .. Stored - 1 /\ IsTick(l + 1)
        BY <3>4, <2>1
      <4>2. l + 1 = k + 1
        BY <4>1, <3>2
      <4> QED BY <4>2
    <3> QED BY <3>2, <3>3, <3>4, <2>3, <1>2
  <2>7. ASSUME tick_evt_count' = 1
        PROVE  TickInHand' \/ \E k \in 0 .. Stored' - 1 : IsTick(k)'
    <3>1. PICK k \in 0 .. Stored - 1 : IsTick(k)
      BY <2>7, <2>4, <1>2 DEF TickInv
    <3>2. CASE k = 0
      BY <3>1, <3>2, <2>3
    <3>3. CASE k # 0
      <4>1. k - 1 \in 0 .. Stored' - 1 /\ (k - 1) + 1 = k
        BY <3>3, <2>2
      <4>2. IsTick(k - 1)'
        BY <4>1, <2>1, <3>1
      <4> QED BY <4>1, <4>2
    <3> QED BY <3>2, <3>3
  <2> QED BY <2>5, <2>6, <2>7 DEF TickInv
<1> QED BY <1>1, <1>3, <1>4

\* vsfsm_poll accounts for the event: the tick it held is the only one.
LEMMA PollAccountIInv ==
    ASSUME IInv, PollAccount
    PROVE  IInv'
<1> USE DEF IInv
<1>0. /\ head' = head /\ queue' = queue /\ tail' = tail /\ tmp' = tmp
      /\ pc = "advanced" /\ pc' \in {"idle", "handler"}
      /\ Stored \in 0 .. Size - 1 /\ Stored' = Stored
      /\ evt_count' = evt_count - 1 /\ evt_count \in 1 .. Size
  BY SizeAssumption DEF PollAccount, Stored, TypeOK, RingConsistent
<1>1. /\ tick_evt_count' \in 0 .. 1
      /\ TickInHand => tick_evt_count = 1 /\ tick_evt_count' = 0
      /\ ~TickInHand => tick_evt_count' = tick_evt_count
  BY <1>0 DEF PollAccount, TypeOK, TickInv, TickInHand
<1>2. TypeOK'
  <2>1. sm_evt_count' \in [SMs -> Int]
    BY NullAssumption DEF PollAccount, TypeOK, Element
  <2> QED BY <1>0, <1>1, <2>1, SizeAssumption DEF PollAccount, TypeOK
<1>3. RingConsistent'
  BY <1>0 DEF RingConsistent
<1>4. TickInv'
  <2>1. ~TickInHand' /\ \A k \in 0 .. Stored - 1 : IsTick(k)' <=> IsTick(k)
    BY <1>0 DEF TickInHand, IsTick
  <2> QED BY <1>0, <1>1, <2>1 DEF TickInv
<1> QED BY <1>2, <1>3, <1>4

\* vsfsm_fini changes the sm of an element, never its event or its place.
LEMMA FiniScanIInv ==
    ASSUME IInv, FiniScan
    PROVE  IInv'
<1> USE DEF IInv
<1>0. /\ head' = head /\ pc' = pc /\ tmp' = tmp /\ tail' = tail /\ pc = "fini"
      /\ Stored' = Stored /\ Stored \in 0 .. Size
      /\ evt_count' = evt_count /\ tick_evt_count' = tick_evt_count
  BY SizeAssumption DEF FiniScan, Stored, TypeOK
<1>1. TypeOK'
  <2>1. queue' \in [Slots -> Element]
    BY DEF FiniScan, TypeOK, Element
  <2>2. scan' \in Slots
    BY AdvanceIsNext DEF FiniScan, TypeOK
  <2> QED BY <2>1, <2>2 DEF FiniScan, TypeOK
<1>2. \A i \in Slots : queue'[i].evt = queue[i].evt
  BY DEF FiniScan, TypeOK, Element
<1>3. RingConsistent'
  BY <1>0 DEF RingConsistent
<1>4. TickInv'
  <2>1. ASSUME NEW k \in 0 .. Stored - 1 PROVE IsTick(k)' <=> IsTick(k)
    <3>1. k \in 0 .. Size
      BY <1>0, SizeAssumption
    <3>2. Nth(head, k) \in Slots
      BY <3>1, NthInRing DEF TypeOK
    <3> QED BY <1>0, <1>2, <3>2 DEF IsTick
  <2> QED BY <1>0, <2>1 DEF TickInv, TickInHand
<1> QED BY <1>1, <1>3, <1>4

\* The steps that touch neither the ring nor its queue counters.
LEMMA OwnerIInv ==
    ASSUME IInv,
           \/ HandlerReturn
           \/ \E s \in SMs : FiniStart(s)
           \/ FiniDone
           \/ \E s \in SMs : SmInit(s)
           \/ UNCHANGED vars
    PROVE  IInv'
<1> USE DEF IInv
<1>1. /\ queue' = queue /\ head' = head /\ tail' = tail /\ tmp' = tmp
      /\ evt_count' = evt_count /\ tick_evt_count' = tick_evt_count
      /\ pc' = pc \/ (pc' \notin {"copied", "advanced"} /\ pc \notin {"copied", "advanced"})
  BY DEF HandlerReturn, FiniStart, FiniDone, SmInit, vars, ringVars, ownerVars
<1>2. TypeOK'
  <2>1. CASE HandlerReturn
    BY <2>1 DEF HandlerReturn, TypeOK, ringVars
  <2>2. CASE \E s \in SMs : FiniStart(s)
    BY <2>2 DEF FiniStart, TypeOK, ringVars
  <2>3. CASE FiniDone
    BY <2>3 DEF FiniDone, TypeOK, ringVars
  <2>4. CASE \E s \in SMs : SmInit(s)
    BY <2>4 DEF SmInit, TypeOK
  <2>5. CASE UNCHANGED vars
    BY <2>5 DEF TypeOK, vars, ringVars, ownerVars
  <2> QED BY <2>1, <2>2, <2>3, <2>4, <2>5
<1>3. RingConsistent' /\ TickInv'
  BY <1>1 DEF RingConsistent, TickInv, TickInHand, IsTick, Stored
<1> QED BY <1>2, <1>3

\* Every step of the specification keeps the invariant.
LEMMA NextIInv == IInv /\ [Next]_vars => IInv'
<1> SUFFICES ASSUME IInv, [Next]_vars PROVE IInv'
  OBVIOUS
<1>1. CASE \E s \in SMs, e \in Evts : EvtqPost(s, e)
  BY <1>1, PostIInv
<1>2. CASE Poll
  BY <1>2, PollCopyIInv, PollAdvanceIInv, PollAccountIInv DEF Poll
<1>3. CASE Fini
  BY <1>3, FiniScanIInv, OwnerIInv DEF Fini
<1>4. CASE HandlerReturn \/ (\E s \in SMs : SmInit(s)) \/ UNCHANGED vars
  BY <1>4, OwnerIInv
<1> QED BY <1>1, <1>2, <1>3, <1>4 DEF Next

\* The invariant holds in every reachable state.
THEOREM IInvHolds == Spec => []IInv
BY InitIInv, NextIInv, PTL DEF Spec

(* The counters and pointers of an event queue keep their ranges: evt_count *)
(* never exceeds evtq->size and neither counter of vsfsm_poll underflows,   *)
(* whatever posts interrupt vsfsm_poll and vsfsm_fini.                      *)
THEOREM TypeCorrect == Spec => []TypeOK
<1>1. IInv => TypeOK
  BY DEF IInv
<1> QED BY IInvHolds, <1>1, PTL

(* No post overwrites an event that waits for vsfsm_poll: tail is always    *)
(* Stored places after head, although vsfsm_poll moves head before it       *)
(* decrements evt_count.                                                    *)
THEOREM RingIsConsistent == Spec => []RingConsistent
<1>1. IInv => RingConsistent
  BY DEF IInv
<1> QED BY IInvHolds, <1>1, PTL

\* The count of tick_evt_count is what TickInv says of it.
LEMMA TickInvCounts == IInv => TickCounted
<1> SUFFICES ASSUME IInv PROVE TickCounted
  OBVIOUS
<1> DEFINE T == {k \in 0 .. Stored - 1 : IsTick(k)}
<1>0. Queued(LAMBDA el : el.evt = TIMER) = Cardinality(T) + (IF TickInHand THEN 1 ELSE 0)
  BY DEF Queued, IsTick, TickInHand
<1>1. tick_evt_count \in 0 .. 1
  BY DEF IInv, TypeOK
<1>2. CASE T = {}
  <2>1. Cardinality(T) = 0
    BY <1>2, FS_EmptySet
  <2>2. (tick_evt_count = 1) <=> TickInHand
    BY <1>2 DEF IInv, TickInv
  <2> HIDE DEF T
  <2> QED BY <1>0, <1>1, <2>1, <2>2 DEF TickCounted
<1>3. CASE T # {}
  <2>1. PICK k \in 0 .. Stored - 1 : IsTick(k)
    BY <1>3
  <2>2. T = {k} /\ ~TickInHand /\ tick_evt_count = 1
    BY <2>1 DEF IInv, TickInv
  <2>3. Cardinality(T) = 1
    BY <2>2, FS_Singleton
  <2> HIDE DEF T
  <2> QED BY <1>0, <2>2, <2>3 DEF TickCounted
<1> QED BY <1>2, <1>3

(* A tick is swallowed only while another one is queued, and at most one    *)
(* ever is: tick_evt_count is exact at every interleaving.                  *)
THEOREM TicksAreCounted == Spec => []TickCounted
BY IInvHolds, TickInvCounts, PTL

-----------------------------------------------------------------------------
(* vsfsm_fini, in a queue that is dimensioned so that it does not fill up     *)
(* while vsfsm_fini scans it.                                                 *)

\* The event at the k-th place from head, counted from 0.
At(k) == queue[Nth(head, k)]

(* vsfsm_fini's pointer is n places after head and no event before it names   *)
(* the state machine; the queue is not full, so the pointer reaches tail only *)
(* after all of them.  No queued event names another state machine that is    *)
(* not in use.                                                                *)
FInv ==
    /\ pc # "fini" => closing = NULL
    /\ pc = "fini" =>
          /\ closing \in SMs
          /\ evt_count < Size
          /\ \E n \in 0 .. Stored : /\ scan = Nth(head, n)
                                    /\ \A k \in 0 .. n - 1 : At(k).sm # closing
    /\ \A k \in 0 .. Stored - 1 : At(k).sm \in open \cup {NULL, closing}
    /\ pc = "advanced" => tmp.sm \in open \cup {NULL, closing}

\* Nothing is queued in the new queue.
LEMMA InitFInv == Init => FInv
BY DEF Init, FInv, Stored

\* A post adds an event behind all the others.
LEMMA PostPlaces ==
    ASSUME IInv, NEW s \in SMs, NEW e \in Evts, EvtqPost(s, e)
    PROVE  \E n \in 0 .. Size - 1 :
              /\ Stored = n /\ Stored' = n + 1
              /\ At(n)' = [sm |-> s, evt |-> e]
              /\ \A k \in 0 .. n - 1 : At(k)' = At(k)
<1> USE DEF IInv
<1>0. /\ head' = head /\ head \in Slots
      /\ Stored \in 0 .. Size - 1 /\ Stored' = Stored + 1
      /\ tail = Nth(head, Stored)
  BY SizeAssumption DEF EvtqPost, ownerVars, Stored, TypeOK, RingConsistent
<1>1. PICK n \in 0 .. Size - 1 : n = Stored
  BY <1>0
<1>2. At(n)' = [sm |-> s, evt |-> e]
  BY <1>0, <1>1 DEF At, EvtqPost, TypeOK
<1>3. ASSUME NEW k \in 0 .. n - 1 PROVE At(k)' = At(k)
  <2>1. k \in 0 .. Size - 1 /\ k # n /\ k \in 0 .. Size
    BY <1>1, SizeAssumption
  <2>2. Nth(head, k) # tail /\ Nth(head, k) \in Slots
    BY <1>0, <1>1, <2>1, NthInjective, NthInRing
  <2> QED BY <1>0, <2>2 DEF At, EvtqPost, TypeOK
<1> QED BY <1>0, <1>1, <1>2, <1>3

\* Moving head takes the first event out and moves the others up.
LEMMA AdvancePlaces ==
    ASSUME IInv, PollAdvance
    PROVE  /\ Stored \in 1 .. Size /\ Stored' = Stored - 1
           /\ tmp = At(0)
           /\ \A k \in 0 .. Stored - 2 : At(k)' = At(k + 1)
<1>1. /\ Stored \in 1 .. Size /\ Stored' = Stored - 1 /\ head \in Slots
      /\ tmp = queue[Nth(head, 0)] /\ queue' = queue /\ head' = Advance(head)
  BY NthZero DEF PollAdvance, IInv, TypeOK, RingConsistent, Stored
<1>2. ASSUME NEW k \in 0 .. Stored - 2 PROVE At(k)' = At(k + 1)
  <2>1. k \in 0 .. Size - 1
    BY <1>1, SizeAssumption
  <2> QED BY <1>1, <2>1, NthShift DEF At
<1> QED BY <1>1, <1>2 DEF At

\* vsfsm_fini's pointer is before tail as long as it has not seen all events.
LEMMA ScanPlaces ==
    ASSUME IInv, FInv, pc = "fini"
    PROVE  \E n \in 0 .. Stored :
              /\ scan = Nth(head, n) /\ n \in 0 .. Size - 1 /\ Stored \in 0 .. Size - 1
              /\ \A k \in 0 .. n - 1 : At(k).sm # closing
              /\ scan = tail <=> n = Stored
<1>1. /\ tail = Nth(head, Stored) /\ head \in Slots
      /\ Stored \in 0 .. Size - 1
  BY SizeAssumption DEF IInv, TypeOK, RingConsistent, Stored, FInv
<1>2. PICK n \in 0 .. Stored : scan = Nth(head, n) /\ \A k \in 0 .. n - 1 : At(k).sm # closing
  BY DEF FInv
<1>3. n \in 0 .. Size - 1
  BY <1>1, SizeAssumption
<1>4. scan = tail <=> n = Stored
  BY <1>1, <1>2, <1>3, NthInjective
<1> QED BY <1>1, <1>2, <1>3, <1>4

\* One turn of vsfsm_fini's loop changes the event under the pointer only.
LEMMA ScanChanges ==
    ASSUME IInv, FiniScan, NEW n \in 0 .. Size - 1, scan = Nth(head, n)
    PROVE  /\ At(n)' = IF At(n).sm = closing THEN [At(n) EXCEPT !.sm = NULL] ELSE At(n)
           /\ \A k \in 0 .. Size - 1 : k # n => At(k)' = At(k)
           /\ scan' = Nth(head, n + 1) /\ head' = head /\ Stored' = Stored
<1>1. head \in Slots /\ queue \in [Slots -> Element] /\ head' = head
  BY DEF IInv, TypeOK, FiniScan
<1>2. /\ scan' = Advance(scan)
      /\ queue' = IF queue[scan].sm = closing THEN [queue EXCEPT ![scan].sm = NULL] ELSE queue
  BY DEF FiniScan
<1>3. scan \in Slots
  BY DEF IInv, TypeOK
<1>4. scan' = Nth(head, n + 1)
  BY <1>1, <1>2, NthSucc
<1>5. At(n)' = IF At(n).sm = closing THEN [At(n) EXCEPT !.sm = NULL] ELSE At(n)
  BY <1>1, <1>2, <1>3 DEF At
<1>6. ASSUME NEW k \in 0 .. Size - 1, k # n PROVE At(k)' = At(k)
  <2>1. Nth(head, k) # scan
    BY <1>1, <1>6, NthInjective
  <2> QED BY <1>1, <1>2, <2>1 DEF At
<1>7. Stored' = Stored
  BY DEF FiniScan, Stored
<1> QED BY <1>1, <1>4, <1>5, <1>6, <1>7

\* vsfsm_evtq_post does not fill the queue under vsfsm_fini.
LEMMA PostFInv ==
    ASSUME FiniOnFull = FALSE, IInv, FInv, NEW s \in SMs, NEW e \in Evts, EvtqPost(s, e)
    PROVE  FInv'
<1>1. PICK n \in 0 .. Size - 1 : /\ Stored = n /\ Stored' = n + 1
                                 /\ At(n)' = [sm |-> s, evt |-> e]
                                 /\ \A k \in 0 .. n - 1 : At(k)' = At(k)
  BY PostPlaces
<1>2. /\ pc' = pc /\ closing' = closing /\ open' = open /\ tmp' = tmp /\ scan' = scan
      /\ head' = head /\ evt_count' = evt_count + 1 /\ s \in open
      /\ pc = "fini" => evt_count + 1 < Size
  BY DEF EvtqPost, Posts, ownerVars
<1>3. ASSUME NEW k \in 0 .. Stored' - 1 PROVE At(k)'.sm \in open \cup {NULL, closing}
  <2>1. k \in 0 .. n - 1 \/ k = n
    BY <1>1
  <2>2. CASE k = n
    BY <1>1, <1>2, <2>2
  <2>3. CASE k \in 0 .. n - 1
    BY <1>1, <2>3 DEF FInv
  <2> QED BY <2>1, <2>2, <2>3
<1>4. ASSUME pc = "fini"
      PROVE  \E m \in 0 .. Stored' : /\ scan' = Nth(head', m)
                                     /\ \A k \in 0 .. m - 1 : At(k)'.sm # closing'
  <2>1. PICK m \in 0 .. n : scan = Nth(head, m) /\ \A k \in 0 .. m - 1 : At(k).sm # closing
    BY <1>1, <1>4 DEF FInv
  <2>2. m \in 0 .. Stored' /\ \A k \in 0 .. m - 1 : k \in 0 .. n - 1
    BY <1>1, <2>1
  <2>3. \A k \in 0 .. m - 1 : At(k)'.sm # closing'
    BY <1>1, <1>2, <2>1, <2>2
  <2> QED BY <1>2, <2>1, <2>2, <2>3
<1> QED BY <1>2, <1>3, <1>4 DEF FInv

\* vsfsm_poll takes the first event.
LEMMA PollFInv ==
    ASSUME IInv, FInv, Poll
    PROVE  FInv'
<1>1. CASE PollCopy
  <2>1. /\ pc = "idle" /\ pc' = "copied" /\ closing' = closing /\ open' = open
        /\ Stored' = Stored /\ queue' = queue /\ head' = head
    BY <1>1 DEF PollCopy, ringVars, Stored
  <2> QED BY <2>1 DEF FInv, At
<1>2. CASE PollAdvance
  <2>1. /\ pc = "copied" /\ pc' = "advanced" /\ closing' = closing /\ open' = open /\ tmp' = tmp
    BY <1>2 DEF PollAdvance
  <2>2. /\ Stored \in 1 .. Size /\ Stored' = Stored - 1 /\ tmp = At(0)
        /\ \A k \in 0 .. Stored - 2 : At(k)' = At(k + 1)
    BY <1>2, AdvancePlaces
  <2>3. ASSUME NEW k \in 0 .. Stored' - 1 PROVE At(k)'.sm \in open \cup {NULL, closing}
    <3>1. k \in 0 .. Stored - 2 /\ k + 1 \in 0 .. Stored - 1
      BY <2>2
    <3> QED BY <2>2, <3>1 DEF FInv
  <2>4. tmp.sm \in open \cup {NULL, closing}
    <3>1. 0 \in 0 .. Stored - 1
      BY <2>2
    <3> QED BY <2>2, <3>1 DEF FInv
  <2> QED BY <2>1, <2>3, <2>4 DEF FInv
<1>3. CASE PollAccount
  <2>1. /\ pc = "advanced" /\ pc' \in {"idle", "handler"} /\ closing' = closing /\ open' = open
        /\ Stored' = Stored /\ queue' = queue /\ head' = head
    BY <1>3 DEF PollAccount, Stored
  <2> QED BY <2>1 DEF FInv, At
<1> QED BY <1>1, <1>2, <1>3 DEF Poll

\* The start and the end of vsfsm_fini, and the other steps of a handler.
LEMMA HandlerFInv ==
    ASSUME FiniOnFull = FALSE, IInv, FInv,
           \/ HandlerReturn
           \/ \E s \in SMs : FiniStart(s)
           \/ FiniDone
           \/ \E s \in SMs : SmInit(s)
           \/ UNCHANGED vars
    PROVE  FInv'
<1>0. queue' = queue /\ head' = head /\ evt_count' = evt_count /\ tmp' = tmp
  BY DEF HandlerReturn, FiniStart, FiniDone, SmInit, vars, ringVars, ownerVars
<1>1. CASE HandlerReturn \/ UNCHANGED vars
  <2>1. /\ closing' = closing /\ open' = open /\ scan' = scan
        /\ pc' = pc \/ (pc = "handler" /\ pc' = "idle")
    BY <1>1 DEF HandlerReturn, vars, ringVars, ownerVars
  <2>2. Stored' = Stored
    BY <1>0, <2>1 DEF Stored
  <2> QED BY <1>0, <2>1, <2>2 DEF FInv, At
<1>2. ASSUME NEW s \in SMs, FiniStart(s) PROVE FInv'
  <2>1. /\ pc = "handler" /\ pc' = "fini" /\ evt_count < Size /\ s \in open
        /\ open' = open \ {s} /\ closing' = s /\ scan' = head
    BY <1>2 DEF FiniStart
  <2>2. Stored' = Stored /\ Stored = evt_count /\ closing = NULL
    BY <1>0, <2>1 DEF Stored, FInv
  <2>3. 0 \in 0 .. Stored /\ scan' = Nth(head, 0) /\ 0 .. 0 - 1 = {}
    BY <2>1, <2>2, NthZero DEF IInv, TypeOK
  <2>4. \A k \in 0 .. Stored - 1 : At(k).sm \in open' \cup {NULL, closing'}
    BY <2>1, <2>2 DEF FInv
  <2>5. \E n \in 0 .. Stored' : /\ scan' = Nth(head', n)
                                /\ \A k \in 0 .. n - 1 : At(k)'.sm # closing'
    BY <1>0, <2>2, <2>3
  <2> QED BY <1>0, <1>2, <2>1, <2>2, <2>4, <2>5 DEF FInv, At
<1>3. CASE FiniDone
  <2>1. pc = "fini" /\ pc' = "handler" /\ closing' = NULL /\ open' = open /\ scan = tail
    BY <1>3 DEF FiniDone
  <2>2. Stored' = Stored
    BY <1>0, <2>1 DEF Stored
  <2>3. \A k \in 0 .. Stored - 1 : At(k).sm # closing
    BY <2>1, ScanPlaces
  <2>4. \A k \in 0 .. Stored - 1 : At(k).sm \in open \cup {NULL}
    BY <2>3 DEF FInv
  <2> QED BY <1>0, <2>1, <2>2, <2>4 DEF FInv, At
<1>4. ASSUME NEW s \in SMs, SmInit(s) PROVE FInv'
  <2>1. pc = "handler" /\ pc' = pc /\ closing' = closing /\ open' = open \cup {s}
    BY <1>4 DEF SmInit
  <2>2. Stored' = Stored
    BY <1>0, <2>1 DEF Stored
  <2> QED BY <1>0, <2>1, <2>2 DEF FInv, At
<1> QED BY <1>1, <1>2, <1>3, <1>4

\* One turn of vsfsm_fini's loop.
LEMMA FiniScanFInv ==
    ASSUME IInv, FInv, FiniScan
    PROVE  FInv'
<1>1. /\ pc = "fini" /\ pc' = pc /\ scan # tail /\ closing' = closing /\ open' = open
      /\ evt_count' = evt_count
  BY DEF FiniScan
<1>2. PICK n \in 0 .. Stored : /\ scan = Nth(head, n) /\ n \in 0 .. Size - 1
                               /\ Stored \in 0 .. Size - 1 /\ n # Stored
                               /\ \A k \in 0 .. n - 1 : At(k).sm # closing
  BY <1>1, ScanPlaces
<1>3. /\ At(n)' = IF At(n).sm = closing THEN [At(n) EXCEPT !.sm = NULL] ELSE At(n)
      /\ \A k \in 0 .. Size - 1 : k # n => At(k)' = At(k)
      /\ scan' = Nth(head, n + 1) /\ head' = head /\ Stored' = Stored
  BY <1>2, ScanChanges
<1>4. At(n) \in Element
  <2>1. n \in 0 .. Size /\ head \in Slots
    BY <1>2, SizeAssumption DEF IInv, TypeOK
  <2> QED BY <2>1, NthInRing DEF At, IInv, TypeOK
<1>5. closing \in SMs /\ closing # NULL
  BY <1>1, NullAssumption DEF FInv
<1>6. At(n)'.sm # closing /\ At(n)'.sm \in {At(n).sm, NULL}
  BY <1>3, <1>4, <1>5 DEF Element
<1>7. n + 1 \in 0 .. Stored /\ \A k \in 0 .. Stored - 1 : k \in 0 .. Size - 1
  BY <1>2, SizeAssumption
<1>8. ASSUME NEW k \in 0 .. (n + 1) - 1 PROVE At(k)'.sm # closing
  <2>1. k = n \/ (k \in 0 .. n - 1 /\ k \in 0 .. Size - 1 /\ k # n)
    BY <1>2, <1>7
  <2> QED BY <1>2, <1>3, <1>6, <2>1
<1>9. ASSUME NEW k \in 0 .. Stored - 1 PROVE At(k)'.sm \in open \cup {NULL, closing}
  <2>1. At(k).sm \in open \cup {NULL, closing} /\ k \in 0 .. Size - 1
    BY <1>7 DEF FInv
  <2> QED BY <1>3, <1>6, <2>1
<1> QED BY <1>1, <1>3, <1>5, <1>7, <1>8, <1>9 DEF FInv

\* Every step keeps the invariant of vsfsm_fini.
LEMMA NextFInv ==
    ASSUME FiniOnFull = FALSE, IInv, FInv, [Next]_vars
    PROVE  FInv'
BY PostFInv, PollFInv, HandlerFInv, FiniScanFInv DEF Next, Fini

\* The invariant of vsfsm_fini holds in every reachable state.
THEOREM FInvHolds ==
    ASSUME FiniOnFull = FALSE
    PROVE  Spec => [](IInv /\ FInv)
BY InitIInv, NextIInv, InitFInv, NextFInv, PTL DEF Spec

(* vsfsm.h says that vsfsm_fini removes the events in the queue.  With a      *)
(* queue that does not fill up meanwhile it does, whatever is posted between  *)
(* the turns of its loop: no queued event names a state machine that is not   *)
(* in use.                                                                    *)
THEOREM FiniRemoves ==
    ASSUME FiniOnFull = FALSE
    PROVE  Spec => []FiniRemovesEvents
<1>1. ASSUME IInv, FInv PROVE FiniRemovesEvents
  <2> DEFINE U == {k \in 0 .. Stored - 1 : At(k).sm \notin open \cup {NULL, closing}}
  <2>1. U = {}
    BY <1>1 DEF FInv
  <2>2. Cardinality(U) = 0
    BY <2>1, FS_EmptySet
  <2>3. ~(pc = "advanced" /\ tmp.sm \notin open \cup {NULL, closing})
    BY <1>1 DEF FInv
  <2> QED BY <2>2, <2>3 DEF FiniRemovesEvents, Queued, At
<1> QED BY FInvHolds, <1>1, PTL

-----------------------------------------------------------------------------
(* The ring buffer implements the FIFO of EvtqAbs.                            *)

\* The i-th queued event, counted from 1: the one in vsfsm_poll's hands first.
Item(i) == IF pc = "advanced" THEN IF i = 1 THEN tmp ELSE At(i - 2) ELSE At(i - 1)

\* Content is the sequence of the queued events.
ContentIs ==
    /\ Content \in Seq(Element)
    /\ Len(Content) = evt_count
    /\ \A i \in 1 .. evt_count : Content[i] = Item(i)

LEMMA ContentFacts == IInv => ContentIs
<1> SUFFICES ASSUME IInv PROVE ContentIs
  OBVIOUS
<1> DEFINE ring == [k \in 1 .. Stored |-> queue[Nth(head, k - 1)]]
<1>1. /\ Stored \in 0 .. Size /\ head \in Slots /\ queue \in [Slots -> Element]
      /\ tmp \in Element /\ evt_count \in 0 .. Size
      /\ Stored = IF pc = "advanced" THEN evt_count - 1 ELSE evt_count
  BY SizeAssumption DEF IInv, TypeOK, RingConsistent, Stored
<1>2. \A k \in 1 .. Stored : queue[Nth(head, k - 1)] \in Element
  <2> TAKE k \in 1 .. Stored
  <2>1. k - 1 \in 0 .. Size
    BY <1>1, SizeAssumption
  <2> QED BY <1>1, <2>1, NthInRing
<1>3. Stored \in Nat
  BY <1>1, SizeAssumption
<1>4. ring \in Seq(Element) /\ Len(ring) = Stored
  BY <1>2, <1>3, IsASeq, LenProperties
<1>5. CASE pc = "advanced"
  <2>1. Content = <<tmp>> \o ring
    BY <1>5 DEF Content
  <2>2. <<tmp>> \in Seq(Element) /\ Len(<<tmp>>) = 1 /\ <<tmp>>[1] = tmp
    BY <1>1
  <2> HIDE DEF ring
  <2>3. /\ Content \in Seq(Element) /\ Len(Content) = 1 + Stored
        /\ \A i \in 1 .. 1 + Stored : Content[i] = IF i <= 1 THEN <<tmp>>[i] ELSE ring[i - 1]
    BY <1>4, <2>1, <2>2, ConcatProperties
  <2>4. evt_count = 1 + Stored
    BY <1>1, <1>5, SizeAssumption
  <2>5. ASSUME NEW i \in 1 .. evt_count PROVE Content[i] = Item(i)
    <3>1. CASE i = 1
      <4>1. i \in 1 .. 1 + Stored /\ i <= 1
        BY <1>3, <3>1
      <4> QED BY <1>5, <2>2, <2>3, <3>1, <4>1 DEF Item
    <3>2. CASE i # 1
      <4>1. i \in 1 .. 1 + Stored /\ ~(i <= 1) /\ i - 1 \in 1 .. Stored /\ (i - 1) - 1 = i - 2
        BY <1>3, <2>4, <3>2
      <4> QED BY <1>5, <2>3, <3>2, <4>1 DEF Item, ring, At
    <3> QED BY <3>1, <3>2
  <2> QED BY <2>3, <2>4, <2>5 DEF ContentIs
<1>6. CASE pc # "advanced"
  <2>1. Content = ring /\ Stored = evt_count
    BY <1>1, <1>6 DEF Content
  <2> QED BY <1>4, <1>6, <2>1 DEF ContentIs, Item, At
<1> QED BY <1>5, <1>6

\* Two sequences of the same events are equal.
LEMMA ContentKept ==
    ASSUME ContentIs, ContentIs', evt_count' = evt_count,
           \A i \in 1 .. evt_count : Item(i)' = Item(i)
    PROVE  Content' = Content
<1>1. Content \in Seq(Element) /\ Content' \in Seq(Element) /\ Len(Content') = Len(Content)
  BY DEF ContentIs
<1>2. \A i \in 1 .. Len(Content) : Content'[i] = Content[i]
  BY DEF ContentIs
<1> QED BY <1>1, <1>2, SeqEqual

\* A post appends the event, and a tick is refused when the FIFO has one.
LEMMA PostRefines ==
    ASSUME IInv, ContentIs, ContentIs', NEW s \in SMs, NEW e \in Evts, EvtqPost(s, e)
    PROVE  Abs!AbsPost(s, e)
<1> DEFINE new == [sm |-> s, evt |-> e]
<1>0. new \in Element
  BY DEF Element
<1>1. PICK n \in 0 .. Size - 1 : /\ Stored = n /\ Stored' = n + 1
                                 /\ At(n)' = new
                                 /\ \A k \in 0 .. n - 1 : At(k)' = At(k)
  BY PostPlaces
<1>2. /\ pc' = pc /\ tmp' = tmp /\ closing' = closing
      /\ evt_count' = evt_count + 1 /\ evt_count < Size /\ evt_count \in Nat
      /\ e = TIMER => tick_evt_count = 0
      /\ pc = "advanced" => evt_count >= 1
  BY DEF EvtqPost, ownerVars, IInv, TypeOK, RingConsistent
<1>3. n = IF pc = "advanced" THEN evt_count - 1 ELSE evt_count
  BY <1>1 DEF Stored
<1> HIDE DEF new
<1>4. \A i \in 1 .. evt_count : Item(i)' = Item(i)
  <2> TAKE i \in 1 .. evt_count
  <2>1. CASE pc = "advanced"
    <3>1. CASE i = 1
      BY <1>2, <2>1, <3>1 DEF Item
    <3>2. CASE i # 1
      <4>1. i - 2 \in 0 .. n - 1
        BY <1>2, <1>3, <2>1, <3>2
      <4> QED BY <1>1, <1>2, <2>1, <3>2, <4>1 DEF Item
    <3> QED BY <3>1, <3>2
  <2>2. CASE pc # "advanced"
    <3>1. i - 1 \in 0 .. n - 1
      BY <1>2, <1>3, <2>2
    <3> QED BY <1>1, <1>2, <2>2, <3>1 DEF Item
  <2> QED BY <2>1, <2>2
<1>5. PICK c \in Nat : c = evt_count
  BY <1>2
<1>6. Item(c + 1)' = new
  <2>1. CASE pc = "advanced"
    <3>1. (c + 1) - 2 = n /\ c + 1 # 1
      BY <1>2, <1>3, <1>5, <2>1
    <3> QED BY <1>1, <1>2, <2>1, <3>1 DEF Item
  <2>2. CASE pc # "advanced"
    <3>1. (c + 1) - 1 = n
      BY <1>3, <1>5, <2>2
    <3> QED BY <1>1, <1>2, <2>2, <3>1 DEF Item
  <2> QED BY <2>1, <2>2
<1>7. Content' = Append(Content, new)
  <2>1. /\ Content \in Seq(Element) /\ Content' \in Seq(Element)
        /\ Len(Content) = c /\ Len(Content') = c + 1
    BY <1>2, <1>5 DEF ContentIs
  <2>2. /\ Append(Content, new) \in Seq(Element) /\ Len(Append(Content, new)) = c + 1
        /\ \A i \in 1 .. c : Append(Content, new)[i] = Content[i]
        /\ Append(Content, new)[c + 1] = new
    BY <1>0, <2>1, AppendProperties
  <2>3. ASSUME NEW i \in 1 .. c + 1 PROVE Content'[i] = Append(Content, new)[i]
    <3>1. CASE i = c + 1
      <4>1. i \in 1 .. evt_count'
        BY <1>2, <1>5
      <4> QED BY <1>6, <2>2, <3>1, <4>1 DEF ContentIs
    <3>2. CASE i # c + 1
      <4>1. i \in 1 .. evt_count' /\ i \in 1 .. evt_count /\ i \in 1 .. c
        BY <1>2, <1>5, <3>2
      <4> QED BY <1>4, <2>2, <4>1 DEF ContentIs
    <3> QED BY <3>1, <3>2
  <2> QED BY <2>1, <2>2, <2>3, SeqEqual
<1>8. ASSUME e = TIMER, NEW i \in 1 .. Len(Content) PROVE Content[i].evt # TIMER
  <2>1. tick_evt_count = 0 /\ i \in 1 .. evt_count /\ Content[i] = Item(i)
    BY <1>2, <1>8 DEF ContentIs
  <2>2. ~TickInHand /\ \A k \in 0 .. n - 1 : At(k).evt # TIMER
    BY <1>1, <2>1 DEF IInv, TickInv, IsTick, At
  <2>3. CASE pc = "advanced" /\ i = 1
    BY <2>1, <2>2, <2>3 DEF Item, TickInHand
  <2>4. CASE pc = "advanced" /\ i # 1
    <3>1. i - 2 \in 0 .. n - 1
      BY <1>2, <1>3, <2>1, <2>4
    <3> QED BY <2>1, <2>2, <2>4, <3>1 DEF Item
  <2>5. CASE pc # "advanced"
    <3>1. i - 1 \in 0 .. n - 1
      BY <1>2, <1>3, <2>1, <2>5
    <3> QED BY <2>1, <2>2, <2>5, <3>1 DEF Item
  <2> QED BY <2>3, <2>4, <2>5
<1>9. Len(Content) < Size
  BY <1>2 DEF ContentIs
<1> QED BY <1>2, <1>7, <1>8, <1>9 DEF Abs!AbsPost, Abs!HasTick, new

\* vsfsm_poll takes the oldest event in three steps, of which the last counts.
LEMMA PollRefines ==
    ASSUME IInv, FInv, ContentIs, ContentIs', Poll
    PROVE  Abs!AbsTake \/ UNCHANGED Abs!absVars
<1>1. CASE PollCopy
  <2>1. /\ pc = "idle" /\ pc' = "copied" /\ closing' = closing /\ evt_count' = evt_count
        /\ queue' = queue /\ head' = head
    BY <1>1 DEF PollCopy, ringVars
  <2>2. \A i \in 1 .. evt_count : Item(i)' = Item(i)
    BY <2>1 DEF Item, At
  <2>3. Content' = Content
    BY <2>1, <2>2, ContentKept
  <2> QED BY <2>1, <2>3 DEF Abs!absVars
<1>2. CASE PollAdvance
  <2>1. /\ pc = "copied" /\ pc' = "advanced" /\ closing' = closing /\ evt_count' = evt_count
        /\ tmp' = tmp /\ evt_count \in Nat /\ Stored = evt_count
    BY <1>2 DEF PollAdvance, IInv, TypeOK, Stored
  <2>2. tmp = At(0) /\ \A k \in 0 .. evt_count - 2 : At(k)' = At(k + 1)
    BY <1>2, <2>1, AdvancePlaces
  <2>3. ASSUME NEW i \in 1 .. evt_count PROVE Item(i)' = Item(i)
    <3>1. CASE i = 1
      BY <2>1, <2>2, <3>1 DEF Item
    <3>2. CASE i # 1
      <4>1. i - 2 \in 0 .. evt_count - 2 /\ (i - 2) + 1 = i - 1
        BY <2>1, <3>2
      <4>2. At(i - 2)' = At(i - 1)
        BY <2>2, <4>1
      <4> QED BY <2>1, <3>2, <4>2 DEF Item
    <3> QED BY <3>1, <3>2
  <2>4. Content' = Content
    BY <2>1, <2>3, ContentKept
  <2> QED BY <2>1, <2>4 DEF Abs!absVars
<1>3. CASE PollAccount
  <2>1. /\ pc = "advanced" /\ pc' = (IF tmp.sm = NULL THEN "idle" ELSE "handler")
        /\ closing' = closing /\ evt_count' = evt_count - 1 /\ tmp' = tmp
        /\ queue' = queue /\ head' = head /\ evt_count \in Nat /\ evt_count >= 1
    BY <1>3 DEF PollAccount, IInv, TypeOK, RingConsistent
  <2>2. /\ Content \in Seq(Element) /\ Content' \in Seq(Element) /\ Content # <<>>
        /\ Len(Content) = evt_count /\ Len(Content') = evt_count - 1
    <3>1. Len(Content) = evt_count
      BY DEF ContentIs
    <3>2. Content # <<>>
      BY <2>1, <3>1
    <3> QED BY <2>1, <3>1, <3>2 DEF ContentIs
  <2>3. /\ Tail(Content) \in Seq(Element) /\ Len(Tail(Content)) = evt_count - 1
        /\ \A i \in 1 .. evt_count - 1 : Tail(Content)[i] = Content[i + 1]
        /\ Head(Content) = Content[1]
    BY <2>2, HeadTailProperties
  <2>4. Head(Content) = tmp
    <3>1. 1 \in 1 .. evt_count
      BY <2>1
    <3> QED BY <2>1, <2>3, <3>1 DEF ContentIs, Item
  <2>5. ASSUME NEW i \in 1 .. evt_count - 1 PROVE Content'[i] = Tail(Content)[i]
    <3>1. i \in 1 .. evt_count' /\ i + 1 \in 1 .. evt_count /\ i + 1 # 1 /\ (i + 1) - 2 = i - 1
      BY <2>1
    <3>2. Item(i)' = Item(i + 1)
      BY <2>1, <3>1 DEF Item, At
    <3> QED BY <2>3, <3>1, <3>2 DEF ContentIs
  <2>6. Content' = Tail(Content)
    BY <2>2, <2>3, <2>5, SeqEqual
  <2> QED BY <2>1, <2>2, <2>4, <2>6 DEF Abs!AbsTake
<1> QED BY <1>1, <1>2, <1>3 DEF Poll

\* The steps of a handler that leave the queue alone.
LEMMA HandlerRefines ==
    ASSUME IInv, FInv, ContentIs, ContentIs',
           \/ HandlerReturn
           \/ \E s \in SMs : FiniStart(s)
           \/ FiniDone
           \/ \E s \in SMs : SmInit(s)
           \/ UNCHANGED vars
    PROVE  Abs!AbsNext \/ UNCHANGED Abs!absVars
<1>0. /\ queue' = queue /\ head' = head /\ evt_count' = evt_count /\ tmp' = tmp
      /\ pc' = pc \/ (pc' \notin {"copied", "advanced"} /\ pc \notin {"copied", "advanced"})
  BY DEF HandlerReturn, FiniStart, FiniDone, SmInit, vars, ringVars, ownerVars
<1>1. Content' = Content
  <2>1. \A i \in 1 .. evt_count : Item(i)' = Item(i)
    BY <1>0 DEF Item, At
  <2> QED BY <1>0, <2>1, ContentKept
<1>2. CASE HandlerReturn
  <2>1. pc = "handler" /\ pc' = "idle" /\ closing' = closing /\ closing = NULL
    BY <1>2 DEF HandlerReturn, FInv
  <2>2. Abs!AbsHandled
    BY <1>1, <2>1 DEF Abs!AbsHandled
  <2> QED BY <2>2 DEF Abs!AbsNext
<1>3. ASSUME NEW s \in SMs, FiniStart(s) PROVE Abs!AbsNext
  <2>1. pc = "handler" /\ pc' = "fini" /\ closing' = s /\ closing = NULL
    BY <1>3 DEF FiniStart, FInv
  <2>2. Abs!AbsFini(s)
    BY <1>0, <1>1, <2>1 DEF Abs!AbsFini
  <2> QED BY <2>2 DEF Abs!AbsNext
<1>4. CASE FiniDone
  <2>1. /\ pc = "fini" /\ pc' = "handler" /\ closing' = NULL /\ scan = tail
        /\ closing \in SMs /\ closing # NULL
    BY <1>4, NullAssumption DEF FiniDone, FInv
  <2>2. /\ Stored = evt_count /\ evt_count \in Nat
        /\ \A k \in 0 .. Stored - 1 : At(k).sm # closing
    BY <2>1, ScanPlaces DEF Stored, IInv, TypeOK
  <2>3. ASSUME NEW i \in 1 .. Len(Content) PROVE Content[i].sm # closing
    <3>1. i \in 1 .. evt_count /\ Content[i] = Item(i)
      BY DEF ContentIs
    <3>2. i - 1 \in 0 .. Stored - 1
      BY <2>2, <3>1
    <3> QED BY <2>1, <2>2, <3>1, <3>2 DEF Item
  <2>4. Abs!AbsFiniDone
    BY <1>0, <1>1, <2>1, <2>3 DEF Abs!AbsFiniDone
  <2> QED BY <2>4 DEF Abs!AbsNext
<1>5. CASE (\E s \in SMs : SmInit(s)) \/ UNCHANGED vars
  <2>1. pc' = pc /\ closing' = closing
    BY <1>5 DEF SmInit, vars, ownerVars
  <2> QED BY <1>0, <1>1, <2>1 DEF Abs!absVars
<1> QED BY <1>2, <1>3, <1>4, <1>5

\* One turn of vsfsm_fini's loop disables one event, or none.
LEMMA FiniScanRefines ==
    ASSUME IInv, FInv, ContentIs, ContentIs', FiniScan
    PROVE  Abs!AbsNext \/ UNCHANGED Abs!absVars
<1>1. /\ pc = "fini" /\ pc' = pc /\ scan # tail /\ closing' = closing /\ tmp' = tmp
      /\ evt_count' = evt_count /\ evt_count \in Nat /\ Stored = evt_count
  BY DEF FiniScan, IInv, TypeOK, Stored
<1>2. PICK n \in 0 .. Stored : /\ scan = Nth(head, n) /\ n \in 0 .. Size - 1
                               /\ Stored \in 0 .. Size - 1 /\ n # Stored
                               /\ \A k \in 0 .. n - 1 : At(k).sm # closing
  BY <1>1, ScanPlaces
<1>3. /\ At(n)' = IF At(n).sm = closing THEN [At(n) EXCEPT !.sm = NULL] ELSE At(n)
      /\ \A k \in 0 .. Size - 1 : k # n => At(k)' = At(k)
  BY <1>2, ScanChanges
<1>4. /\ n + 1 \in 1 .. evt_count /\ (n + 1) - 1 = n
      /\ \A i \in 1 .. evt_count : i # n + 1 => i - 1 \in 0 .. Size - 1 /\ i - 1 # n
  BY <1>1, <1>2, SizeAssumption
<1>5. \A i \in 1 .. evt_count : Item(i) = At(i - 1) /\ Item(i)' = At(i - 1)'
  BY <1>1 DEF Item
<1>6. \A i \in 1 .. evt_count : i # n + 1 => Item(i)' = Item(i)
  BY <1>3, <1>4, <1>5
<1>7. CASE At(n).sm # closing
  <2>1. Item(n + 1)' = Item(n + 1)
    BY <1>3, <1>4, <1>5, <1>7
  <2>2. Content' = Content
    BY <1>1, <1>6, <2>1, ContentKept
  <2> QED BY <1>1, <2>2 DEF Abs!absVars
<1>8. CASE At(n).sm = closing
  <2>1. Item(n + 1)' = [Item(n + 1) EXCEPT !.sm = NULL]
    BY <1>3, <1>4, <1>5, <1>8
  <2>2. /\ Content \in Seq(Element) /\ Content' \in Seq(Element)
        /\ Len(Content) = evt_count /\ Len(Content') = evt_count
        /\ \A i \in 1 .. evt_count : Content[i] = Item(i) /\ Content'[i] = Item(i)'
    BY <1>1 DEF ContentIs
  <2> DEFINE forgotten == [Content EXCEPT ![n + 1].sm = NULL]
  <2>3. [Content[n + 1] EXCEPT !.sm = NULL] \in Element
    <3>1. Content[n + 1] \in Element
      BY <1>4, <2>2, ElementOfSeq
    <3> QED BY <3>1 DEF Element
  <2>4. /\ forgotten \in Seq(Element) /\ Len(forgotten) = Len(Content)
        /\ \A i \in 1 .. Len(Content) :
              forgotten[i] = IF i = n + 1 THEN [Content[n + 1] EXCEPT !.sm = NULL] ELSE Content[i]
    BY <1>4, <2>2, <2>3, ExceptSeq
  <2> HIDE DEF forgotten
  <2>5. ASSUME NEW i \in 1 .. evt_count PROVE Content'[i] = forgotten[i]
    BY <1>4, <1>6, <2>1, <2>2, <2>4
  <2>6. Content' = forgotten
    BY <2>2, <2>4, <2>5, SeqEqual
  <2>7. closing # NULL /\ Content[n + 1].sm = closing
    BY <1>1, <1>4, <1>5, <1>8, <2>2, NullAssumption DEF FInv
  <2>8. Abs!AbsForget(n + 1)
    BY <1>1, <2>6, <2>7 DEF Abs!AbsForget, forgotten
  <2> QED BY <1>4, <2>2, <2>8 DEF Abs!AbsNext
<1> QED BY <1>7, <1>8

(* For every queue size: the ring buffer with its pointers and counters,      *)
(* vsfsm_poll with its three steps and vsfsm_fini with its loop, interrupted  *)
(* by posts anywhere, implement the bounded FIFO that coalesces ticks and     *)
(* forgets finished state machines.                                           *)
THEOREM RingImplementsFifo ==
    ASSUME FiniOnFull = FALSE
    PROVE  Spec => ImplementsFifo
<1>1. Init => Abs!AbsInit
  <2> SUFFICES ASSUME Init PROVE Abs!AbsInit
    OBVIOUS
  <2>1. pc = "idle" /\ evt_count = 0 /\ closing = NULL
    BY DEF Init
  <2>2. Content = <<>>
    <3>1. ContentIs
      BY InitIInv, ContentFacts
    <3> QED BY <2>1, <3>1, EmptySeq DEF ContentIs
  <2> QED BY <2>1, <2>2 DEF Abs!AbsInit
<1>2. ASSUME IInv, FInv, ContentIs, ContentIs', [Next]_vars
      PROVE  Abs!AbsNext \/ UNCHANGED Abs!absVars
  <2>1. CASE \E s \in SMs, e \in Evts : EvtqPost(s, e)
    BY <1>2, <2>1, PostRefines DEF Abs!AbsNext
  <2>2. CASE Poll
    BY <1>2, <2>2, PollRefines DEF Abs!AbsNext
  <2>3. CASE ~(\E s \in SMs, e \in Evts : EvtqPost(s, e)) /\ ~Poll
    BY <1>2, <2>3, HandlerRefines, FiniScanRefines DEF Next, Fini
  <2> QED BY <2>1, <2>2, <2>3
<1>3. IInv /\ FInv /\ ContentIs /\ ContentIs' /\ [Next]_vars => [Abs!AbsNext]_Abs!absVars
  BY <1>2
<1>4. Spec => [](IInv /\ FInv)
  BY FInvHolds
<1> QED BY <1>1, <1>3, <1>4, ContentFacts, PTL DEF Spec, ImplementsFifo, Abs!AbsSpec
=============================================================================
