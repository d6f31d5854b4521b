---------------------------- MODULE SchedProofs ----------------------------
(***************************************************************************)
(* Proofs about the scheduler of module Sched, for every number of levels, *)
(* queue lengths, set of state machines and assignment of state machines to*)
(* queues.                                                                 *)
(*                                                                         *)
(* The argument: a context holds vsfsm_cur_evtq from SrtSet to SrtRestore. *)
(* Only the highest active level executes, so the contexts that hold it are*)
(* nested like a stack whose links are the saved values in `old'; the top  *)
(* of the stack is cur.  Hence a context that executes handlers finds its  *)
(* own queue in vsfsm_cur_evtq.                                            *)
(*                                                                         *)
(* From this follow, each with the invariant it needs: that no wakeup is   *)
(* lost (an event is put into a queue together with the duty to activate   *)
(* it); that protection excludes (the contexts that have dispatched a state*)
(* machine without queue are nested, and those above the lowest of them    *)
(* cannot be entered); and that the order is kept (FifoOf: what is queued  *)
(* for a state machine are the numbers after the last delivered one).      *)
(***************************************************************************)
EXTENDS Sched, SequenceTheorems, FiniteSetTheorems, TLAPS

Event == [sm : SMs, id : Nat]
Frame == [sm : SMs, orig : Levels \cup {NoQueue}]

\* Context p has stored its queue in vsfsm_cur_evtq and not yet restored it.
Holding(p) == pc[p] \notin {"off", "entered", "saved"}

\* The current queue is that of the highest context that holds it.
CurIsTop ==
    /\ Holding(cur)
    /\ \A r \in Levels : Holding(r) => r <= cur

\* What a context has saved is the next lower context that holds a queue.
OldIsBelow ==
    \A p \in Levels \ {0} : pc[p] \notin {"off", "entered"} =>
        /\ old[p] < p
        /\ Holding(old[p])
        /\ \A r \in Levels : r < p /\ Holding(r) => r <= old[p]

\* An event waits in the queue of its state machine.
QueuedAtHome ==
    \A p \in Levels : \A i \in 1 .. Len(q[p]) : Home[q[p][i].sm] = p

\* A context in "handler" has called one.
HandlerHasFrame == \A p \in Levels : pc[p] = "handler" => frames[p] # <<>>

IInv ==
    TypeOK /\ CurIsTop /\ OldIsBelow /\ QueuedAtHome /\ HandlerAtHome /\ HandlerHasFrame

-----------------------------------------------------------------------------
\* Appending keeps a sequence over a set, and adds its element at the end.
LEMMA AppendFacts ==
    ASSUME NEW S, NEW s \in Seq(S), NEW e \in S
    PROVE  /\ Append(s, e) \in Seq(S)
           /\ Len(Append(s, e)) = Len(s) + 1
           /\ \A i \in 1 .. Len(s) : Append(s, e)[i] = s[i]
           /\ Append(s, e)[Len(s) + 1] = e
BY AppendProperties

\* What the tail of a sequence holds.
LEMMA TailFacts ==
    ASSUME NEW S, NEW s \in Seq(S), s # <<>>
    PROVE  /\ Tail(s) \in Seq(S)
           /\ Len(Tail(s)) = Len(s) - 1
           /\ Len(s) \in Nat \ {0}
           /\ \A i \in 1 .. Len(Tail(s)) : i + 1 \in 1 .. Len(s) /\ Tail(s)[i] = s[i + 1]
           /\ Head(s) = s[1] /\ 1 \in 1 .. Len(s)
           /\ Head(s) \in S
<1>1. Len(s) \in Nat /\ Len(s) # 0
  BY EmptySeq, LenProperties
<1>2. Len(Tail(s)) = Len(s) - 1 /\ Tail(s) \in Seq(S) /\ Head(s) \in S
  BY HeadTailProperties
<1> QED BY <1>1, <1>2

\* What a sequence without its last element holds.
LEMMA FrontFacts ==
    ASSUME NEW S, NEW s \in Seq(S)
    PROVE  LET f == SubSeq(s, 1, Len(s) - 1) IN
           /\ f \in Seq(S)
           /\ \A i \in 1 .. Len(f) : i \in 1 .. Len(s) /\ f[i] = s[i]
<1>1. Len(s) \in Nat /\ \A i \in 1 .. Len(s) : s[i] \in S
  BY LenProperties, ElementOfSeq
<1>2. \A i \in 1 .. Len(s) - 1 : s[i] \in S
  BY <1>1
<1>3. SubSeq(s, 1, Len(s) - 1) \in Seq(S)
  BY <1>1, <1>2
<1>4. CASE Len(s) = 0
  BY <1>1, <1>3, <1>4
<1>5. CASE Len(s) # 0
  BY <1>1, <1>3, <1>5
<1> QED BY <1>4, <1>5

\* Levels are numbers, and NULL is not one of them.
LEMMA LevelFacts == Levels \subseteq Nat /\ 0 \in Levels /\ NoQueue \notin Levels
BY NAssumption DEF Levels, NoQueue

-----------------------------------------------------------------------------
\* While a context that holds its queue executes, that queue is current.
LEMMA RunningIsCurrent ==
    ASSUME IInv, NEW p \in Levels, Running(p), Holding(p)
    PROVE  cur = p
<1>1. cur \in Levels /\ p <= cur
  BY DEF IInv, TypeOK, CurIsTop
<1>2. ~(cur > p)
  BY <1>1 DEF IInv, CurIsTop, Holding, Running, Active
<1> QED BY <1>1, <1>2, NAssumption DEF Levels

\* The nesting invariant only depends on who holds what.
LEMMA NestingKept ==
    ASSUME IInv,
           cur' = cur, old' = old,
           \A r \in Levels : /\ Holding(r)' <=> Holding(r)
                             /\ pc'[r] \in {"off", "entered"} <=> pc[r] \in {"off", "entered"}
    PROVE  CurIsTop' /\ OldIsBelow'
<1>1. cur \in Levels /\ \A r \in Levels : old[r] \in Levels
  BY DEF IInv, TypeOK
<1>2. CurIsTop'
  BY <1>1 DEF IInv, CurIsTop
<1>3. OldIsBelow'
  BY <1>1 DEF IInv, OldIsBelow
<1> QED BY <1>2, <1>3

\* After the initialisation of vsfmain only the main loop is active, and the
\* invariant holds.
LEMMA InitIInv == Init => IInv
<1> SUFFICES ASSUME Init PROVE IInv
  OBVIOUS
<1>0. 0 \in Levels /\ NoQueue \notin Levels
  BY NAssumption DEF Levels, NoQueue
<1>1. TypeOK
  <2>1. q \in [Levels -> Seq([sm : SMs, id : Nat])] /\ \A p \in Levels : Len(q[p]) <= QueueLen[p]
    BY LenAssumption DEF Init
  <2>2. frames \in [Levels -> Seq([sm : SMs, orig : Levels \cup {NoQueue}])]
    BY DEF Init
  <2>3. posts \in 0 .. MaxPosts
    BY PostsAssumption DEF Init
  <2> QED BY <1>0, <2>1, <2>2, <2>3 DEF Init, TypeOK, SrtPc, MainPc
<1>2. CurIsTop /\ OldIsBelow
  BY <1>0 DEF Init, CurIsTop, OldIsBelow, Holding
<1>3. QueuedAtHome /\ HandlerAtHome /\ HandlerHasFrame
  BY DEF Init, QueuedAtHome, HandlerAtHome, HandlerHasFrame
<1> QED BY <1>1, <1>2, <1>3 DEF IInv

-----------------------------------------------------------------------------
\* app_on_srt is entered: the context holds nothing yet.
LEMMA SwiEnterIInv ==
    ASSUME IInv, NEW p \in Levels, SwiEnter(p)
    PROVE  IInv'
<1> USE DEF IInv
<1>0. 0 \in Levels /\ p # 0
  BY NAssumption DEF Levels, SwiEnter
<1>1. /\ pc' \in [Levels -> SrtPc \cup MainPc]
      /\ pc'[p] = "entered" /\ pc[p] = "off"
      /\ \A r \in Levels \ {0, p} : pc'[r] = pc[r]
      /\ pc'[0] = pc[0] \/ (pc[0] = "sleep" /\ pc'[0] = "check")
  BY <1>0 DEF SwiEnter, Woken, TypeOK, SrtPc, MainPc
<1>2. TypeOK'
  BY <1>0, <1>1 DEF SwiEnter, TypeOK, sendVars, SrtPc, MainPc
<1>3. CurIsTop' /\ OldIsBelow'
  <2>1. cur' = cur /\ old' = old
    BY DEF SwiEnter
  <2>2. \A r \in Levels : /\ Holding(r)' <=> Holding(r)
                          /\ pc'[r] \in {"off", "entered"} <=> pc[r] \in {"off", "entered"}
    BY <1>0, <1>1 DEF Holding
  <2> QED BY <2>1, <2>2, NestingKept
<1>4. QueuedAtHome' /\ HandlerAtHome' /\ HandlerHasFrame'
  BY <1>1 DEF SwiEnter, sendVars, QueuedAtHome, HandlerAtHome, HandlerHasFrame
<1> QED BY <1>2, <1>3, <1>4

\* vsfsm_evtq_set saves the current queue, which belongs to a lower context.
LEMMA SrtSaveIInv ==
    ASSUME IInv, NEW p \in Levels, SrtSave(p)
    PROVE  IInv'
<1> USE DEF IInv
<1>0. p # 0 /\ 0 \in Levels /\ Levels \subseteq Int
  <2>1. p # 0
    BY DEF SrtSave, TypeOK, MainPc
  <2> QED BY <2>1, NAssumption DEF Levels
<1>1. TypeOK'
  BY <1>0 DEF SrtSave, TypeOK, sendVars, SrtPc, MainPc
<1>2. \A r \in Levels : Holding(r)' <=> Holding(r)
  BY DEF SrtSave, Holding, TypeOK
<1>3. CurIsTop'
  BY <1>2 DEF SrtSave, CurIsTop, TypeOK
<1>4. cur < p
  <2>1. cur \in Levels /\ Holding(cur)
    BY DEF CurIsTop, TypeOK
  <2>2. cur # p /\ ~(cur > p)
    BY <2>1 DEF Holding, SrtSave, Executes, Running, Active
  <2> QED BY <2>1, <2>2, <1>0
<1>5. OldIsBelow'
  <2>1. old'[p] = cur /\ \A r \in Levels \ {p} : old'[r] = old[r] /\ pc'[r] = pc[r]
    BY DEF SrtSave, TypeOK
  <2>2. cur \in Levels /\ \A r \in Levels : old[r] \in Levels
    BY DEF TypeOK
  <2>3. ASSUME NEW r \in Levels \ {0}, pc'[r] \notin {"off", "entered"}
        PROVE  /\ old'[r] < r
               /\ Holding(old[r])'
               /\ \A t \in Levels : t < r /\ Holding(t)' => t <= old'[r]
    <3>1. CASE r = p
      BY <3>1, <2>1, <2>2, <1>2, <1>4, <1>0 DEF CurIsTop, Holding
    <3>2. CASE r # p
      BY <3>2, <2>1, <2>2, <2>3, <1>2 DEF OldIsBelow, Holding
    <3> QED BY <3>1, <3>2
  <2> QED BY <2>3 DEF OldIsBelow, Holding
<1>6. QueuedAtHome' /\ HandlerAtHome' /\ HandlerHasFrame'
  BY DEF SrtSave, sendVars, QueuedAtHome, HandlerAtHome, HandlerHasFrame, TypeOK
<1> QED BY <1>1, <1>3, <1>5, <1>6

\* vsfsm_evtq_set selects the queue of the running, hence highest, context.
LEMMA SrtSetIInv ==
    ASSUME IInv, NEW p \in Levels, SrtSet(p)
    PROVE  IInv'
<1> USE DEF IInv
<1>0. p # 0 /\ 0 \in Levels /\ Levels \subseteq Int
  <2>1. p # 0
    BY DEF SrtSet, TypeOK, MainPc
  <2> QED BY <2>1, NAssumption DEF Levels
<1>1. TypeOK'
  BY <1>0 DEF SrtSet, TypeOK, sendVars, SrtPc, MainPc
<1>2. /\ Holding(p)' /\ ~Holding(p) /\ cur' = p /\ old' = old
      /\ \A r \in Levels \ {p} : pc'[r] = pc[r]
      /\ \A r \in Levels : r > p => pc[r] = "off"
  BY DEF SrtSet, Holding, TypeOK, Executes, Running, Active
<1>3. CurIsTop'
  BY <1>2, <1>0 DEF CurIsTop, Holding
<1>4. OldIsBelow'
  <2>1. ASSUME NEW r \in Levels \ {0}, pc'[r] \notin {"off", "entered"}
        PROVE  /\ old'[r] < r
               /\ Holding(old[r])'
               /\ \A t \in Levels : t < r /\ Holding(t)' => t <= old'[r]
    <3>1. r <= p /\ pc[r] \notin {"off", "entered"} /\ old[r] \in Levels
      BY <2>1, <1>2, <1>0 DEF SrtSet, TypeOK
    <3> QED BY <3>1, <1>2, <1>0 DEF OldIsBelow, Holding
  <2> QED BY <2>1 DEF OldIsBelow, Holding
<1>5. QueuedAtHome' /\ HandlerAtHome' /\ HandlerHasFrame'
  BY DEF SrtSet, sendVars, QueuedAtHome, HandlerAtHome, HandlerHasFrame, TypeOK
<1> QED BY <1>1, <1>3, <1>4, <1>5

\* app_on_srt puts back what it saved: the next lower context's queue.
LEMMA SrtRestoreIInv ==
    ASSUME IInv, NEW p \in Levels, SrtRestore(p)
    PROVE  IInv'
<1> USE DEF IInv
<1>0. p # 0 /\ 0 \in Levels /\ Levels \subseteq Int
  <2>1. p # 0
    BY DEF SrtRestore, TypeOK, MainPc
  <2> QED BY <2>1, NAssumption DEF Levels
<1>1. TypeOK'
  BY <1>0 DEF SrtRestore, TypeOK, sendVars, SrtPc, MainPc
<1>2. /\ pc'[p] = "off" /\ Holding(p) /\ cur' = old[p] /\ old' = old
      /\ pc[p] \notin {"off", "entered"}
      /\ \A r \in Levels \ {p} : pc'[r] = pc[r]
      /\ \A r \in Levels : r > p => pc[r] = "off"
      /\ old[p] \in Levels
  BY DEF SrtRestore, Holding, TypeOK, Executes, Running, Active
<1>3. /\ old[p] < p /\ Holding(old[p])
      /\ \A r \in Levels : r < p /\ Holding(r) => r <= old[p]
  BY <1>0, <1>2 DEF OldIsBelow
<1>3a. \A r \in Levels : pc'[r] # "off" => r < p
  <2> SUFFICES ASSUME NEW r \in Levels, pc'[r] # "off" PROVE r < p
    OBVIOUS
  <2>1. r # p /\ ~(r > p)
    BY <1>2
  <2> QED BY <2>1, <1>0
<1>4. CurIsTop'
  <2>1. Holding(cur)'
    BY <1>0, <1>2, <1>3 DEF Holding
  <2>2. \A r \in Levels : Holding(r)' => r < p /\ Holding(r)
    BY <1>0, <1>2, <1>3a DEF Holding
  <2> QED BY <1>2, <1>3, <2>1, <2>2 DEF CurIsTop
<1>5. OldIsBelow'
  <2>1. ASSUME NEW r \in Levels \ {0}, pc'[r] \notin {"off", "entered"}
        PROVE  /\ old'[r] < r
               /\ Holding(old[r])'
               /\ \A t \in Levels : t < r /\ Holding(t)' => t <= old'[r]
    <3>1. r < p /\ pc[r] \notin {"off", "entered"} /\ old[r] \in Levels
      BY <2>1, <1>2, <1>3a, <1>0 DEF TypeOK
    <3> QED BY <3>1, <1>2, <1>0 DEF OldIsBelow, Holding
  <2> QED BY <2>1 DEF OldIsBelow, Holding
<1>6. QueuedAtHome' /\ HandlerAtHome' /\ HandlerHasFrame'
  BY DEF SrtRestore, sendVars, QueuedAtHome, HandlerAtHome, HandlerHasFrame, TypeOK
<1> QED BY <1>1, <1>4, <1>5, <1>6

-----------------------------------------------------------------------------
\* A step of context p that keeps it in the middle of its activity does not
\* change who holds what.
LEMMA SameHolders ==
    ASSUME IInv, NEW p \in Levels, Holding(p), NEW x,
           x \notin {"off", "entered", "saved"},
           pc' = [pc EXCEPT ![p] = x], cur' = cur, old' = old
    PROVE  CurIsTop' /\ OldIsBelow'
<1>1. \A r \in Levels : /\ Holding(r)' <=> Holding(r)
                        /\ pc'[r] \in {"off", "entered"} <=> pc[r] \in {"off", "entered"}
  BY DEF IInv, TypeOK, Holding
<1> QED BY <1>1, NestingKept

\* vsfsm_poll takes an event from the queue of the context it runs in.
LEMMA PollTakeIInv ==
    ASSUME IInv, NEW p \in Levels, PollTake(p)
    PROVE  IInv'
<1> USE DEF IInv
<1>1. cur = p /\ Holding(p)
  BY RunningIsCurrent DEF PollTake, Executes, Holding
<1>2. q[p] \in Seq(Event) /\ q[p] # <<>>
  BY <1>1 DEF PollTake, TypeOK, Event
<1> DEFINE e == Head(q[p])
<1>3. e \in Event /\ e = q[p][1] /\ 1 \in 1 .. Len(q[p])
  BY <1>2, TailFacts
<1>4. Home[e.sm] = p
  BY <1>3 DEF QueuedAtHome
<1>5. /\ q' = [q EXCEPT ![p] = Tail(q[p])]
      /\ frames' = [frames EXCEPT ![p] = <<[sm |-> e.sm, orig |-> NoQueue]>>]
      /\ delivered' = [delivered EXCEPT ![e.sm] = e.id]
      /\ pc' = [pc EXCEPT ![p] = "handler"]
      /\ UNCHANGED <<swi, cur, old, act, isr, mask, posted, posts>>
  BY <1>1 DEF PollTake
<1> HIDE DEF e
<1>6. TypeOK'
  <2>1. q' \in [Levels -> Seq([sm : SMs, id : Nat])]
    BY <1>2, <1>5, TailFacts DEF TypeOK, Event
  <2>2. \A r \in Levels : Len(q'[r]) <= QueueLen[r]
    <3>1. Len(Tail(q[p])) = Len(q[p]) - 1 /\ Len(q[p]) \in Nat
      BY <1>2, TailFacts
    <3>2. Len(q[p]) <= QueueLen[p] /\ QueueLen[p] \in Nat /\ q'[p] = Tail(q[p])
      BY <1>5, LenAssumption DEF TypeOK
    <3>3. Len(q'[p]) <= QueueLen[p]
      BY <3>1, <3>2
    <3> QED BY <1>5, <3>3 DEF TypeOK
  <2>3. [sm |-> e.sm, orig |-> NoQueue] \in [sm : SMs, orig : Levels \cup {NoQueue}]
    BY <1>3 DEF Event
  <2>4. frames' \in [Levels -> Seq([sm : SMs, orig : Levels \cup {NoQueue}])]
    <3>1. <<[sm |-> e.sm, orig |-> NoQueue]>>
              \in Seq([sm : SMs, orig : Levels \cup {NoQueue}])
      BY <2>3
    <3> QED BY <1>5, <3>1 DEF TypeOK
  <2>5. pc' \in [Levels -> SrtPc \cup MainPc] /\ pc'[0] \in MainPc
        /\ \A r \in Levels \ {0} : pc'[r] \in SrtPc
    <3>1. 0 \in Levels
      BY NAssumption DEF Levels
    <3> QED BY <1>5, <3>1 DEF TypeOK, SrtPc, MainPc
  <2>6. delivered' \in [SMs -> Nat]
    BY <1>3, <1>5 DEF TypeOK, Event
  <2> QED BY <1>5, <2>1, <2>2, <2>4, <2>5, <2>6 DEF TypeOK
<1>7. CurIsTop' /\ OldIsBelow'
  BY <1>1, <1>5, SameHolders
<1>8. QueuedAtHome'
  <2>1. \A i \in 1 .. Len(Tail(q[p])) : Home[Tail(q[p])[i].sm] = p
    BY <1>2, TailFacts DEF QueuedAtHome
  <2> QED BY <1>5, <2>1 DEF QueuedAtHome, TypeOK
<1>9. HandlerAtHome' /\ HandlerHasFrame'
  <2> DEFINE g == <<[sm |-> e.sm, orig |-> NoQueue]>>
  <2>1. g # <<>> /\ \A i \in 1 .. Len(g) : g[i].sm = e.sm
    OBVIOUS
  <2>2. frames' = [frames EXCEPT ![p] = g]
    BY <1>5
  <2> HIDE DEF g
  <2>3. HandlerAtHome'
    BY <1>4, <2>1, <2>2 DEF HandlerAtHome, TypeOK
  <2>4. HandlerHasFrame'
    BY <1>5, <2>1, <2>2 DEF HandlerHasFrame, TypeOK
  <2> QED BY <2>3, <2>4
<1> QED BY <1>6, <1>7, <1>8, <1>9

\* The loops of app_on_srt and vsfmain find their queue empty, or sleep.
LEMMA PollEmptyIInv ==
    ASSUME IInv, NEW p \in Levels,
           PollEmpty(p) \/ (p = 0 /\ (MainTest \/ MainSleep))
    PROVE  IInv'
<1> USE DEF IInv
<1>0. 0 \in Levels
  BY NAssumption DEF Levels
<1>1. PICK x : /\ x \in (IF p = 0 THEN MainPc ELSE SrtPc)
               /\ x \notin {"off", "entered", "saved", "handler"}
               /\ pc' = [pc EXCEPT ![p] = x]
  BY DEF PollEmpty, MainTest, MainSleep, SrtPc, MainPc
<1>2. Holding(p)
  BY DEF PollEmpty, MainTest, MainSleep, Holding
<1>3. UNCHANGED <<q, swi, cur, old, frames, act, isr, mask, posted, delivered, posts>>
  BY DEF PollEmpty, MainTest, MainSleep, sendVars
<1>4. TypeOK'
  <2>1. pc' \in [Levels -> SrtPc \cup MainPc] /\ pc'[0] \in MainPc
        /\ \A r \in Levels \ {0} : pc'[r] \in SrtPc
    BY <1>0, <1>1 DEF TypeOK
  <2> QED BY <1>3, <2>1 DEF TypeOK
<1>5. CurIsTop' /\ OldIsBelow'
  BY <1>1, <1>2, <1>3, SameHolders
<1>6. QueuedAtHome' /\ HandlerAtHome' /\ HandlerHasFrame'
  BY <1>1, <1>3 DEF QueuedAtHome, HandlerAtHome, HandlerHasFrame, TypeOK
<1> QED BY <1>4, <1>5, <1>6

-----------------------------------------------------------------------------
\* vsfsm_evtq_post appends the event to the queue of its state machine.
LEMMA EnqueueFacts ==
    ASSUME IInv, NEW s \in SMs, Home[s] # NoQueue, CanPost, Enqueue(s)
    PROVE  /\ q' \in [Levels -> Seq([sm : SMs, id : Nat])]
           /\ \A p \in Levels : Len(q'[p]) <= QueueLen[p]
           /\ posted' \in [SMs -> Nat]
           /\ delivered' \in [SMs -> Nat]
           /\ posts' \in 0 .. MaxPosts
           /\ QueuedAtHome'
           /\ ToActivate(s) \in Levels \cup {NoQueue}
<1> USE DEF IInv
<1> DEFINE h == Home[s]
           e == [sm |-> s, id |-> posted[s] + 1]
<1>1. h \in Levels
  BY HomeAssumption
<1>2. e \in Event /\ q[h] \in Seq(Event)
  <2>1. posted[s] \in Nat /\ q[h] \in Seq(Event)
    BY <1>1 DEF TypeOK, Event
  <2>2. posted[s] + 1 \in Nat
    BY <2>1
  <2> QED BY <2>1, <2>2 DEF Event
<1>3. posts' \in 0 .. MaxPosts /\ delivered' \in [SMs -> Nat]
  BY PostsAssumption DEF Enqueue, CanPost, TypeOK
<1>4. ToActivate(s) \in Levels \cup {NoQueue}
  BY <1>1 DEF ToActivate
<1>5. CASE ~Accepts(s)
  BY <1>3, <1>4, <1>5 DEF Enqueue, TypeOK, QueuedAtHome
<1>6. CASE Accepts(s)
  <2>1. q' = [q EXCEPT ![h] = Append(q[h], e)] /\ posted' = [posted EXCEPT ![s] = @ + 1]
    BY <1>6 DEF Enqueue
  <2>2. /\ Append(q[h], e) \in Seq(Event)
        /\ Len(Append(q[h], e)) = Len(q[h]) + 1
        /\ \A i \in 1 .. Len(q[h]) : Append(q[h], e)[i] = q[h][i]
        /\ Append(q[h], e)[Len(q[h]) + 1] = e
    BY <1>2, AppendFacts
  <2>3. Len(q[h]) \in Nat /\ Len(q[h]) < QueueLen[h] /\ QueueLen[h] \in Nat
    BY <1>1, <1>2, <1>6, LenProperties, LenAssumption DEF Accepts
  <2>4. q' \in [Levels -> Seq([sm : SMs, id : Nat])]
    BY <1>1, <2>1, <2>2 DEF TypeOK, Event
  <2>5. \A p \in Levels : Len(q'[p]) <= QueueLen[p]
    <3>1. Len(q'[h]) <= QueueLen[h]
      BY <1>1, <2>1, <2>2, <2>3, SMTT(30) DEF TypeOK
    <3> QED BY <2>1, <3>1 DEF TypeOK
  <2>6. posted' \in [SMs -> Nat]
    BY <2>1 DEF TypeOK
  <2>7. QueuedAtHome'
    <3>1. \A i \in 1 .. Len(q[h]) + 1 : i \in 1 .. Len(q[h]) \/ i = Len(q[h]) + 1
      BY <2>3
    <3>2. e.sm = s
      OBVIOUS
    <3>3. \A i \in 1 .. Len(Append(q[h], e)) : Home[Append(q[h], e)[i].sm] = h
      BY <1>1, <2>2, <3>1, <3>2 DEF QueuedAtHome
    <3> HIDE DEF e, h
    <3> QED BY <1>1, <2>1, <3>3 DEF QueuedAtHome, TypeOK
  <2> QED BY <1>3, <1>4, <2>4, <2>5, <2>6, <2>7
<1> QED BY <1>5, <1>6

\* A handler queues an event.
LEMMA QueueIInv ==
    ASSUME IInv, NEW p \in Levels, NEW s \in SMs, Home[s] # NoQueue, CanPost, Queue(p, s)
    PROVE  IInv'
<1> USE DEF IInv
<1>1. Enqueue(s) /\ act' = [act EXCEPT ![p] = ToActivate(s)]
      /\ UNCHANGED <<swi, pc, cur, old, frames, isr, mask>>
  BY DEF Queue
<1>2. TypeOK'
  BY <1>1, EnqueueFacts DEF TypeOK
<1>3. CurIsTop' /\ OldIsBelow'
  BY <1>1, NestingKept DEF Holding
<1>4. HandlerAtHome' /\ HandlerHasFrame'
  BY <1>1 DEF HandlerAtHome, HandlerHasFrame
<1> QED BY <1>1, <1>2, <1>3, <1>4, EnqueueFacts

\* A handler calls another one that belongs to the same queue or to none.
LEMMA CallIInv ==
    ASSUME IInv, NEW p \in Levels, NEW s \in SMs, Home[s] \in {p, NoQueue}, CanPost,
           NEW o \in Levels \cup {NoQueue}, Call(p, s, o),
           mask' \in Levels, posted' \in [SMs -> Nat], delivered' \in [SMs -> Nat],
           posts' = posts + 1,
           UNCHANGED <<q, swi, pc, cur, old, act, isr>>
    PROVE  IInv'
<1> USE DEF IInv
<1> DEFINE f == [sm |-> s, orig |-> o]
<1>1. f \in Frame /\ frames[p] \in Seq(Frame)
  BY DEF Frame, TypeOK
<1>2. /\ Append(frames[p], f) \in Seq(Frame)
      /\ Len(Append(frames[p], f)) = Len(frames[p]) + 1
      /\ \A i \in 1 .. Len(frames[p]) : Append(frames[p], f)[i] = frames[p][i]
      /\ Append(frames[p], f)[Len(frames[p]) + 1] = f
  BY <1>1, AppendFacts
<1>3. frames' = [frames EXCEPT ![p] = Append(frames[p], f)]
  BY DEF Call
<1>4. f.sm = s /\ Len(frames[p]) \in Nat
  BY <1>1, LenProperties
<1> HIDE DEF f
<1>5. TypeOK'
  <2>1. frames' \in [Levels -> Seq([sm : SMs, orig : Levels \cup {NoQueue}])]
    BY <1>2, <1>3 DEF TypeOK, Frame
  <2>2. posts' \in 0 .. MaxPosts
    BY PostsAssumption DEF CanPost, TypeOK
  <2> QED BY <2>1, <2>2 DEF TypeOK
<1>6. CurIsTop' /\ OldIsBelow'
  BY NestingKept DEF Holding
<1>7. QueuedAtHome'
  BY DEF QueuedAtHome
<1>8. HandlerAtHome'
  <2>1. \A i \in 1 .. Len(frames[p]) + 1 : i \in 1 .. Len(frames[p]) \/ i = Len(frames[p]) + 1
    BY <1>4
  <2>2. \A i \in 1 .. Len(Append(frames[p], f)) :
            Home[Append(frames[p], f)[i].sm] \in {p, NoQueue}
    BY <1>2, <1>4, <2>1 DEF HandlerAtHome
  <2> QED BY <1>3, <2>2 DEF HandlerAtHome, TypeOK
<1>9. HandlerHasFrame'
  <2>1. Append(frames[p], f) # <<>>
    BY <1>2, <1>4, EmptySeq, SMTT(30)
  <2> QED BY <1>3, <2>1 DEF HandlerHasFrame, TypeOK
<1> QED BY <1>5, <1>6, <1>7, <1>8, <1>9

\* The three ways to post keep the invariant: vsfsm_post_evt dispatches on
\* the spot only what belongs to the current queue, which is the context's.
LEMMA PostIInv ==
    ASSUME IInv, NEW p \in Levels, NEW s \in SMs,
           PostEvt(p, s) \/ PostInstant(p, s) \/ PostEvtPending(p, s)
    PROVE  IInv'
<1>1. cur = p /\ CanPost
  BY RunningIsCurrent
     DEF PostEvt, PostInstant, PostEvtPending, InHandler, Executes, Holding
<1>2. CASE Home[s] = NoQueue /\ DispatchProtected(p, s)
  <2>1. mask \in Levels /\ posted \in [SMs -> Nat] /\ delivered \in [SMs -> Nat]
    BY DEF IInv, TypeOK
  <2> QED BY <1>1, <1>2, <2>1, CallIInv, PrioAssumption DEF DispatchProtected
<1>3. CASE Home[s] # NoQueue /\ Queue(p, s)
  BY <1>1, <1>3, QueueIInv
<1>4. ASSUME NEW b \in BOOLEAN, Home[s] = cur, DispatchNow(p, s, b)
      PROVE  IInv'
  <2>1. mask' \in Levels /\ posted' \in [SMs -> Nat] /\ delivered' \in [SMs -> Nat]
    <3>1. posted[s] \in Nat /\ posted[s] + 1 \in Nat /\ posted[s] + 0 \in Nat
      BY DEF IInv, TypeOK
    <3>2. mask' = mask
      BY <1>4 DEF DispatchNow
    <3>3. CASE b = TRUE
      BY <1>4, <3>1, <3>2, <3>3 DEF IInv, TypeOK, DispatchNow
    <3>4. CASE b = FALSE
      BY <1>4, <3>1, <3>2, <3>4 DEF IInv, TypeOK, DispatchNow
    <3> QED BY <3>3, <3>4
  <2> QED BY <1>1, <1>4, <2>1, CallIInv DEF DispatchNow
<1> QED BY <1>2, <1>3, <1>4 DEF PostEvt, PostInstant, PostEvtPending

\* A handler returns: the handlers below it are unchanged.
LEMMA HandlerReturnIInv ==
    ASSUME IInv, NEW p \in Levels, HandlerReturn(p)
    PROVE  IInv'
<1> USE DEF IInv
<1>0. frames[p] # <<>>
  BY DEF HandlerReturn, InHandler, HandlerHasFrame
<1> DEFINE rest == SubSeq(frames[p], 1, Len(frames[p]) - 1)
           top == frames[p][Len(frames[p])]
<1>1. /\ frames' = [frames EXCEPT ![p] = rest]
      /\ mask' = IF top.orig = NoQueue THEN mask ELSE top.orig
      /\ UNCHANGED <<swi, cur, old, act, isr, q, posted, delivered, posts>>
  BY DEF HandlerReturn, sendVars
<1>2. PICK x \in {"check", "handler"} :
          pc' = [pc EXCEPT ![p] = x] /\ (x = "handler" => rest # <<>>)
  BY DEF HandlerReturn, InHandler, TypeOK
<1>3. frames[p] \in Seq(Frame)
  BY DEF TypeOK, Frame
<1>4. top \in Frame
  <2>1. Len(frames[p]) \in 1 .. Len(frames[p])
    BY <1>0, <1>3, LenProperties, EmptySeq
  <2> QED BY <1>3, <2>1, ElementOfSeq
<1>5. /\ rest \in Seq(Frame)
      /\ \A i \in 1 .. Len(rest) : i \in 1 .. Len(frames[p]) /\ rest[i] = frames[p][i]
  BY <1>3, FrontFacts
<1> HIDE DEF rest, top
<1>6. TypeOK'
  <2>1. mask' \in Levels
    BY <1>1, <1>4 DEF TypeOK, Frame
  <2>2. frames' \in [Levels -> Seq([sm : SMs, orig : Levels \cup {NoQueue}])]
    BY <1>1, <1>5 DEF TypeOK, Frame
  <2>3. pc' \in [Levels -> SrtPc \cup MainPc] /\ pc'[0] \in MainPc
        /\ \A r \in Levels \ {0} : pc'[r] \in SrtPc
    <3>1. 0 \in Levels
      BY NAssumption DEF Levels
    <3> QED BY <1>2, <3>1 DEF TypeOK, SrtPc, MainPc
  <2> QED BY <1>1, <2>1, <2>2, <2>3 DEF TypeOK
<1>7. CurIsTop' /\ OldIsBelow'
  <2>1. Holding(p)
    BY DEF HandlerReturn, InHandler, Holding
  <2> QED BY <1>1, <1>2, <2>1, SameHolders
<1>8. QueuedAtHome'
  BY <1>1 DEF QueuedAtHome
<1>9. HandlerAtHome' /\ HandlerHasFrame'
  <2>1. HandlerAtHome'
    BY <1>1, <1>5 DEF HandlerAtHome, TypeOK
  <2>2. HandlerHasFrame'
    BY <1>1, <1>2 DEF HandlerHasFrame, TypeOK
  <2> QED BY <2>1, <2>2
<1> QED BY <1>6, <1>7, <1>8, <1>9

\* Triggering a software interrupt, by a context or by an interrupt.
LEMMA ActivateIInv ==
    ASSUME IInv, (\E p \in Levels : Activate(p)) \/ IsrActivate
    PROVE  IInv'
<1> USE DEF IInv
<1>1. UNCHANGED <<q, pc, cur, old, frames, mask, posted, delivered, posts>>
  BY DEF Activate, IsrActivate, sendVars
<1>2. TypeOK'
  <2>1. swi' \in [Levels -> BOOLEAN] /\ act' \in [Levels -> Levels \cup {NoQueue}]
        /\ isr' \in Levels \cup {NoQueue}
    BY DEF Activate, IsrActivate, TypeOK
  <2> QED BY <1>1, <2>1 DEF TypeOK
<1>3. CurIsTop' /\ OldIsBelow'
  BY <1>1, NestingKept DEF Holding
<1>4. QueuedAtHome' /\ HandlerAtHome' /\ HandlerHasFrame'
  BY <1>1 DEF QueuedAtHome, HandlerAtHome, HandlerHasFrame
<1> QED BY <1>2, <1>3, <1>4

\* A hardware interrupt posts, and may end the sleep of the main loop.
LEMMA IsrPostIInv ==
    ASSUME IInv, NEW s \in SMs, IsrPost(s)
    PROVE  IInv'
<1> USE DEF IInv
<1>1. Home[s] # NoQueue /\ CanPost /\ Enqueue(s)
  BY IsrAssumption DEF IsrPost
<1>2. UNCHANGED <<swi, cur, old, frames, act, mask>> /\ isr' = ToActivate(s)
  BY DEF IsrPost
<1>3. 0 \in Levels
  BY NAssumption DEF Levels
<1>4. /\ pc' \in [Levels -> SrtPc \cup MainPc]
      /\ \A r \in Levels \ {0} : pc'[r] = pc[r]
      /\ pc'[0] = pc[0] \/ (pc[0] = "sleep" /\ pc'[0] = "check")
  BY <1>3 DEF IsrPost, Woken, TypeOK, SrtPc, MainPc
<1>5. TypeOK'
  <2>1. pc'[0] \in MainPc /\ \A r \in Levels \ {0} : pc'[r] \in SrtPc
    BY <1>3, <1>4 DEF TypeOK, MainPc
  <2> QED BY <1>1, <1>2, <1>4, <2>1, EnqueueFacts DEF TypeOK
<1>6. CurIsTop' /\ OldIsBelow'
  <2>1. \A r \in Levels : /\ Holding(r)' <=> Holding(r)
                          /\ pc'[r] \in {"off", "entered"} <=> pc[r] \in {"off", "entered"}
    BY <1>3, <1>4 DEF Holding
  <2> QED BY <1>2, <2>1, NestingKept
<1>7. HandlerAtHome' /\ HandlerHasFrame'
  BY <1>2, <1>3, <1>4 DEF HandlerAtHome, HandlerHasFrame
<1> QED BY <1>1, <1>5, <1>6, <1>7, EnqueueFacts

-----------------------------------------------------------------------------
\* Every step of the specification keeps the invariant.
LEMMA NextIInv == IInv /\ [Next]_vars => IInv'
<1> SUFFICES ASSUME IInv, [Next]_vars PROVE IInv'
  OBVIOUS
<1>1. ASSUME NEW p \in Levels, Srt(p) PROVE IInv'
  BY <1>1, SwiEnterIInv, SrtSaveIInv, SrtSetIInv, SrtRestoreIInv DEF Srt
<1>2. ASSUME NEW p \in Levels, Loop(p) PROVE IInv'
  BY <1>2, PollTakeIInv, PollEmptyIInv DEF Loop
<1>3. ASSUME NEW p \in Levels, Handler(p) PROVE IInv'
  BY <1>3, PostIInv, ActivateIInv, HandlerReturnIInv DEF Handler
<1>4. CASE \E s \in SMs : IsrPost(s)
  BY <1>4, IsrPostIInv
<1>5. CASE IsrActivate
  BY <1>5, ActivateIInv
<1>6. CASE UNCHANGED vars
  BY <1>6 DEF vars, IInv, TypeOK, CurIsTop, OldIsBelow, Holding, QueuedAtHome,
              HandlerAtHome, HandlerHasFrame
<1> QED BY <1>1, <1>2, <1>3, <1>4, <1>5, <1>6 DEF Next

\* The invariant holds in every reachable state.
THEOREM IInvHolds == Spec => []IInv
BY InitIInv, NextIInv, PTL DEF Spec

(* The queues keep within APPCFG_*_QUEUE_LEN, vsfsm_cur_evtq is always a      *)
(* queue of the system and BASEPRI one of its levels, for every number of     *)
(* levels.                                                                    *)
THEOREM TypeCorrect == Spec => []TypeOK
<1>1. IInv => TypeOK
  BY DEF IInv
<1> QED BY IInvHolds, <1>1, PTL

(* A state machine with a queue is only executed by the context of that       *)
(* queue, whatever preempts what: the handlers of one queue never run         *)
(* concurrently.                                                              *)
THEOREM HandlersStayHome == Spec => []HandlerAtHome
<1>1. IInv => HandlerAtHome
  BY DEF IInv
<1> QED BY IInvHolds, <1>1, PTL

-----------------------------------------------------------------------------
(* No lost wakeup.                                                           *)

\* The wakeup of SRT queue p is kept by the software interrupt, by whoever has
\* posted to it, or by app_on_srt itself.
Awake(p) ==
    \/ swi[p]
    \/ isr = p
    \/ \E r \in Levels : act[r] = p
    \/ pc[p] \in {"entered", "saved", "check", "handler"}

\* A step that changes neither queues nor wakeups loses none.
LEMMA WakeupsCarried ==
    ASSUME IInv, NoLostWakeup, q' = q,
           \A p \in Levels \ {0} : Awake(p) => Awake(p)' \/ q[p] = <<>>
    PROVE  NoLostWakeup'
BY DEF NoLostWakeup, Awake

\* The steps of app_on_srt: the interrupt that is taken leads to a test of the
\* queue, and app_on_srt only ends after it found it empty.
LEMMA SrtWakeup ==
    ASSUME IInv, NoLostWakeup, NEW p \in Levels, Srt(p)
    PROVE  NoLostWakeup'
<1>0. pc \in [Levels -> SrtPc \cup MainPc] /\ swi \in [Levels -> BOOLEAN]
  BY DEF IInv, TypeOK
<1>1. q' = q /\ isr' = isr /\ act' = act
  BY DEF Srt, SwiEnter, SrtSave, SrtSet, SrtRestore, sendVars
<1>2. ASSUME NEW r \in Levels \ {0}, Awake(r) PROVE Awake(r)'
  <2>1. CASE SwiEnter(p)
    <3>1. /\ pc'[p] = "entered"
          /\ r # p => pc'[r] = pc[r] /\ swi'[r] = swi[r]
      BY <1>0, <2>1 DEF SwiEnter, Woken
    <3> QED BY <1>1, <1>2, <3>1 DEF Awake
  <2>2. CASE SrtSave(p) \/ SrtSet(p)
    BY <1>0, <1>1, <1>2, <2>2 DEF Awake, SrtSave, SrtSet
  <2>3. CASE SrtRestore(p)
    <3>1. pc[p] = "restore" /\ swi' = swi /\ pc' = [pc EXCEPT ![p] = "off"]
      BY <2>3 DEF SrtRestore
    <3> QED BY <1>0, <1>1, <1>2, <3>1 DEF Awake
  <2> QED BY <2>1, <2>2, <2>3 DEF Srt
<1> QED BY <1>1, <1>2, WakeupsCarried

\* vsfsm_poll and the main loop: a context leaves "check" only for a handler,
\* or when its own queue is empty.
LEMMA LoopWakeup ==
    ASSUME IInv, NoLostWakeup, NEW p \in Levels, Loop(p)
    PROVE  NoLostWakeup'
<1>0. pc \in [Levels -> SrtPc \cup MainPc] /\ q \in [Levels -> Seq([sm : SMs, id : Nat])]
  BY DEF IInv, TypeOK
<1>1. swi' = swi /\ isr' = isr /\ act' = act
  BY DEF Loop, PollTake, PollEmpty, MainTest, MainSleep
<1>2. CASE PollTake(p)
  <2>1. cur = p
    BY <1>2, RunningIsCurrent DEF PollTake, Executes, Holding
  <2>2. pc' = [pc EXCEPT ![p] = "handler"] /\ q' = [q EXCEPT ![p] = Tail(@)]
    BY <1>2, <2>1 DEF PollTake
  <2>3. pc'[p] = "handler" /\ \A r \in Levels \ {p} : pc'[r] = pc[r] /\ q'[r] = q[r]
    BY <1>0, <2>2
  <2> QED BY <1>1, <2>3 DEF NoLostWakeup
<1>3. CASE PollEmpty(p)
  <2>1. cur = p
    BY <1>3, RunningIsCurrent DEF PollEmpty, Executes, Holding
  <2>2. q[p] = <<>> /\ q' = q /\ \A r \in Levels \ {p} : pc'[r] = pc[r]
    BY <1>0, <1>3, <2>1 DEF PollEmpty, sendVars
  <2> QED BY <1>1, <2>2 DEF NoLostWakeup
<1>4. CASE p = 0 /\ (MainTest \/ MainSleep)
  <2>1. q' = q /\ \A r \in Levels \ {0} : pc'[r] = pc[r]
    BY <1>0, <1>4 DEF MainTest, MainSleep, sendVars
  <2> QED BY <1>1, <2>1 DEF NoLostWakeup
<1> QED BY <1>2, <1>3, <1>4 DEF Loop

\* An event that a queue accepts names the queue to activate; every other
\* queue is left alone.
LEMMA EnqueueWakes ==
    ASSUME IInv, NEW s \in SMs, Home[s] # NoQueue, Enqueue(s)
    PROVE  \A p \in Levels \ {0} : q'[p] = q[p] \/ ToActivate(s) = p
<1>1. Home[s] \in Levels /\ q \in [Levels -> Seq([sm : SMs, id : Nat])]
  BY HomeAssumption DEF IInv, TypeOK
<1>2. Levels \subseteq Nat
  BY NAssumption DEF Levels
<1>3. CASE Accepts(s)
  <2>1. \A p \in Levels : p # Home[s] => q'[p] = q[p]
    BY <1>1, <1>3 DEF Enqueue
  <2> QED BY <1>1, <1>2, <1>3, <2>1 DEF ToActivate
<1>4. CASE ~Accepts(s)
  BY <1>4 DEF Enqueue
<1> QED BY <1>3, <1>4

\* Handlers: a post is made while nothing is left to activate, so no earlier
\* wakeup is overwritten.
LEMMA HandlerWakeup ==
    ASSUME IInv, NoLostWakeup, NEW p \in Levels, Handler(p)
    PROVE  NoLostWakeup'
<1>0. /\ pc \in [Levels -> SrtPc \cup MainPc] /\ swi \in [Levels -> BOOLEAN]
      /\ act \in [Levels -> Levels \cup {NoQueue}]
      /\ NoQueue \notin Levels
  BY LevelFacts DEF IInv, TypeOK
<1>1. ASSUME NEW s \in SMs, Home[s] # NoQueue, Queue(p, s), act[p] = NoQueue
      PROVE  NoLostWakeup'
  <2>1. act' = [act EXCEPT ![p] = ToActivate(s)] /\ UNCHANGED <<swi, pc, isr>> /\ Enqueue(s)
    BY <1>1 DEF Queue
  <2>2. \A r \in Levels : act'[r] = IF r = p THEN ToActivate(s) ELSE act[r]
    BY <1>0, <2>1
  <2>3. \A t \in Levels \ {0} : q'[t] = q[t] \/ ToActivate(s) = t
    BY <1>1, <2>1, EnqueueWakes
  <2>4. ASSUME NEW t \in Levels \ {0}, Awake(t) \/ ToActivate(s) = t PROVE Awake(t)'
    BY <1>0, <1>1, <2>1, <2>2, <2>4 DEF Awake
  <2> QED BY <2>3, <2>4 DEF NoLostWakeup, Awake
<1>2. ASSUME NEW s \in SMs, DispatchProtected(p, s) \/ DispatchNow(p, s, TRUE)
                            \/ DispatchNow(p, s, FALSE)
      PROVE  NoLostWakeup'
  BY <1>2 DEF DispatchProtected, DispatchNow, NoLostWakeup
<1>3. CASE Activate(p)
  <2>1. q' = q /\ pc' = pc /\ isr' = isr
    BY <1>3 DEF Activate, sendVars
  <2>2. act[p] \in Levels /\ swi'[act[p]] = TRUE
    BY <1>0, <1>3 DEF Activate
  <2>3. \A r \in Levels : (swi[r] => swi'[r]) /\ (r # p => act'[r] = act[r])
    BY <1>0, <1>3 DEF Activate
  <2>4. \A t \in Levels \ {0} : Awake(t) => Awake(t)'
    BY <2>1, <2>2, <2>3 DEF Awake
  <2> QED BY <2>1, <2>4, WakeupsCarried
<1>4. CASE HandlerReturn(p)
  <2>1. q' = q /\ swi' = swi /\ isr' = isr /\ act' = act
    BY <1>4 DEF HandlerReturn, sendVars
  <2>2. pc'[p] \in {"check", "handler"} /\ \A r \in Levels \ {p} : pc'[r] = pc[r]
    BY <1>0, <1>4 DEF HandlerReturn, InHandler
  <2> QED BY <2>1, <2>2, WakeupsCarried DEF Awake
<1>5. ASSUME NEW s \in SMs, PostEvt(p, s) \/ PostInstant(p, s) \/ PostEvtPending(p, s)
      PROVE  NoLostWakeup'
  <2>1. act[p] = NoQueue
    BY <1>5 DEF PostEvt, PostInstant, PostEvtPending, InHandler, Executes
  <2> QED BY <1>1, <1>2, <1>5, <2>1 DEF PostEvt, PostInstant, PostEvtPending
<1> QED BY <1>3, <1>4, <1>5 DEF Handler

\* Hardware interrupts: the one that posts is the one that activates.
LEMMA IsrWakeup ==
    ASSUME IInv, NoLostWakeup, (\E s \in SMs : IsrPost(s)) \/ IsrActivate
    PROVE  NoLostWakeup'
<1>0. /\ pc \in [Levels -> SrtPc \cup MainPc] /\ swi \in [Levels -> BOOLEAN]
      /\ isr \in Levels \cup {NoQueue} /\ NoQueue \notin Levels
  BY LevelFacts DEF IInv, TypeOK
<1>1. ASSUME NEW s \in SMs, IsrPost(s) PROVE NoLostWakeup'
  <2>1. Home[s] # NoQueue /\ Enqueue(s)
    BY <1>1, IsrAssumption DEF IsrPost
  <2>2. swi' = swi /\ act' = act /\ isr = NoQueue /\ isr' = ToActivate(s)
    BY <1>1 DEF IsrPost
  <2>3. \A r \in Levels \ {0} : pc'[r] = pc[r]
    BY <1>0, <1>1 DEF IsrPost, Woken
  <2>4. \A t \in Levels \ {0} : q'[t] = q[t] \/ ToActivate(s) = t
    BY <2>1, EnqueueWakes
  <2> QED BY <1>0, <2>2, <2>3, <2>4 DEF NoLostWakeup
<1>2. CASE IsrActivate
  <2>1. q' = q /\ pc' = pc /\ act' = act /\ isr \in Levels /\ swi'[isr] = TRUE
    BY <1>0, <1>2 DEF IsrActivate, sendVars
  <2>2. \A r \in Levels : swi[r] => swi'[r]
    BY <1>0, <1>2 DEF IsrActivate
  <2> QED BY <2>1, <2>2 DEF NoLostWakeup
<1> QED BY <1>1, <1>2

(* For every number of SRT queues: while one of them holds an event, its      *)
(* software interrupt is pending or about to be triggered, or app_on_srt      *)
(* will still test it, however contexts and interrupts interleave.            *)
THEOREM WakeupsKept == Spec => []NoLostWakeup
<1>1. Init => NoLostWakeup
  BY DEF Init, NoLostWakeup
<1>2. IInv /\ NoLostWakeup /\ [Next]_vars => NoLostWakeup'
  <2> SUFFICES ASSUME IInv, NoLostWakeup, [Next]_vars PROVE NoLostWakeup'
    OBVIOUS
  <2>1. CASE UNCHANGED vars
    BY <2>1 DEF vars, NoLostWakeup
  <2> QED BY <2>1, SrtWakeup, LoopWakeup, HandlerWakeup, IsrWakeup DEF Next
<1> QED BY <1>1, <1>2, IInvHolds, PTL DEF Spec

-----------------------------------------------------------------------------
(* Protected dispatch.                                                       *)

\* Handlers are only active in a context that is in "handler".
FramesInHandler == \A p \in Levels : frames[p] # <<>> => pc[p] = "handler"

\* The handler of a state machine without a queue was called protected.
FreeIsProtected ==
    \A p \in Levels : \A i \in 1 .. Len(frames[p]) :
        Home[frames[p][i].sm] = NoQueue => frames[p][i].orig # NoQueue

\* While a protected handler is active BASEPRI is raised, and no higher
\* context that BASEPRI holds off is active.
ProtectionHolds ==
    \A p \in Levels : \A i \in 1 .. Len(frames[p]) :
        frames[p][i].orig # NoQueue =>
            /\ mask = MaxSrtPrio
            /\ \A r \in Levels : r > p /\ r <= MaxSrtPrio => pc[r] = "off"

\* A protected handler called from a protected one puts the raised BASEPRI back.
ProtectionNests ==
    \A p \in Levels : \A i, j \in 1 .. Len(frames[p]) :
        /\ i < j
        /\ frames[p][i].orig # NoQueue
        /\ frames[p][j].orig # NoQueue
        => frames[p][j].orig = MaxSrtPrio

\* So does one that a level above MaxSrtPrio calls while a lower level is in a
\* protected handler.
ProtectionStacks ==
    \A p, r \in Levels : p < r =>
        \A i \in 1 .. Len(frames[p]), j \in 1 .. Len(frames[r]) :
            frames[p][i].orig # NoQueue /\ frames[r][j].orig # NoQueue
                => frames[r][j].orig = MaxSrtPrio

PInv == /\ FramesInHandler /\ FreeIsProtected
        /\ ProtectionHolds /\ ProtectionNests /\ ProtectionStacks

\* Steps that leave the handlers and BASEPRI alone, start no context and end
\* none that has handlers.
LEMMA ProtectionKept ==
    ASSUME IInv, PInv, frames' = frames, mask' = mask,
           \A r \in Levels : /\ pc[r] = "handler" => pc'[r] = "handler"
                             /\ r # 0 /\ pc[r] = "off" => pc'[r] = "off"
    PROVE  PInv'
<1>0. \A r, p \in Levels : r > p => r # 0
  BY LevelFacts
<1>1. FramesInHandler' /\ FreeIsProtected' /\ ProtectionNests' /\ ProtectionStacks'
  BY DEF PInv, FramesInHandler, FreeIsProtected, ProtectionNests, ProtectionStacks
<1>2. ProtectionHolds'
  BY <1>0 DEF PInv, ProtectionHolds
<1> QED BY <1>1, <1>2 DEF PInv

\* BASEPRI holds off the software interrupts up to MaxSrtPrio: when one of them is
\* taken, no protected handler is active.
LEMMA SwiEnterPInv ==
    ASSUME IInv, PInv, NEW p \in Levels, SwiEnter(p)
    PROVE  PInv'
<1>1. frames' = frames /\ mask' = mask /\ p > mask /\ p # 0 /\ pc[p] = "off"
  BY LevelFacts DEF SwiEnter
<1>2. \A r \in Levels \ {0, p} : pc'[r] = pc[r]
  BY LevelFacts DEF SwiEnter, Woken, IInv, TypeOK
<1>3. pc[0] = "handler" => pc'[0] = "handler"
  BY <1>1, LevelFacts DEF SwiEnter, Woken, IInv, TypeOK
<1>4. /\ MaxSrtPrio \in Nat /\ p \in Nat
      /\ mask = MaxSrtPrio => ~(p <= MaxSrtPrio)
  BY <1>1, LevelFacts, PrioAssumption
<1>5. FramesInHandler'
  BY <1>1, <1>2, <1>3 DEF PInv, FramesInHandler
<1>6. FreeIsProtected' /\ ProtectionNests' /\ ProtectionStacks'
  BY <1>1 DEF PInv, FreeIsProtected, ProtectionNests, ProtectionStacks
<1>7. ProtectionHolds'
  <2> SUFFICES ASSUME NEW r \in Levels, NEW i \in 1 .. Len(frames[r]),
                      frames[r][i].orig # NoQueue
               PROVE  /\ mask = MaxSrtPrio
                      /\ \A t \in Levels : t > r /\ t <= MaxSrtPrio => pc'[t] = "off"
    BY <1>1 DEF ProtectionHolds
  <2>1. mask = MaxSrtPrio /\ \A t \in Levels : t > r /\ t <= MaxSrtPrio => pc[t] = "off"
    BY DEF PInv, ProtectionHolds
  <2>2. \A t \in Levels : t > r => t # 0
    BY LevelFacts
  <2> QED BY <1>2, <1>4, <2>1, <2>2
<1> QED BY <1>5, <1>6, <1>7 DEF PInv

\* vsfsm_poll calls a handler that has a queue.
LEMMA PollTakePInv ==
    ASSUME IInv, PInv, NEW p \in Levels, PollTake(p)
    PROVE  PInv'
<1>1. cur = p /\ pc[p] = "check"
  BY RunningIsCurrent DEF PollTake, Executes, Holding
<1>2. q[p] \in Seq(Event) /\ q[p] # <<>>
  BY <1>1 DEF PollTake, IInv, TypeOK, Event
<1> DEFINE e == Head(q[p])
           g == <<[sm |-> e.sm, orig |-> NoQueue]>>
<1>3. e = q[p][1] /\ 1 \in 1 .. Len(q[p])
  BY <1>2, TailFacts
<1>4. Home[e.sm] = p
  BY <1>3 DEF IInv, QueuedAtHome
<1>5. /\ frames' = [frames EXCEPT ![p] = g]
      /\ pc' = [pc EXCEPT ![p] = "handler"]
      /\ mask' = mask
  BY <1>1 DEF PollTake
<1>6. \A i \in 1 .. Len(g) : g[i].sm = e.sm /\ g[i].orig = NoQueue
  OBVIOUS
<1> HIDE DEF e, g
<1>7. /\ frames'[p] = g /\ \A r \in Levels \ {p} : frames'[r] = frames[r]
      /\ pc'[p] = "handler" /\ \A r \in Levels \ {p} : pc'[r] = pc[r]
  BY <1>5 DEF IInv, TypeOK
<1>8. Home[e.sm] # NoQueue
  BY <1>4, LevelFacts
<1>9. FramesInHandler' /\ FreeIsProtected' /\ ProtectionNests' /\ ProtectionStacks'
  BY <1>6, <1>7, <1>8
  DEF PInv, FramesInHandler, FreeIsProtected, ProtectionNests, ProtectionStacks
<1>10. ProtectionHolds'
  BY <1>1, <1>5, <1>6, <1>7 DEF PInv, ProtectionHolds
<1> QED BY <1>9, <1>10 DEF PInv

\* A handler calls one that has a queue, without protection.
LEMMA DispatchNowPInv ==
    ASSUME IInv, PInv, NEW p \in Levels, InHandler(p), NEW s \in SMs, NEW b,
           Home[s] # NoQueue, DispatchNow(p, s, b)
    PROVE  PInv'
<1> DEFINE f == [sm |-> s, orig |-> NoQueue]
           g == Append(frames[p], f)
<1>1. f \in Frame /\ frames[p] \in Seq(Frame) /\ f.sm = s /\ f.orig = NoQueue
  BY DEF Frame, IInv, TypeOK
<1>2. /\ Len(g) = Len(frames[p]) + 1 /\ Len(frames[p]) \in Nat
      /\ \A i \in 1 .. Len(frames[p]) : g[i] = frames[p][i]
      /\ g[Len(frames[p]) + 1] = f
  BY <1>1, AppendFacts, LenProperties
<1>3. frames' = [frames EXCEPT ![p] = g] /\ pc' = pc /\ mask' = mask /\ pc[p] = "handler"
  BY DEF DispatchNow, Call, InHandler
<1> HIDE DEF f, g
<1>4. \A i \in 1 .. Len(g) : i \in 1 .. Len(frames[p]) \/ i = Len(frames[p]) + 1
  BY <1>2
<1>5. frames'[p] = g /\ \A r \in Levels \ {p} : frames'[r] = frames[r]
  BY <1>3 DEF IInv, TypeOK
<1>6. \A i \in 1 .. Len(g) : g[i].orig # NoQueue => i \in 1 .. Len(frames[p]) /\ g[i] = frames[p][i]
  BY <1>1, <1>2, <1>4
<1>7. FramesInHandler'
  BY <1>3, <1>5 DEF PInv, FramesInHandler
<1>8. FreeIsProtected'
  BY <1>1, <1>2, <1>4, <1>5 DEF PInv, FreeIsProtected
<1>9. ProtectionHolds'
  BY <1>3, <1>5, <1>6 DEF PInv, ProtectionHolds
<1>10. ProtectionNests'
  <2>1. \A i, j \in 1 .. Len(g) :
            i < j /\ g[i].orig # NoQueue /\ g[j].orig # NoQueue => g[j].orig = MaxSrtPrio
    BY <1>6 DEF PInv, ProtectionNests
  <2> QED BY <1>5, <2>1 DEF PInv, ProtectionNests
<1>11. ProtectionStacks'
  <2>1. SUFFICES ASSUME NEW l \in Levels, NEW r \in Levels, l < r,
                        NEW i \in 1 .. Len(frames'[l]), NEW j \in 1 .. Len(frames'[r]),
                        frames'[l][i].orig # NoQueue, frames'[r][j].orig # NoQueue
                 PROVE  frames'[r][j].orig = MaxSrtPrio
    BY DEF ProtectionStacks
  <2>2. i \in 1 .. Len(frames[l]) /\ frames'[l][i] = frames[l][i]
    BY <1>5, <1>6, <2>1
  <2>3. j \in 1 .. Len(frames[r]) /\ frames'[r][j] = frames[r][j]
    BY <1>5, <1>6, <2>1
  <2> QED BY <2>1, <2>2, <2>3 DEF PInv, ProtectionStacks
<1> QED BY <1>7, <1>8, <1>9, <1>10, <1>11 DEF PInv

\* vsfsm_dispatch_evt_protected: the context that executes is the highest one,
\* and BASEPRI is already raised if it is within a protected handler.
LEMMA DispatchProtectedPInv ==
    ASSUME IInv, PInv, NEW p \in Levels, InHandler(p), NEW s \in SMs,
           DispatchProtected(p, s)
    PROVE  PInv'
<1> DEFINE f == [sm |-> s, orig |-> mask]
           g == Append(frames[p], f)
<1>1. f \in Frame /\ frames[p] \in Seq(Frame) /\ f.sm = s /\ f.orig = mask /\ mask # NoQueue
  BY LevelFacts DEF Frame, IInv, TypeOK
<1>2. /\ Len(g) = Len(frames[p]) + 1 /\ Len(frames[p]) \in Nat
      /\ \A i \in 1 .. Len(frames[p]) : g[i] = frames[p][i]
      /\ g[Len(frames[p]) + 1] = f
  BY <1>1, AppendFacts, LenProperties
<1>3. /\ frames' = [frames EXCEPT ![p] = g] /\ pc' = pc /\ mask' = MaxSrtPrio
      /\ pc[p] = "handler" /\ \A r \in Levels : r > p => pc[r] = "off"
  BY DEF DispatchProtected, Call, InHandler, Executes, Running, Active
<1> HIDE DEF f, g
<1>4. \A i \in 1 .. Len(g) : i \in 1 .. Len(frames[p]) \/ i = Len(frames[p]) + 1
  BY <1>2
<1>5. frames'[p] = g /\ \A r \in Levels \ {p} : frames'[r] = frames[r]
  BY <1>3 DEF IInv, TypeOK
<1>7. FramesInHandler'
  BY <1>3, <1>5 DEF PInv, FramesInHandler
<1>8. FreeIsProtected'
  BY <1>1, <1>2, <1>4, <1>5, SMTT(30) DEF PInv, FreeIsProtected
<1>9. ProtectionHolds'
  BY <1>3, <1>5 DEF PInv, ProtectionHolds
<1>10. ProtectionNests'
  <2>1. ASSUME NEW i \in 1 .. Len(g), NEW j \in 1 .. Len(g), i < j,
               g[i].orig # NoQueue, g[j].orig # NoQueue
        PROVE  g[j].orig = MaxSrtPrio
    <3>1. i \in 1 .. Len(frames[p]) /\ g[i] = frames[p][i]
      BY <1>2, <2>1
    <3>2. mask = MaxSrtPrio
      BY <2>1, <3>1 DEF PInv, ProtectionHolds
    <3>3. CASE j = Len(frames[p]) + 1
      BY <1>1, <1>2, <3>2, <3>3
    <3>4. CASE j \in 1 .. Len(frames[p])
      BY <1>2, <2>1, <3>1, <3>4 DEF PInv, ProtectionNests
    <3> QED BY <1>4, <3>3, <3>4
  <2> QED BY <1>5, <2>1 DEF PInv, ProtectionNests
<1>11. ProtectionStacks'
  <2>1. ASSUME NEW r \in Levels, NEW t \in Levels, r < t,
               NEW i \in 1 .. Len(frames'[r]), NEW j \in 1 .. Len(frames'[t]),
               frames'[r][i].orig # NoQueue, frames'[t][j].orig # NoQueue
        PROVE  frames'[t][j].orig = MaxSrtPrio
    <3>1. CASE r # p /\ t # p
      BY <1>5, <2>1, <3>1 DEF PInv, ProtectionStacks
    <3>2. CASE r = p
      <4>1. pc[t] = "off" /\ t # p /\ frames'[t] = frames[t]
        BY <1>3, <1>5, <2>1, <3>2, LevelFacts
      <4>2. frames[t] = <<>>
        BY <4>1 DEF PInv, FramesInHandler
      <4> QED BY <2>1, <4>1, <4>2
    <3>3. CASE r # p /\ t = p
      <4>1. i \in 1 .. Len(frames[r]) /\ frames[r][i].orig # NoQueue
        BY <1>5, <2>1, <3>3
      <4>2. mask = MaxSrtPrio
        BY <4>1 DEF PInv, ProtectionHolds
      <4>3. j \in 1 .. Len(g) /\ frames'[t][j] = g[j]
        BY <1>5, <2>1, <3>3
      <4>4. CASE j = Len(frames[p]) + 1
        BY <1>1, <1>2, <4>2, <4>3, <4>4
      <4>5. CASE j \in 1 .. Len(frames[p])
        BY <1>2, <2>1, <3>3, <4>1, <4>3, <4>5 DEF PInv, ProtectionStacks
      <4> QED BY <1>4, <4>3, <4>4, <4>5
    <3> QED BY <3>1, <3>2, <3>3
  <2> QED BY <2>1 DEF ProtectionStacks
<1> QED BY <1>7, <1>8, <1>9, <1>10, <1>11 DEF PInv

\* A handler returns: BASEPRI stays raised exactly while a protected handler is
\* left, in this context or in a lower one.
LEMMA HandlerReturnPInv ==
    ASSUME IInv, PInv, NEW p \in Levels, HandlerReturn(p)
    PROVE  PInv'
<1> DEFINE n == Len(frames[p])
           g == SubSeq(frames[p], 1, n - 1)
           top == frames[p][n]
<1>1. frames[p] # <<>> /\ frames[p] \in Seq(Frame)
  BY DEF HandlerReturn, InHandler, IInv, HandlerHasFrame, TypeOK, Frame
<1>2. n \in Nat /\ n # 0
  BY <1>1, LenProperties, EmptySeq
<1>3. /\ frames' = [frames EXCEPT ![p] = g]
      /\ mask' = IF top.orig = NoQueue THEN mask ELSE top.orig
      /\ pc' = [pc EXCEPT ![p] = IF g = <<>> THEN "check" ELSE "handler"]
      /\ pc[p] = "handler" /\ \A r \in Levels : r > p => pc[r] = "off"
  BY DEF HandlerReturn, InHandler, Executes, Running, Active, IInv, TypeOK
<1>4. g \in Seq(Frame) /\ Len(g) = n - 1 /\ \A i \in 1 .. n - 1 : g[i] = frames[p][i]
  <2>1. \A i \in 1 .. n : frames[p][i] \in Frame
    BY <1>1, ElementOfSeq
  <2>2. \A i \in 1 .. n - 1 : frames[p][i] \in Frame
    BY <1>2, <2>1
  <2> QED BY <1>1, <1>2, <2>2
<1>5. \A i \in 1 .. Len(g) : i \in 1 .. n /\ i < n /\ g[i] = frames[p][i]
  BY <1>2, <1>4
<1>6. n \in 1 .. n
  BY <1>2
<1> HIDE DEF g, top, n
<1>7. /\ frames'[p] = g /\ \A r \in Levels \ {p} : frames'[r] = frames[r]
      /\ g # <<>> => pc'[p] = "handler"
      /\ \A r \in Levels \ {p} : pc'[r] = pc[r]
  BY <1>3 DEF IInv, TypeOK
<1>8. FramesInHandler'
  BY <1>7 DEF PInv, FramesInHandler
<1>9. FreeIsProtected'
  BY <1>5, <1>7 DEF PInv, FreeIsProtected, n
<1>10. ProtectionNests'
  BY <1>5, <1>7 DEF PInv, ProtectionNests, n
<1>11. \A r \in Levels : r > p => r # p
  BY LevelFacts
<1>12. ASSUME NEW r \in Levels, NEW i \in 1 .. Len(frames'[r]), frames'[r][i].orig # NoQueue
       PROVE  /\ mask' = MaxSrtPrio
              /\ \A t \in Levels : t > r /\ t <= MaxSrtPrio => pc'[t] = "off"
  <2>1. CASE r = p
    <3>1. i \in 1 .. n /\ i < n /\ frames[p][i].orig # NoQueue
      BY <1>5, <1>7, <1>12, <2>1
    <3>2. mask = MaxSrtPrio
      BY <3>1 DEF PInv, ProtectionHolds, n
    <3>3. top.orig # NoQueue => top.orig = MaxSrtPrio
      BY <1>6, <3>1 DEF PInv, ProtectionNests, n, top
    <3> QED BY <1>3, <1>7, <1>11, <2>1, <3>2, <3>3
  <2>2. CASE r # p
    <3>1. /\ i \in 1 .. Len(frames[r]) /\ frames[r][i].orig # NoQueue
          /\ frames[r] # <<>>
      <4>1. i \in 1 .. Len(frames[r]) /\ frames[r][i].orig # NoQueue
        BY <1>7, <1>12, <2>2
      <4>2. 1 .. Len(<<>>) = {}
        OBVIOUS
      <4> QED BY <4>1, <4>2
    <3>2. pc[r] = "handler"
      BY <3>1 DEF PInv, FramesInHandler
    <3>3. r < p
      BY <1>3, <2>2, <3>2, LevelFacts
    <3>4. /\ mask = MaxSrtPrio
          /\ \A t \in Levels : t > r /\ t <= MaxSrtPrio => pc[t] = "off"
      BY <3>1 DEF PInv, ProtectionHolds
    <3>5. top.orig # NoQueue => top.orig = MaxSrtPrio
      BY <1>6, <3>1, <3>3 DEF PInv, ProtectionStacks, n, top
    <3>6. p > r /\ pc[p] # "off"
      BY <1>3, <3>3, LevelFacts
    <3> QED BY <1>3, <1>7, <3>4, <3>5, <3>6
  <2> QED BY <2>1, <2>2
<1>13. ProtectionHolds'
  BY <1>12 DEF ProtectionHolds
<1>14. ProtectionStacks'
  BY <1>5, <1>7 DEF PInv, ProtectionStacks, n
<1> QED BY <1>8, <1>9, <1>10, <1>13, <1>14 DEF PInv

\* Every step keeps protected handlers exclusive among the levels BASEPRI holds.
LEMMA NextPInv ==
    ASSUME IInv, PInv, [Next]_vars
    PROVE  PInv'
<1> USE DEF IInv
<1>0. pc \in [Levels -> SrtPc \cup MainPc]
  BY DEF TypeOK
<1>1. ASSUME NEW p \in Levels, Srt(p) PROVE PInv'
  <2>1. CASE SrtSave(p) \/ SrtSet(p)
    BY <1>0, <2>1, ProtectionKept DEF SrtSave, SrtSet
  <2>2. CASE SrtRestore(p)
    BY <1>0, <2>2, ProtectionKept DEF SrtRestore
  <2> QED BY <1>1, <2>1, <2>2, SwiEnterPInv DEF Srt
<1>2. ASSUME NEW p \in Levels, Loop(p) PROVE PInv'
  <2>1. CASE PollEmpty(p)
    BY <1>0, <2>1, ProtectionKept DEF PollEmpty
  <2>2. CASE p = 0 /\ (MainTest \/ MainSleep)
    BY <1>0, <2>2, ProtectionKept DEF MainTest, MainSleep
  <2> QED BY <1>2, <2>1, <2>2, PollTakePInv DEF Loop
<1>3. ASSUME NEW p \in Levels, Handler(p) PROVE PInv'
  <2>1. ASSUME NEW s \in SMs, Queue(p, s) PROVE PInv'
    BY <2>1, ProtectionKept DEF Queue
  <2>2. CASE Activate(p)
    BY <2>2, ProtectionKept DEF Activate
  <2>3. ASSUME NEW s \in SMs, PostEvt(p, s) \/ PostInstant(p, s) \/ PostEvtPending(p, s)
        PROVE  PInv'
    <3>1. InHandler(p) /\ cur # NoQueue
      BY <2>3, LevelFacts DEF PostEvt, PostInstant, PostEvtPending, TypeOK
    <3>2. ASSUME DispatchProtected(p, s) PROVE PInv'
      BY <3>1, <3>2, DispatchProtectedPInv
    <3>3. ASSUME NEW b, Home[s] = cur, DispatchNow(p, s, b) PROVE PInv'
      BY <3>1, <3>3, DispatchNowPInv
    <3> QED BY <2>1, <2>3, <3>2, <3>3 DEF PostEvt, PostInstant, PostEvtPending
  <2> QED BY <1>3, <2>2, <2>3, HandlerReturnPInv DEF Handler
<1>4. ASSUME NEW s \in SMs, IsrPost(s) PROVE PInv'
  <2>1. \A r \in Levels : pc[r] # "sleep" => pc'[r] = pc[r]
    BY <1>0, <1>4 DEF IsrPost, Woken
  <2> QED BY <1>4, <2>1, ProtectionKept DEF IsrPost
<1>5. CASE IsrActivate
  BY <1>5, ProtectionKept DEF IsrActivate
<1>6. CASE UNCHANGED vars
  BY <1>6, ProtectionKept DEF vars
<1> QED BY <1>1, <1>2, <1>3, <1>4, <1>5, <1>6 DEF Next

(* The levels that VSFCFG_MAX_SRT_PRIO holds off never have the same state    *)
(* machine active twice, with a queue or without, for every number of levels, *)
(* every value of VSFCFG_MAX_SRT_PRIO and every nesting of protected and      *)
(* direct dispatches, those of the levels above it included.                  *)
THEOREM ProtectionIsExclusive == Spec => []ProtectedExclusive
<1>1. Init => PInv
  BY DEF Init, PInv, FramesInHandler, FreeIsProtected, ProtectionHolds, ProtectionNests,
         ProtectionStacks
<1>2. IInv /\ PInv /\ [Next]_vars => PInv'
  BY NextPInv
<1>3. IInv /\ PInv => ProtectedExclusive
  <2> SUFFICES ASSUME IInv, PInv, NEW p \in 0 .. MaxSrtPrio, NEW r \in 0 .. MaxSrtPrio,
                      NEW i \in 1 .. Len(frames[p]), NEW j \in 1 .. Len(frames[r]),
                      frames[p][i].sm = frames[r][j].sm, p # r
               PROVE  FALSE
    BY DEF ProtectedExclusive
  <2>0. p \in Levels /\ r \in Levels /\ p <= MaxSrtPrio /\ r <= MaxSrtPrio
    BY NAssumption, PrioAssumption DEF Levels
  <2>1. 1 .. Len(<<>>) = {}
    OBVIOUS
  <2>2. frames[p] # <<>> /\ frames[r] # <<>>
    BY <2>1
  <2>3. pc[p] = "handler" /\ pc[r] = "handler"
    BY <2>0, <2>2 DEF PInv, FramesInHandler
  <2>4. Home[frames[p][i].sm] = NoQueue
    BY <2>0, LevelFacts DEF IInv, HandlerAtHome
  <2>5. frames[p][i].orig # NoQueue /\ frames[r][j].orig # NoQueue
    BY <2>0, <2>4 DEF PInv, FreeIsProtected
  <2>6. p < r \/ r < p
    BY <2>0, LevelFacts
  <2> QED BY <2>0, <2>3, <2>5, <2>6 DEF PInv, ProtectionHolds
<1> QED BY <1>1, <1>2, <1>3, IInvHolds, PTL DEF Spec

-----------------------------------------------------------------------------
(* Order of delivery.                                                        *)

\* FifoPerSm of one state machine.
FifoOf(s) ==
    /\ delivered[s] <= posted[s]
    /\ {q[Home[s]][i].id : i \in Places(s)} = delivered[s] + 1 .. posted[s]
    /\ \A i, j \in Places(s) : i < j => q[Home[s]][i].id < q[Home[s]][j].id

LEMMA FifoByParts == FifoPerSm <=> \A s \in SMs : Home[s] # NoQueue => FifoOf(s)
BY DEF FifoPerSm, FifoOf

\* What the other actions leave alone.
LEMMA FifoKept ==
    ASSUME NEW s \in SMs, FifoOf(s), q'[Home[s]] = q[Home[s]],
           posted'[s] = posted[s], delivered'[s] = delivered[s]
    PROVE  FifoOf(s)'
BY DEF FifoOf, Places

\* evt_count is zero exactly when no event waits.
LEMMA NoneQueued ==
    ASSUME NEW s \in SMs, Len(q[Home[s]]) \in Nat, EvtCount(s) = 0
    PROVE  Places(s) = {}
<1>1. IsFiniteSet(1 .. Len(q[Home[s]]))
  BY FS_Interval
<1>2. IsFiniteSet(Places(s))
  BY <1>1, FS_Subset DEF Places
<1> QED BY <1>2, FS_EmptySet DEF EvtCount

\* An accepted event goes behind all that wait for its state machine, and
\* those of the others stay where they are.
LEMMA EnqueueFifo ==
    ASSUME IInv, NEW s \in SMs, Home[s] # NoQueue, Enqueue(s),
           NEW r \in SMs, Home[r] # NoQueue, FifoOf(r)
    PROVE  FifoOf(r)'
<1> DEFINE h == Home[s]
           e == [sm |-> s, id |-> posted[s] + 1]
           n == Len(q[h])
<1>1. /\ h \in Levels /\ Home[r] \in Levels
      /\ q \in [Levels -> Seq(Event)] /\ posted \in [SMs -> Nat]
      /\ posted[s] \in Nat /\ posted[r] \in Nat /\ delivered[r] \in Nat
  BY HomeAssumption DEF IInv, TypeOK, Event
<1>2. delivered' = delivered
  BY DEF Enqueue
<1>3. CASE ~Accepts(s)
  BY <1>2, <1>3, FifoKept DEF Enqueue
<1>4. CASE Accepts(s) /\ Home[r] # h
  <2>1. q'[Home[r]] = q[Home[r]] /\ posted'[r] = posted[r]
    BY <1>1, <1>4 DEF Enqueue
  <2> QED BY <1>2, <2>1, FifoKept
<1>5. CASE Accepts(s) /\ Home[r] = h
  <2>1. e \in Event /\ q[h] \in Seq(Event) /\ e.sm = s /\ e.id = posted[s] + 1
    <3>1. posted[s] + 1 \in Nat
      BY <1>1
    <3> QED BY <1>1, <3>1 DEF Event
  <2>2. /\ Len(Append(q[h], e)) = n + 1 /\ n \in Nat
        /\ \A i \in 1 .. n : Append(q[h], e)[i] = q[h][i]
        /\ Append(q[h], e)[n + 1] = e
    BY <2>1, AppendFacts, LenProperties
  <2>3. q'[h] = Append(q[h], e) /\ posted' = [posted EXCEPT ![s] = @ + 1]
    BY <1>1, <1>5 DEF Enqueue
  <2>4. \A i : i \in 1 .. n + 1 <=> i \in 1 .. n \/ i = n + 1
    BY <2>2
  <2>5. n + 1 \notin 1 .. n
    BY <2>2
  <2> HIDE DEF e
  <2>6. CASE r # s
    <3>1. Places(r)' = Places(r) /\ \A i \in Places(r) : q'[h][i] = q[h][i]
      BY <1>5, <2>1, <2>2, <2>3, <2>4, <2>6 DEF Places
    <3>2. posted'[r] = posted[r]
      BY <1>1, <2>3, <2>6
    <3> QED BY <1>2, <1>5, <3>1, <3>2 DEF FifoOf
  <2>7. CASE r = s
    <3>1. Places(s)' = Places(s) \cup {n + 1}
      BY <2>1, <2>2, <2>3, <2>4 DEF Places
    <3>2. Places(s) \subseteq 1 .. n
      BY DEF Places
    <3>3. \A i \in Places(s) : q'[h][i] = q[h][i] /\ q[h][i].id \in delivered[s] + 1 .. posted[s]
      BY <2>2, <2>3, <2>7, <3>2 DEF FifoOf
    <3>4. q'[h][n + 1].id = posted[s] + 1 /\ posted'[s] = posted[s] + 1
      BY <1>1, <2>1, <2>2, <2>3
    <3>5. delivered[s] + 1 .. posted[s] + 1 = (delivered[s] + 1 .. posted[s]) \cup {posted[s] + 1}
      BY <1>1, <2>7 DEF FifoOf
    <3>6. {q'[h][i].id : i \in Places(s)'} = delivered[s] + 1 .. posted[s] + 1
      <4>1. {q'[h][i].id : i \in Places(s)'} = {q[h][i].id : i \in Places(s)} \cup {posted[s] + 1}
        BY <3>1, <3>3, <3>4
      <4> QED BY <2>7, <3>5, <4>1 DEF FifoOf
    <3>7. ASSUME NEW i \in Places(s)', NEW j \in Places(s)', i < j
          PROVE  q'[h][i].id < q'[h][j].id
      <4>1. i \in Places(s)
        BY <2>2, <3>1, <3>2, <3>7
      <4>2. CASE j = n + 1
        BY <1>1, <3>3, <3>4, <4>1, <4>2
      <4>3. CASE j \in Places(s)
        BY <2>7, <3>3, <3>7, <4>1, <4>3 DEF FifoOf
      <4> QED BY <3>1, <4>2, <4>3
    <3>8. delivered[s] <= posted[s] + 1
      BY <1>1, <2>7 DEF FifoOf
    <3> QED BY <1>2, <2>7, <3>4, <3>6, <3>7, <3>8 DEF FifoOf
  <2> QED BY <2>6, <2>7
<1> QED BY <1>3, <1>4, <1>5

\* vsfsm_poll delivers the event after the last one delivered.
LEMMA PollTakeFifo ==
    ASSUME IInv, NEW p \in Levels, PollTake(p),
           \A r \in SMs : Home[r] # NoQueue => FifoOf(r),
           NEW s \in SMs, Home[s] # NoQueue
    PROVE  FifoOf(s)'
<1> DEFINE e == Head(q[p])
<1>1. cur = p
  BY RunningIsCurrent DEF PollTake, Executes, Holding
<1>2. /\ q \in [Levels -> Seq(Event)] /\ q[p] \in Seq(Event) /\ q[p] # <<>>
      /\ delivered \in [SMs -> Nat] /\ delivered[s] \in Nat /\ posted[s] \in Nat
      /\ Home[s] \in Levels
  BY <1>1, HomeAssumption DEF PollTake, IInv, TypeOK, Event
<1>3. /\ q' = [q EXCEPT ![p] = Tail(@)]
      /\ delivered' = [delivered EXCEPT ![e.sm] = e.id]
      /\ posted' = posted
  BY <1>1 DEF PollTake
<1> DEFINE n == Len(q[p])
<1>4. /\ Len(Tail(q[p])) = n - 1 /\ n \in Nat \ {0}
      /\ \A i \in 1 .. n - 1 : i + 1 \in 1 .. n /\ Tail(q[p])[i] = q[p][i + 1]
      /\ e = q[p][1] /\ e \in Event /\ 1 \in 1 .. n
  BY <1>2, TailFacts
<1>5. Home[e.sm] = p
  BY <1>4 DEF IInv, QueuedAtHome
<1> HIDE DEF e
<1>6. CASE Home[s] # p
  <2>1. q'[Home[s]] = q[Home[s]] /\ delivered'[s] = delivered[s] /\ posted'[s] = posted[s]
    BY <1>2, <1>3, <1>5, <1>6
  <2> QED BY <2>1, FifoKept
<1>7. CASE Home[s] = p
  <2>1. q'[p] = Tail(q[p])
    BY <1>2, <1>3
  <2>2. \A i : i \in Places(s)' <=> i \in 1 .. n - 1 /\ q[p][i + 1].sm = s
    BY <1>4, <1>7, <2>1 DEF Places
  <2>3. \A i \in Places(s)' : i + 1 \in Places(s) /\ q'[p][i] = q[p][i + 1] /\ i \in Nat \ {0}
    BY <1>4, <1>7, <2>1, <2>2 DEF Places
  <2>4. \A i \in Places(s) : i = 1 \/ (i - 1 \in Places(s)' /\ q'[p][i - 1] = q[p][i])
    <3> SUFFICES ASSUME NEW i \in Places(s), i # 1
                 PROVE  i - 1 \in Places(s)' /\ q'[p][i - 1] = q[p][i]
      OBVIOUS
    <3>1. i \in 1 .. n /\ q[p][i].sm = s
      BY <1>7 DEF Places
    <3>2. i - 1 \in 1 .. n - 1 /\ (i - 1) + 1 = i
      BY <1>4, <3>1
    <3>3. i - 1 \in Places(s)'
      BY <2>2, <3>1, <3>2
    <3> QED BY <2>3, <3>2, <3>3
  <2>5. FifoOf(s)
    BY <1>7
  <2>6. \A i, j \in Places(s)' : i < j => q'[p][i].id < q'[p][j].id
    <3> SUFFICES ASSUME NEW i \in Places(s)', NEW j \in Places(s)', i < j
                 PROVE  q'[p][i].id < q'[p][j].id
      OBVIOUS
    <3>1. i + 1 < j + 1
      BY <2>3
    <3> QED BY <1>7, <2>3, <2>5, <3>1 DEF FifoOf
  <2>7. CASE e.sm # s
    <3>1. 1 \notin Places(s)
      BY <1>4, <1>7, <2>7 DEF Places
    <3>2. {q'[p][i].id : i \in Places(s)'} = {q[p][i].id : i \in Places(s)}
      BY <2>3, <2>4, <3>1
    <3>3. delivered'[s] = delivered[s]
      BY <1>2, <1>3, <2>7
    <3>4. posted'[s] = posted[s]
      BY <1>3
    <3>5. /\ delivered'[s] <= posted'[s]
          /\ {q'[p][i].id : i \in Places(s)'} = delivered'[s] + 1 .. posted'[s]
      BY <1>7, <2>5, <3>2, <3>3, <3>4 DEF FifoOf
    <3> QED BY <1>7, <2>6, <3>5 DEF FifoOf
  <2>8. CASE e.sm = s
    <3>1. 1 \in Places(s)
      BY <1>4, <1>7, <2>8 DEF Places
    <3>2. \A v : v \in delivered[s] + 1 .. posted[s] <=> \E i \in Places(s) : v = q[p][i].id
      BY <1>7, <2>5 DEF FifoOf
    <3>3. e.id \in delivered[s] + 1 .. posted[s]
      BY <1>4, <3>1, <3>2
    <3>4. e.id = delivered[s] + 1
      <4>1. delivered[s] + 1 \in delivered[s] + 1 .. posted[s]
        BY <1>2, <3>3
      <4>2. PICK i \in Places(s) : delivered[s] + 1 = q[p][i].id
        BY <3>2, <4>1
      <4>3. i = 1 \/ 1 < i
        BY <4>2 DEF Places
      <4>4. CASE 1 < i
        BY <1>2, <1>4, <1>7, <2>5, <3>1, <3>3, <4>2, <4>4 DEF FifoOf
      <4> QED BY <1>4, <4>2, <4>3, <4>4
    <3>5. delivered'[s] = delivered[s] + 1 /\ posted'[s] = posted[s]
      BY <1>2, <1>3, <2>8, <3>4
    <3>6. \A i \in Places(s)' : q'[p][i].id \in delivered[s] + 2 .. posted[s]
      <4> SUFFICES ASSUME NEW i \in Places(s)'
                   PROVE  q'[p][i].id \in delivered[s] + 2 .. posted[s]
        OBVIOUS
      <4>1. i + 1 \in Places(s) /\ q'[p][i] = q[p][i + 1] /\ 1 < i + 1
        BY <2>3
      <4>2. q[p][i + 1].id \in delivered[s] + 1 .. posted[s] /\ e.id < q[p][i + 1].id
        BY <1>4, <1>7, <2>5, <3>1, <3>2, <4>1 DEF FifoOf
      <4> QED BY <1>2, <3>4, <4>1, <4>2
    <3>7. ASSUME NEW v \in delivered[s] + 2 .. posted[s]
          PROVE  \E i \in Places(s)' : v = q'[p][i].id
      <4>1. v \in delivered[s] + 1 .. posted[s] /\ v # e.id
        BY <1>2, <3>4
      <4>2. PICK i \in Places(s) : v = q[p][i].id
        BY <3>2, <4>1
      <4>3. i # 1
        BY <1>4, <4>1, <4>2
      <4> QED BY <2>4, <4>2, <4>3
    <3>8. {q'[p][i].id : i \in Places(s)'} = delivered[s] + 2 .. posted[s]
      BY <3>6, <3>7
    <3>9. delivered[s] + 1 <= posted[s] /\ (delivered[s] + 1) + 1 = delivered[s] + 2
      BY <1>2, <3>3
    <3> QED BY <1>7, <2>6, <3>5, <3>8, <3>9 DEF FifoOf
  <2> QED BY <2>7, <2>8
<1> QED BY <1>6, <1>7

\* vsfsm_post_evt dispatches on the spot only when nothing waits: the event is
\* the next one.
LEMMA DispatchFifo ==
    ASSUME IInv, NEW p \in Levels, NEW s \in SMs, Home[s] \in Levels, NEW b \in BOOLEAN,
           b => EvtCount(s) = 0, DispatchNow(p, s, b),
           NEW r \in SMs, FifoOf(r)
    PROVE  FifoOf(r)'
<1>1. posted \in [SMs -> Nat] /\ delivered \in [SMs -> Nat] /\ posted[s] \in Nat
      /\ delivered[s] \in Nat /\ q[Home[s]] \in Seq(Event)
  BY DEF IInv, TypeOK, Event
<1>2. q' = q
  BY DEF DispatchNow
<1>3. CASE b = FALSE
  <2>1. posted'[r] = posted[r] /\ delivered'[r] = delivered[r]
    <3>1. posted[s] + 0 = posted[s]
      BY <1>1
    <3> QED BY <1>1, <1>3, <3>1 DEF DispatchNow
  <2> QED BY <1>2, <2>1, FifoKept
<1>4. CASE b = TRUE /\ r # s
  <2>1. posted'[r] = posted[r] /\ delivered'[r] = delivered[r]
    BY <1>1, <1>4 DEF DispatchNow
  <2> QED BY <1>2, <2>1, FifoKept
<1>5. CASE b = TRUE /\ r = s
  <2>1. Places(s) = {}
    <3>1. Len(q[Home[s]]) \in Nat
      BY <1>1, LenProperties
    <3> QED BY <1>5, <3>1, NoneQueued
  <2>2. Places(s)' = {}
    BY <1>2, <2>1 DEF Places
  <2>3. posted'[s] = posted[s] + 1 /\ delivered'[s] = posted[s] + 1
    BY <1>1, <1>5 DEF DispatchNow
  <2>4. delivered'[s] + 1 .. posted'[s] = {}
    BY <1>1, <2>3
  <2>5. delivered'[s] <= posted'[s]
    BY <1>1, <2>3
  <2> QED BY <1>5, <2>2, <2>4, <2>5 DEF FifoOf
<1> QED BY <1>3, <1>4, <1>5

(* For every number of levels and queue lengths, a state machine gets its     *)
(* events exactly once and in the order in which vsfsm_post_evt and           *)
(* vsfsm_post_evt_pending accepted them, whichever were dispatched directly.  *)
THEOREM OrderKept == Spec => []FifoPerSm
<1>1. Init => FifoPerSm
  <2> SUFFICES ASSUME Init, NEW s \in SMs, Home[s] # NoQueue PROVE FifoOf(s)
    BY FifoByParts
  <2>1. Home[s] \in Levels
    BY HomeAssumption
  <2>2. Places(s) = {}
    BY <2>1 DEF Init, Places
  <2>3. 0 + 1 .. 0 = {}
    OBVIOUS
  <2> QED BY <2>2, <2>3 DEF Init, FifoOf
<1>2. IInv /\ FifoPerSm /\ [Next]_vars => FifoPerSm'
  <2> SUFFICES ASSUME IInv, [Next]_vars,
                      \A r \in SMs : Home[r] # NoQueue => FifoOf(r),
                      NEW s \in SMs, Home[s] # NoQueue
               PROVE  FifoOf(s)'
    BY FifoByParts DEF FifoPerSm, FifoOf
  <2>1. CASE UNCHANGED <<q, posted, delivered>>
    BY <2>1, FifoKept
  <2>2. ASSUME NEW p \in Levels, Srt(p) \/ Loop(p) PROVE FifoOf(s)'
    <3>1. CASE PollTake(p)
      BY <3>1, PollTakeFifo
    <3>2. ~PollTake(p) => UNCHANGED <<q, posted, delivered>>
      BY <2>2 DEF Srt, SwiEnter, SrtSave, SrtSet, SrtRestore, Loop, PollEmpty, MainTest,
                  MainSleep, sendVars
    <3> QED BY <2>1, <3>1, <3>2
  <2>3. ASSUME NEW p \in Levels, Handler(p) PROVE FifoOf(s)'
    <3>1. CASE Activate(p) \/ HandlerReturn(p)
      BY <2>1, <3>1 DEF Activate, HandlerReturn, sendVars
    <3>2. ASSUME NEW t \in SMs, PostEvt(p, t) \/ PostInstant(p, t) \/ PostEvtPending(p, t)
          PROVE  FifoOf(s)'
      <4>1. CASE DispatchProtected(p, t)
        BY <2>1, <4>1 DEF DispatchProtected
      <4>2. CASE Home[t] # NoQueue /\ Queue(p, t)
        BY <4>2, EnqueueFifo DEF Queue
      <4>3. ASSUME NEW b \in BOOLEAN, Home[t] = cur, DispatchNow(p, t, b), b => EvtCount(t) = 0
            PROVE  FifoOf(s)'
        <5>1. Home[t] \in Levels
          BY <4>3 DEF IInv, TypeOK
        <5> QED BY <4>3, <5>1, DispatchFifo
      <4> QED BY <3>2, <4>1, <4>2, <4>3 DEF PostEvt, PostInstant, PostEvtPending
    <3> QED BY <2>3, <3>1, <3>2 DEF Handler
  <2>4. ASSUME NEW t \in SMs, IsrPost(t) PROVE FifoOf(s)'
    BY <2>4, EnqueueFifo, IsrAssumption DEF IsrPost
  <2>5. CASE IsrActivate
    BY <2>1, <2>5 DEF IsrActivate, sendVars
  <2>6. CASE UNCHANGED vars
    BY <2>1, <2>6 DEF vars
  <2> QED BY <2>2, <2>3, <2>4, <2>5, <2>6 DEF Next
<1> QED BY <1>1, <1>2, IInvHolds, PTL DEF Spec
=============================================================================
