-------------------------------- MODULE Evtq --------------------------------
(***************************************************************************)
(* One event queue of vsfsm (framework/vsfsm/vsfsm.c): the ring buffer, its*)
(* counters, and the three pieces of code that share it:                   *)
(*                                                                         *)
(*  - vsfsm_evtq_post, called by handlers of this and of other queues and  *)
(*    by interrupts, with the interrupts disabled while it works;          *)
(*  - vsfsm_poll, run by the one context that owns the queue, which reads  *)
(*    and advances `head' with the interrupts enabled;                     *)
(*  - vsfsm_fini, called by a handler, which scans the ring with the       *)
(*    interrupts enabled.                                                  *)
(*                                                                         *)
(* `pc' is the position of the owning context.  A post may happen at every *)
(* value of pc, which is the interleaving of an interrupt with vsfsm_poll  *)
(* and vsfsm_fini.                                                         *)
(***************************************************************************)
EXTENDS Integers, Sequences, FiniteSets

CONSTANTS Size,       \* evtq->size
          SMs,        \* the state machines whose sm->evtq is this queue
          NULL,       \* the null pointer
          Evts,       \* the events posted through the queue
          TIMER,      \* VSFSM_EVT_TIMER
          TickSms,    \* the state machines that are sent VSFSM_EVT_TIMER
          FiniOnFull  \* may the ring be full while vsfsm_fini scans it?

ASSUME SizeAssumption == Size \in Nat \ {0}
ASSUME NullAssumption == NULL \notin SMs
ASSUME TimerAssumption == TIMER \in Evts
ASSUME FlagAssumption == FiniOnFull \in BOOLEAN

VARIABLES queue,          \* evtq->queue, the ring
          head, tail,     \* evtq->head and evtq->tail, as indices
          evt_count,      \* evtq->evt_count
          tick_evt_count, \* evtq->tick_evt_count
          sm_evt_count,   \* sm->evt_count of each state machine
          pc,             \* where the owning context is
          tmp,            \* vsfsm_poll's local copy of the head element
          scan,           \* vsfsm_fini's pointer into the ring
          closing,        \* the sm vsfsm_fini works on
          open            \* the state machines between vsfsm_init and vsfsm_fini

ringVars == <<queue, head, tail, evt_count, tick_evt_count, sm_evt_count>>
ownerVars == <<pc, tmp, scan, closing, open>>
vars == <<ringVars, ownerVars>>

Slots == 0 .. Size - 1
Element == [sm : SMs \cup {NULL}, evt : Evts]

\* Mutant: the pointer wraps one slot too early.
AdvanceShort(p) == IF p >= Size - 2 THEN 0 ELSE p + 1

\* Advancing a ring pointer: back to the first slot after the last one.
Advance(p) == IF p = Size - 1 THEN 0 ELSE p + 1

\* The slot k places after p.
Nth(p, k) == IF p + k < Size THEN p + k ELSE p + k - Size

-----------------------------------------------------------------------------
(* vsfsm_evtq_init; the state machines exist and their counters are zero.  *)
Init ==
    /\ queue \in [Slots -> {[sm |-> NULL, evt |-> TIMER]}]
    /\ head = 0
    /\ tail = 0
    /\ evt_count = 0
    /\ tick_evt_count = 0
    /\ sm_evt_count = [s \in SMs |-> 0]
    /\ pc = "idle"
    /\ tmp = [sm |-> NULL, evt |-> TIMER]
    /\ scan = 0
    /\ closing = NULL
    /\ open = SMs

(* vsfsm_evtq_post.  A full queue refuses the event (the caller sees        *)
(* VSFERR_NOT_ENOUGH_RESOURCES) and a second tick is swallowed: both leave  *)
(* the state unchanged.  Nobody posts to a state machine that is finished,  *)
(* the obligation vsfsm_fini puts on its caller.  Without FiniOnFull the    *)
(* queue is dimensioned so that it never fills up while vsfsm_fini runs.    *)
Posts(s, e) ==
    /\ s \in open
    /\ e = TIMER => s \in TickSms
    /\ FiniOnFull \/ pc # "fini" \/ evt_count + 1 < Size

\* Mutant: the limit is tested with > instead of >=.
EvtqPostPastLimit(s, e) ==
    /\ Posts(s, e)
    /\ evt_count <= Size
    /\ e = TIMER => tick_evt_count = 0
    /\ tick_evt_count' = IF e = TIMER THEN tick_evt_count + 1 ELSE tick_evt_count
    /\ queue' = [queue EXCEPT ![tail] = [sm |-> s, evt |-> e]]
    /\ tail' = Advance(tail)
    /\ sm_evt_count' = [sm_evt_count EXCEPT ![s] = @ + 1]
    /\ evt_count' = evt_count + 1
    /\ UNCHANGED <<head, ownerVars>>

EvtqPost(s, e) ==
    /\ Posts(s, e)
    /\ evt_count < Size
    /\ e = TIMER => tick_evt_count = 0
    /\ tick_evt_count' = IF e = TIMER THEN tick_evt_count + 1 ELSE tick_evt_count
    /\ queue' = [queue EXCEPT ![tail] = [sm |-> s, evt |-> e]]
    /\ tail' = Advance(tail)
    /\ sm_evt_count' = [sm_evt_count EXCEPT ![s] = @ + 1]
    /\ evt_count' = evt_count + 1
    /\ UNCHANGED <<head, ownerVars>>

(* vsfsm_poll: tmp = *head, with the interrupts enabled.                    *)
PollCopy ==
    /\ pc = "idle"
    /\ evt_count # 0
    /\ tmp' = queue[head]
    /\ pc' = "copied"
    /\ UNCHANGED <<ringVars, scan, closing, open>>

(* vsfsm_poll: head moves on, with the interrupts enabled.                  *)
PollAdvance ==
    /\ pc = "copied"
    /\ head' = Advance(head)
    /\ pc' = "advanced"
    /\ UNCHANGED <<queue, tail, evt_count, tick_evt_count, sm_evt_count,
                   tmp, scan, closing, open>>

\* Mutants: only one of the two event counters is maintained, or the tick
\* counter is left alone.
PollAccountNotSm ==
    /\ pc = "advanced"
    /\ evt_count' = evt_count - 1
    /\ tick_evt_count' = IF tmp.evt = TIMER THEN tick_evt_count - 1 ELSE tick_evt_count
    /\ pc' = IF tmp.sm = NULL THEN "idle" ELSE "handler"
    /\ UNCHANGED <<queue, head, tail, sm_evt_count, tmp, scan, closing, open>>

PollAccountNotTick ==
    /\ pc = "advanced"
    /\ sm_evt_count' = IF tmp.sm = NULL THEN sm_evt_count
                       ELSE [sm_evt_count EXCEPT ![tmp.sm] = @ - 1]
    /\ evt_count' = evt_count - 1
    /\ pc' = IF tmp.sm = NULL THEN "idle" ELSE "handler"
    /\ UNCHANGED <<queue, head, tail, tick_evt_count, tmp, scan, closing, open>>

(* vsfsm_poll: the counters, with the interrupts disabled; then the event is*)
(* dispatched unless vsfsm_fini has disabled it.                            *)
PollAccount ==
    /\ pc = "advanced"
    /\ sm_evt_count' = IF tmp.sm = NULL THEN sm_evt_count
                       ELSE [sm_evt_count EXCEPT ![tmp.sm] = @ - 1]
    /\ evt_count' = evt_count - 1
    /\ tick_evt_count' = IF tmp.evt = TIMER THEN tick_evt_count - 1 ELSE tick_evt_count
    /\ pc' = IF tmp.sm = NULL THEN "idle" ELSE "handler"
    /\ UNCHANGED <<queue, head, tail, tmp, scan, closing, open>>

HandlerReturn ==
    /\ pc = "handler"
    /\ pc' = "idle"
    /\ UNCHANGED <<ringVars, tmp, scan, closing, open>>

(* vsfsm_fini(s) in a handler: vsftimer_clean_sm and the caller's promise   *)
(* end the posts to s, then the ring is scanned from head to tail.          *)
FiniStart(s) ==
    /\ pc = "handler"
    /\ s \in open
    /\ FiniOnFull \/ evt_count < Size
    /\ open' = open \ {s}
    /\ closing' = s
    /\ scan' = head
    /\ pc' = "fini"
    /\ UNCHANGED <<ringVars, tmp>>

(* One turn of the loop; interrupts may post between two turns, and tail is *)
(* read again every time.                                                   *)
FiniScan ==
    /\ pc = "fini"
    /\ scan # tail
    /\ queue' = IF queue[scan].sm = closing
                THEN [queue EXCEPT ![scan].sm = NULL] ELSE queue
    /\ scan' = Advance(scan)
    /\ UNCHANGED <<head, tail, evt_count, tick_evt_count, sm_evt_count,
                   pc, tmp, closing, open>>

FiniDone ==
    /\ pc = "fini"
    /\ scan = tail
    /\ closing' = NULL
    /\ pc' = "handler"
    /\ UNCHANGED <<ringVars, tmp, scan, open>>

(* vsfsm_init of a finished state machine, by a handler of this queue: its  *)
(* counter restarts at zero and INIT is dispatched directly.                *)
SmInit(s) ==
    /\ pc = "handler"
    /\ s \notin open
    /\ open' = open \cup {s}
    /\ sm_evt_count' = [sm_evt_count EXCEPT ![s] = 0]
    /\ UNCHANGED <<queue, head, tail, evt_count, tick_evt_count,
                   pc, tmp, scan, closing>>

Poll == PollCopy \/ PollAdvance \/ PollAccount
Fini == (\E s \in SMs : FiniStart(s)) \/ FiniScan \/ FiniDone

Next ==
    \/ \E s \in SMs, e \in Evts : EvtqPost(s, e)
    \/ Poll
    \/ HandlerReturn
    \/ Fini
    \/ \E s \in SMs : SmInit(s)

Spec == Init /\ [][Next]_vars

(* The owner runs whenever the queue holds an event (module Sched), a        *)
(* handler ends, however often it calls vsfsm_fini and vsfsm_init before     *)
(* (strong fairness), and vsfsm_fini's loop goes on.                         *)
Fairness == WF_vars(Poll) /\ SF_vars(HandlerReturn) /\ WF_vars(FiniScan \/ FiniDone)
FairSpec == Spec /\ Fairness

-----------------------------------------------------------------------------
\* Events that are in the ring: vsfsm_poll has moved head past one more event
\* than it has accounted for when pc is "advanced".
Stored == IF pc = "advanced" THEN evt_count - 1 ELSE evt_count

(* The ring pointers stay in the ring, evt_count never exceeds the size of   *)
(* the queue and at most one tick is counted.                                *)
TypeOK ==
    /\ queue \in [Slots -> Element]
    /\ head \in Slots
    /\ tail \in Slots
    /\ evt_count \in 0 .. Size
    /\ tick_evt_count \in 0 .. 1
    /\ sm_evt_count \in [SMs -> Int]
    /\ pc \in {"idle", "copied", "advanced", "handler", "fini"}
    /\ tmp \in Element
    /\ scan \in Slots
    /\ closing \in SMs \cup {NULL}
    /\ open \subseteq SMs

\* The events with property P that are queued: in the ring, or in vsfsm_poll's
\* hands and not accounted for yet.
Queued(P(_)) ==
    Cardinality({k \in 0 .. Stored - 1 : P(queue[Nth(head, k)])})
      + (IF pc = "advanced" /\ P(tmp) THEN 1 ELSE 0)

(* The ring pointers and the number of events agree at every interleaving of *)
(* posts with vsfsm_poll, so a post never overwrites an event that was not   *)
(* dispatched: tail is Stored places after head, and vsfsm_poll's copy of    *)
(* the head element is not changed under it.                                 *)
RingConsistent ==
    /\ tail = Nth(head, Stored)
    /\ pc \in {"copied", "advanced"} => evt_count > 0
    /\ pc = "copied" => tmp = queue[head]

(* tick_evt_count, on which vsfsm_evtq_post decides to swallow a tick, counts *)
(* the ticks that are queued: a tick is swallowed only if another one is      *)
(* still to come, and there are never two.                                    *)
TickCounted ==
    tick_evt_count = Queued(LAMBDA el : el.evt = TIMER)

(* vsfsm.h: vsfsm_fini removes the events in the queue.  After it has         *)
(* returned, no queued event names a state machine that is not in use.        *)
FiniRemovesEvents ==
    Queued(LAMBDA el : el.sm \notin open \cup {NULL, closing}) = 0

(* Every event of a state machine in use is dispatched, whatever is posted    *)
(* meanwhile, unless the state machine is finished first.                     *)
EventsDispatched ==
    \A s \in SMs :
        (s \in open /\ sm_evt_count[s] > 0)
            ~> (s \notin open \/ (pc = "handler" /\ tmp.sm = s))

\* The queue as EvtqAbs sees it.
Content ==
    LET ring == [k \in 1 .. Stored |-> queue[Nth(head, k - 1)]]
    IN  IF pc = "advanced" THEN <<tmp>> \o ring ELSE ring

Abs == INSTANCE EvtqAbs
         WITH fifo <- Content,
              handling <- IF pc \in {"handler", "fini"} THEN <<tmp>> ELSE <<>>

(* The ring buffer implements the bounded FIFO of EvtqAbs.                    *)
ImplementsFifo == Abs!AbsSpec
=============================================================================
