------------------------------- MODULE Sched -------------------------------
(***************************************************************************)
(* The preemptive scheduler of vsf: the main loop and the soft-real-time   *)
(* queues of vsfmain.c together with vsfsm_post_evt, vsfsm_post_evt_pending*)
(* and vsfsm_dispatch_evt_protected of vsfsm.c.                            *)
(*                                                                         *)
(* Level 0 is the main loop with the NRT queue, level p > 0 the software   *)
(* interrupt that runs app_on_srt for SRT queue p - 1; a higher level      *)
(* preempts a lower one between any two steps.  Hardware interrupts preempt*)
(* every level and post events.  All levels share one global,              *)
(* vsfsm_cur_evtq, from which vsfsm_post_evt decides whether an event is   *)
(* dispatched on the spot or queued.                                       *)
(*                                                                         *)
(* A queue is a FIFO of bounded length, what module Evtq implements.       *)
(***************************************************************************)
EXTENDS Integers, Sequences, FiniteSets

CONSTANTS N,           \* number of SRT queues (APPCFG_SRT_NUM)
          QueueLen,    \* APPCFG_*_QUEUE_LEN of each level
          SMs,         \* the state machines
          Home,        \* sm->evtq of each: a level, or NoQueue for NULL
          IsrTargets,  \* the state machines interrupts post events to
          MaxSrtPrio,  \* VSFCFG_MAX_SRT_PRIO, as the highest level it holds off
          MaxPosts     \* bound on the number of posts of a behaviour

Levels == 0 .. N
NoQueue == -1

ASSUME NAssumption == N \in Nat
ASSUME LenAssumption == QueueLen \in [Levels -> Nat \ {0}]
ASSUME HomeAssumption == Home \in [SMs -> Levels \cup {NoQueue}]
ASSUME IsrAssumption ==
    IsrTargets \subseteq SMs /\ \A s \in IsrTargets : Home[s] # NoQueue
ASSUME PrioAssumption == MaxSrtPrio \in Levels
ASSUME PostsAssumption == MaxPosts \in Nat

VARIABLES q,         \* the event queues; an event is [sm, id]
          swi,       \* the software interrupt of a level is pending
          pc,        \* where the context of each level is
          cur,       \* vsfsm_cur_evtq, as a level
          old,       \* app_on_srt's evtq_old
          frames,    \* handlers that are active in each context, innermost last
          act,       \* queue the context has yet to activate, or NoQueue
          isr,       \* queue a hardware interrupt has yet to activate, or NoQueue
          mask,      \* BASEPRI: software interrupts up to this level are held
          posted,    \* events accepted for each state machine so far
          delivered, \* events dispatched to each state machine so far
          posts      \* posts so far, for the bound MaxPosts

sendVars == <<q, posted, delivered, posts>>
vars == <<q, swi, pc, cur, old, frames, act, isr, mask, posted, delivered, posts>>

(* "entered" and "saved" are app_on_srt before and between the two          *)
(* assignments of vsfsm_evtq_set; "check" is a test of evt_count; "irqoff"  *)
(* and "doze" are the main loop with interrupts disabled, before and after  *)
(* its test of the queue; "sleep" is the WFI of vsfhal_core_sleep.          *)
SrtPc == {"off", "entered", "saved", "check", "handler", "restore"}
MainPc == {"check", "handler", "irqoff", "doze", "sleep"}

-----------------------------------------------------------------------------
(* Who executes.                                                            *)
Active(p) == pc[p] # "off"

\* Level p has the processor.
Running(p) ==
    /\ Active(p)
    /\ \A r \in Levels : r > p => ~Active(r)
    /\ isr = NoQueue

\* vsfsm code of level p may take its next step; after a post it has to call
\* activate first.
Executes(p) == Running(p) /\ act[p] = NoQueue

InHandler(p) == Executes(p) /\ pc[p] = "handler"

\* vsfmain tests its queue, and decides to sleep, with interrupts disabled.
InterruptsEnabled == pc[0] \notin {"irqoff", "doze"}

\* An interrupt ends the WFI of the main loop.
Woken(f) == IF f[0] = "sleep" THEN [f EXCEPT ![0] = "check"] ELSE f

-----------------------------------------------------------------------------
(* After vsfmain's initialisation; vsfapp_init leaves the main queue        *)
(* selected.                                                                *)
Init ==
    /\ q = [p \in Levels |-> <<>>]
    /\ swi = [p \in Levels |-> FALSE]
    /\ pc = [p \in Levels |-> IF p = 0 THEN "check" ELSE "off"]
    /\ cur = 0
    /\ old = [p \in Levels |-> 0]
    /\ frames = [p \in Levels |-> <<>>]
    /\ act = [p \in Levels |-> NoQueue]
    /\ isr = NoQueue
    /\ mask = 0
    /\ posted = [s \in SMs |-> 0]
    /\ delivered = [s \in SMs |-> 0]
    /\ posts = 0

-----------------------------------------------------------------------------
(* app_on_srt                                                               *)
SwiEnter(p) ==
    /\ p > 0 /\ swi[p] /\ pc[p] = "off"
    /\ \A r \in Levels : r > p => ~Active(r)
    /\ isr = NoQueue
    /\ p > mask
    /\ InterruptsEnabled
    /\ swi' = [swi EXCEPT ![p] = FALSE]
    /\ pc' = Woken([pc EXCEPT ![p] = "entered"])
    /\ UNCHANGED <<cur, old, frames, act, isr, mask, sendVars>>

\* vsfsm_evtq_set reads vsfsm_cur_evtq ...
SrtSave(p) ==
    /\ Executes(p) /\ pc[p] = "entered"
    /\ old' = [old EXCEPT ![p] = cur]
    /\ pc' = [pc EXCEPT ![p] = "saved"]
    /\ UNCHANGED <<swi, cur, frames, act, isr, mask, sendVars>>

\* ... and writes it.
SrtSet(p) ==
    /\ Executes(p) /\ pc[p] = "saved"
    /\ cur' = p
    /\ pc' = [pc EXCEPT ![p] = "check"]
    /\ UNCHANGED <<swi, old, frames, act, isr, mask, sendVars>>

\* Mutant: evtq_old is not put back.
SrtRestoreNot(p) ==
    /\ Executes(p) /\ pc[p] = "restore"
    /\ pc' = [pc EXCEPT ![p] = "off"]
    /\ UNCHANGED <<swi, cur, old, frames, act, isr, mask, sendVars>>

\* Mutant: the pending bit is cleared when app_on_srt returns, not when it starts.
SrtRestoreClears(p) ==
    /\ Executes(p) /\ pc[p] = "restore"
    /\ cur' = old[p]
    /\ pc' = [pc EXCEPT ![p] = "off"]
    /\ swi' = [swi EXCEPT ![p] = FALSE]
    /\ UNCHANGED <<old, frames, act, isr, mask, sendVars>>

SrtRestore(p) ==
    /\ Executes(p) /\ pc[p] = "restore"
    /\ cur' = old[p]
    /\ pc' = [pc EXCEPT ![p] = "off"]
    /\ UNCHANGED <<swi, old, frames, act, isr, mask, sendVars>>

(* vsfsm_poll: the oldest event of the current queue is dispatched ...       *)
PollTake(p) ==
    /\ Executes(p) /\ pc[p] = "check"
    /\ q[cur] # <<>>
    /\ LET e == Head(q[cur]) IN
          /\ q' = [q EXCEPT ![cur] = Tail(@)]
          /\ frames' = [frames EXCEPT ![p] = <<[sm |-> e.sm, orig |-> NoQueue]>>]
          /\ delivered' = [delivered EXCEPT ![e.sm] = e.id]
    /\ pc' = [pc EXCEPT ![p] = "handler"]
    /\ UNCHANGED <<swi, cur, old, act, isr, mask, posted, posts>>

(* ... until none is left: app_on_srt leaves, vsfmain disables interrupts.   *)
PollEmpty(p) ==
    /\ Executes(p) /\ pc[p] = "check"
    /\ q[cur] = <<>>
    /\ pc' = [pc EXCEPT ![p] = IF p = 0 THEN "irqoff" ELSE "restore"]
    /\ UNCHANGED <<swi, cur, old, frames, act, isr, mask, sendVars>>

(* vsfmain with interrupts disabled: poll again, or sleep.                   *)
MainTest ==
    /\ Executes(0) /\ pc[0] = "irqoff"
    /\ pc' = [pc EXCEPT ![0] = IF q[cur] # <<>> THEN "check" ELSE "doze"]
    /\ UNCHANGED <<swi, cur, old, frames, act, isr, mask, sendVars>>

(* vsfhal_core_sleep enables the interrupts and waits for one; one that      *)
(* comes before the WFI prevents it, as core.c states of the processor.      *)
MainSleep ==
    /\ Executes(0) /\ pc[0] = "doze"
    /\ pc' = [pc EXCEPT ![0] = "sleep"]
    /\ UNCHANGED <<swi, cur, old, frames, act, isr, mask, sendVars>>

-----------------------------------------------------------------------------
(* Posting.                                                                  *)

\* The places of the queue of s that hold an event for s.
Places(s) == {i \in 1 .. Len(q[Home[s]]) : q[Home[s]][i].sm = s}

\* sm->evt_count: the events of s that are queued.
EvtCount(s) == Cardinality(Places(s))

CanPost == posts < MaxPosts

\* vsfsm_evtq_post on the queue of s: a full queue refuses the event.
Accepts(s) == Len(q[Home[s]]) < QueueLen[Home[s]]

Enqueue(s) ==
    /\ posts' = posts + 1
    /\ IF Accepts(s)
       THEN /\ q' = [q EXCEPT ![Home[s]] = Append(@, [sm |-> s, id |-> posted[s] + 1])]
            /\ posted' = [posted EXCEPT ![s] = @ + 1]
       ELSE UNCHANGED <<q, posted>>
    /\ UNCHANGED delivered

\* The queue whose activate is called after Enqueue(s); the main queue has none.
ToActivate(s) == IF Accepts(s) /\ Home[s] > 0 THEN Home[s] ELSE NoQueue

\* vsfsm_dispatch_evt in the middle of a handler; orig is the BASEPRI to put
\* back, or NoQueue when the handler is not protected.
Call(p, s, orig) ==
    frames' = [frames EXCEPT ![p] = Append(@, [sm |-> s, orig |-> orig])]

DispatchNow(p, s, ordered) ==
    /\ Call(p, s, NoQueue)
    /\ posts' = posts + 1
    /\ posted' = [posted EXCEPT ![s] = @ + (IF ordered THEN 1 ELSE 0)]
    /\ delivered' = [delivered EXCEPT ![s] = IF ordered THEN posted[s] + 1 ELSE @]
    /\ UNCHANGED <<q, swi, pc, cur, old, act, isr, mask>>

\* Mutant: a state machine without a queue is dispatched without protection.
DispatchUnprotected(p, s) ==
    /\ Call(p, s, mask)
    /\ posts' = posts + 1
    /\ UNCHANGED <<q, swi, pc, cur, old, act, isr, mask, posted, delivered>>

\* vsfsm_dispatch_evt_protected: a state machine without a queue.
DispatchProtected(p, s) ==
    /\ Call(p, s, mask)
    /\ mask' = MaxSrtPrio
    /\ posts' = posts + 1
    /\ UNCHANGED <<q, swi, pc, cur, old, act, isr, posted, delivered>>

Queue(p, s) ==
    /\ Enqueue(s)
    /\ act' = [act EXCEPT ![p] = ToActivate(s)]
    /\ UNCHANGED <<swi, pc, cur, old, frames, isr, mask>>

\* Mutant: vsfsm_post_evt dispatches although events of s are queued.
PostEvtOvertaking(p, s) ==
    /\ InHandler(p) /\ CanPost
    /\ \/ Home[s] = NoQueue /\ DispatchProtected(p, s)
       \/ Home[s] \in Levels \ {cur} /\ Queue(p, s)
       \/ Home[s] = cur /\ DispatchNow(p, s, TRUE)

(* vsfsm_post_evt of an event that is not instant.                           *)
PostEvt(p, s) ==
    /\ InHandler(p) /\ CanPost
    /\ \/ /\ Home[s] = NoQueue
          /\ DispatchProtected(p, s)
       \/ /\ Home[s] # NoQueue
          /\ Home[s] # cur \/ EvtCount(s) > 0
          /\ Queue(p, s)
       \/ /\ Home[s] = cur
          /\ EvtCount(s) = 0
          /\ DispatchNow(p, s, TRUE)

(* vsfsm_post_evt of an instant event: refused by the queue of another level *)
(* (nothing changes), otherwise dispatched before everything queued.         *)
PostInstant(p, s) ==
    /\ InHandler(p) /\ CanPost
    /\ \/ Home[s] = NoQueue /\ DispatchProtected(p, s)
       \/ Home[s] = cur /\ DispatchNow(p, s, FALSE)

(* vsfsm_post_evt_pending.                                                   *)
PostEvtPending(p, s) ==
    /\ InHandler(p) /\ CanPost
    /\ \/ Home[s] = NoQueue /\ DispatchProtected(p, s)
       \/ Home[s] # NoQueue /\ Queue(p, s)

\* evtq->activate: vsfhal_swi_trigger of the level.
Activate(p) ==
    /\ Running(p) /\ act[p] # NoQueue
    /\ swi' = [swi EXCEPT ![act[p]] = TRUE]
    /\ act' = [act EXCEPT ![p] = NoQueue]
    /\ UNCHANGED <<pc, cur, old, frames, isr, mask, sendVars>>

(* A handler returns, to the handler that called vsfsm_post_evt or to        *)
(* vsfsm_poll; vsfsm_dispatch_evt_protected puts BASEPRI back.               *)
HandlerReturn(p) ==
    /\ InHandler(p)
    /\ LET top == frames[p][Len(frames[p])]
           rest == SubSeq(frames[p], 1, Len(frames[p]) - 1) IN
          /\ frames' = [frames EXCEPT ![p] = rest]
          /\ mask' = IF top.orig = NoQueue THEN mask ELSE top.orig
          /\ pc' = [pc EXCEPT ![p] = IF rest = <<>> THEN "check" ELSE @]
    /\ UNCHANGED <<swi, cur, old, act, isr, sendVars>>

-----------------------------------------------------------------------------
(* A hardware interrupt posts with vsfsm_post_evt_pending, then activates.   *)
IsrPost(s) ==
    /\ s \in IsrTargets
    /\ isr = NoQueue
    /\ InterruptsEnabled
    /\ CanPost
    /\ Enqueue(s)
    /\ isr' = ToActivate(s)
    /\ pc' = Woken(pc)
    /\ UNCHANGED <<swi, cur, old, frames, act, mask>>

IsrActivate ==
    /\ isr # NoQueue
    /\ swi' = [swi EXCEPT ![isr] = TRUE]
    /\ isr' = NoQueue
    /\ UNCHANGED <<pc, cur, old, frames, act, mask, sendVars>>

-----------------------------------------------------------------------------
Srt(p) == SwiEnter(p) \/ SrtSave(p) \/ SrtSet(p) \/ SrtRestore(p)
Loop(p) == PollTake(p) \/ PollEmpty(p) \/ (p = 0 /\ (MainTest \/ MainSleep))
Handler(p) ==
    \/ \E s \in SMs : PostEvt(p, s) \/ PostInstant(p, s) \/ PostEvtPending(p, s)
    \/ Activate(p)
    \/ HandlerReturn(p)

Next ==
    \/ \E p \in Levels : Srt(p) \/ Loop(p) \/ Handler(p)
    \/ \E s \in SMs : IsrPost(s)
    \/ IsrActivate

Spec == Init /\ [][Next]_vars

(* The processor executes: every context that has it goes on, a pending and  *)
(* unmasked software interrupt is taken, an interrupt handler ends.  Posting *)
(* is never forced, and a handler returns.                                   *)
Fairness ==
    /\ \A p \in Levels : /\ WF_vars(Srt(p))
                         /\ WF_vars(Loop(p))
                         /\ WF_vars(Activate(p))
                         /\ WF_vars(HandlerReturn(p))
    /\ WF_vars(IsrActivate)

FairSpec == Spec /\ Fairness

-----------------------------------------------------------------------------
(* No queue exceeds its length, and every context is at a point its code has.*)
TypeOK ==
    /\ q \in [Levels -> Seq([sm : SMs, id : Nat])]
    /\ \A p \in Levels : Len(q[p]) <= QueueLen[p]
    /\ swi \in [Levels -> BOOLEAN]
    /\ pc \in [Levels -> SrtPc \cup MainPc]
    /\ pc[0] \in MainPc /\ \A p \in Levels \ {0} : pc[p] \in SrtPc
    /\ cur \in Levels
    /\ old \in [Levels -> Levels]
    /\ frames \in [Levels -> Seq([sm : SMs, orig : Levels \cup {NoQueue}])]
    /\ act \in [Levels -> Levels \cup {NoQueue}]
    /\ isr \in Levels \cup {NoQueue}
    /\ mask \in Levels
    /\ posted \in [SMs -> Nat]
    /\ delivered \in [SMs -> Nat]
    /\ posts \in 0 .. MaxPosts

(* A state machine is only ever executed by the context of its own queue, so *)
(* two contexts never execute it at once and its data need no lock.          *)
(* vsfsm_post_evt only knows vsfsm_cur_evtq: this is what keeping that       *)
(* global right through nested preemptions is for.                           *)
HandlerAtHome ==
    \A p \in Levels : \A i \in 1 .. Len(frames[p]) :
        Home[frames[p][i].sm] \in {p, NoQueue}

(* What vsfsm_dispatch_evt_protected is worth: among the levels that         *)
(* VSFCFG_MAX_SRT_PRIO holds off, no state machine is active in two contexts,*)
(* whatever the levels above it interrupt, and although they raise and put   *)
(* back the same BASEPRI while a lower level relies on it.  A level above it *)
(* is not held off and may execute a state machine without a queue over      *)
(* another level; the repository's 0xFF with priorities 0xff, 0xfe, ... is   *)
(* MaxSrtPrio = 1.                                                           *)
ProtectedExclusive ==
    \A p, r \in 0 .. MaxSrtPrio :
        \A i \in 1 .. Len(frames[p]), j \in 1 .. Len(frames[r]) :
            frames[p][i].sm = frames[r][j].sm => p = r

(* Events reach a state machine exactly once and in the order in which they  *)
(* were accepted, also when vsfsm_post_evt dispatches some directly and      *)
(* queues others: what is queued for s are all the events after the last     *)
(* delivered one up to the last accepted one, in ascending order.            *)
FifoPerSm ==
    \A s \in SMs : Home[s] # NoQueue =>
        /\ delivered[s] <= posted[s]
        /\ {q[Home[s]][i].id : i \in Places(s)} = delivered[s] + 1 .. posted[s]
        /\ \A i, j \in Places(s) : i < j => q[Home[s]][i].id < q[Home[s]][j].id

(* No lost wakeup of an SRT queue: while it holds an event, its software     *)
(* interrupt is pending or will be triggered by a context that has posted,   *)
(* or app_on_srt is active and will still test the queue.                    *)
NoLostWakeup ==
    \A p \in Levels \ {0} : q[p] # <<>> =>
        \/ swi[p]
        \/ isr = p
        \/ \E r \in Levels : act[r] = p
        \/ pc[p] \in {"entered", "saved", "check", "handler"}

(* Every accepted event is dispatched.                                       *)
AllDelivered ==
    \A s \in SMs : Home[s] # NoQueue =>
        (posted[s] > delivered[s]) ~> (posted[s] = delivered[s])
=============================================================================
