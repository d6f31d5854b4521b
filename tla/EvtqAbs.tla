------------------------------ MODULE EvtqAbs ------------------------------
(***************************************************************************)
(* What an event queue of vsfsm promises to the code that posts events to  *)
(* it and to the handlers it feeds, without the ring buffer, the pointers  *)
(* and the counters of vsfsm.c:                                            *)
(*                                                                         *)
(*  - it is a FIFO of at most Size events;                                 *)
(*  - a tick is never queued twice;                                        *)
(*  - once vsfsm_fini(sm) has returned, no event of sm is in the queue.    *)
(***************************************************************************)
EXTENDS Naturals, Sequences

CONSTANTS Size,     \* capacity of the queue
          SMs,      \* the state machines bound to the queue
          NULL,     \* the sm of an event that vsfsm_fini disabled
          Evts,     \* the events
          TIMER     \* VSFSM_EVT_TIMER, the coalesced event

VARIABLES fifo,     \* the queued events, oldest first
          handling, \* the events taken and not yet handled (at most one)
          closing   \* the sm that vsfsm_fini is removing, or NULL

absVars == <<fifo, handling, closing>>

HasTick == \E i \in 1 .. Len(fifo) : fifo[i].evt = TIMER

AbsInit == fifo = <<>> /\ handling = <<>> /\ closing = NULL

\* An event is accepted when there is room; a second tick is not queued.
AbsPost(s, e) ==
    /\ Len(fifo) < Size
    /\ ~(e = TIMER /\ HasTick)
    /\ fifo' = Append(fifo, [sm |-> s, evt |-> e])
    /\ UNCHANGED <<handling, closing>>

\* The oldest event leaves the queue; an event that was disabled is dropped.
AbsTake ==
    /\ fifo # <<>>
    /\ handling = <<>>
    /\ fifo' = Tail(fifo)
    /\ handling' = IF Head(fifo).sm = NULL THEN <<>> ELSE <<Head(fifo)>>
    /\ UNCHANGED closing

AbsHandled ==
    /\ handling # <<>>
    /\ closing = NULL
    /\ handling' = <<>>
    /\ UNCHANGED <<fifo, closing>>

\* A handler removes a state machine: its events are disabled one by one,
\* and the removal ends when none is left.
AbsFini(s) ==
    /\ handling # <<>>
    /\ closing = NULL
    /\ closing' = s
    /\ UNCHANGED <<fifo, handling>>

AbsForget(i) ==
    /\ closing # NULL
    /\ fifo[i].sm = closing
    /\ fifo' = [fifo EXCEPT ![i].sm = NULL]
    /\ UNCHANGED <<handling, closing>>

AbsFiniDone ==
    /\ closing # NULL
    /\ \A i \in 1 .. Len(fifo) : fifo[i].sm # closing
    /\ closing' = NULL
    /\ UNCHANGED <<fifo, handling>>

AbsNext ==
    \/ \E s \in SMs, e \in Evts : AbsPost(s, e)
    \/ AbsTake
    \/ AbsHandled
    \/ \E s \in SMs : AbsFini(s)
    \/ \E i \in 1 .. Len(fifo) : AbsForget(i)
    \/ AbsFiniDone

AbsSpec == AbsInit /\ [][AbsNext]_absVars
=============================================================================
