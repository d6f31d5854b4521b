-------------------------------- MODULE Sync --------------------------------
(***************************************************************************)
(* Critical sections between state machines: vsfsm_crit_enter,             *)
(* vsfsm_crit_leave and vsfsm_sync_cancel, that is vsfsm_sync_decrease and *)
(* vsfsm_sync_increase on a vsfsm_sync_t with max_value 1 (vsfsm.c).       *)
(*                                                                         *)
(* Each operation runs with the SRT levels held off (VSFCFG_THREAD_SAFTY), *)
(* except that vsfsm_sync_increase posts the event of the waiter after it  *)
(* has let the other levels run again.  A grant therefore travels: the     *)
(* waiter is off the list, the event not posted; then the event is queued; *)
(* then the waiter has it.  The post can be refused by a full event queue, *)
(* and the waiter can have given up (vsfip_udp_recv on its timeout): the   *)
(* list does not have it any more, vsfsm_sync_cancel says VSFERR_NONE all  *)
(* the same, and the event comes to one who does not wait, or who waits    *)
(* again.                                                                  *)
(***************************************************************************)
EXTENDS SyncList

CONSTANTS QueueMayBeFull  \* may the post of a grant be refused?

ASSUME FullAssumption == QueueMayBeFull \in BOOLEAN

VARIABLES cur_value, \* sync->cur_value
          list,      \* sync->sm_pending and every sm->pending_next
          st,        \* "out", "wait" or "in": the critical section of each sm
          granting,  \* waiters taken off the list, their event not yet posted
          inflight,  \* waiters whose event is in an event queue
          lost,      \* permits lost to refused posts and to those who gave up
          waiting,   \* history: the waiters in the order in which they came,
                     \* until one is mistaken
          mistaken   \* history: one has taken the event of an earlier wait for
                     \* the answer to its present one, and is still on the list

vars == <<cur_value, list, st, granting, inflight, lost, waiting, mistaken>>

(* vsfsm_crit_init *)
Init ==
    /\ cur_value = 1
    /\ list = EmptyList
    /\ st = [s \in SMs |-> "out"]
    /\ granting = {}
    /\ inflight = {}
    /\ lost = 0
    /\ waiting = <<>>
    /\ mistaken = FALSE

(* vsfsm_sync_decrease *)
CritEnter(s) ==
    /\ st[s] = "out"
    /\ IF cur_value > 0
       THEN /\ cur_value' = cur_value - 1
            /\ st' = [st EXCEPT ![s] = "in"]
            /\ UNCHANGED <<list, waiting>>
       ELSE /\ AppendReturns(list, s)
            /\ list' = AppendSm(list, s)
            /\ st' = [st EXCEPT ![s] = "wait"]
            /\ waiting' = IF mistaken THEN <<>> ELSE Append(waiting, s)
            /\ UNCHANGED cur_value
    /\ UNCHANGED <<granting, inflight, lost, mistaken>>

\* The queue of waiters without its first, as long as it is the list's.
Served == IF mistaken THEN <<>> ELSE Tail(waiting)

(* vsfsm_sync_increase: the permit goes to the first waiter, or back to      *)
(* cur_value.  (The case cur_value = max_value is VSFERR_BUG: leaving without*)
(* having entered.)                                                          *)
CritLeave(s) ==
    /\ st[s] = "in"
    /\ st' = [st EXCEPT ![s] = "out"]
    /\ IF list.head # NULL
       THEN /\ granting' = granting \cup {list.head}
            /\ list' = RemoveFirst(list)
            /\ waiting' = Served
            /\ UNCHANGED cur_value
       ELSE /\ cur_value' = IF cur_value < 1 THEN cur_value + 1 ELSE cur_value
            /\ UNCHANGED <<granting, list, waiting>>
    /\ UNCHANGED <<inflight, lost, mistaken>>

\* A sequence without its k-th element.
Without(c, k) == [i \in 1 .. Len(c) - 1 |-> IF i < k THEN c[i] ELSE c[i + 1]]

\* Mutant: vsfsm_sync_cancel gives the permit of one that is not found back.
CancelReleases(s) ==
    /\ st[s] = "wait"
    /\ list' = CancelSm(list, s)
    /\ st' = [st EXCEPT ![s] = "out"]
    /\ \/ s \notin Members(list) /\ cur_value' = 1 /\ UNCHANGED waiting
       \/ \E k \in 1 .. Len(waiting) : waiting[k] = s /\ waiting' = Without(waiting, k)
          /\ UNCHANGED cur_value
    /\ UNCHANGED <<granting, inflight, lost, mistaken>>

(* vsfsm_sync_cancel of a state machine that waits: it is unlinked, if its   *)
(* grant is not already on its way; in both cases it does not wait any more. *)
Cancel(s) ==
    /\ st[s] = "wait" /\ CancelReturns(list, s)
    /\ list' = CancelSm(list, s)
    /\ st' = [st EXCEPT ![s] = "out"]
    /\ \/ /\ mistaken \/ s \notin Members(list)
          /\ UNCHANGED waiting
       \/ /\ ~mistaken
          /\ \E k \in 1 .. Len(waiting) : waiting[k] = s /\ waiting' = Without(waiting, k)
    /\ UNCHANGED <<cur_value, granting, inflight, lost, mistaken>>

\* Mutant: the waiter is taken off the list, no event is posted.
PostGrantForgotten(s) ==
    /\ s \in granting
    /\ granting' = granting \ {s}
    /\ UNCHANGED <<cur_value, list, st, inflight, lost, waiting, mistaken>>

(* vsfsm_sync_increase, second part: vsfsm_post_evt to the waiter.           *)
PostGrant(s) ==
    /\ s \in granting
    /\ granting' = granting \ {s}
    /\ inflight' = inflight \cup {s}
    /\ UNCHANGED <<cur_value, list, st, lost, waiting, mistaken>>

(* The event queue of the waiter is full: VSFERR_BUG, nobody holds the       *)
(* permit any more.                                                          *)
PostRefused(s) ==
    /\ QueueMayBeFull
    /\ s \in granting
    /\ granting' = granting \ {s}
    /\ lost' = lost + 1
    /\ UNCHANGED <<cur_value, list, st, inflight, waiting, mistaken>>

(* sync->evt comes: one that waits takes it for its grant and is in the      *)
(* critical section; one that has given up ignores it, and the permit with   *)
(* it.                                                                       *)
Granted(s) ==
    /\ s \in inflight
    /\ inflight' = inflight \ {s}
    /\ \/ /\ st[s] = "wait"
          /\ st' = [st EXCEPT ![s] = "in"]
          /\ mistaken' = (mistaken \/ s \in Members(list))
          /\ waiting' = IF mistaken' THEN <<>> ELSE waiting
          /\ UNCHANGED lost
       \/ /\ st[s] = "out"
          /\ lost' = lost + 1
          /\ UNCHANGED <<st, waiting, mistaken>>
    /\ UNCHANGED <<cur_value, list, granting>>

Next ==
    \E s \in SMs :
        \/ CritEnter(s)
        \/ CritLeave(s)
        \/ Cancel(s)
        \/ PostGrant(s)
        \/ PostRefused(s)
        \/ Granted(s)

Spec == Init /\ [][Next]_vars

(* A state machine that is in the critical section leaves it, a post that    *)
(* has begun ends and a queued event is dispatched (module Sched).           *)
Fairness ==
    \A s \in SMs : /\ WF_vars(CritLeave(s))
                   /\ WF_vars(PostGrant(s))
                   /\ WF_vars(Granted(s))

FairSpec == Spec /\ Fairness

-----------------------------------------------------------------------------
(* The permit is never duplicated and never disappears: it is in cur_value,  *)
(* with a state machine, on its way to a waiter, or lost to a full event     *)
(* queue or to a waiter that gave up too late.  So at most one state machine *)
(* is in the critical section, even when one takes the event of an earlier   *)
(* wait for its grant.                                                       *)
PermitConserved ==
    cur_value + Cardinality({s \in SMs : st[s] = "in"})
      + Cardinality(granting) + Cardinality(inflight) + lost = 1

(* The intrusive list is the queue of those who wait and were not taken off  *)
(* it, in the order in which they came: nobody is lost from it or overtakes, *)
(* and no one waits while the permit is free.  A cancel that comes after the *)
(* grant leaves all that alone; only one that waits again and then takes the *)
(* event of its earlier wait is in the critical section and on the list.     *)
ListIsFifo ==
    ~mistaken =>
        /\ Ends(list)
        /\ Chain(list) = waiting
        /\ \A s \in SMs : s \in Members(list) => st[s] = "wait" /\ cur_value = 0

(* Every waiter that does not cancel enters the critical section, unless the *)
(* permit is lost or somebody entered by mistake.                            *)
WaitersEnter ==
    \A s \in SMs : (st[s] = "wait") ~> (st[s] # "wait" \/ lost > 0 \/ mistaken)
=============================================================================
