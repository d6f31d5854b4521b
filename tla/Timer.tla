------------------------------- MODULE Timer -------------------------------
(***************************************************************************)
(* The timer service (framework/vsftimer/vsftimer.c) with the sorted list  *)
(* of component/fundation/buffer/buffer.c (vsfq_enqueue, vsfq_remove) and a*)
(* pool of timers (vsfpool).                                               *)
(*                                                                         *)
(* The tick interrupt only posts VSFSM_EVT_TIMER; the handler of the timer *)
(* state machine samples the tick counter once and fires from the head of  *)
(* the list until it meets a timer that is not due.  A timer that fires    *)
(* calls its state machine or callback, which creates, frees and re-arms   *)
(* timers: those operations are possible between any two turns of the      *)
(* handler's loop.  A user of a higher level can also come between the     *)
(* first half of a turn, which arms the timer again or frees it, and the   *)
(* second half, which reads evt and sm from the timer.                     *)
(***************************************************************************)
EXTENDS Integers, Sequences, Functions

CONSTANTS Pool,       \* timers vsftimer_create can allocate
          Embedded,   \* timers that are a field of their user's structure
          SMs,        \* the state machines that use timers
          NULL,       \* the null pointer
          Intervals,  \* the intervals they ask for, in ms
          Counts,     \* the trigger counts they ask for; -1 is periodic
          Wrap,       \* the tick counter counts modulo this (2^32)
          MaxTime,    \* bound on the number of ticks
          MaxOps      \* bound on the number of user operations

ASSUME WrapAssumption == Wrap \in Nat \ {0}
ASSUME BoundAssumption == MaxTime \in Nat /\ MaxOps \in Nat
ASSUME IntervalAssumption == Intervals \subseteq Nat \ {0}
ASSUME CountAssumption == Counts \subseteq Int \ {0}
ASSUME NullAssumption == NULL \notin SMs
ASSUME DisjointTimers == Pool \cap Embedded = {}

Timers == Pool \cup Embedded

VARIABLES time,      \* ticks since start, not wrapped
          pend,      \* VSFSM_EVT_TIMER is queued
          pc,        \* "idle", "run" or "post": the handler of the timer sm
          cur_tick,  \* the handler's cur_tick
          list,      \* vsftimer.timerlist
          timer,     \* addr, interval, trigger_cnt and sm of every timer
          allocated, \* pool timers that are allocated
          armed,     \* history: time at which each timer was last armed
          taken,     \* the handler's timer while its user is to be told, or NULL
          same,      \* history: and nobody has set it up again meanwhile
          fires,     \* history: events to its user since each was set up
          misfired,  \* history: timers that told their user of the expiry of a
                     \* former user
          ops        \* user operations so far, for the bound MaxOps

turnVars == <<taken, same, fires, misfired>>
vars == <<time, pend, pc, cur_tick, list, timer, allocated, armed, turnVars, ops>>

\* A timer structure filled in by its user; set keeps the count asked for.
Request(s, i, c) == [addr |-> 0, interval |-> i, trigger_cnt |-> c, sm |-> s, set |-> c]

\* vsfhal_tickclk_get_ms
Now == time % Wrap

Init ==
    /\ time = 0
    /\ pend = FALSE
    /\ pc = "idle"
    /\ cur_tick = 0
    /\ list = <<>>
    /\ timer = [t \in Timers |-> Request(NULL, 0, 0)]
    /\ allocated = {}
    /\ armed = [t \in Timers |-> 0]
    /\ taken = NULL
    /\ same = TRUE
    /\ fires = [t \in Timers |-> 0]
    /\ misfired = {}
    /\ ops = 0

-----------------------------------------------------------------------------
(* The list.                                                                 *)

\* What a walk through the list l leaves of it when it takes out the timers ts.
Keep(l, ts) ==
    LET kept[n \in 0 .. Len(l)] ==
            IF n = 0 THEN <<>>
            ELSE IF l[n] \in ts THEN kept[n - 1] ELSE Append(kept[n - 1], l[n])
    IN  kept[Len(l)]

\* vsfq_remove
Dequeue(l, t) == Keep(l, {t})

\* vsfq_enqueue: before the first node whose key is not smaller, or last.
Insert(l, key, t) ==
    LET later == {i \in 1 .. Len(l) : key[l[i]] >= key[t]}
        k == IF later = {} THEN Len(l) + 1 ELSE CHOOSE i \in later : \A j \in later : i <= j
    IN  [i \in 1 .. Len(l) + 1 |->
            IF i < k THEN l[i] ELSE IF i = k THEN t ELSE l[i - 1]]

(* vsftimer_enqueue: the deadline is counted from now; a timer that is       *)
(* already listed moves.                                                     *)
Enqueue(t, rec) ==
    LET new == [rec EXCEPT !.addr = (rec.interval + Now) % Wrap]
        key == [u \in Timers |-> IF u = t THEN new.addr ELSE timer[u].addr]
    IN  /\ timer' = [timer EXCEPT ![t] = new]
        /\ list' = Insert(Dequeue(list, t), key, t)
        /\ armed' = [armed EXCEPT ![t] = time]

\* Mutant: the timer leaves the list and stays allocated.
FreeLeaking(ts) ==
    /\ list' = Keep(list, ts)
    /\ UNCHANGED <<timer, armed, allocated>>

(* vsftimer_free: out of the list and, if it came from there, back to the    *)
(* pool (vsfpool_free ignores other addresses).                              *)
Free(ts) ==
    /\ list' = Keep(list, ts)
    /\ allocated' = allocated \ ts
    /\ UNCHANGED <<timer, armed>>

-----------------------------------------------------------------------------
(* The tick interrupt: tickcnt++ and vsftimer_callback_int, whose post may   *)
(* be refused by a full event queue.                                         *)
Tick ==
    /\ time < MaxTime
    /\ time' = time + 1
    /\ pend' \in {pend, TRUE}
    /\ UNCHANGED <<pc, cur_tick, list, timer, allocated, armed, turnVars, ops>>

RunStart ==
    /\ pc = "idle" /\ pend
    /\ pend' = FALSE
    /\ pc' = "run"
    /\ cur_tick' = Now
    /\ UNCHANGED <<time, list, timer, allocated, armed, turnVars, ops>>

Due(t) == cur_tick >= timer[t].addr

\* Mutant: a timer that has fired for the last time stays armed for good.
FireHeadForgets ==
    /\ pc = "run" /\ list # <<>> /\ Due(Head(list))
    /\ LET t == Head(list)
       IN  /\ Enqueue(t, [timer[t] EXCEPT !.trigger_cnt = @ - 1])
           /\ taken' = t
    /\ same' = TRUE
    /\ pc' = "post"
    /\ UNCHANGED <<time, pend, cur_tick, ops, allocated, fires, misfired>>

(* One turn of the handler's loop, first half: the count is decremented and  *)
(* the timer armed again or freed.                                           *)
FireHead ==
    /\ pc = "run" /\ list # <<>> /\ Due(Head(list))
    /\ LET t == Head(list)
           cnt == timer[t].trigger_cnt
           left == IF cnt > 0 THEN cnt - 1 ELSE cnt
       IN  /\ IF left # 0
              THEN Enqueue(t, [timer[t] EXCEPT !.trigger_cnt = left]) /\ UNCHANGED allocated
              ELSE Free({t})
           /\ taken' = t
    /\ same' = TRUE
    /\ pc' = "post"
    /\ UNCHANGED <<time, pend, cur_tick, ops, fires, misfired>>

(* The second half: the event of the timer is posted or its callback called, *)
(* as its fields say now.                                                    *)
Tell ==
    /\ pc = "post"
    /\ pc' = "run" /\ taken' = NULL /\ same' = TRUE
    /\ fires' = [fires EXCEPT ![taken] = @ + 1]
    /\ misfired' = IF same THEN misfired ELSE misfired \cup {taken}
    /\ UNCHANGED <<time, pend, cur_tick, list, timer, allocated, armed, ops>>

\* Mutant: the handler serves one timer per tick.
RunEndEarly ==
    /\ pc = "run"
    /\ pc' = "idle"
    /\ UNCHANGED <<time, pend, cur_tick, list, timer, allocated, armed, turnVars, ops>>

RunEnd ==
    /\ pc = "run"
    /\ list # <<>> => ~Due(Head(list))
    /\ pc' = "idle"
    /\ UNCHANGED <<time, pend, cur_tick, list, timer, allocated, armed, turnVars, ops>>

-----------------------------------------------------------------------------
(* The users.                                                                *)
Operation == ops < MaxOps /\ ops' = ops + 1 /\ UNCHANGED <<time, pend, pc, cur_tick, taken>>

\* A user has filled in the timer t: nothing of it counts for a former user.
SetUp(t) ==
    /\ fires' = [fires EXCEPT ![t] = 0]
    /\ misfired' = misfired \ {t}
    /\ same' = (same /\ t # taken)

(* vsftimer_create and vsftimer_create_cb; without a free timer they return  *)
(* NULL and change nothing.                                                  *)
Create(s, i, c) ==
    /\ Operation
    /\ \E t \in Pool \ allocated :
          /\ allocated' = allocated \cup {t}
          /\ Enqueue(t, Request(s, i, c))
          /\ SetUp(t)

(* vsftimer_free by the user of an allocated timer.                          *)
UserFree(t) ==
    /\ Operation
    /\ t \in allocated
    /\ Free({t})
    /\ UNCHANGED <<same, fires, misfired>>

(* vsftimer_enqueue of an embedded timer, listed or not.                     *)
Rearm(t, s, i, c) ==
    /\ Operation
    /\ t \in Embedded
    /\ Enqueue(t, Request(s, i, c))
    /\ SetUp(t)
    /\ UNCHANGED allocated

(* vsftimer_dequeue of an embedded timer, listed or not.                     *)
Disarm(t) ==
    /\ Operation
    /\ t \in Embedded
    /\ list' = Dequeue(list, t)
    /\ UNCHANGED <<timer, allocated, armed, same, fires, misfired>>

(* vsftimer_clean_sm: every timer of the state machine goes.                 *)
CleanSm(s) ==
    /\ Operation
    /\ Free({t \in Range(list) : timer[t].sm = s})
    /\ UNCHANGED <<same, fires, misfired>>

Handler == RunStart \/ FireHead \/ Tell \/ RunEnd

Next ==
    \/ Tick
    \/ Handler
    \/ \E s \in SMs, i \in Intervals, c \in Counts :
          Create(s, i, c) \/ \E t \in Embedded : Rearm(t, s, i, c)
    \/ \E t \in Timers : UserFree(t) \/ Disarm(t)
    \/ \E s \in SMs : CleanSm(s)

Spec == Init /\ [][Next]_vars

-----------------------------------------------------------------------------
(* A timer never expires before its interval is over; and when the handler   *)
(* returns, nothing that was due at the tick it sampled is left, although    *)
(* the users of the expired timers change the list meanwhile.                *)
FiresInTime ==
    [][/\ pc = "run" /\ pc' = "post" => time >= armed[taken'] + timer[taken'].interval
       /\ pc = "run" /\ pc' = "idle" => \A t \in Range(list) : timer[t].addr > cur_tick]_vars

(* The pool neither leaks a timer nor hands out one that still can fire:     *)
(* allocated are exactly the pool timers in the list.                        *)
PoolExact == allocated = Pool \cap Range(list)

\* The handler has taken t and is about to tell the user it expired for.
Owed(t) == IF pc = "post" /\ taken = t /\ same THEN 1 ELSE 0

(* Its user hears of a timer exactly as often as it asked to: what it was    *)
(* told, is about to be told and what is left add up as long as the timer is *)
(* listed.  The exception is a timer that was set up again, by a user of a   *)
(* higher level, between the two halves of the turn that took it: the event  *)
(* of the former user goes to the new one.                                   *)
FiresAsAsked ==
    \A t \in Range(list) \ misfired : timer[t].set > 0 =>
        /\ fires[t] + Owed(t) + timer[t].trigger_cnt = timer[t].set
        /\ timer[t].trigger_cnt > 0
=============================================================================
