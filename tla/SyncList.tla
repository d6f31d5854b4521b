------------------------------ MODULE SyncList ------------------------------
(***************************************************************************)
(* The list of state machines that wait for a vsfsm_sync_t (vsfsm.c): the  *)
(* list head sync->sm_pending, linked through the single field             *)
(* sm->pending_next of the state machines themselves.                      *)
(***************************************************************************)
EXTENDS Naturals, FiniteSets, Sequences

CONSTANTS SMs,   \* the state machines
          NULL   \* the null pointer

ASSUME NullIsNoSm == NULL \notin SMs
ASSUME FiniteSms == IsFiniteSet(SMs)

EmptyList == [head |-> NULL, next |-> [s \in SMs |-> NULL]]

\* The n-th pointer of a walk through the list, counted from the head.
Walk(l) ==
    LET w[n \in 0 .. Cardinality(SMs)] ==
            IF n = 0 THEN l.head
            ELSE IF w[n - 1] = NULL THEN NULL ELSE l.next[w[n - 1]]
    IN  w

\* The walk meets NULL, so the loops over the list end.
Ends(l) == Walk(l)[Cardinality(SMs)] = NULL

Members(l) == {Walk(l)[n] : n \in 0 .. Cardinality(SMs)} \ {NULL}

\* The list as a sequence, if it ends.
Chain(l) == [i \in 1 .. Cardinality(Members(l)) |-> Walk(l)[i - 1]]

\* Mutant: a new waiter goes to the front.
AppendSmFirst(l, s) == [head |-> s, next |-> [l.next EXCEPT ![s] = l.head]]

(* vsfsm_sync_append_sm: s->pending_next is cleared first, then the last     *)
(* element is looked for.                                                    *)
AppendSm(l, s) ==
    LET cleared == [l EXCEPT !.next[s] = NULL]
        last == CHOOSE m \in Members(cleared) : cleared.next[m] = NULL
    IN  IF l.head = NULL THEN [cleared EXCEPT !.head = s]
        ELSE [cleared EXCEPT !.next[last] = s]

\* The loop of vsfsm_sync_append_sm finds a last element.  On a list that was
\* linked to itself it would not, and never return.
AppendReturns(l, s) ==
    LET cleared == [l EXCEPT !.next[s] = NULL]
    IN  l.head = NULL \/ \E m \in Members(cleared) : cleared.next[m] = NULL

(* vsfsm_sync_increase takes the first waiter off the list.                  *)
RemoveFirst(l) == [l EXCEPT !.head = l.next[l.head]]

(* vsfsm_sync_cancel: s is unlinked where it is found first.                 *)
CancelSm(l, s) ==
    IF l.head = s THEN [l EXCEPT !.head = l.next[s]]
    ELSE IF \E m \in Members(l) : l.next[m] = s
         THEN LET before == CHOOSE m \in Members(l) : l.next[m] = s
              IN  [l EXCEPT !.next[before] = l.next[s]]
         ELSE l

\* Likewise the loop of vsfsm_sync_cancel.
CancelReturns(l, s) == s \in Members(l) \/ Ends(l)
=============================================================================
