------------------------ MODULE WaitableEventService ------------------------
(***************************************************************************)
(* The wait lists implement EventService.  A thread waits, as the service  *)
(* sees it, from its Enqueue until its waiter is fired or disabled, and    *)
(* the signal is spent at the moment of a Fire that succeeds.              *)
(***************************************************************************)
EXTENDS WaitableEvent

Blocked(t) == pc[t] \in InWait /\ ~frame[t].fired
Released(t) == pc[t] \in InWait /\ frame[t].fired

Raised == {e \in Events : \E t \in Threads : Signaler(e, t) /\ pc[t] # "woken"}

\* The entries of those that wait on.
Still(e) == {i \in Entries(e) : Blocked(waiters[e][i])}

\* Who stands no later than whom in s, at the places of I.
Order(s, I) == {<<s[p[1]], s[p[2]]>> : p \in {q \in I \X I : q[1] <= q[2]}}

Queues == [e \in Events |-> Order(waiters[e], Still(e))]

Status(t) ==
  IF Blocked(t) THEN "waiting"
  ELSE IF Released(t) \/ (pc[t] = "leaving" /\ frame[t].ret # None) THEN "released"
  ELSE IF pc[t] = "leaving" THEN "expired"
  ELSE "out"

Statuses == [t \in Threads |-> Status(t)]

Got(t) == IF Released(t) THEN frame[t].by ELSE frame[t].ret
Gots == [t \in Threads |-> Got(t)]

Service == INSTANCE EventService WITH
  open <- signaled, raised <- Raised, queue <- Queues, status <- Statuses, got <- Gots

\* Every step of the wait lists is a step of the service or changes nothing in
\* it: no signal is lost on a waiter that times out or was released by another
\* event, and none releases two.
ImplementsEventService == Service!ESpec
=============================================================================
