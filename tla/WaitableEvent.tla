--------------------------- MODULE WaitableEvent ---------------------------
(***************************************************************************)
(* WaitableEvent on POSIX (waitable_event_posix.cpp): wait lists of        *)
(* SyncWaiters that live on the stacks of the threads that wait.           *)
(*                                                                         *)
(* An event is its address, a number, since WaitMultiple locks by address. *)
(* A thread has one SyncWaiter at a time, so the thread stands for it in   *)
(* the lists.  A step is what a thread does between two moments where      *)
(* another can be seen: it takes a lock at its beginning or holds it on.   *)
(***************************************************************************)
EXTENDS Integers, Sequences, SequencesExt

CONSTANTS
  Threads,
  Events,       \* addresses
  Manual,       \* the events created with manual_reset
  Initially,    \* the events created with initially_signaled
  Arrays,       \* the arguments of WaitMultiple
  MaxCalls,     \* bound on the calls
  None

ASSUME EventsAssumption ==
  /\ Events \subseteq Nat /\ Manual \subseteq Events /\ Initially \subseteq Events
  /\ None \notin Events \cup Threads
ASSUME ArraysAssumption ==
  Arrays \subseteq {a \in Seq(Events) : Len(a) > 1 /\ IsInjective(a)}
ASSUME MaxCallsAssumption == MaxCalls \in Nat

VARIABLES
  signaled,    \* the events whose signaled_ is set
  lock,        \* holder of each kernel's lock_ between steps
  waiters,     \* waiters_ of each kernel
  pc,          \* of each thread
  frame,       \* locals of each thread's call, its SyncWaiter among them
  calls        \* number of calls so far

vars == <<signaled, lock, waiters, pc, frame, calls>>
kernels == <<signaled, lock, waiters>>

Frame == [
  array  : Seq(Events),              \* the events the call is about
  cursor : Nat \ {0},                \* of SignalAll, in waiters_
  timed  : BOOLEAN,                  \* finite_time
  late   : BOOLEAN,                  \* current_time >= end_time
  fired  : BOOLEAN,                  \* fired_
  by     : Events \cup {None},       \* signaling_event_
  ret    : Events \cup {None},       \* the event that released the wait, None for false
  todo   : Seq(Events)]              \* the events still to Dequeue from
NewFrame(a, finite) ==
  [array |-> a, cursor |-> 1, timed |-> finite, late |-> FALSE, fired |-> FALSE,
   by |-> None, ret |-> None, todo |-> << >>]
NoFrame == NewFrame(<< >>, FALSE)

InWait == {"enqueued", "asleep", "awake"}

Init ==
  /\ signaled = Initially
  /\ lock = [e \in Events |-> None]
  /\ waiters = [e \in Events |-> << >>]
  /\ pc = [t \in Threads |-> "idle"]
  /\ frame = [t \in Threads |-> NoFrame]
  /\ calls = 0

Goto(t, place) == pc' = [pc EXCEPT ![t] = place]
Begin(t, place, f) == Goto(t, place) /\ frame' = [frame EXCEPT ![t] = f]
End(t) == Begin(t, "idle", NoFrame)

Call(t) == pc[t] = "idle" /\ calls < MaxCalls /\ calls' = calls + 1

Consume(e) == signaled' = IF e \in Manual THEN signaled ELSE signaled \ {e}

------------------------------------------------------------------------------
(* Signal, Reset, IsSignaled *)

Reset(t, e) ==
  /\ Call(t) /\ lock[e] = None
  /\ signaled' = signaled \ {e}
  /\ UNCHANGED <<lock, waiters, pc, frame>>

IsSignaled(t, e) ==
  /\ Call(t) /\ lock[e] = None
  /\ Consume(e)
  /\ UNCHANGED <<lock, waiters, pc, frame>>

Signal(t, e) ==
  /\ Call(t) /\ lock[e] = None
  /\ IF e \in signaled
     THEN UNCHANGED <<lock, pc, frame>>
     ELSE /\ lock' = [lock EXCEPT ![e] = t]
          /\ Begin(t, "signaling", NewFrame(<<e>>, FALSE))
  /\ UNCHANGED <<signaled, waiters>>

NoBroadcast(w) == pc[w]
Broadcast(w) == IF pc[w] = "asleep" THEN "awake" ELSE pc[w]

\* SyncWaiter::Fire on the waiter of w, who keeps its lock until it waits on
\* cv_.  SignalAll goes on to the next waiter, SignalOne to pop_front.
Fire(t) ==
  LET e == frame[t].array[1]
      w == waiters[e][frame[t].cursor]
  IN /\ pc[t] = "signaling" /\ frame[t].cursor <= Len(waiters[e])
     /\ pc[w] # "enqueued"
     /\ pc' = [pc EXCEPT ![w] = IF frame[w].fired THEN @ ELSE Broadcast(w),
                         ![t] = IF e \in Manual THEN @
                                ELSE IF frame[w].fired THEN "rejected" ELSE "woken"]
     /\ frame' = [frame EXCEPT ![w].by = IF frame[w].fired THEN @ ELSE e,
                               ![w].fired = TRUE,
                               ![t].cursor = IF e \in Manual THEN @ + 1 ELSE @]
     /\ UNCHANGED <<kernels, calls>>

\* pop_front; SignalOne takes the next one, or returns.
PopFront(t) ==
  LET e == frame[t].array[1]
  IN /\ pc[t] \in {"rejected", "woken"}
     /\ waiters' = [waiters EXCEPT ![e] = Tail(@)]
     /\ \/ /\ pc[t] = "rejected"
           /\ Goto(t, "signaling") /\ UNCHANGED <<lock, frame>>
        \/ /\ pc[t] = "woken"
           /\ lock' = [lock EXCEPT ![e] = None] /\ End(t)
     /\ UNCHANGED <<signaled, calls>>

\* Nobody left: SignalAll clears the list, and the event becomes signaled.
EndSignal(t) ==
  LET e == frame[t].array[1]
  IN /\ pc[t] = "signaling" /\ frame[t].cursor > Len(waiters[e])
     /\ waiters' = [waiters EXCEPT ![e] = << >>]
     /\ signaled' = signaled \cup {e}
     /\ lock' = [lock EXCEPT ![e] = None]
     /\ End(t)
     /\ UNCHANGED calls

------------------------------------------------------------------------------
(* Wait and WaitTimeout *)

\* A new SyncWaiter on t's stack goes into the lists of the events of S; t
\* holds its lock until it waits on its condition variable.
Enqueue(t, S) ==
  waiters' = [e \in Events |-> IF e \in S THEN Append(waiters[e], t) ELSE waiters[e]]

Wait(t, e, finite) ==
  /\ Call(t) /\ lock[e] = None
  /\ \/ /\ e \in signaled
        /\ Consume(e)
        /\ UNCHANGED <<waiters, pc, frame>>
     \/ /\ e \notin signaled
        /\ Enqueue(t, {e})
        /\ Begin(t, "enqueued", NewFrame(<<e>>, finite))
        /\ UNCHANGED signaled
  /\ UNCHANGED lock

\* The time-out passes; TimedWait returns.
Elapse(t) ==
  /\ pc[t] \in InWait /\ frame[t].timed /\ ~frame[t].late
  /\ frame' = [frame EXCEPT ![t].late = TRUE]
  /\ Goto(t, Broadcast(t))
  /\ UNCHANGED <<kernels, calls>>

\* A condition variable may wake without a cause.
WakeUp(t) ==
  /\ pc[t] = "asleep"
  /\ Goto(t, "awake")
  /\ UNCHANGED <<kernels, frame, calls>>

\* fired_ once the waiter has been disabled.
NoDisable(f) == f.fired
Disable(f) == TRUE

\* The events a wait takes its waiter out of: the only one it is in, or those
\* that have not taken it out themselves.
RemainingNone(f) == IF Len(f.array) = 1 THEN f.array ELSE << >>
Remaining(f) ==
  IF Len(f.array) = 1 THEN f.array ELSE RemoveFirst(f.array, f.by)

\* The test at the top of the loop, under the waiter's lock.
Test(t) ==
  LET f == frame[t]
  IN /\ pc[t] \in {"enqueued", "awake"}
     /\ IF f.fired \/ f.late
        THEN Begin(t, "leaving", [f EXCEPT !.ret = IF f.fired THEN f.by ELSE None,
                                           !.fired = Disable(f), !.todo = Remaining(f)])
        ELSE Goto(t, "asleep") /\ UNCHANGED frame
     /\ UNCHANGED <<kernels, calls>>

Dequeue(t) ==
  LET e == Head(frame[t].todo)
  IN /\ pc[t] = "leaving" /\ frame[t].todo # << >>
     /\ lock[e] = None
     /\ waiters' = [waiters EXCEPT ![e] = RemoveFirst(@, t)]
     /\ frame' = [frame EXCEPT ![t].todo = Tail(@)]
     /\ UNCHANGED <<signaled, lock, pc, calls>>

\* The SyncWaiter goes with the stack frame.
Return(t) ==
  /\ pc[t] = "leaving" /\ frame[t].todo = << >>
  /\ End(t)
  /\ UNCHANGED <<kernels, calls>>

------------------------------------------------------------------------------
(* WaitMultiple *)

WaitMultiple(t, a) ==
  /\ Call(t)
  /\ Begin(t, "locking", NewFrame(a, FALSE))
  /\ UNCHANGED kernels

Waited(t) == {frame[t].array[i] : i \in 1..Len(frame[t].array)}
ToLock(t) == {e \in Waited(t) : lock[e] # t}

\* Mutant: the array is not sorted.
NextToLockUnsorted(t) ==
  LET a == frame[t].array
  IN a[CHOOSE i \in 1..Len(a) : a[i] \in ToLock(t) /\ \A j \in 1..(i - 1) : a[j] \notin ToLock(t)]

\* The array is sorted by address before anything is locked.
NextToLock(t) == CHOOSE e \in ToLock(t) : \A f \in ToLock(t) : e <= f

UnlockAll(t) == lock' = [e \in Events |-> IF lock[e] = t THEN None ELSE lock[e]]

\* One call of EnqueueMultiple: it takes a lock and goes on, or returns from
\* all of them because the event is signaled, or because it was the last.
LockNext(t) ==
  LET e == NextToLock(t)
  IN /\ pc[t] = "locking" /\ lock[e] = None
     /\ \/ /\ e \in signaled
           /\ Consume(e) /\ UnlockAll(t) /\ End(t)
           /\ UNCHANGED waiters
        \/ /\ e \notin signaled /\ ToLock(t) # {e}
           /\ lock' = [lock EXCEPT ![e] = t]
           /\ UNCHANGED <<signaled, waiters, pc, frame>>
        \/ /\ e \notin signaled /\ ToLock(t) = {e}
           /\ Enqueue(t, Waited(t)) /\ UnlockAll(t) /\ Goto(t, "enqueued")
           /\ UNCHANGED <<signaled, frame>>
     /\ UNCHANGED calls

------------------------------------------------------------------------------
Step(t) ==
  Fire(t) \/ PopFront(t) \/ EndSignal(t) \/ Test(t) \/ Dequeue(t) \/ Return(t) \/ LockNext(t)

Next ==
  \E t \in Threads :
    \/ Step(t)
    \/ \E e \in Events : \/ Reset(t, e) \/ IsSignaled(t, e) \/ Signal(t, e)
                         \/ \E finite \in BOOLEAN : Wait(t, e, finite)
    \/ \E a \in Arrays : WaitMultiple(t, a)
    \/ Elapse(t) \/ WakeUp(t)

Spec == Init /\ [][Next]_vars

\* A thread that can run goes on; nobody has to call anything.
FairSpec == Spec /\ \A t \in Threads : WF_vars(Step(t))
------------------------------------------------------------------------------
(* Properties *)

Signaling == {"signaling", "rejected", "woken"}
Signaler(e, t) == lock[e] = t /\ pc[t] \in Signaling

\* How many waiters of e a signal in progress has dealt with.
Done(e) ==
  LET t == lock[e]
  IN IF t = None \/ pc[t] = "locking" THEN 0
     ELSE IF pc[t] = "signaling" THEN frame[t].cursor - 1 ELSE 1

\* The places of e's wait list that a signal in progress has still to look at.
Entries(e) == {i \in 1..Len(waiters[e]) : i > Done(e)}

\* Every variable keeps its type; a lock is held between two steps only by the
\* thread that signals its event or is about to wait for several.
TypeOK ==
  /\ signaled \subseteq Events
  /\ lock \in [Events -> Threads \cup {None}]
  /\ waiters \in [Events -> Seq(Threads)]
  /\ pc \in [Threads -> {"idle", "locking", "leaving"} \cup Signaling \cup InWait]
  /\ frame \in [Threads -> Frame]
  /\ calls \in 0..MaxCalls
  /\ \A e \in Events, t \in Threads :
       /\ lock[e] = t => pc[t] \in Signaling \cup {"locking"} /\ e \in Waited(t)
       /\ pc[t] \in Signaling /\ frame[t].array = <<e>> => lock[e] = t

\* Two threads in WaitMultiple never wait for a lock of each other, in whatever
\* order they were given the events.
NoCircularWait ==
  \A t, u \in Threads :
    t # u /\ pc[t] = "locking" /\ pc[u] = "locking" =>
      ~(lock[NextToLock(t)] = u /\ lock[NextToLock(u)] = t)

\* A waiter that a signal may still fire is alive: its thread has not left the
\* call whose stack it is on, nor passed the place where it takes it out.
NoDeadWaiter ==
  \A e \in Events : \A i \in Entries(e) :
    LET w == waiters[e][i]
    IN \/ pc[w] \in InWait /\ e \in Waited(w)
       \/ pc[w] = "leaving" /\ \E j \in 1..Len(frame[w].todo) : frame[w].todo[j] = e

\* A wait that is released, or whose time has passed, returns.
ReleasedReturns ==
  \A t \in Threads :
    pc[t] \in InWait /\ (frame[t].fired \/ frame[t].late) ~> pc[t] = "idle"
==============================================================================
