---------------------------- MODULE EventService ----------------------------
(***************************************************************************)
(* What events promise to the threads that signal and wait for them        *)
(* (waitable_event.h:46-68), with no lock, waiter or condition variable in *)
(* sight.  Those who wait are released in the order they came.  A signal   *)
(* releases everybody and leaves a manual-reset event open; it releases    *)
(* exactly one wait of an auto-reset event, or opens it for the next, and  *)
(* is never spent on a wait that ends by its time-out or for another event.*)
(***************************************************************************)
CONSTANTS Threads, Events,
          Manual,      \* the events that stay open until they are reset
          Initially, None

VARIABLES
  open,        \* the events that are signaled
  raised,      \* the events with a signal that is not spent yet
  queue,       \* who waits for each event, as pairs: the one no later than the other
  status,      \* of each thread's wait
  got          \* the event each thread's wait was released by

evars == <<open, raised, queue, status, got>>

EInit ==
  /\ open = Initially /\ raised = {}
  /\ queue = [e \in Events |-> {}]
  /\ status = [t \in Threads |-> "out"]
  /\ got = [t \in Threads |-> None]

Waiting(e) == {t \in Threads : <<t, t>> \in queue[e]}

\* Nobody has waited longer for e than t.
First(e, t) == \A u \in Waiting(e) : <<t, u>> \in queue[e]

\* t waits no more, for whatever it waited.
Leaves(t) == queue' = [e \in Events |-> {p \in queue[e] : t # p[1] /\ t # p[2]}]

Raise(e) ==
  /\ e \notin open \cup raised
  /\ raised' = raised \cup {e}
  /\ UNCHANGED <<open, queue, status, got>>

\* The signal finds nobody (left) to release.
Open(e) ==
  /\ e \in raised /\ Waiting(e) = {}
  /\ open' = open \cup {e}
  /\ raised' = raised \ {e}
  /\ UNCHANGED <<queue, status, got>>

\* The signal releases the thread that has waited longest, whatever else it
\* is waiting for.
Release(e) ==
  /\ e \in raised
  /\ \E t \in Waiting(e) :
       /\ First(e, t) /\ Leaves(t)
       /\ status' = [status EXCEPT ![t] = "released"]
       /\ got' = [got EXCEPT ![t] = e]
  /\ raised' = IF e \in Manual THEN raised ELSE raised \ {e}
  /\ UNCHANGED open

Close(e) ==
  /\ e \notin raised
  /\ open' = open \ {e}
  /\ UNCHANGED <<raised, queue, status, got>>

\* t finds an event open and closes it behind itself.
Take(t, e) ==
  /\ status[t] = "out" /\ e \in open
  /\ open' = IF e \in Manual THEN open ELSE open \ {e}
  /\ UNCHANGED <<raised, queue, status, got>>

Block(t, S) ==
  /\ status[t] = "out" /\ S # {} /\ S \cap (open \cup raised) = {}
  /\ status' = [status EXCEPT ![t] = "waiting"]
  /\ queue' = [e \in Events |-> IF e \in S THEN queue[e] \cup {<<u, t>> : u \in Waiting(e) \cup {t}}
                                ELSE queue[e]]
  /\ UNCHANGED <<open, raised, got>>

Expire(t) ==
  /\ status[t] = "waiting"
  /\ status' = [status EXCEPT ![t] = "expired"]
  /\ Leaves(t)
  /\ UNCHANGED <<open, raised, got>>

Leave(t) ==
  /\ status[t] \in {"released", "expired"}
  /\ status' = [status EXCEPT ![t] = "out"]
  /\ got' = [got EXCEPT ![t] = None]
  /\ UNCHANGED <<open, raised, queue>>

ENext ==
  \/ \E e \in Events : Raise(e) \/ Open(e) \/ Release(e) \/ Close(e)
  \/ \E t \in Threads :
       \/ \E e \in Events : Take(t, e)
       \/ \E S \in SUBSET Events : Block(t, S)
       \/ Expire(t) \/ Leave(t)

ESpec == EInit /\ [][ENext]_evars
=============================================================================
