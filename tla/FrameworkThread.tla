-------------------------- MODULE FrameworkThread --------------------------
(***************************************************************************)
(* One nbase::FrameworkThread object: the thread that owns it and calls    *)
(* Start, RunOnCurrentThreadWithLoop, StopSoon, Stop and the destructor,   *)
(* the threads that execute its Run, and other threads that post to its    *)
(* message loop.  The object is of a class that registers itself with      *)
(* ThreadManager in Init and unregisters in Cleanup, as every thread of    *)
(* shared/threads.h does.                                                  *)
(*                                                                         *)
(* An activation of Run is a number r; its message loop has the same       *)
(* number and is seen as what MessageLoop promises: a queue that is taken  *)
(* in order and, once quit was asked for, left when it is found empty.  The *)
(* loop of an owner is a UI loop, which WM_QUIT ends with tasks queued.    *)
(***************************************************************************)
EXTENDS Naturals, Sequences

CONSTANTS
  Tasks,      \* closures posted to the loop, each at most once
  StopSoonTask,  \* the closure DoStopSoon
  Stoppers,   \* tasks that call StopSoon of the thread they run on
  Quitters,   \* tasks that call PostQuitMessage in a loop run by its owner
  MaxRuns     \* bound on the activations of Run

ASSUME ThreadAssumption ==
  /\ StopSoonTask \notin Tasks
  /\ Stoppers \subseteq Tasks /\ Quitters \subseteq Tasks
  /\ MaxRuns \in Nat \ {0}

Runs == 1..MaxRuns

VARIABLES
  started,     \* started_
  stopping,    \* stopping_
  loop,        \* message_loop_: the run whose loop it points to, 0 for NULL
  event,       \* event_ is signaled (auto-reset)
  handle,      \* thread_handle_: the run it is the handle of, 0 for NULL
  id,          \* thread_id_: the run it names, 0 for kInvalidThreadId
  registered,  \* ThreadMap has an entry for this object
  derived,     \* the derived class still exists: Cleanup reaches its override
  op,          \* what the owner is doing
  pc,          \* where each activation of Run is
  queue,       \* the tasks waiting in each run's loop
  quit,        \* Quit was called on the run's loop
  wmQuit,      \* the runs whose thread has WM_QUIT in its message queue
  alive,       \* the run's loop exists
  next,        \* number of activations so far
  used,        \* the way the object was first run
  accepted,    \* history: the tasks accepted by each run's loop
  ran,         \* history: the tasks that have run
  owed,        \* history: the tasks accepted before DoStopSoon was posted
  itself       \* history: the runs whose thread called StopSoon of its own object

object == <<started, stopping, loop, event, handle, id>>
loops == <<queue, quit, wmQuit, alive>>
past == <<accepted, ran, owed, itself>>
vars == <<started, stopping, loop, event, handle, id, registered, derived, op, pc,
          queue, quit, wmQuit, alive, next, used, accepted, ran, owed, itself>>

Init ==
  /\ started = FALSE /\ stopping = FALSE /\ loop = 0 /\ event = FALSE
  /\ handle = 0 /\ id = 0
  /\ registered = FALSE /\ derived = TRUE
  /\ op = "free"
  /\ pc = [r \in Runs |-> "none"]
  /\ queue = [r \in Runs |-> << >>] /\ quit = [r \in Runs |-> FALSE]
  /\ wmQuit = {} /\ alive = {}
  /\ next = 0 /\ used = "new"
  /\ accepted = [r \in Runs |-> {}] /\ ran = {} /\ owed = {} /\ itself = {}

----------------------------------------------------------------------------
(* The owner *)

\* An object is used in one way: no caller mixes Start and RunOnCurrentThread.
May(way) == used \in {"new", way}

\* StartWithLoop up to event_.Wait().  With a loop it returns false.  Its caller
\* has reset an object that was told to stop: "Call Stop() to reset the thread
\* object" (framework_thread.h:110).
Start ==
  /\ op = "free" /\ May("start")
  /\ loop = 0 /\ ~stopping /\ next < MaxRuns
  /\ next' = next + 1
  /\ handle' = next' /\ id' = next'
  /\ pc' = [pc EXCEPT ![next'] = "created"]
  /\ used' = "start"
  /\ op' = "starting"
  /\ UNCHANGED <<started, stopping, loop, event, registered, derived, loops, past>>

\* event_.Wait() returns, and so does StartWithLoop.
StartReturns ==
  /\ op = "starting"
  /\ event
  /\ event' = FALSE
  /\ started' = TRUE
  /\ op' = "free"
  /\ UNCHANGED <<stopping, loop, handle, id, registered, derived, pc, loops, next, used, past>>

\* RunOnCurrentThreadWithLoop: the owner itself executes Run.
RunOnCurrentThread ==
  /\ op = "free" /\ May("here")
  /\ loop = 0 /\ ~stopping /\ next < MaxRuns
  /\ next' = next + 1
  /\ pc' = [pc EXCEPT ![next'] = "created"]
  /\ used' = "here"
  /\ started' = TRUE
  /\ op' = "here"
  /\ UNCHANGED <<stopping, loop, event, handle, id, registered, derived, loops, past>>

\* StopSoon finds a loop that nobody has stopped.  It sets stopping_ and posts
\* later, with no lock.
StopSoon ==
  /\ op = "free"
  /\ ~stopping /\ loop # 0
  /\ op' = "posting"
  /\ UNCHANGED <<object, registered, derived, pc, loops, next, used, past>>

\* Mutant: the test of stopping_ is dropped.
StopTwice ==
  /\ op = "free" /\ started
  /\ op' = IF loop = 0 THEN "closing" ELSE "stopping"
  /\ UNCHANGED <<object, registered, derived, pc, loops, next, used, past>>

\* Stop, through the test in StopSoon.
Stop ==
  /\ op = "free" /\ started
  /\ op' = IF stopping \/ loop = 0 THEN "closing" ELSE "stopping"
  /\ UNCHANGED <<object, registered, derived, pc, loops, next, used, past>>

\* DoStopSoon is posted; the tasks accepted before the first one are owed.
Owe == owed' = IF stopping THEN owed ELSE owed \cup accepted[loop]

\* Mutant: QuitNow is called from the owner's thread instead of the post.
PostStopQuitsNow ==
  /\ op \in {"posting", "stopping"}
  /\ loop \in alive
  /\ stopping' = TRUE
  /\ pc' = [pc EXCEPT ![loop] = IF @ \in {"work", "idle"} THEN "cleanup" ELSE @]
  /\ Owe
  /\ op' = IF op = "posting" THEN "free" ELSE "closing"
  /\ UNCHANGED <<started, loop, event, handle, id, registered, derived, loops, next, used,
                 accepted, ran, itself>>

\* message_loop_->PostNonNestableTask(DoStopSoon), of StopSoon or of Stop.
PostStop ==
  /\ op \in {"posting", "stopping"}
  /\ loop \in alive
  /\ stopping' = TRUE
  /\ queue' = [queue EXCEPT ![loop] = Append(@, StopSoonTask)]
  /\ Owe
  /\ op' = IF op = "posting" THEN "free" ELSE "closing"
  /\ UNCHANGED <<started, loop, event, handle, id, registered, derived, pc, quit, wmQuit,
                 alive, next, used, accepted, ran, itself>>

\* The loop was deleted since the test: the program has no defined behaviour, and
\* the owner does nothing more here.
PostStopToDeadLoop ==
  /\ op \in {"posting", "stopping"}
  /\ loop \notin alive
  /\ op' = "crashed"
  /\ UNCHANGED <<object, registered, derived, pc, loops, next, used, past>>

\* Mutant: Close does not wait for the thread.
StopReturnsAtOnce ==
  /\ op = "closing"
  /\ handle' = 0 /\ id' = 0
  /\ started' = FALSE /\ stopping' = FALSE
  /\ op' = IF derived THEN "free" ELSE "destroyed"
  /\ UNCHANGED <<loop, event, registered, derived, pc, loops, next, used, past>>

\* Close has waited for the thread; Stop resets its flags and returns.
StopReturns ==
  /\ op = "closing"
  /\ handle # 0 => pc[handle] = "done"
  /\ handle' = 0
  /\ id' = IF handle # 0 THEN 0 ELSE id
  /\ started' = FALSE /\ stopping' = FALSE
  /\ op' = IF derived THEN "free" ELSE "destroyed"
  /\ UNCHANGED <<loop, event, registered, derived, pc, loops, next, used, past>>

\* The destructor of the derived class has run; ~FrameworkThread calls Stop.
Destroy ==
  /\ op = "free"
  /\ derived' = FALSE
  /\ op' = IF ~started THEN "destroyed"
           ELSE IF stopping \/ loop = 0 THEN "closing" ELSE "stopping"
  /\ UNCHANGED <<object, registered, pc, loops, next, used, past>>

Accept(r, t) ==
  /\ t \notin UNION {accepted[s] : s \in Runs}
  /\ t \in Quitters => used = "here"
  /\ accepted' = [accepted EXCEPT ![r] = @ \cup {t}]
  /\ queue' = [queue EXCEPT ![r] = Append(@, t)]

\* A post to the loop: by another thread through the proxy, which refuses it
\* once the loop is gone, or by the owner through message_loop().
PostTask(r, t) ==
  /\ r \in alive
  /\ Accept(r, t)
  /\ UNCHANGED <<object, registered, derived, op, pc, quit, wmQuit, alive, next, used, ran,
                 owed, itself>>

----------------------------------------------------------------------------
(* FrameworkThread::Run *)

SetMessageLoop(r) ==
  /\ pc[r] = "created"
  /\ pc' = [pc EXCEPT ![r] = "init"]
  /\ loop' = r /\ id' = r
  /\ alive' = alive \cup {r}
  /\ UNCHANGED <<started, stopping, event, handle, registered, derived, op, queue,
                 quit, wmQuit, next, used, past>>

\* Init() registers the thread with ThreadManager, then event_ is signaled.
InitAndSignal(r) ==
  /\ \/ /\ pc[r] = "init"
        /\ pc' = [pc EXCEPT ![r] = "signal"]
        /\ registered' = TRUE
        /\ UNCHANGED event
     \/ /\ pc[r] = "signal"
        /\ pc' = [pc EXCEPT ![r] = "work"]
        /\ event' = TRUE
        /\ UNCHANGED registered
  /\ UNCHANGED <<started, stopping, loop, handle, id, derived, op, loops, next, used, past>>

\* The closure at the head of the queue: DoStopSoon calls Quit, a Quitter
\* PostQuitMessage, a Stopper StopSoon.
RunTask(r) ==
  /\ pc[r] = "work" /\ queue[r] # << >>
  /\ LET t == Head(queue[r])
         stops == t \in Stoppers /\ ~stopping /\ loop # 0
     IN /\ quit' = [quit EXCEPT ![r] = @ \/ t = StopSoonTask]
        /\ wmQuit' = IF t \in Quitters THEN wmQuit \cup {r} ELSE wmQuit
        /\ ran' = ran \cup ({t} \ {StopSoonTask})
        /\ stopping' = (stopping \/ stops)
        /\ queue' = [queue EXCEPT ![r] =
             IF stops THEN Append(Tail(@), StopSoonTask) ELSE Tail(@)]
        /\ owed' = IF stops THEN owed \cup accepted[r] ELSE owed
        /\ itself' = IF stops THEN itself \cup {r} ELSE itself
  /\ UNCHANGED <<started, loop, event, handle, id, registered, derived, op, pc, alive,
                 next, used, accepted>>

\* DoWork and DoDelayedWork return false.
FindsNothing(r) ==
  /\ pc[r] = "work" /\ queue[r] = << >>
  /\ pc' = [pc EXCEPT ![r] = "idle"]
  /\ UNCHANGED <<object, registered, derived, op, loops, next, used, past>>

\* Mutant: quit_received is not looked at before sleeping.
IdleSleepsOnQuit(r) ==
  /\ pc[r] = "idle"
  /\ queue[r] # << >>
  /\ pc' = [pc EXCEPT ![r] = IF quit[r] THEN "cleanup" ELSE "work"]
  /\ UNCHANGED <<object, registered, derived, op, loops, next, used, past>>

\* DoIdleWork: quit_received ends the loop, or the pump sleeps until a post.
Idle(r) ==
  /\ pc[r] = "idle"
  /\ quit[r] \/ queue[r] # << >>
  /\ pc' = [pc EXCEPT ![r] = IF quit[r] THEN "cleanup" ELSE "work"]
  /\ UNCHANGED <<object, registered, derived, op, loops, next, used, past>>

\* The pump of a UI loop finds WM_QUIT, at the latest when the messages posted
\* before it are through, and leaves DoRunLoop, whatever is queued.
LeaveOnQuitMessage(r) ==
  /\ pc[r] \in {"work", "idle"} /\ r \in wmQuit
  /\ pc' = [pc EXCEPT ![r] = "cleanup"]
  /\ UNCHANGED <<object, registered, derived, op, loops, next, used, past>>

\* Cleanup(), overridden to unregister the thread unless the derived class is
\* already destroyed.
Cleanup(r) ==
  /\ pc[r] = "cleanup"
  /\ pc' = [pc EXCEPT ![r] = "delete"]
  /\ registered' = (registered /\ ~derived)
  /\ UNCHANGED <<object, derived, op, loops, next, used, past>>

DeleteLoop(r) ==
  /\ pc[r] = "delete"
  /\ pc' = [pc EXCEPT ![r] = "clear"]
  /\ alive' = alive \ {r}
  /\ queue' = [queue EXCEPT ![r] = << >>]
  /\ UNCHANGED <<object, registered, derived, op, quit, wmQuit, next, used, past>>

\* message_loop_ = NULL
ClearMessageLoop(r) ==
  /\ pc[r] = "clear"
  /\ pc' = [pc EXCEPT ![r] = "exit"]
  /\ loop' = 0
  /\ UNCHANGED <<started, stopping, event, handle, id, registered, derived, op, loops,
                 next, used, past>>

\* thread_id_ is reset; the thread ends, or RunOnCurrentThread returns.
Exit(r) ==
  /\ pc[r] = "exit"
  /\ pc' = [pc EXCEPT ![r] = "done"]
  /\ id' = 0
  /\ op' = IF op = "here" THEN "free" ELSE op
  /\ UNCHANGED <<started, stopping, loop, event, handle, registered, derived, loops,
                 next, used, past>>

----------------------------------------------------------------------------
RunStep(r) ==
  \/ SetMessageLoop(r) \/ InitAndSignal(r)
  \/ RunTask(r) \/ FindsNothing(r) \/ Idle(r) \/ LeaveOnQuitMessage(r)
  \/ Cleanup(r) \/ DeleteLoop(r) \/ ClearMessageLoop(r) \/ Exit(r)

OwnerReturns == StartReturns \/ PostStop \/ PostStopToDeadLoop \/ StopReturns

Next ==
  \/ Start \/ RunOnCurrentThread \/ StopSoon \/ Stop \/ Destroy
  \/ OwnerReturns
  \/ \E r \in Runs : RunStep(r) \/ \E t \in Tasks : PostTask(r, t)

Spec == Init /\ [][Next]_vars

\* Every thread is scheduled; nobody has to start, stop or post anything.
Fairness == WF_vars(OwnerReturns) /\ \A r \in Runs : WF_vars(RunStep(r))

FairSpec == Spec /\ Fairness

----------------------------------------------------------------------------
(* Properties *)

\* Every variable keeps its type; message_loop_ and the handle name a run that
\* has begun, and at most one run is executing.
TypeOK ==
  /\ started \in BOOLEAN /\ stopping \in BOOLEAN /\ event \in BOOLEAN
  /\ registered \in BOOLEAN /\ derived \in BOOLEAN
  /\ next \in 0..MaxRuns
  /\ loop \in 0..next /\ handle \in 0..next /\ id \in 0..next
  /\ op \in {"free", "starting", "here", "posting", "stopping", "closing", "destroyed",
            "crashed"}
  /\ used \in {"new", "start", "here"}
  /\ pc \in [Runs -> {"none", "created", "init", "signal", "work", "idle", "cleanup",
                      "delete", "clear", "exit", "done"}]
  /\ queue \in [Runs -> Seq(Tasks \cup {StopSoonTask})]
  /\ quit \in [Runs -> BOOLEAN]
  /\ wmQuit \subseteq Runs /\ itself \subseteq Runs
  /\ alive \subseteq 1..next
  /\ accepted \in [Runs -> SUBSET Tasks]
  /\ ran \subseteq Tasks /\ owed \subseteq Tasks
  /\ \A r \in Runs : pc[r] = "none" <=> r > next
  /\ \A r \in 1..next : r < next => pc[r] = "done"

\* Between a Start that returned true and StopSoon, Stop or the thread's own
\* StopSoon, the object is usable: message_loop() is a living loop, IsRunning()
\* is true, and the thread has done its Init (framework_thread.h:57-59, the
\* tests Restart and SleepInsideInit).
UsableAfterStart ==
  (op = "free" /\ started /\ ~stopping /\ used = "start") =>
    loop \in alive /\ id # 0 /\ registered

\* StopSoon and Stop post to a loop that exists, although nothing but
\* stopping_ and message_loop_, read before, tells them so; unless the thread
\* stops itself between that test and the post.
NoPostToDeadLoop ==
  /\ op \in {"posting", "stopping"} => loop \in alive \/ next \in itself
  /\ op = "crashed" => next \in itself

\* Whoever gets a loop of the object gets a living one.
LoopUsable == UsableAfterStart /\ NoPostToDeadLoop

\* When Stop returns, or the destructor, the thread has exited and the object is
\* as newly constructed (framework_thread.h:88-90); after Stop no poster can find
\* it in the thread map either.
ResetByStop ==
  [][(op = "closing" /\ op' # op) =>
       /\ \A r \in 1..next : pc[r] = "done"
       /\ loop' = 0 /\ id' = 0 /\ handle' = 0 /\ alive' = {}
       /\ ~started' /\ ~stopping' /\ (derived => ~registered') /\ (used = "start" => ~event')]_vars

\* A loop that Stop ends is left only after it has run the tasks accepted before
\* its DoStopSoon was posted (the test TwoTasks).  WM_QUIT gives its owner's UI
\* loop no such promise.
DrainedByStop ==
  \A r \in Runs \ wmQuit :
    pc[r] \in {"cleanup", "done"} => accepted[r] \cap owed \subseteq ran

\* Once Stop is called it returns, whoever posts and whatever was already asked,
\* unless it posts to a loop that its thread has deleted meanwhile.
StopEnds == op \in {"stopping", "closing"} ~> op \in {"free", "destroyed", "crashed"}
============================================================================
