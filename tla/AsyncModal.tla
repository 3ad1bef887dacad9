----------------------------- MODULE AsyncModal -----------------------------
(***************************************************************************)
(* Modal dialogs on threads of their own: AsyncModalRunner and its manager *)
(* (async_modal_runner.cpp).  The UI thread opens dialogs, runs the tasks  *)
(* with which runners deregister, and cancels them all when it quits; a    *)
(* step of another thread is one of its calls.                             *)
(*                                                                         *)
(* A runner is its address, which a later one may get again.  The order of *)
(* runners_ makes no difference to what is done with them, so it is a set. *)
(***************************************************************************)
EXTENDS Naturals, Sequences

CONSTANTS
  Runners,      \* addresses
  MaxDialogs    \* bound on the calls of DoModal

ASSUME MaxDialogsAssumption == MaxDialogs \in Nat

VARIABLES
  runners,      \* runners_ of the manager
  alive,        \* the runners that have not been destroyed
  isRunning, quitPosted,    \* the runners whose flags are set
  quit,         \* the runners with WM_QUIT in the queue of their thread
  thread,       \* where the thread of each runner is
  ui,           \* where the UI thread is, and the runners it is busy with
  tasks,        \* Deregister tasks posted to the UI thread
  cancelled,    \* CancelAllThreads was called: the application quits
  dialogs       \* number of calls of DoModal

vars == <<runners, alive, isRunning, quitPosted, quit, thread, ui, tasks, cancelled, dialogs>>
flags == <<isRunning, quitPosted, quit>>

UI(at, with) == [at |-> at, with |-> with]

Init ==
  /\ runners = {} /\ alive = {} /\ isRunning = {} /\ quitPosted = {} /\ quit = {}
  /\ thread = [r \in Runners |-> "none"]
  /\ ui = UI("idle", {}) /\ tasks = << >>
  /\ cancelled = FALSE /\ dialogs = 0

Goto(r, place) == thread' = [thread EXCEPT ![r] = place]

------------------------------------------------------------------------------
(* The thread of a runner: Run *)

Signal(r) ==
  /\ thread[r] = "created"
  /\ Goto(r, "signaled")
  /\ UNCHANGED <<runners, alive, flags, ui, tasks, cancelled, dialogs>>

\* The thread has a message queue from its first call of USER32 on.
OpenDialog(r) ==
  /\ thread[r] = "signaled"
  /\ Goto(r, "modal")
  /\ UNCHANGED <<runners, alive, flags, ui, tasks, cancelled, dialogs>>

\* The modal loop ends by the user's choice, or by WM_QUIT.
UserCloses(r) ==
  /\ thread[r] = "modal"
  /\ Goto(r, "closed")
  /\ UNCHANGED <<runners, alive, flags, ui, tasks, cancelled, dialogs>>

QuitCloses(r) ==
  /\ r \in quit
  /\ UserCloses(r)

Posted(r) == Append(tasks, r)

OnThreadWillExit(r) ==
  /\ thread[r] = "closed"
  /\ tasks' = Posted(r)
  /\ Goto(r, "exiting")
  /\ UNCHANGED <<runners, alive, flags, ui, cancelled, dialogs>>

Exit(r) ==
  /\ thread[r] = "exiting"
  /\ Goto(r, "none")
  /\ UNCHANGED <<runners, alive, flags, ui, tasks, cancelled, dialogs>>

------------------------------------------------------------------------------
(* The UI thread *)

\* If the thread cannot be created, the runner stays in the list.
DoModal(r) ==
  /\ ui.at = "idle" /\ ~cancelled /\ dialogs < MaxDialogs /\ r \notin alive
  /\ runners' = runners \cup {r} /\ alive' = alive \cup {r}
  /\ isRunning' = isRunning \ {r} /\ quitPosted' = quitPosted \ {r} /\ quit' = quit \ {r}
  /\ \/ Goto(r, "created") /\ ui' = UI("starting", {r})
     \/ UNCHANGED <<thread, ui>>
  /\ dialogs' = dialogs + 1
  /\ UNCHANGED <<tasks, cancelled>>

NeverRunning(r) == isRunning
NowRunning(r) == isRunning \cup {r}

DoModalReturns ==
  /\ ui.at = "starting"
  /\ \E r \in ui.with :
       /\ thread[r] # "created"
       /\ isRunning' = NowRunning(r)
  /\ ui' = UI("idle", {})
  /\ UNCHANGED <<runners, alive, quitPosted, quit, thread, tasks, cancelled, dialogs>>

\* PostThreadMessage fails when the thread has no message queue.
CancelModalThenExit(r) ==
  IF r \in isRunning \ quitPosted
  THEN /\ quitPosted' = quitPosted \cup {r}
       /\ quit' = IF thread[r] = "modal" THEN quit \cup {r} ELSE quit
       /\ UNCHANGED isRunning
  ELSE UNCHANGED flags

Erased(r) == runners \ {r}

\* The runner found is destroyed: its members first, then ~Thread waits for
\* the thread.
Deregister ==
  /\ ui.at = "idle" /\ tasks # << >>
  /\ LET r == Head(tasks)
     IN \/ /\ r \in runners
           /\ runners' = Erased(r) /\ alive' = alive \ {r}
           /\ CancelModalThenExit(r)
           /\ ui' = UI("join", {r})
        \/ /\ r \notin runners
           /\ UNCHANGED <<runners, alive, flags, ui>>
  /\ tasks' = Tail(tasks)
  /\ UNCHANGED <<thread, cancelled, dialogs>>

CancelAllThreads ==
  /\ ui.at = "idle" /\ ~cancelled
  /\ cancelled' = TRUE
  /\ runners' = {}
  /\ ui' = UI("cancel", runners)
  /\ UNCHANGED <<alive, flags, thread, tasks, dialogs>>

\* The first loop, one runner after the other, and then the second.
CancelNext ==
  /\ ui.at = "cancel"
  /\ \/ \E r \in ui.with :
          /\ CancelModalThenExit(r)
          /\ ui' = UI("cancel", ui.with \ {r})
     \/ /\ ui.with = {}
        /\ ui' = UI("join", alive)
        /\ UNCHANGED flags
  /\ UNCHANGED <<runners, alive, thread, tasks, cancelled, dialogs>>

\* Close returns for every runner the UI thread waits for.
NotWaited == TRUE
Exited == \A r \in ui.with : thread[r] = "none"

Joined ==
  /\ ui.at = "join" /\ Exited
  /\ alive' = alive \ ui.with
  /\ ui' = UI("idle", {})
  /\ UNCHANGED <<runners, flags, thread, tasks, cancelled, dialogs>>

------------------------------------------------------------------------------
ThreadStep(r) ==
  Signal(r) \/ OpenDialog(r) \/ QuitCloses(r) \/ OnThreadWillExit(r) \/ Exit(r)
UIStep == DoModalReturns \/ Deregister \/ CancelNext \/ Joined

Next ==
  \/ \E r \in Runners : ThreadStep(r) \/ UserCloses(r) \/ DoModal(r)
  \/ CancelAllThreads \/ UIStep

Spec == Init /\ [][Next]_vars

\* The threads run and modal loops heed WM_QUIT; no user has to close a dialog.
FairSpec == Spec /\ WF_vars(UIStep) /\ \A r \in Runners : WF_vars(ThreadStep(r))
------------------------------------------------------------------------------
(* Properties *)

\* Every variable keeps its type, and the list holds exactly the runners that
\* exist, until CancelAllThreads takes them over.
TypeOK ==
  /\ runners \subseteq Runners /\ alive \subseteq Runners
  /\ isRunning \subseteq Runners /\ quitPosted \subseteq Runners /\ quit \subseteq Runners
  /\ thread \in [Runners -> {"none", "created", "signaled", "modal", "closed", "exiting"}]
  /\ ui \in [at : {"idle", "starting", "cancel", "join"}, with : SUBSET Runners]
  /\ tasks \in Seq(Runners)
  /\ cancelled \in BOOLEAN /\ dialogs \in 0..MaxDialogs
  /\ runners = IF cancelled THEN {} ELSE alive

\* No runner, and no dialog with it, is destroyed while its thread may still
\* use it, although Deregister knows it only by an address that is used again.
DialogOutlivesThread ==
  \A r \in Runners : thread[r] \in {"created", "signaled", "modal", "closed"} => r \in alive

\* CancelAllThreads ends without the help of a user if every dialog has a
\* message queue by then (async_do_modal.h:11-13).
CancelAllEnds ==
  ui = UI("cancel", alive) /\ (\A r \in alive : thread[r] # "signaled") ~> ui.at = "idle"
==============================================================================
