------------------------------- MODULE UIPump -------------------------------
(***************************************************************************)
(* nbase::UIMessageLoop: MessageLoop driven by WinUIMessagePump, which     *)
(* shares its thread with the Windows message queue.  The pump announces   *)
(* tasks by one kMsgHaveWork message and sets a WM_TIMER for delayed ones, *)
(* so that they also run inside the modal loops of Windows (MessageBox,    *)
(* a window being dragged), in which DoRunLoop is not running.             *)
(*                                                                         *)
(* stack holds what the thread is in the middle of, innermost last:        *)
(*   run      DoRunLoop, at the bottom (state_ is its RunState)            *)
(*   task     the closure of a task                                        *)
(*   handler  a window procedure of the application                        *)
(*   modal    a modal loop of Windows                                      *)
(*   work     HandleWorkMessage                                            *)
(*   timer    HandleTimerMessage                                           *)
(* There is one Run; MessageLoop has the nested ones, the deferred tasks   *)
(* and Quit.  set_os_modal_loop is never called, so ProcessPumpReplacement *)
(* Message peeks any message.  One unit of time is at least the 10 ms of   *)
(* kUserTimerMinmum.                                                       *)
(***************************************************************************)
EXTENDS Naturals, Sequences, FiniteSets

CONSTANTS
  Tasks, NoTask,
  Delay,      \* 0 for an immediate task
  Openers,    \* who opens modal loops: "start" a message box before Run,
              \* "handler" window procedures, and some tasks
  Nesting,    \* tasks whose closure enables nested tasks
  Quitting,   \* tasks whose closure calls PostQuitMessage
  MaxModals,  \* bound on modal loops inside each other
  MaxTime,    \* bound on the clock
  MaxApp      \* bound on the messages the application's windows get

ASSUME PumpAssumption ==
  /\ NoTask \notin Tasks
  /\ Delay \in [Tasks -> Nat]
  /\ Openers \subseteq Tasks \cup {"start", "handler"}
  /\ Nesting \subseteq Tasks /\ Quitting \subseteq Tasks
  /\ MaxModals \in Nat /\ MaxTime \in Nat \ {0} /\ MaxApp \in Nat

VARIABLES
  incoming, work,  \* the queues of MessageLoop
  delayed,     \* delayed_work_queue_
  zeroth,      \* the task that got sequence_num 0 in it
  due,         \* delayed_run_time
  allowed,     \* nestable_tasks_allowed_
  have,        \* have_work_
  wakeTime,    \* delayed_work_time_, 0 for null
  shouldQuit,  \* state_->should_quit
  workMsgs,    \* kMsgHaveWork messages in the thread's queue
  appMsgs,     \* other messages in it
  appLeft,     \* messages the windows may still get
  quitMsg,     \* WM_QUIT is pending
  timer,       \* when SetTimer's WM_TIMER is due, 0 for no timer
  now,
  stack,
  over,        \* Run has returned
  poster,      \* the thread that holds message_loop_lock_ inside ScheduleWork
  stamp, posts,  \* history: order of the accepted posts
  started      \* history: tasks started

queues == <<incoming, work, delayed, zeroth, due, stamp, posts, started>>
messages == <<workMsgs, appMsgs, appLeft, quitMsg>>
timing == <<wakeTime, timer, now>>
vars == <<incoming, work, delayed, zeroth, due, allowed, have, wakeTime, shouldQuit,
          workMsgs, appMsgs, appLeft, quitMsg, timer, now, stack, over, poster,
          stamp, posts, started>>

Frame ==
  [kind : {"run", "task", "handler", "modal", "work", "timer"},
   at   : {"Message", "Replace", "DoWork", "Worked", "Delayed", "AfterDelayed",
           "Wait", "WaitMessage", "Inside"},
   more : BOOLEAN,               \* more_work_is_plausible
   task : Tasks \cup {NoTask},
   fresh : BOOLEAN]              \* history: a modal loop that owes nobody a kMsgHaveWork

NewFrame(kind, at, task) ==
  [kind |-> kind, at |-> at, more |-> FALSE, task |-> task, fresh |-> FALSE]

Top == stack[Len(stack)]
In(kind) == stack # << >> /\ Top.kind = kind
At(kinds, at) == stack # << >> /\ Top.kind \in kinds /\ Top.at = at
InRun == stack # << >> /\ stack[1].kind = "run"      \* state_ is not NULL

Init ==
  /\ incoming = << >> /\ work = << >> /\ delayed = {} /\ zeroth = NoTask
  /\ due = [t \in Tasks |-> 0]
  /\ allowed = TRUE /\ have = FALSE /\ wakeTime = 0 /\ shouldQuit = FALSE
  /\ workMsgs = 0 /\ appMsgs = 0 /\ appLeft = MaxApp /\ quitMsg = FALSE
  /\ timer = 0 /\ now = 1
  /\ stack = << >> /\ over = FALSE
  /\ poster = "idle"
  /\ stamp = [t \in Tasks |-> 0] /\ posts = 0 /\ started = {}

----------------------------------------------------------------------------
(* The thread's stack *)

SetTop(f) == stack' = [stack EXCEPT ![Len(stack)] = f]
Enter(f) == stack' = Append(stack, f)
EnterFrom(f, g) == stack' = Append([stack EXCEPT ![Len(stack)] = f], g)
Leave == stack' = SubSeq(stack, 1, Len(stack) - 1)

\* "if (state_->should_quit) break;" after each step of DoRunLoop.
GoOn(f) ==
  IF shouldQuit THEN Leave /\ over' = TRUE ELSE SetTop(f) /\ UNCHANGED over

\* Input that comes while WaitForWork is in WaitMessage makes that return.
NewInput ==
  IF At({"run"}, "WaitMessage")
    THEN SetTop([Top EXCEPT !.at = "Message"])
    ELSE UNCHANGED stack

----------------------------------------------------------------------------
(* Posting *)

Push(t) ==
  /\ stamp[t] = 0
  /\ now + Delay[t] <= MaxTime
  /\ incoming' = Append(incoming, t)
  /\ due' = [due EXCEPT ![t] = IF Delay[t] = 0 THEN 0 ELSE now + Delay[t]]
  /\ posts' = posts + 1
  /\ stamp' = [stamp EXCEPT ![t] = posts + 1]

\* ScheduleWork on the loop's own thread.
ScheduleWork ==
  /\ have' = TRUE
  /\ workMsgs' = IF have THEN workMsgs ELSE workMsgs + 1

\* Another thread pushes a task through the proxy.
PostFromThread(t) ==
  /\ poster = "idle"
  /\ Push(t)
  /\ poster' = IF incoming = << >> THEN "exchange" ELSE "idle"
  /\ UNCHANGED <<work, delayed, zeroth, started, allowed, have, shouldQuit, messages,
                 timing, stack, over>>

\* Mutant: the message is posted whatever have_work_ was.
ExchangeUnchecked ==
  /\ poster = "exchange"
  /\ have' = TRUE
  /\ poster' = "message"
  /\ UNCHANGED <<queues, allowed, shouldQuit, messages, timing, stack, over>>

\* InterlockedExchange(&have_work_, 1) of that thread.
Exchange ==
  /\ poster = "exchange"
  /\ have' = TRUE
  /\ poster' = IF have THEN "idle" ELSE "message"
  /\ UNCHANGED <<queues, allowed, shouldQuit, messages, timing, stack, over>>

\* PostMessageW(message_hwnd_, kMsgHaveWork) of that thread.
PostHaveWork ==
  /\ poster = "message"
  /\ workMsgs' = workMsgs + 1
  /\ poster' = "idle"
  /\ NewInput
  /\ UNCHANGED <<queues, allowed, have, shouldQuit, appMsgs, appLeft, quitMsg, timing,
                 over>>

----------------------------------------------------------------------------
(* The Windows message queue *)

\* PeekMessage and GetMessage find posted messages first, then WM_QUIT, then
\* WM_TIMER.
Peek(m) ==
  CASE m = "work"  -> workMsgs > 0
    [] m = "app"   -> appMsgs > 0
    [] m = "quit"  -> workMsgs = 0 /\ appMsgs = 0 /\ quitMsg
    [] m = "timer" -> workMsgs = 0 /\ appMsgs = 0 /\ ~quitMsg /\ timer # 0 /\ timer <= now

PeekNothing == \A m \in {"work", "app", "quit", "timer"} : ~Peek(m)

\* DispatchMessage of a message other than kMsgHaveWork, from a frame that
\* goes on at f.  HandleTimerMessage starts with KillTimer and returns if
\* state_ is NULL.
Dispatch(m, f) ==
  \/ /\ m = "app"
     /\ appMsgs' = appMsgs - 1
     /\ EnterFrom(f, NewFrame("handler", "Inside", NoTask))
     /\ UNCHANGED timer
  \/ /\ m = "timer"
     /\ timer' = 0
     /\ IF InRun THEN EnterFrom(f, NewFrame("timer", "Delayed", NoTask)) ELSE SetTop(f)
     /\ UNCHANGED appMsgs

WindowMessage ==
  /\ appLeft > 0
  /\ appLeft' = appLeft - 1
  /\ appMsgs' = appMsgs + 1
  /\ NewInput
  /\ UNCHANGED <<queues, allowed, have, shouldQuit, workMsgs, quitMsg, timing, over,
                 poster>>

\* Mutant: Run may be called inside a modal loop.
RunAnywhere ==
  /\ ~InRun /\ ~over
  /\ Enter(NewFrame("run", "Message", NoTask))
  /\ UNCHANGED <<queues, allowed, have, shouldQuit, messages, timing, over, poster>>

Run ==
  /\ stack = << >> /\ ~over
  /\ Enter(NewFrame("run", "Message", NoTask))
  /\ UNCHANGED <<queues, allowed, have, shouldQuit, messages, timing, over, poster>>

----------------------------------------------------------------------------
(* DoRunLoop: ProcessNextWindowsMessage *)

NextMessageNone ==
  /\ At({"run"}, "Message")
  /\ PeekNothing
  /\ GoOn([Top EXCEPT !.at = "DoWork", !.more = FALSE])
  /\ UNCHANGED <<queues, allowed, have, shouldQuit, messages, timing, poster>>

\* kMsgHaveWork is discarded for a replacement.
NextMessageWork ==
  /\ At({"run"}, "Message")
  /\ Peek("work")
  /\ workMsgs' = workMsgs - 1
  /\ SetTop([Top EXCEPT !.at = "Replace"])
  /\ UNCHANGED <<queues, allowed, have, shouldQuit, appMsgs, appLeft, quitMsg, timing,
                 over, poster>>

NextMessageOther(m) ==
  /\ At({"run"}, "Message")
  /\ Peek(m)
  /\ Dispatch(m, [Top EXCEPT !.at = "DoWork", !.more = TRUE])
  /\ UNCHANGED <<queues, allowed, have, shouldQuit, workMsgs, appLeft, quitMsg,
                 wakeTime, now, over, poster>>

\* WM_QUIT is posted again and the loop left.
NextMessageQuit ==
  /\ At({"run"}, "Message")
  /\ Peek("quit")
  /\ shouldQuit' = TRUE
  /\ Leave /\ over' = TRUE
  /\ UNCHANGED <<queues, allowed, have, messages, timing, poster>>

----------------------------------------------------------------------------
(* ProcessPumpReplacementMessage, of DoRunLoop and of HandleWorkMessage *)

ReplaceNothing ==
  /\ At({"run", "work"}, "Replace")
  /\ PeekNothing
  /\ have' = FALSE
  /\ SetTop([Top EXCEPT !.at = "DoWork", !.more = FALSE])
  /\ UNCHANGED <<queues, allowed, shouldQuit, messages, timing, over, poster>>

\* have_work_ is reset and ScheduleWork called.  The exchange of another thread
\* may come between the two; then it is that thread that posts.
ResetAndSchedule ==
  /\ have' = TRUE
  /\ \/ workMsgs' = workMsgs + 1 /\ UNCHANGED poster
     \/ poster = "exchange" /\ poster' = "message" /\ UNCHANGED workMsgs

\* The replacement is dispatched.
ReplaceWith(m) ==
  /\ At({"run", "work"}, "Replace")
  /\ Peek(m)
  /\ ResetAndSchedule
  /\ Dispatch(m, [Top EXCEPT !.at = "DoWork", !.more = TRUE])
  /\ UNCHANGED <<queues, allowed, shouldQuit, appLeft, quitMsg, wakeTime, now, over>>

ReplaceWithQuit ==
  /\ At({"run", "work"}, "Replace")
  /\ Peek("quit")
  /\ ResetAndSchedule
  /\ shouldQuit' = TRUE
  /\ IF Top.kind = "run"
       THEN Leave /\ over' = TRUE
       ELSE SetTop([Top EXCEPT !.at = "DoWork"]) /\ UNCHANGED over
  /\ UNCHANGED <<queues, allowed, appMsgs, appLeft, quitMsg, timing>>

----------------------------------------------------------------------------
(* DoWork, of DoRunLoop and of HandleWorkMessage *)

\* DoRunLoop looks at should_quit before it calls DoWork, HandleWorkMessage does
\* not.
InDoWork == At({"run", "work"}, "DoWork") /\ (shouldQuit => Top.kind = "work")

\* A window procedure that ran inside DoRunLoop has met WM_QUIT.
QuitAfterMessage ==
  /\ At({"run"}, "DoWork") /\ shouldQuit
  /\ Leave /\ over' = TRUE
  /\ UNCHANGED <<queues, allowed, have, shouldQuit, messages, timing, poster>>

RunTask(t, f) ==
  /\ EnterFrom(f, NewFrame("task", "Inside", t))
  /\ allowed' = FALSE
  /\ started' = started \cup {t}

DoWorkFindsNothing ==
  /\ InDoWork
  /\ ~allowed \/ (work = << >> /\ incoming = << >>)
  /\ IF Top.kind = "run"
       THEN GoOn([Top EXCEPT !.at = "Delayed"])
       ELSE Leave /\ UNCHANGED over
  /\ UNCHANGED <<queues, allowed, have, shouldQuit, messages, timing, poster>>

\* Mutant: the queues are swapped although the work queue is not empty.
ReloadWorkQueueSwaps ==
  /\ InDoWork /\ allowed
  /\ incoming # << >>
  /\ work' = incoming /\ incoming' = work
  /\ UNCHANGED <<delayed, zeroth, due, stamp, posts, started, allowed, have, shouldQuit,
                 messages, timing, stack, over, poster>>

ReloadWorkQueue ==
  /\ InDoWork /\ allowed
  /\ work = << >> /\ incoming # << >>
  /\ work' = incoming /\ incoming' = << >>
  /\ UNCHANGED <<delayed, zeroth, due, stamp, posts, started, allowed, have, shouldQuit,
                 messages, timing, stack, over, poster>>

\* The delayed task that runs first: by time, then by sequence_num.
IsTop(t, D, zero) ==
  /\ t \in D
  /\ \A u \in D : due[t] <= due[u]
  /\ (zero \in D /\ due[zero] = due[t]) => t = zero

\* ScheduleDelayedWork: SetTimer never waits less than kUserTimerMinmum.
TimerFor(time) == IF time > now THEN time ELSE now + 1

\* A delayed task changes queues.  ScheduleDelayedWork is called when the top
\* of the queue has the sequence_num of the copy that was posted, which is 0.
DoWorkMovesDelayed ==
  /\ InDoWork /\ allowed
  /\ work # << >>
  /\ LET t == Head(work)
         zero == IF zeroth = NoTask THEN t ELSE zeroth
     IN /\ Delay[t] # 0
        /\ work' = Tail(work)
        /\ delayed' = delayed \cup {t}
        /\ zeroth' = zero
        /\ IF IsTop(zero, delayed', zero)
             THEN wakeTime' = due[t] /\ timer' = TimerFor(due[t])
             ELSE UNCHANGED <<wakeTime, timer>>
  /\ UNCHANGED <<incoming, due, stamp, posts, started, allowed, have, shouldQuit,
                 messages, now, stack, over, poster>>

DoWorkRunsTask ==
  /\ InDoWork /\ allowed
  /\ work # << >>
  /\ Delay[Head(work)] = 0
  /\ work' = Tail(work)
  /\ RunTask(Head(work), [Top EXCEPT !.at = "Worked", !.more = TRUE])
  /\ UNCHANGED <<incoming, delayed, zeroth, due, stamp, posts, have, shouldQuit,
                 messages, timing, over, poster>>

\* Mutant: HandleWorkMessage ignores the result of DoWork.
AfterWorkUnscheduled ==
  /\ At({"run", "work"}, "Worked")
  /\ IF Top.kind = "run"
       THEN GoOn([Top EXCEPT !.at = "Delayed"])
       ELSE Leave /\ UNCHANGED over
  /\ UNCHANGED <<queues, allowed, have, shouldQuit, messages, timing, poster>>

\* DoWork has run a task; HandleWorkMessage asks for another time slice.
AfterWork ==
  /\ At({"run", "work"}, "Worked")
  /\ IF Top.kind = "run"
       THEN GoOn([Top EXCEPT !.at = "Delayed"]) /\ UNCHANGED <<have, workMsgs>>
       ELSE Leave /\ ScheduleWork /\ UNCHANGED over
  /\ UNCHANGED <<queues, allowed, shouldQuit, appMsgs, appLeft, quitMsg, timing, poster>>

----------------------------------------------------------------------------
(* DoDelayedWork, of DoRunLoop and of HandleTimerMessage *)

DoDelayedWorkFindsNothing ==
  /\ At({"run", "timer"}, "Delayed")
  /\ ~allowed \/ delayed = {}
  /\ wakeTime' = 0
  /\ SetTop([Top EXCEPT !.at = "AfterDelayed"])
  /\ UNCHANGED <<queues, allowed, have, shouldQuit, messages, timer, now, over, poster>>

DoDelayedWorkIsEarly(t) ==
  /\ At({"run", "timer"}, "Delayed") /\ allowed
  /\ IsTop(t, delayed, zeroth) /\ due[t] > now
  /\ wakeTime' = due[t]
  /\ SetTop([Top EXCEPT !.at = "AfterDelayed"])
  /\ UNCHANGED <<queues, allowed, have, shouldQuit, messages, timer, now, over, poster>>

DoDelayedWorkTakes(t) ==
  /\ At({"run", "timer"}, "Delayed") /\ allowed
  /\ IsTop(t, delayed, zeroth) /\ due[t] <= now
  /\ delayed' = delayed \ {t}
  /\ \/ delayed' = {} /\ UNCHANGED wakeTime
     \/ \E u \in delayed' : IsTop(u, delayed', zeroth) /\ wakeTime' = due[u]
  /\ RunTask(t, [Top EXCEPT !.at = "AfterDelayed", !.more = TRUE])
  /\ UNCHANGED <<incoming, work, zeroth, due, stamp, posts, have, shouldQuit, messages,
                 timer, now, over, poster>>

\* DoRunLoop kills the timer when no delayed work is left, then goes round, or
\* through DoIdleWork (nothing to do here) to WaitForWork.
AfterDelayedInRun ==
  /\ At({"run"}, "AfterDelayed")
  /\ timer' = IF Top.more /\ wakeTime = 0 THEN 0 ELSE timer
  /\ GoOn([Top EXCEPT !.at = IF Top.more THEN "Message" ELSE "Wait"])
  /\ UNCHANGED <<queues, allowed, have, shouldQuit, messages, wakeTime, now, poster>>

\* HandleTimerMessage calls ScheduleDelayedWork unless the time is null.
AfterDelayedInTimer ==
  /\ At({"timer"}, "AfterDelayed")
  /\ timer' = IF wakeTime # 0 THEN TimerFor(wakeTime) ELSE timer
  /\ Leave
  /\ UNCHANGED <<queues, allowed, have, shouldQuit, messages, wakeTime, now, over, poster>>

\* MsgWaitForMultipleObjectsEx returns.
WaitForWork ==
  /\ At({"run"}, "Wait")
  /\ ~PeekNothing \/ (wakeTime # 0 /\ wakeTime <= now)
  /\ SetTop([Top EXCEPT !.at = "Message"])
  /\ UNCHANGED <<queues, allowed, have, shouldQuit, messages, timing, over, poster>>

\* It returned for input and found the mouse's bit set in the queue status, but no
\* mouse message, which may be another thread's: WaitMessage has no time-out, and
\* what was in the queue before is not new to it.
MouseInput ==
  /\ At({"run"}, "Wait")
  /\ SetTop([Top EXCEPT !.at = "WaitMessage"])
  /\ UNCHANGED <<queues, allowed, have, shouldQuit, messages, timing, over, poster>>

\* More of the mouse, or of what the thread's windows are sent.
WaitMessageReturns ==
  /\ At({"run"}, "WaitMessage")
  /\ NewInput
  /\ UNCHANGED <<queues, allowed, have, shouldQuit, messages, timing, over, poster>>

----------------------------------------------------------------------------
(* Modal loops of Windows, window procedures and closures *)

\* No queued task needs a kMsgHaveWork that is not there.
Announced == (work = << >> /\ incoming = << >>) \/ have \/ poster # "idle"

\* HandleTimerMessage calls no ScheduleWork: a kMsgHaveWork that comes to nothing
\* inside the task it runs is forgotten by the modal loops below.
RunByTimer == In("task") /\ Len(stack) > 1 /\ stack[Len(stack) - 1].kind = "timer"

OpenModal ==
  /\ \/ stack = << >> /\ ~over /\ "start" \in Openers
     \/ In("handler") /\ "handler" \in Openers
     \/ In("task") /\ Top.task \in Openers
  /\ Cardinality({i \in 1..Len(stack) : stack[i].kind = "modal"}) < MaxModals
  /\ stack' = Append(
       [i \in 1..Len(stack) |-> [stack[i] EXCEPT !.fresh = @ /\ ~RunByTimer]],
       [NewFrame("modal", "Inside", NoTask) EXCEPT !.fresh = allowed /\ Announced])
  /\ UNCHANGED <<queues, allowed, have, shouldQuit, messages, timing, over, poster>>

\* Mutant: HandleWorkMessage outside Run leaves have_work_ set.
ModalGetsWorkKeepsFlag ==
  /\ In("modal")
  /\ Peek("work")
  /\ workMsgs' = workMsgs - 1
  /\ IF InRun
       THEN Enter(NewFrame("work", "Replace", NoTask)) /\ UNCHANGED have
       ELSE UNCHANGED <<have, stack>>
  /\ UNCHANGED <<queues, allowed, shouldQuit, appMsgs, appLeft, quitMsg, timing, over, poster>>

\* The modal loop dispatches kMsgHaveWork to HandleWorkMessage.
ModalGetsWork ==
  /\ In("modal")
  /\ Peek("work")
  /\ workMsgs' = workMsgs - 1
  /\ IF InRun
       THEN Enter(NewFrame("work", "Replace", NoTask)) /\ UNCHANGED have
       ELSE have' = FALSE /\ UNCHANGED stack
  /\ UNCHANGED <<queues, allowed, shouldQuit, appMsgs, appLeft, quitMsg, timing, over, poster>>

ModalGetsOther(m) ==
  /\ In("modal")
  /\ Peek(m)
  /\ Dispatch(m, Top)
  /\ UNCHANGED <<queues, allowed, have, shouldQuit, workMsgs, appLeft, quitMsg, wakeTime,
                 now, over, poster>>

\* Mutant: the modal loop keeps WM_QUIT to itself.
EndModalEatsQuit ==
  /\ In("modal")
  /\ Leave
  /\ quitMsg' = FALSE
  /\ UNCHANGED <<queues, allowed, have, shouldQuit, workMsgs, appMsgs, appLeft, timing,
                 over, poster>>

\* The modal loop ends: its user is done, or it got WM_QUIT and posted it again.
EndModal ==
  /\ In("modal")
  /\ Leave
  /\ UNCHANGED <<queues, allowed, have, shouldQuit, messages, timing, over, poster>>

PostFromLoop(t) ==
  /\ In("task") \/ In("handler")
  /\ Push(t)
  /\ IF incoming = << >> THEN ScheduleWork ELSE UNCHANGED <<have, workMsgs>>
  /\ UNCHANGED <<work, delayed, zeroth, started, allowed, shouldQuit, appMsgs, appLeft,
                 quitMsg, timing, stack, over, poster>>

AllowNesting ==
  /\ In("task") /\ Top.task \in Nesting
  /\ ~allowed
  /\ allowed' = TRUE
  /\ ScheduleWork
  /\ UNCHANGED <<queues, shouldQuit, appMsgs, appLeft, quitMsg, timing, stack, over, poster>>

PostQuitMessage ==
  /\ In("task") /\ Top.task \in Quitting
  /\ ~quitMsg
  /\ quitMsg' = TRUE
  /\ UNCHANGED <<queues, allowed, have, shouldQuit, workMsgs, appMsgs, appLeft, timing,
                 stack, over, poster>>

\* A closure returns to RunTask, a window procedure to DispatchMessage.
Finish ==
  /\ In("task") \/ In("handler")
  /\ allowed' = (allowed \/ In("task"))
  /\ Leave
  /\ UNCHANGED <<queues, have, shouldQuit, messages, timing, over, poster>>

Tick ==
  /\ now < MaxTime
  /\ now' = now + 1
  /\ IF timer = now' THEN NewInput ELSE UNCHANGED stack
  /\ UNCHANGED <<queues, allowed, have, shouldQuit, messages, wakeTime, timer, over,
                 poster>>

----------------------------------------------------------------------------
PumpStep ==
  \/ NextMessageNone \/ NextMessageWork \/ NextMessageQuit
  \/ ReplaceNothing \/ ReplaceWithQuit
  \/ QuitAfterMessage \/ DoWorkFindsNothing \/ ReloadWorkQueue \/ DoWorkMovesDelayed
  \/ DoWorkRunsTask \/ AfterWork
  \/ DoDelayedWorkFindsNothing
  \/ \E t \in Tasks : DoDelayedWorkIsEarly(t) \/ DoDelayedWorkTakes(t)
  \/ AfterDelayedInRun \/ AfterDelayedInTimer \/ WaitForWork
  \/ ModalGetsWork
  \/ \E m \in {"app", "timer"} :
       NextMessageOther(m) \/ ReplaceWith(m) \/ ModalGetsOther(m)

Next ==
  \/ \E t \in Tasks : PostFromThread(t) \/ PostFromLoop(t)
  \/ Exchange \/ PostHaveWork
  \/ WindowMessage \/ MouseInput \/ WaitMessageReturns \/ Run \/ PumpStep
  \/ OpenModal \/ EndModal \/ AllowNesting \/ PostQuitMessage \/ Finish
  \/ Tick

Spec == Init /\ [][Next]_vars

\* The threads are scheduled, the clock advances, and modal loops, closures
\* and window procedures end.  Nothing is assumed of the mouse.
Fairness ==
  /\ WF_vars(PumpStep) /\ WF_vars(Exchange) /\ WF_vars(PostHaveWork) /\ WF_vars(Tick)
  /\ SF_vars(EndModal) /\ SF_vars(Finish)

FairSpec == Spec /\ Fairness

----------------------------------------------------------------------------
(* Properties *)

\* Every variable keeps its type; Run is at the bottom of the stack or not at
\* all, HandleWorkMessage and HandleTimerMessage are only entered inside it, and
\* once should_quit ends it nothing is left on the stack.
TypeOK ==
  /\ incoming \in Seq(Tasks) /\ work \in Seq(Tasks)
  /\ delayed \subseteq Tasks /\ zeroth \in Tasks \cup {NoTask}
  /\ due \in [Tasks -> Nat] /\ stamp \in [Tasks -> Nat] /\ posts \in Nat
  /\ started \subseteq Tasks
  /\ allowed \in BOOLEAN /\ have \in BOOLEAN /\ shouldQuit \in BOOLEAN
  /\ quitMsg \in BOOLEAN /\ over \in BOOLEAN
  /\ workMsgs \in Nat /\ appMsgs \in Nat /\ appLeft \in Nat
  /\ wakeTime \in Nat /\ timer \in Nat /\ now \in Nat
  /\ stack \in Seq(Frame)
  /\ poster \in {"idle", "exchange", "message"}
  /\ \A i \in 2..Len(stack) : stack[i].kind # "run"
  /\ \A i \in 1..Len(stack) : stack[i].kind \in {"work", "timer", "task"} => InRun
  /\ shouldQuit => over \/ InRun

\* have_work_ is set exactly when one kMsgHaveWork is in the queue, about to
\* be posted, or taken and not yet replaced: the queue is never flooded, no
\* second one is peeked as a replacement (win_ui_message_pump.cpp:330-334),
\* and the flag is never left set with no message to reset it.
OneWorkMessage ==
  LET Count(b) == IF b THEN 1 ELSE 0
  IN workMsgs + Count(poster = "message")
       + Count(stack # << >> /\ Top.at = "Replace") = Count(have)

Waiting == PeekNothing /\ poster = "idle"

\* DoRunLoop does not sleep on a task it could run, nor, while it waits with a
\* time-out, past the earliest delayed one.  In WaitMessage it may sleep past any
\* delayed task, and on a kMsgHaveWork that came just before.
RunLoopAwake ==
  (In("run") /\ Top.at \in {"Wait", "WaitMessage"} /\ Waiting) =>
    /\ work = << >> /\ incoming = << >>
    /\ Top.at = "Wait" => \A t \in delayed : wakeTime # 0 /\ wakeTime <= due[t]

\* Neither does a modal loop of Windows sleep on an immediate task, whatever
\* runs and nests inside: there is a kMsgHaveWork for it, or one is on its way.
\* Excepted are a modal loop opened while nested tasks are not allowed or with a
\* task already forgotten, and one in which a task run by WM_TIMER opened
\* another (RunByTimer).
ModalLoopAwake ==
  (In("modal") /\ Top.fresh /\ InRun /\ Waiting) => work = << >> /\ incoming = << >>

\* No loop of the UI thread sleeps on work that nobody will remind it of.
NoSleepOnWork == RunLoopAwake /\ ModalLoopAwake

\* WM_QUIT, posted again by each loop that meets it, ends DoRunLoop however
\* deep in modal loops it was posted.
QuitUnwinds == quitMsg ~> over

\* Every task is started in the end, unless the application quits, or DoRunLoop
\* stays in WaitMessage for ever because no input comes.
EventuallyStarted ==
  \A t \in Tasks :
    (stamp[t] # 0 /\ InRun) ~>
      (t \in started \/ over \/ [](At({"run"}, "WaitMessage")))

\* win_ui_message_pump.cpp:51-54: "we *also* set the system timer so that
\* WM_TIMER events fire.  This mops up the case of timers not being able to
\* work in modal message loops."  So a modal loop waits no longer than for
\* the earliest delayed task, or the smallest time SetTimer can wait.
ModalLoopHasTimer ==
  (In("modal") /\ InRun /\ allowed /\ Waiting) =>
    \A t \in delayed : timer # 0 /\ (timer <= due[t] \/ timer <= now + 1)
============================================================================
