# base_dui: a verification project

base_dui is a C++ framework for Windows desktop programs: NetEase's `nbase`
library (`src/base`: message loops, threads, callbacks, utilities), a widget
library (`src/duilib`), helpers (`src/shared`, `src/db`), window toolkits
(`src/ui_kit`) and demo programs (`src/player`, `src/demo`,
`src/debug_dui_demo`). Everything in it that is concurrent goes through the
message loops and threads of `src/base`, so this is where the project starts.

The modules model that code as it is written. TLC checks them on small
instances, and TLAPS proves what matters most for every instance.
`PROJECT.json` maps each definition to the lines it stands for.

## 1. Inventory

| Component | State it keeps | Operations | What is hard | What makes it correct |
|---|---|---|---|---|
| **MessageLoop** with **DefaultMessagePump** (`base/framework`) | four task queues, `nestable_tasks_allowed_`, the stack of `RunState`s, the pump's quit flag, wake-up time and event | `Post*`, `Run`, `RunAllPending`, `Quit`, `QuitNow`, `SetNestableTasksAllowed`, the destructor | posts from any thread, nested loops inside tasks, tasks moved between queues, a wake-up sent after the lock is released, closures that post while being destroyed | no task lost or run twice; no sleep on work; post order; non-nestable tasks never nested; quitting drains |
| **MessageLoopProxy** | `target_message_loop_` and its lock | `PostTask...`, `WillDestroyCurrentMessageLoop` | the loop is destroyed while another thread posts | no post reaches a dead loop; a refused post says so |
| **UIMessageLoop** with **WinUIMessagePump** | `have_work_`, `delayed_work_time_`, the system timer, the Windows message queue | `ScheduleWork`, `ScheduleDelayedWork`, `DoRunLoop`, `HandleWorkMessage`, `HandleTimerMessage` | modal loops of Windows run instead of `DoRunLoop`; one message stands for many tasks | one `kMsgHaveWork` at a time; tasks run in modal loops too; `WM_QUIT` reaches the loop |
| **FrameworkThread** (`base/thread`) | `started_`, `stopping_`, `message_loop_`, `event_`, thread handle and id | `Start`, `RunOnCurrentThreadWithLoop`, `StopSoon`, `Stop`, the destructor, `Run` | fields shared without a lock between owner and thread; restart; stopping from inside | usable after `Start`; as new after `Stop`; `Stop` returns; posted tasks run before the end |
| **ThreadManager**, ThreadMap | map of identifiers to threads, `managed` in the thread's TLS | `RegisterThread`, `UnregisterThread`, posts by identifier, repeated tasks | look-ups without the lock, stale thread and loop pointers | no entry for a dead thread; a post says what became of it |
| **PostTaskAndReply** | the relay, owned by whoever runs it | post, run, reply | either loop may be gone | reply at most once, on the origin's thread |
| **Weak callbacks** | a shared flag | `Bind`, `Cancel`, call | object destroyed between test and call | an expired callback does nothing |
| **IOMessageLoop**, WinIOMessagePump | `have_work_`, completion port, saved completions | as the UI pump, `WaitForIOCompletion` | filtered waits inside handlers | no completion lost |
| **WaitableEvent** (POSIX) | `waiters_` of each kernel, `signaled_`, the `SyncWaiter` on each waiter's stack | `Signal`, `Reset`, `IsSignaled`, `Wait`, `WaitTimeout`, `WaitMultiple` | a time-out racing a signal, waiters on the stack of another thread, several locks at once | a signal releases one wait or stays; no waiter is used after its call; no circular wait |
| **AsyncModalRunner** (`shared/modal_wnd`) | `runners_`, `is_running_`, `quit_posted_` of each runner | `DoModal`, `CancelAllThreads`, `Deregister` | `WM_QUIT` posted to a thread without a message queue; runners known by an address that is used again | a dialog outlives its thread; cancelling ends |
| **MediaPlayer** (`player/control`) | `m_play_status`, `m_bStoped`, `m_curr_file`, the frame shown | `StartVideo`, `StartRtsp`, `PauseOrStartVideo`, `StopVideo`, `Screen::Paint`, the playing task | plain flags shared by the UI and the video thread | no bitmap forgotten; the player at rest when destroyed; a stop returns |
| **Login** of the demo (`ui_kit/module`, `demo/gui`) | `status_`, `account_`, `password_`, the two forms and their buttons, `stop_register_`, named mutexes, `app.db` | `StartLogin`, `CancelLogin`, `DoLoginAsyn`, `UILoginCallback`, `DoLogout`, closing and hiding forms, `ImportDataToDB` | answers that come after a click, callbacks with a bare `this`, several processes, a key taken from the account of the moment | callbacks find their form; only registered users get in; an account is used by one process; a program without a window ends |
| **ObserverList** | observers with holes, nesting count | add, remove, traverse, compact | removal during nested traversals | every present observer is called once |
| **LazyInstance**, Singleton, AtExitManager | `state_`, instance, exit callbacks | `Pointer`, `OnExit` | creation race, order at exit | created once |
| **BlockBuffer** | block count, size | `append`, `reserve`, `erase`, `replace` | limits | capacity and contents |
| **SQLite wrapper** (`db`) | statement and transaction flags | `Begin`, `Commit`, `Rollback`, stepping | failure of one step | a transaction ends once |
| Utilities, duilib, the rest of ui_kit, vendored code | - | - | stateless, drawing, or third party | - |

How they interact: a `FrameworkThread` creates a `MessageLoop` on its thread and
stops it by posting `DoStopSoon` to it. Every post from another thread goes
through the loop's proxy, found through `ThreadManager` by identifier.
Callbacks are weak: bound to an object's flag. The pump calls the loop back
(`DoWork`, `DoDelayedWork`, `DoIdleWork`), the loop calls the pump
(`ScheduleWork`, `ScheduleDelayedWork`, `Quit`), and a task may run a nested
loop inside itself. The programs start their threads before the UI loop runs
and stop them after it (`demo/thread/main_thread.cpp`). The player and the login
use all of this as a user would: work is posted to another thread by its
identifier and the answer is posted back, while the user goes on clicking.

The hazards, each at its line, are listed in `PROJECT.json` with the properties
that would catch them.

## 2. Plan

Done, in this order:

1. `MessageLoop` (loop, default pump, proxy, destructor), its abstract
   specification `TaskService`, the refinement `MessageLoopService`, the proofs
   `MessageLoopProofs`.
2. `FrameworkThread`, over a loop seen as `QuitDrains` and `TaskService` have it,
   with `FrameworkThreadProofs`.
3. `UIPump` and `UIPumpService`, a second implementation of `TaskService`, with
   `UIPumpProofs`.
4. `ThreadManager`: the threads of a program, the map, posts by identifier,
   repeated tasks and `PostTaskAndReply`, over loops seen as `TaskService` sees
   them, with `ThreadManagerProofs`.
5. `WaitableEvent`, its abstract specification `EventService`, the refinement
   `WaitableEventService`, and `WaitableEventProofs`.
6. `MediaPlayer` and `MediaPlayerProofs`.
7. `AsyncModal` and `AsyncModalProofs`.
8. `Login` and `LoginProofs`.

Left: no safety property that a run checks is without its theorem, and the
refinements of both abstract specifications are proved; liveness stays with TLC.
Among the components, `ObserverList`, `LazyInstance`, the IO pump and the SQLite transaction have a
protocol worth a module but no program of the repository meets it (section 7).

## 3. The modules and the code

**MessageLoop** (`message_loop.cpp`, `default_message_pump.cpp`,
`message_loop_proxy.cpp`). A task is one call of a `Post` function, posted at
most once. The loop's thread is a stack of `Run` activations: `depth` is
`run_depth`, `level[d]` is the activation at depth `d` with the local `did_work`,
the `quit_received` of its `AutoRunState` and the place where it is. Each
delegate call (`DoWork`, `DoDelayedWork`, `DoIdleWork`) is one or two actions,
cut where another thread could be seen between them: the push under
`incoming_queue_lock_` and the wake-up after it are two steps of a foreign
thread that holds `message_loop_lock_`. What a closure may call is a constant
(`May`), so TLC can give each task a different behaviour. `due` and `now` are a
clock that `Tick` advances; `recent` is `recent_tick_`. The destructor is a
sequence of rounds (`life`). `DoWorkMovesDelayed` keeps the code's comparison
with a `sequence_num` that is always 0 in the copy compared.

**TaskService** is what a loop promises to those who post: accepted or refused
for good, started at most once, ordinary tasks in post order, non-nestable ones
never inside another, destroyed with the loop otherwise. `MessageLoopService` and
`UIPumpService` give the refinement mappings.

**FrameworkThread** (`framework_thread.cpp`, `thread_win.cpp`,
`shared/threads.h`). One object; its owner's calls (`Start` and `StartReturns`
around `event_.Wait()`, `StopSoon`, `Stop`, `PostStop`, `StopReturns` around
`Close`, `Destroy`), the activations of `Run` step by step, and any other thread
that posts. A loop is a queue that is left when quit was asked for and it is
found empty, as MessageLoop's `QuitDrains` allows. A loop run by the owner is a UI
loop: a task of it may send `WM_QUIT` (`wmQuit`), which the pump may meet with tasks
queued (`LeaveOnQuitMessage`). `StopSoon` tests its two fields in one step and posts
in another, with no lock between them: a thread that has stopped itself meanwhile
(`itself`) may have deleted the loop, and then the owner crashes
(`PostStopToDeadLoop`). `Start` and `RunOnCurrentThreadWithLoop` are called on an
object that is new or was reset by `Stop`, as `framework_thread.h:110` asks of their
callers; the functions do not test it. An object is used in one way, as
by every caller in the repository: either started or run on the current thread
(`used`). Mixing them is not excluded by any comment, and then `Start` could
return too early, since `event_` may be signaled from the other use.
`derived` says whether the derived class still exists, since a virtual call from
the base destructor does not reach it.

**UIPump** (`win_ui_message_pump.cpp`, `win_message_pump.cpp`,
`message_loop.cpp`). The thread is a stack of frames: `DoRunLoop` at the bottom,
then closures, window procedures, modal loops of Windows, `HandleWorkMessage` and
`HandleTimerMessage`. `fresh` marks a modal loop that was opened with nested tasks
allowed and no task forgotten, the only ones in which `ModalLoopAwake` can hold.
The message queue is a number of `kMsgHaveWork`, a number of
other messages and a `WM_QUIT` flag; posted messages are found before `WM_QUIT`,
and that before `WM_TIMER`, which is how Windows does it (external). The exchange of
`have_work_` and the `PostMessage` of another thread are two steps. `WaitForWork`
waits with a time-out, but after input of the mouse with no mouse message for this
thread (`MouseInput`) it is in `WaitMessage`, which only input that comes later
ends (`NewInput`, `WaitMessageReturns`). `DoRunLoop` looks at `should_quit` after
each of its steps, also after a window procedure in which a loop met `WM_QUIT`
(`QuitAfterMessage`).

**ThreadManager** (`thread_manager.cpp`, `message_loop_proxy.h`, `callback.h`,
`shared/threads.cpp`, `demo/thread/main_thread.cpp`). `life` is where each thread
is, from the start by `PreMessageLoop` to the deletion of the object by
`PostMessageLoop`. `RegisterThread` and `UnregisterThread` are two steps under
`lock_`, so that a reader of `threads_` can be seen in between: the look-up takes
no lock, and one that meets a change may miss its entry (a look-up that crashes on
a freed node is left out). A post by identifier is `FindThread`, two steps of
`GetMessageLoop` and `PostThroughProxy`, each with the pointer of the last.
`relay` is the `PostTaskAndReplyRelay` of an await: the loop it came from and
whether `std_task_` is held. A repeated callback carries its remaining `times`
from post to post (`FinishRepeat`), and a post to an identifier looks it up anew
each time. As in the programs of the repository, workers post to the main
thread, the main thread to anyone, and a callback is cancelled on the thread
that runs it. The main thread's loop ends on `WM_QUIT` at once, a worker's when it
is told and finds no task, as UIPump and FrameworkThread have it.

**WaitableEvent** (`waitable_event_posix.cpp`). A thread has one `SyncWaiter` at
a time, so the thread stands for it in `waiters`. An event is its address, since
`WaitMultiple` sorts by it. A step lies between two moments at which another
thread can be seen: a lock taken is held in `lock` until it is given back, and
`frame` holds the locals of the call under way (its events, the flags of its
waiter, what is still to dequeue). The wait on the condition variable and the
time-out are `WakeUp` and `Elapse`. **EventService** knows only which events are
open, which signals are not spent and who waits in what order;
`WaitableEventService` maps a wait to the time from its `Enqueue` until its waiter
is fired or disabled.

**MediaPlayer** (`media_player.cpp`, `media_player_ui.cpp`, `screen.cpp`). `ui` and
`video` are where the two threads are; a step reads or writes one of the shared
fields, so a test and the assignment after it can be separated. A stream is a
number of frames, a bitmap is counted. `StartVideo` and `StartRtsp` differ in
what they post, and both playing tasks are one: opening, the loop with its two
tests of the status, the label `err`, and the end. `StopVideo` from the button and
from `OnFinalMessage` differ in whether the player is destroyed after it.

**AsyncModal** (`async_modal_runner.cpp`, `async_do_modal.cpp`,
`file_dialog_ex.cpp`). A runner is its address, which a later one may get.
`thread` is where its thread is; `OpenDialog` is the moment at which it has a
message queue, so a `WM_QUIT` posted before is lost. `CancelAllThreads` is one step
per runner and the join of all of them.

**Login** (`login_manager.cpp`, `login_form.cpp`, `login_form_ui.cpp`,
`login_callback.cpp`, `main_form_ui.cpp`, `windows_manager.*`, `user_db.cpp`,
`user_manager.cpp`, `session_manager.cpp`). Each process has a UI thread, whose
handlers and tasks are atomic, and the Global Misc thread, whose `DoLoginAsyn` is
two steps: the look-up with `account_` and the comparison with `password_`. Both
queues are those of `TaskService`. A name is a model value and `Lower` its
lower-case form. `app.db` is the key it was created with and its accounts; a
process can read it if it opened it with that key. `main.cpp` opens the main form
and has the login form in a line beside it; `Start` takes either.

## 4. The runs

| Run | Configuration | What it shows | Distinct states |
|---|---|---|---|
| `loop` | `MessageLoop.cfg` | `Conservation`, `NoLostWakeup`, which tasks run inside which (`NestingRespected`), `NoPostIntoDeadLoop`, `DelayedInOrder`, and the loop implements `TaskService` | 896,389 |
| `loop_live` | `MessageLoopLive.cfg` | a quit drains (`QuitDrains`); accepted tasks are started in the end, those the loop may run and those a nested loop deferred (`EventuallyRun`) | 62,390 |
| `thread` | `FrameworkThread.cfg` | a loop that is handed out or posted to exists, unless the thread stops itself at that moment (`LoopUsable`); a loop ended by a stop has run what it owed (`DrainedByStop`); `ResetByStop`, `StopEnds` | 89,989 |
| `ui` | `UIPump.cfg` | `TypeOK`, `OneWorkMessage`, no sleep on a task in `DoRunLoop` or a modal loop (`NoSleepOnWork`), `QuitUnwinds`, `EventuallyStarted`, and the loop implements `TaskService` | 73,715 |
| `ui_timer` | `UIPumpTimer.cfg` | violation of `ModalLoopHasTimer` | |
| `manager` | `ThreadManager.cfg` | the map is exact (`RegistryExact`), `LookupSafe`, relays owned by one thread (`RelayOwned`), repeated tasks bounded and cancelled for good (`RepeatDiscipline`), `AwaitEnds` | 468,208 |
| `manager_lookup` | `ThreadManagerLookup.cfg` | violation of `LookupExcludesChange` | |
| `event` | `WaitableEvent.cfg` | `NoCircularWait`, `NoDeadWaiter`, `ReleasedReturns`, and the wait lists implement `EventService` | 371,436 |
| `player` | `MediaPlayer.cfg` | `BitmapsAccounted`, `StartsStopped`, `StopLeavesRest`, `StopEnds` | 494,208 |
| `player_paint` | `MediaPlayerPaint.cfg` | violation of `PaintHasFrame` | |
| `modal` | `AsyncModal.cfg` | `DialogOutlivesThread`, `CancelAllEnds` | 2,349 |
| `login` | `Login.cfg` | `ButtonsMatchStatus`, `CallbacksFindTheirForm`, `OnlyRegisteredLogIn`, `WindowlessIsEnding`, `LoggedInIsTaken`, `LoginEnds`, `RegisteredGetsIn` | 138,280 |

The states of `loop` are counted up to an exchange of the two posters (`SYMMETRY`;
they do the same and no liveness is checked there). Type correctness is proved for
every module; `ui` checks it too.
Each property of a passing run has a mutant in its module, an operator named for
the bug it makes (`ReloadWorkQueueOverwrites`, `DisappearUnlocked`,
`CloseLoginFormDestroys`, ...), that breaks it under the same configuration.

**Bounds and why they are enough.** *Loop:* tasks a (nestable, opens nested
loops, posts, allows and forbids nesting), c (delayed, quits both ways), d
(delayed and non-nestable), e (ordinary, quits); the live run has a, c and b
(non-nestable and immediate, quits). Each pair of attributes the code branches on
occurs; a and e show the order of ordinary tasks, c and d that of delayed ones.
Two threads post, so that a post can overtake the second half of another.
`MaxDepth = 2` is one nested loop: the code only asks whether the depth is 1.
The clock goes from 1 to `MaxTime = 3` and c is delayed by 1, d by 2: c is due at 2
or 3 and d at 3, whichever was posted first, so the two can have different times or
the same one, the later post can be due first, and c can be early, due and overdue.
The live run has c alone and `MaxTime = 2`. `MaxRounds` stands for the 100 rounds of
the destructor; two show that a round can leave work to the next and that the last one may leave some
behind. *Thread:* three activations (two restarts), two plain tasks, one that
stops its own thread, one that sends `WM_QUIT` to a loop run by the owner. *UI:* two modal
loops inside each other, one window message, three tasks (immediate with nesting,
immediate and quitting, delayed). The timer run has two delayed tasks, since the
first is always numbered 0, and one more unit of time. Time units are at least the 10 ms
of `kUserTimerMinmum`, so a timer that is due is set for the next unit.
*Manager:* three workers, two with the same identifier, so that one is refused,
and two that are stopped one after the other while the last still posts; one
plain task, one await and one callback repeated twice, each posted by whoever
runs and cancelled at any time. *Event:* three threads, one event of each kind,
both orders of the two in `WaitMultiple`, and four calls: two waiters, a signal and
one more call that meets what they left. *Player:* two files, two frames, two
starts, pauses and stops: a second playback meets everything a first one can
leave, and a second stop what the first one did. *Modal:* two addresses and four
dialogs, so that each address is used again. *Login:* two processes, one account
in two spellings, a right and a wrong password; nothing is counted, so starts,
logins, cancels and ends repeat without bound.

**Deadlock** is not checked: a loop that sleeps with nothing to do, a thread
that nobody starts, an event nobody signals or a process whose user has logged
out is a proper end. The absence of unwanted stops is what `NoLostWakeup`,
`NoSleepOnWork`, `NoCircularWait` and the liveness properties say.

**Fairness.** The operating system schedules every thread that can run, so the
pump's steps, the second half of a post, the steps of `Run`, of a call that waits
or signals, of the video thread, of a dialog's thread and of the Global Misc
thread are weakly fair. The clock advances. Closures, window procedures and modal
loops are assumed to end; this is strong fairness, since a nested loop inside a
closure disables its end again and again. ThreadManager only needs that some
thread goes on as long as one can (`Work`), since its jobs are finite. Time-outs
and spurious wake-ups of a wait are not fair, and nothing is assumed of the mouse:
a UI loop may be in `WaitMessage` for ever. Nobody is assumed to post, start,
stop, signal, click or close anything. A closure that never returns does stop
everything, in the code as well.

## 5. Where the code differs from its comments and assertions

1. `win_ui_message_pump.cpp:51-55` sets `WM_TIMER` so that delayed tasks run in
   modal loops; `message_loop.cpp:299` compares with an unset number, so only the
   first delayed task of a loop's life gets it there (`ui_timer`).
2. `QueryThreadInternal` is marked "no lock" (`thread_manager.cpp:85`), and its only
   caller takes none: the map is searched while another thread changes it
   (`manager_lookup`).
3. `screen.cpp:22` asserts that a frame is loaded whenever the status is not
   `PS_STOP`; the video thread sets `PS_PLAY` before it has decoded one
   (`player_paint`).

The properties of `thread`, `ui` and `login` state exceptions where the code leaves a
gap; each is named in the property and has no run of its own:

- `StopSoon` reads `stopping_` and `message_loop_` without a lock and posts through
  the pointer later (`framework_thread.cpp:126-131`). When a task of the thread calls
  `StopSoon` in between, the loop can be left and deleted before the post
  (`NoPostToDeadLoop`, `itself`).
- A UI loop run by its owner is left on `WM_QUIT` at once
  (`win_ui_message_pump.cpp:161`, `291-297`): what was accepted before a stop may be
  discarded with it (`DrainedByStop` is about the other loops).
- The comment at `win_ui_message_pump.cpp:195-196` says that `WaitForWork` waits up to
  the time of the next timer. Lines 220-225 call `WaitMessage`, which has no
  time-out and does not return for what was in the queue before: `DoRunLoop` may
  sleep past a delayed task, and on a `kMsgHaveWork` that came just before, until
  some other input comes (`RunLoopAwake`, `EventuallyStarted`).
- A `kMsgHaveWork` that a modal loop dispatches while nested tasks are forbidden
  is consumed and nothing runs. `HandleWorkMessage` makes up for it when its task
  returns (`win_ui_message_pump.cpp:249`), `HandleTimerMessage` does not
  (`win_ui_message_pump.cpp:253-269`): a modal loop in which a task run by
  `WM_TIMER` has opened another may sleep on tasks until `DoRunLoop` goes round
  (`RunByTimer`, `ModalLoopAwake`). The proof showed this exception, since the
  invariant was not inductive without it.
- A comment at `login_manager.cpp:99` says that an account may not log in twice on
  one PC. The mutex is created after the answer, a second after the check, and
  under the lower-case name while the check uses the name as typed
  (`LoggedInIsTaken` covers what remains).
- `app.db` gets the account of its first use as its key (`user_db.cpp:63`), the
  empty one when `ImportDataToDB` comes first. A process that opens it under
  another name cannot read it and answers that the account is not registered
  (`CanRead` in `RegisteredGetsIn`).
- `DoLogout(false)` after a login destroys every window and posts no `WM_QUIT`
  (`login_manager.cpp:208-230`), although the default type is that of a program's
  end: the process stays (`WindowlessIsEnding`).
- The lists asked for by a main form that a logout has destroyed arrive with its
  `this` (`main_form_ui.cpp:197`, `CallbacksFindTheirForm`).

## 6. What is proved

All for every value of the constants that meets the module's named assumptions
(types of the constants, one level of `Run` at least, an identifier of its own for
the main thread, `Lower` idempotent), hence for any number of tasks, threads,
events, frames, dialogs or processes.

| Module | Theorem | States |
|---|---|---|
| MessageLoopProofs | `TypeCorrect`, `Nesting` | `TypeOK`, `NestingRespected` |
| | `NoTaskWhileForbidden` | `RunTaskAssert` |
| | `NothingLost`, `NeverAsleepOnWork`, `NothingIntoDeadLoop` | `Conservation`, `NoLostWakeup`, `NoPostIntoDeadLoop` |
| | `DelayedTasksInOrder`, `QuitRunsWhatItOwes` | `DelayedInOrder`, `QuitDrains` |
| | `LoopImplementsService` | `ImplementsTaskService` |
| FrameworkThreadProofs | `ThreadTypes`, `LoopAlwaysUsable`, `Drained`, `StopResets` | `TypeOK`, `LoopUsable`, `DrainedByStop`, `ResetByStop` |
| UIPumpProofs | `PumpTypes`, `OneMessage`, `PumpAwake` | `TypeOK`, `OneWorkMessage`, `NoSleepOnWork` |
| | `PumpImplementsService` | `ImplementsTaskService` |
| ThreadManagerProofs | `ManagerTypes`, `MapIsExact`, `WorkersReachUI`, `LookupsSafe` | `TypeOK`, `RegistryExact`, `UIReachable`, `LookupSafe` |
| | `RepeatsAreDisciplined`, `RelaysAreOwned` | `RepeatDiscipline`, `RelayOwned` |
| WaitableEventProofs | `EventTypes`, `LocksOrdered`, `WaitersAlive` | `TypeOK`, `NoCircularWait`, `NoDeadWaiter` |
| | `EventsImplementService` | `ImplementsEventService` |
| MediaPlayerProofs | `PlayerTypes`, `NoBitmapForgotten`, `PlaybackStartsStopped`, `DestroyedAtRest` | `TypeOK`, `BitmapsAccounted`, `StartsStopped`, `StopLeavesRest` |
| AsyncModalProofs | `ModalTypes`, `DialogsOutlive` | `TypeOK`, `DialogOutlivesThread` |
| LoginProofs | `LoginTypes`, `OnlyRegistered`, `AssertsHold`, `CallbacksSafe`, `Windowless`, `Taken` | `TypeOK`, `OnlyRegisteredLogIn`, `ButtonsMatchStatus`, `CallbacksFindTheirForm`, `WindowlessIsEnding`, `LoggedInIsTaken` |

*MessageLoop.* `TypeOK` is inductive because it contains the shape of the stack
(`StackOK`): levels above the depth are unused, and each below the innermost is
inside a task. `NestingRespected` is not inductive: that `RunTask` sets
`nestable_tasks_allowed_` to TRUE at the end is right only because the outer task
had it TRUE when the inner one was started. The strengthening says that the flag
is what the running task set, or, between the tasks of a nested `Run`, what the
task below set, and that each task below a running one had it TRUE; outside of
all tasks it is TRUE. `Conservation` needs that no task is twice in a queue or
in two queues (`QueueInv`), and that a dying loop runs nothing.
`NeverAsleepOnWork` needs what each place of `Run` knows (`WakeInv`): a level that
goes to sleep has found its queues empty since its last task, or a wake-up is
signaled or held by a posting thread, and `delayed_work_time_` covers the
earliest delayed task.

The three theorems about order rest on `OrderInv`: the posts in each queue are in
the order in which they were accepted, those in the delayed queue are older than
those in the work queue and these older than the incoming ones, deferred tasks
are due and may not nest, and `recent_tick_` is no later than the clock. So the delayed task on top is
the earliest of all that wait, wherever the later ones are.
`QuitRunsWhatItOwes` adds what a `Run` that was told to quit owes (`OwedInv`): once
`DoWork` has found nothing, none of these tasks is still incoming, and those in
the other queues are what `NeverAsleepOnWork` says about a loop about to sleep.
`LoopImplementsService` maps each action to a post, a start, an end or a discard of
`TaskService`, or to a stutter; that an ordinary task starts before any later one
is again `OrderInv`, since the work queue is empty when the incoming one is taken.

*FrameworkThread.* `ThreadInv` ties the fields to the place of the only run that
is executing (`FieldsOK`: what `message_loop_`, the handle, the identifier and the
event are at each place), the owner's operation to the run (`UseOK`), and says
where a task that is owed can still be: run, or ahead of `DoStopSoon` in the queue
(`QueueOK`), as long as the loop was sent no `WM_QUIT`. The owner's post in `StopSoon`
and `Stop` finds a loop that still runs (`RunningLoop`) or one that its own thread
has stopped since the test (`DeadLoop`).

*UIPump.* A frame can only be at the places of its kind, a task only above the
pump that runs it (`StackOK`). The stack changes in four ways (a frame pushed,
replaced, replaced under a new one, popped), each with its lemmas. `OneMessage`
counts: only the top frame can be between the peek of a `kMsgHaveWork` and its
replacement. `PumpAwake` needs what `DoRunLoop` knows when no task or message is
inside it (`RunOK`: queued tasks are announced since `DoWork` found nothing, and
the time of the earliest delayed one is noted before it waits with a time-out), that nested tasks are forbidden
only while some task is on the stack, above every modal loop marked `fresh`
(`AllowedOK`), and that above such a loop tasks are announced or covered by a
`HandleWorkMessage` that has still to post (`FreshOK`). `PumpImplementsService`
maps the stack to the tasks in it, one inside the other. It needs that only a modal
loop is opened above a task, so there is at most one task more than there are
modal loops (`NestOK`), and that every accepted task that has not started is in
one of the two queues, each in the order of the posts with the work queue ahead of
the incoming one (`WaitOK`).

*ThreadManager.* `WorkersReachUI` needs the order of the main thread's life
(`HostInv`): outside `starting`, `work` and `cleanup` it has no worker, inside it is
managed, and its identifier is nobody else's. `LookupsSafe` needs what keeps the
receiver of a post alive (`PostInv`): no worker is told to stop before the main
thread has left its loop (`StopOK`), and a worker's post goes to the main thread
or, for a callback that repeats, to the worker itself (`ReachOK`). `RepeatsAreDisciplined` needs that a repeated
callback is in one place at a time, a delayed task, a call or a post by
identifier, and that the runs made and the times it carries add up to those
asked for (`RepeatInv`). `RelaysAreOwned` follows a relay from the post that makes
it (`RelayInv`): one queue or one thread has it, a reply is only where the relay
was made, and it is lost only with a loop that is gone, because a worker leaves
its loop with an empty queue and is sent nothing afterwards (`LeftEmpty`).

*WaitableEvent.* `EventInv` says what each thread holds at each place (`LocksOK`:
the locks of a `WaitMultiple` are those of the addresses below the next one, which
makes a circle impossible) and in which lists its waiter is, once each (`LiveOK`).
`EventsImplementService` adds what the locals of a call are at each place
(`CallsOK`): a result is set only on leaving, when the waiter has been disabled, a
waiter that was fired knows by which event, and the events a `WaitMultiple` has
locked so far are not signaled, so it may enqueue in all of them at once. The
queue of the service is the order in which those who still wait stand in the list,
as a set of pairs; it forgets the entries a signal has dealt with and those of
waiters that are fired or disabled, wherever they are. A few lemmas say what
happens to that order when one leaves it, when entries move up and when one is
appended (`OrderWithout`, `OrderMoved`, `OrderAppended`), and then there is one
lemma per action.

*MediaPlayer.* `PlayerInv` adds to the properties which writes may be under way at
each pair of places of the two threads (`PlacesOK`) and what the status can then
be (`StatusOK`). The bitmaps are counted by lemmas on the frames in a queue.

*AsyncModal.* A `Deregister` task in the queue is the only one of its address and
its runner is still there (`TasksOK`), so it is never met by a later runner.

*Login.* A running process is in one of three modes (`LoginMode`, `MainMode`,
`LogoutMode`), each of which says which form is up, what the buttons show and what
may be in the two queues; in particular at most one login is under way in a
process, so the account and the password compared are those asked for.

Every step lemma has one case per action of `Next`, and the runs check the same
properties, which shows that the assumptions can be met.

**Only model-checked:** liveness (`EventuallyRun`, `StopEnds`, `QuitUnwinds`,
`EventuallyStarted`, `AwaitEnds`, `ReleasedReturns`, `CancelAllEnds`, `LoginEnds`,
`RegisteredGetsIn`), since fairness is out of the prover's reach.

## 7. What is not modelled

In the modelled components: task and destruction observers (nobody adds one), the
proxy's own deletion (`OnDestruct`), nested `Run` on the UI pump and its
dispatchers, `os_modal_loop` (never set in the repository), the factory overload
of `StartWithLoop`, a thread that cannot be created, `Terminate`, a thread that
registers twice, workers that post to each other by identifier (nothing would
keep the receiver alive), `Await` from a thread without a loop, `DoModal` after
`CancelAllThreads`, the tasks left when a player is destroyed, the live555 client
of the player, whose frames reach no code that uses them, the branches of
`DoLogout` for a logout by the server, which nothing calls, and memory ordering
below the level of locks and interlocked operations (flags shared without a lock
are read and written atomically).

Components without a module, each listed in `PROJECT.json` with the reason:
`ObserverList`, `LazyInstance`, `AtExitManager`, the IO loop and its pump,
`BlockBuffer`, `ObjectWatcher` and the SQLite transaction are used by no program of
the repository, so a model would have to invent their callers. The Windows
`WaitableEvent`, `Lock` and `Semaphore` wrap one call of the system each. duilib
draws and lays out controls on one thread; strings, files, encryption and the other
utilities are stateless; ffmpeg, live555, sqlite and the libraries under
`third_party` and `libs` are not the project's own code, and they are most of the
lines of the repository.
