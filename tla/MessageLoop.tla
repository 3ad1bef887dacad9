---------------------------- MODULE MessageLoop ----------------------------
(***************************************************************************)
(* nbase::MessageLoop driven by nbase::DefaultMessagePump, with the        *)
(* threads that post to it through its MessageLoopProxy.                   *)
(*                                                                         *)
(* The loop's thread is a stack of Run calls.  depth is                    *)
(* state_->run_depth; level[d] is the activation of DefaultMessagePump::Run*)
(* at depth d together with its AutoRunState.  Only level[depth] executes. *)
(* A level whose pc is "Task" is inside the closure of level.task, which   *)
(* may call anything MessageLoop offers (May says what), a nested Run      *)
(* included.  Foreign threads post through the proxy and can be preempted  *)
(* between the push and the wake-up of the pump.                           *)
(*                                                                         *)
(* A task is posted at most once, so a name of Tasks is one PostTask call. *)
(***************************************************************************)
EXTENDS Naturals, Sequences

CONSTANTS
  Tasks,       \* the PostTask calls of a run, each with the closure it posts
  NoTask,
  Posters,     \* threads other than the loop's
  Nobody,
  Nestable,    \* PendingTask::nestable of each task
  Delay,       \* delay the task is posted with; 0 for PostTask/PostNonNestableTask
  May,         \* what the closure of each task may call
  MaxDepth,    \* bound on nested Run calls
  MaxTime,     \* bound on the clock
  MaxRounds    \* rounds of the destructor's clean-up (100 in the code)

Calls == {"post", "allow", "forbid", "run", "runAllPending", "quit", "quitNow"}

ASSUME ConstantsAssumption ==
  /\ NoTask \notin Tasks
  /\ Nobody \notin Posters
  /\ Nestable \in [Tasks -> BOOLEAN]
  /\ Delay \in [Tasks -> Nat]
  /\ May \in [Tasks -> SUBSET Calls]
  /\ MaxDepth \in Nat \ {0}
  /\ MaxTime \in Nat \ {0}
  /\ MaxRounds \in Nat \ {0}

VARIABLES
  incoming,    \* incoming_queue_
  work,        \* work_queue_
  deferred,    \* deferred_non_nestable_work_queue_
  delayed,     \* delayed_work_queue_, ordered by Before
  seqNum,      \* sequence_num given by AddToDelayedWorkQueue
  nextSeq,     \* next_delayed_task_sequence_num_
  due,         \* delayed_run_time, 0 for the null TimeTicks
  allowed,     \* nestable_tasks_allowed_
  depth,       \* state_->run_depth, 0 when state_ is NULL
  level,       \* the Run activations, 1..depth in use
  shouldQuit,  \* DefaultMessagePump::should_quit_
  wakeTime,    \* DefaultMessagePump::delayed_work_time_
  recent,      \* recent_tick_
  signaled,    \* the pump's auto-reset event_
  now,         \* TimeTicks::Now()
  lock,        \* holder of the proxy's message_loop_lock_
  life,        \* "alive", the step of the destructor, or "gone"
  round,       \* round of the destructor's clean-up
  stamp,       \* history: order in which the posts entered incoming_queue_
  posts,       \* history: number of accepted posts
  refused,     \* history: tasks whose post returned false
  started,     \* history: tasks whose closure has been called
  dropped      \* history: tasks destroyed without being run

queues  == <<work, deferred, delayed, seqNum, nextSeq>>
posting == <<incoming, due, stamp, posts, refused, lock>>
runs    == <<depth, level, shouldQuit>>
clocks  == <<wakeTime, recent, now>>
ending  == <<life, round, dropped>>
vars == <<incoming, work, deferred, delayed, seqNum, nextSeq, due, allowed,
          depth, level, shouldQuit, wakeTime, recent, signaled, now, lock,
          life, round, stamp, posts, refused, started, dropped>>

Level ==
  [pc      : {"None", "DoWork", "Delayed", "Idle", "Sleep", "Asleep", "Task"},
   didWork : BOOLEAN,                  \* did_work of DefaultMessagePump::Run
   quit    : BOOLEAN,                  \* quit_received of the AutoRunState
   task    : Tasks \cup {NoTask},      \* the task being run
   resume  : {"DoWork", "Delayed"},    \* where Run goes on after the task
   opened  : BOOLEAN,                  \* history: the task's last SetNestableTasksAllowed
   owed    : SUBSET Tasks]             \* history: accepted when quit became true

NoLevel == [pc |-> "None", didWork |-> FALSE, quit |-> FALSE, task |-> NoTask,
            resume |-> "DoWork", opened |-> FALSE, owed |-> {}]

Top == level[depth]

Immediate(t) == Delay[t] = 0
Accepted == {t \in Tasks : stamp[t] # 0}
Fresh(t) == stamp[t] = 0 /\ t \notin refused

\* Mutant: operator< orders by sequence_num alone.
IsTopBySequence(t, D, s) ==
  /\ t \in D
  /\ \A u \in D \ {t} : s[t] < s[u]

\* t is the top of the priority queue of the tasks D numbered by s:
\* PendingTask::operator< orders by time, then by sequence_num.
IsTop(t, D, s) ==
  /\ t \in D
  /\ \A u \in D \ {t} : due[t] < due[u] \/ (due[t] = due[u] /\ s[t] < s[u])

Init ==
  /\ incoming = << >> /\ work = << >> /\ deferred = << >>
  /\ delayed = {} /\ seqNum = [t \in Tasks |-> 0] /\ nextSeq = 0
  /\ due = [t \in Tasks |-> 0]
  /\ allowed = TRUE
  /\ depth = 0 /\ level = [d \in 1..MaxDepth |-> NoLevel] /\ shouldQuit = FALSE
  /\ wakeTime = 0 /\ recent = 0 /\ now = 1
  /\ signaled = FALSE
  /\ lock = Nobody
  /\ life = "alive" /\ round = 0
  /\ stamp = [t \in Tasks |-> 0] /\ posts = 0
  /\ refused = {} /\ started = {} /\ dropped = {}

----------------------------------------------------------------------------
(* Posting *)

\* The push of AddToIncomingQueue, with the PendingTask the Post call builds.
Push(t) ==
  /\ Fresh(t)
  /\ now + Delay[t] <= MaxTime
  /\ incoming' = Append(incoming, t)
  /\ due' = [due EXCEPT ![t] = IF Immediate(t) THEN 0 ELSE now + Delay[t]]
  /\ posts' = posts + 1
  /\ stamp' = [stamp EXCEPT ![t] = posts + 1]

\* Mutant: was_empty is read after the push, so the pump is never woken.
PostFromThreadUnseen(p, t) ==
  /\ lock = Nobody
  /\ life # "gone"
  /\ Push(t)
  /\ UNCHANGED <<queues, allowed, runs, clocks, signaled, ending, refused, started, lock>>

\* A foreign thread in PostTaskHelper, up to the release of
\* incoming_queue_lock_.  It keeps message_loop_lock_ if it has to wake the pump.
PostFromThread(p, t) ==
  /\ lock = Nobody
  /\ life # "gone"
  /\ Push(t)
  /\ lock' = IF incoming = << >> THEN p ELSE Nobody
  /\ UNCHANGED <<queues, allowed, runs, clocks, signaled, ending, refused, started>>

\* pump->ScheduleWork(), outside incoming_queue_lock_; PostTaskHelper returns true.
ScheduleWork(p) ==
  /\ lock = p
  /\ signaled' = TRUE
  /\ lock' = Nobody
  /\ UNCHANGED <<queues, allowed, runs, clocks, ending, incoming, due, stamp,
                 posts, refused, started>>

\* PostTaskHelper finds target_message_loop_ null and returns false.
PostRefused(t) ==
  /\ lock = Nobody
  /\ life = "gone"
  /\ Fresh(t)
  /\ refused' = refused \cup {t}
  /\ UNCHANGED <<queues, allowed, runs, clocks, signaled, ending, incoming, due,
                 stamp, posts, lock, started>>

----------------------------------------------------------------------------
(* DefaultMessagePump::Run and the Delegate methods of MessageLoop *)

SetTop(l) == level' = [level EXCEPT ![depth] = l]

\* Run returns: should_quit_ is cleared and ~AutoRunState restores state_.
Return ==
  /\ level' = [level EXCEPT ![depth] = NoLevel]
  /\ depth' = depth - 1
  /\ shouldQuit' = FALSE

\* Every delegate call is followed by "if (should_quit_) break;".
GoOn(l) ==
  IF shouldQuit THEN Return ELSE SetTop(l) /\ UNCHANGED <<depth, shouldQuit>>

\* Run or RunAllPending enters a new level.  runAll sets quit_received at once.
Enter(runAll) ==
  /\ depth < MaxDepth
  /\ ~shouldQuit                                  \* assert at the head of Run
  /\ depth' = depth + 1
  /\ level' = [level EXCEPT ![depth + 1] =
       [NoLevel EXCEPT !.pc = "DoWork", !.quit = runAll,
                       !.owed = IF runAll THEN Accepted ELSE {}]]
  /\ UNCHANGED <<queues, posting, shouldQuit, clocks, signaled, allowed, ending, started>>

\* The thread that owns the loop calls Run or RunAllPending outside any task.
RunFromOwner(runAll) ==
  /\ life = "alive"
  /\ depth = 0
  /\ Enter(runAll)

\* RunTask up to the call of the closure.
RunTask(t, from, resume) ==
  /\ SetTop([from EXCEPT !.pc = "Task", !.task = t, !.resume = resume,
                         !.didWork = TRUE, !.opened = FALSE])
  /\ allowed' = FALSE
  /\ started' = started \cup {t}
  /\ UNCHANGED <<depth, shouldQuit>>

\* Mutant: the depth test of DeferOrRunPendingTask lets nested loops through.
RunnableAnywhere(t) == Nestable[t] \/ depth >= 1

\* DeferOrRunPendingTask returns true
Runnable(t) == Nestable[t] \/ depth = 1

\* Both queues are empty, or nested tasks are not allowed: DoWork returns false.
DoWorkFindsNothing ==
  /\ depth > 0 /\ Top.pc = "DoWork"
  /\ ~allowed \/ (work = << >> /\ incoming = << >>)
  /\ GoOn([Top EXCEPT !.pc = "Delayed", !.didWork = FALSE])
  /\ UNCHANGED <<queues, posting, clocks, signaled, allowed, ending, started>>

\* Mutant: the incoming queue replaces a work queue that is not empty.
ReloadWorkQueueOverwrites ==
  /\ depth > 0 /\ Top.pc = "DoWork" /\ allowed
  /\ incoming # << >>
  /\ work' = incoming
  /\ incoming' = << >>
  /\ UNCHANGED <<deferred, delayed, seqNum, nextSeq, due, stamp, posts, refused,
                 lock, runs, clocks, signaled, allowed, ending, started>>

ReloadWorkQueue ==
  /\ depth > 0 /\ Top.pc = "DoWork" /\ allowed
  /\ work = << >> /\ incoming # << >>
  /\ work' = incoming
  /\ incoming' = << >>
  /\ UNCHANGED <<deferred, delayed, seqNum, nextSeq, due, stamp, posts, refused,
                 lock, runs, clocks, signaled, allowed, ending, started>>

AddToDelayedWorkQueue(t) ==
  /\ delayed' = delayed \cup {t}
  /\ seqNum' = [seqNum EXCEPT ![t] = nextSeq]
  /\ nextSeq' = nextSeq + 1

\* The head of work_queue_ is a delayed task.  The task compared with the top
\* of the queue is the copy whose sequence_num is still 0.
DoWorkMovesDelayed ==
  /\ depth > 0 /\ Top.pc = "DoWork" /\ allowed
  /\ work # << >>
  /\ LET t == Head(work) IN
       /\ ~Immediate(t)
       /\ work' = Tail(work)
       /\ AddToDelayedWorkQueue(t)
       /\ \E u \in delayed \cup {t} :
            /\ IsTop(u, delayed \cup {t}, seqNum')
            /\ wakeTime' = IF seqNum'[u] = 0 THEN due[t] ELSE wakeTime
  /\ UNCHANGED <<deferred, posting, runs, recent, now, signaled, allowed, ending, started>>

\* The head is an immediate task that cannot run in a nested loop.
DoWorkDefers ==
  /\ depth > 0 /\ Top.pc = "DoWork" /\ allowed
  /\ work # << >>
  /\ Immediate(Head(work)) /\ ~Runnable(Head(work))
  /\ work' = Tail(work)
  /\ deferred' = Append(deferred, Head(work))
  /\ UNCHANGED <<delayed, seqNum, nextSeq, posting, runs, clocks, signaled,
                 allowed, ending, started>>

DoWorkRunsTask ==
  /\ depth > 0 /\ Top.pc = "DoWork" /\ allowed
  /\ work # << >>
  /\ Immediate(Head(work)) /\ Runnable(Head(work))
  /\ work' = Tail(work)
  /\ RunTask(Head(work), Top, "Delayed")
  /\ UNCHANGED <<deferred, delayed, seqNum, nextSeq, posting, clocks, signaled, ending>>

\* Where Run goes when DoDelayedWork returns false.
AfterDelayed == [Top EXCEPT !.pc = IF Top.didWork THEN "DoWork" ELSE "Idle"]

\* DoDelayedWork has no delayed task, or may not run one.
DoDelayedWorkFindsNothing ==
  /\ depth > 0 /\ Top.pc = "Delayed"
  /\ ~allowed \/ delayed = {}
  /\ wakeTime' = 0 /\ recent' = 0
  /\ GoOn(AfterDelayed)
  /\ UNCHANGED <<queues, posting, now, signaled, allowed, ending, started>>

\* The earliest task is due after the cached recent_tick_ and after Now().
DoDelayedWorkIsEarly(t) ==
  /\ depth > 0 /\ Top.pc = "Delayed" /\ allowed
  /\ IsTop(t, delayed, seqNum)
  /\ due[t] > recent /\ due[t] > now
  /\ recent' = now /\ wakeTime' = due[t]
  /\ GoOn(AfterDelayed)
  /\ UNCHANGED <<queues, posting, now, signaled, allowed, ending, started>>

\* The earliest task is due: it is run, or deferred by a nested loop.
DoDelayedWorkTakes(t) ==
  /\ depth > 0 /\ Top.pc = "Delayed" /\ allowed
  /\ IsTop(t, delayed, seqNum)
  /\ due[t] <= recent \/ due[t] <= now
  /\ recent' = IF due[t] <= recent THEN recent ELSE now
  /\ delayed' = delayed \ {t}
  /\ IF delayed' = {}
       THEN wakeTime' = wakeTime
       ELSE \E u \in delayed \ {t} :
              IsTop(u, delayed \ {t}, seqNum) /\ wakeTime' = due[u]
  /\ IF Runnable(t)
       THEN RunTask(t, Top, "DoWork") /\ UNCHANGED deferred
       ELSE /\ deferred' = Append(deferred, t)
            /\ GoOn(AfterDelayed)
            /\ UNCHANGED <<allowed, started>>
  /\ UNCHANGED <<work, seqNum, nextSeq, posting, now, signaled, ending>>

\* Mutant: the test of run_depth is dropped.
DoIdleWorkRunsDeferredAnywhere ==
  /\ depth > 0 /\ Top.pc = "Idle"
  /\ deferred # << >>
  /\ deferred' = Tail(deferred)
  /\ RunTask(Head(deferred), Top, "DoWork")
  /\ UNCHANGED <<work, delayed, seqNum, nextSeq, posting, clocks, signaled, ending>>

\* Mutant: the test of run_depth is inverted.
DoIdleWorkRunsDeferredNested == depth > 1 /\ DoIdleWorkRunsDeferredAnywhere

\* ProcessNextDelayedNonNestableTask
DoIdleWorkRunsDeferred ==
  /\ depth = 1 /\ Top.pc = "Idle"
  /\ deferred # << >>
  /\ deferred' = Tail(deferred)
  /\ RunTask(Head(deferred), Top, "DoWork")
  /\ UNCHANGED <<work, delayed, seqNum, nextSeq, posting, clocks, signaled, ending>>

\* Mutant: quit_received is tested before the deferred tasks.
DoIdleWorkQuitsFirst ==
  /\ depth > 0 /\ Top.pc = "Idle"
  /\ Top.quit
  /\ Return
  /\ UNCHANGED <<queues, posting, clocks, signaled, allowed, ending, started>>

\* quit_received: pump_->Quit(), and Run leaves its loop.
DoIdleWorkQuits ==
  /\ depth > 0 /\ Top.pc = "Idle"
  /\ depth # 1 \/ deferred = << >>
  /\ Top.quit
  /\ Return
  /\ UNCHANGED <<queues, posting, clocks, signaled, allowed, ending, started>>

DoIdleWorkFindsNothing ==
  /\ depth > 0 /\ Top.pc = "Idle"
  /\ depth # 1 \/ deferred = << >>
  /\ ~Top.quit
  /\ GoOn([Top EXCEPT !.pc = "Sleep"])
  /\ UNCHANGED <<queues, posting, clocks, signaled, allowed, ending, started>>

\* delayed_work_time_ is null or in the future: Wait or WaitTimeout.
FallAsleep ==
  /\ depth > 0 /\ Top.pc = "Sleep"
  /\ wakeTime = 0 \/ wakeTime > now
  /\ SetTop([Top EXCEPT !.pc = "Asleep"])
  /\ UNCHANGED <<queues, posting, depth, shouldQuit, clocks, signaled, allowed, ending, started>>

\* delayed_work_time_ has passed: it is forgotten and the loop goes round.
SkipSleep ==
  /\ depth > 0 /\ Top.pc = "Sleep"
  /\ wakeTime # 0 /\ wakeTime <= now
  /\ wakeTime' = 0
  /\ SetTop([Top EXCEPT !.pc = "DoWork"])
  /\ UNCHANGED <<queues, posting, depth, shouldQuit, recent, now, signaled, allowed,
                 ending, started>>

WakeBySignal ==
  /\ depth > 0 /\ Top.pc = "Asleep"
  /\ signaled
  /\ signaled' = FALSE
  /\ SetTop([Top EXCEPT !.pc = "DoWork"])
  /\ UNCHANGED <<queues, posting, depth, shouldQuit, clocks, allowed, ending, started>>

WakeByTimeout ==
  /\ depth > 0 /\ Top.pc = "Asleep"
  /\ wakeTime # 0 /\ wakeTime <= now
  /\ SetTop([Top EXCEPT !.pc = "DoWork"])
  /\ UNCHANGED <<queues, posting, depth, shouldQuit, clocks, signaled, allowed, ending, started>>

----------------------------------------------------------------------------
(* What the closure of the running task may call *)

Running(call) == depth > 0 /\ Top.pc = "Task" /\ call \in May[Top.task]

\* MessageLoop::current()->Post...: push and wake-up with no other step of
\* this thread between them.
PostFromTask(t) ==
  /\ Running("post")
  /\ Push(t)
  /\ signaled' = (signaled \/ incoming = << >>)
  /\ UNCHANGED <<queues, allowed, runs, clocks, ending, refused, lock, started>>

SetNestableTasksAllowed(b) ==
  /\ Running(IF b THEN "allow" ELSE "forbid")
  /\ allowed # b
  /\ allowed' = b
  /\ signaled' = (signaled \/ b)
  /\ SetTop([Top EXCEPT !.opened = b])
  /\ UNCHANGED <<queues, posting, depth, shouldQuit, clocks, ending, started>>

RunFromTask(runAll) ==
  /\ Running(IF runAll THEN "runAllPending" ELSE "run")
  /\ Enter(runAll)

Quit ==
  /\ Running("quit")
  /\ SetTop([Top EXCEPT !.quit = TRUE,
                        !.owed = IF Top.quit THEN Top.owed ELSE Accepted])
  /\ UNCHANGED <<queues, posting, depth, shouldQuit, clocks, signaled, allowed, ending, started>>

QuitNow ==
  /\ Running("quitNow")
  /\ shouldQuit' = TRUE
  /\ UNCHANGED <<queues, posting, depth, level, clocks, signaled, allowed, ending, started>>

\* The closure returns to RunTask, RunTask to the delegate method, that to Run.
FinishTask ==
  /\ depth > 0 /\ Top.pc = "Task"
  /\ allowed' = TRUE
  /\ GoOn([Top EXCEPT !.pc = Top.resume, !.task = NoTask, !.opened = FALSE])
  /\ UNCHANGED <<queues, posting, clocks, signaled, ending, started>>

----------------------------------------------------------------------------
(* ~MessageLoop *)

Delete ==
  /\ life = "alive" /\ depth = 0
  /\ life' = "Delete"
  /\ UNCHANGED <<queues, posting, runs, clocks, signaled, allowed, round, dropped, started>>

Elements(s) == {s[i] : i \in 1..Len(s)}

\* Mutant: the deferred queue is forgotten.
DeletePendingTasksKeepsDeferred ==
  /\ life \in {"Delete", "Redelete"}
  /\ dropped' = dropped \cup Elements(work) \cup delayed
  /\ life' = IF life = "Delete" THEN "Reload" ELSE "Notify"
  /\ work' = << >> /\ delayed' = {}
  /\ UNCHANGED <<deferred, seqNum, nextSeq, posting, runs, clocks, signaled, allowed,
                 round, started>>

\* DeletePendingTasks, called before and after ReloadWorkQueue.  has_work is
\* true when there was a delayed task, from either queue.
DeletePendingTasks ==
  /\ life \in {"Delete", "Redelete"}
  /\ LET removed == Elements(work) \cup Elements(deferred) \cup delayed
         hasWork == \E t \in Elements(work) \cup delayed : ~Immediate(t)
     IN /\ dropped' = dropped \cup removed
        /\ IF life = "Delete"
             THEN life' = "Reload" /\ round' = round
             ELSE /\ round' = round + 1
                  /\ life' = IF hasWork /\ round + 1 < MaxRounds THEN "Delete" ELSE "Notify"
  /\ work' = << >> /\ deferred' = << >> /\ delayed' = {}
  /\ UNCHANGED <<seqNum, nextSeq, posting, runs, clocks, signaled, allowed, started>>

ReloadForDelete ==
  /\ life = "Reload"
  /\ life' = "Redelete"
  /\ work' = incoming
  /\ incoming' = << >>
  /\ UNCHANGED <<deferred, delayed, seqNum, nextSeq, due, stamp, posts, refused, lock,
                 runs, clocks, signaled, allowed, round, dropped, started>>

\* The destructor of a dropped closure posts to the loop being destroyed.
PostFromDestructor(t) ==
  /\ life \in {"Reload", "Delete", "Notify"}
  /\ \E u \in dropped : "post" \in May[u]
  /\ Push(t)
  /\ signaled' = (signaled \/ incoming = << >>)
  /\ UNCHANGED <<queues, allowed, runs, clocks, ending, refused, lock, started>>

\* Mutant: the proxy is told without its lock.
DisappearUnlocked ==
  /\ life = "Notify"
  /\ life' = "gone"
  /\ dropped' = dropped \cup Elements(incoming)
  /\ incoming' = << >>
  /\ UNCHANGED <<queues, due, stamp, posts, refused, lock, runs, clocks, signaled,
                 allowed, round, started>>

\* WillDestroyCurrentMessageLoop takes message_loop_lock_; then the members,
\* incoming_queue_ among them, are destroyed.
Disappear ==
  /\ life = "Notify"
  /\ lock = Nobody
  /\ life' = "gone"
  /\ dropped' = dropped \cup Elements(incoming)
  /\ incoming' = << >>
  /\ UNCHANGED <<queues, due, stamp, posts, refused, lock, runs, clocks, signaled,
                 allowed, round, started>>

Tick ==
  /\ now < MaxTime
  /\ now' = now + 1
  /\ UNCHANGED <<queues, posting, runs, wakeTime, recent, signaled, allowed, ending, started>>

----------------------------------------------------------------------------
PumpStep ==
  \/ DoWorkFindsNothing \/ ReloadWorkQueue \/ DoWorkMovesDelayed
  \/ DoWorkDefers \/ DoWorkRunsTask
  \/ DoDelayedWorkFindsNothing
  \/ \E t \in Tasks : DoDelayedWorkIsEarly(t) \/ DoDelayedWorkTakes(t)
  \/ DoIdleWorkRunsDeferred \/ DoIdleWorkQuits \/ DoIdleWorkFindsNothing
  \/ FallAsleep \/ SkipSleep \/ WakeBySignal \/ WakeByTimeout

TaskStep ==
  \/ \E t \in Tasks : PostFromTask(t)
  \/ \E b \in BOOLEAN : SetNestableTasksAllowed(b) \/ RunFromTask(b)
  \/ Quit \/ QuitNow

Destructor ==
  \/ Delete \/ DeletePendingTasks \/ ReloadForDelete \/ Disappear
  \/ \E t \in Tasks : PostFromDestructor(t)

Next ==
  \/ \E p \in Posters : ScheduleWork(p) \/ \E t \in Tasks : PostFromThread(p, t)
  \/ \E t \in Tasks : PostRefused(t)
  \/ \E b \in BOOLEAN : RunFromOwner(b)
  \/ PumpStep \/ TaskStep \/ FinishTask \/ Destructor \/ Tick

Spec == Init /\ [][Next]_vars

\* The loop's thread and a thread inside PostTaskHelper are scheduled, the
\* clock advances, and the closure of a task returns in the end.
Fairness ==
  /\ WF_vars(PumpStep)
  /\ SF_vars(FinishTask)
  /\ \A p \in Posters : WF_vars(ScheduleWork(p))
  /\ WF_vars(Tick)

FairSpec == Spec /\ Fairness

----------------------------------------------------------------------------
(* Properties *)

QueuesOK ==
  /\ incoming \in Seq(Tasks) /\ work \in Seq(Tasks) /\ deferred \in Seq(Tasks)
  /\ delayed \subseteq Tasks /\ seqNum \in [Tasks -> Nat] /\ nextSeq \in Nat

HistoryOK ==
  /\ due \in [Tasks -> Nat] /\ stamp \in [Tasks -> Nat] /\ posts \in Nat
  /\ refused \subseteq Tasks /\ started \subseteq Tasks /\ dropped \subseteq Tasks

PumpOK ==
  /\ allowed \in BOOLEAN /\ shouldQuit \in BOOLEAN /\ signaled \in BOOLEAN
  /\ wakeTime \in Nat /\ recent \in Nat /\ now \in Nat
  /\ lock \in Posters \cup {Nobody}
  /\ life \in {"alive", "Delete", "Reload", "Redelete", "Notify", "gone"}
  /\ round \in Nat

\* A level in use: it is inside a task exactly when it has one.
InUse(l) ==
  /\ l \in Level /\ l.pc # "None"
  /\ l.pc = "Task" <=> l.task # NoTask

StackOK ==
  /\ depth \in 0..MaxDepth
  /\ level \in [1..MaxDepth -> Level]
  /\ \A d \in 1..MaxDepth :
       /\ d <= depth => InUse(level[d])
       /\ d > depth => level[d] = NoLevel
       /\ d < depth => level[d].pc = "Task"

\* Every variable keeps its type; the levels above run_depth are unused and
\* each level below the innermost one is inside the task that nested it.
TypeOK == QueuesOK /\ HistoryOK /\ PumpOK /\ StackOK

\* The places an accepted, not yet started task can wait in.
Queued == Elements(incoming) \cup Elements(work) \cup Elements(deferred) \cup delayed

\* A task whose post returned true is either waiting in a queue, or has been
\* started, or was dropped by the destructor, and only one of these: nothing
\* is lost or run twice on its way through the four queues, whatever the
\* nesting (AddToIncomingQueue, ReloadWorkQueue, DoWork, DoDelayedWork,
\* ProcessNextDelayedNonNestableTask, ~MessageLoop).
Conservation ==
  /\ Accepted = Queued \cup started \cup dropped
  /\ Queued \cap (started \cup dropped) = {}
  /\ started \cap dropped = {}
  /\ refused \cap Accepted = {}

\* The pump never sleeps on work it could do: asleep with no wake-up on its
\* way, it has no task it may take, and sleeps no longer than until the
\* earliest delayed task (the was_empty test of AddToIncomingQueue against
\* ReloadWorkQueue and the auto-reset event).
NoLostWakeup ==
  (depth > 0 /\ Top.pc = "Asleep" /\ allowed /\ ~signaled) =>
    /\ work = << >>
    /\ incoming # << >> => lock # Nobody
    /\ depth = 1 => deferred = << >>
    /\ \A t \in delayed : wakeTime # 0 /\ wakeTime <= due[t]

\* Task reentrancy protection (message_loop.h:30-32): a task runs inside
\* another one only while the outer one has enabled nested tasks, and
\* nestable_tasks_allowed_ is that of the innermost running task in spite of
\* RunTask setting it to true when the nested task ends.
ReentrancyProtected ==
  /\ \A d \in 2..depth : level[d].pc = "Task" => level[d - 1].opened
  /\ depth > 0 /\ Top.pc = "Task" => allowed = Top.opened

\* PostNonNestableTask (message_loop.h:100-103): a non-nestable task never
\* runs inside another task, whether it came from the work, the delayed or the
\* deferred queue.
NonNestableAtTop ==
  \A d \in 2..depth : level[d].pc = "Task" => Nestable[level[d].task]

\* What nested loops may not break (message_loop.h:30-32, 100-103): which tasks
\* run inside which, and the flag that decides it.
NestingRespected == ReentrancyProtected /\ NonNestableAtTop

\* The assert of RunTask (message_loop.cpp:263): a task is started only while
\* nested tasks are allowed, also by DoIdleWork, which does not test it.
RunTaskAssert == [][started' # started => allowed]_vars

\* A delayed task is not started before its time, although DoDelayedWork first
\* compares with the cached recent_tick_.  One taken from the delayed queue is the
\* earliest due there, and overtakes none that was posted before it and is due no
\* later, wherever that one waits, unless a nested loop has deferred it.
DelayedInOrder ==
  [][\A t \in (started' \ started) :
       ~Immediate(t) =>
         /\ due[t] <= now
         /\ t \in delayed =>
              /\ \A u \in delayed : due[t] <= due[u]
              /\ \A u \in Queued :
                   (/\ ~Immediate(u) /\ stamp[u] < stamp[t] /\ due[u] <= due[t])
                      => u \in Elements(deferred)]_vars

\* Quit (message_loop.h:88-91): a Run that ends because of Quit, not QuitNow,
\* has first run every task without delay accepted before the Quit call;
\* a nested one those it may run.
QuitDrains ==
  [][\A d \in 1..MaxDepth :
       (/\ depth = d /\ depth' = d - 1 /\ Top.pc = "Idle" /\ allowed) =>
         \A t \in Top.owed :
           (Immediate(t) /\ (Nestable[t] \/ d = 1)) => t \in started \cup dropped]_vars

\* No thread is still inside AddToIncomingQueue when the loop's members are
\* destroyed (message_loop_lock_ is held across the post and by
\* WillDestroyCurrentMessageLoop).
NoPostIntoDeadLoop == life = "gone" => lock = Nobody /\ incoming = << >>

\* A nested loop that was entered without enabling nested tasks does nothing.
Blocked == depth > 1 /\ ~allowed /\ Top.pc # "Task"

\* An accepted nestable task is started, at any depth, unless Run returns
\* to its owner (it quits) or the loop is blocked by its caller.
EventuallyStarted ==
  \A t \in Tasks :
    (stamp[t] # 0 /\ Nestable[t]) ~> (t \in started \/ depth = 0 \/ Blocked)

\* A non-nestable task deferred by a nested loop is started once the loop is
\* back at the top level for good.
DeferredEventuallyStarted ==
  \A t \in Tasks :
    (<>[](depth = 1)) => ((t \in Elements(deferred)) ~> (t \in started))

\* Accepted tasks are started in the end: those the loop itself may run, and those
\* that a nested loop deferred.
EventuallyRun == EventuallyStarted /\ DeferredEventuallyStarted
============================================================================
