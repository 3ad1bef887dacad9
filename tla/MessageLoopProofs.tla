------------------------ MODULE MessageLoopProofs ------------------------
(* Theorems about MessageLoop, for every value of its constants. *)
EXTENDS MessageLoopService, TLAPS, SequenceTheorems

(***************************************************************************)
(* The stack of Run calls                                                  *)
(***************************************************************************)

\* NoLevel is a level.
LEMMA NoLevelType == NoLevel \in Level
  BY DEF NoLevel, Level

\* Replacing the innermost level by one in use keeps the stack well formed.
LEMMA SetTopStack ==
  ASSUME StackOK, depth > 0, NEW l, InUse(l), SetTop(l), depth' = depth
  PROVE  StackOK'
  BY ConstantsAssumption DEF StackOK, SetTop, InUse, ConstantsAssumption

\* Returning from the innermost Run keeps the stack well formed.
LEMMA ReturnStack ==
  ASSUME StackOK, depth > 0, Return
  PROVE  StackOK'
  BY NoLevelType, ConstantsAssumption DEF StackOK, Return, InUse, ConstantsAssumption

LEMMA GoOnStack ==
  ASSUME StackOK, depth > 0, NEW l, InUse(l), GoOn(l)
  PROVE  StackOK' /\ shouldQuit' \in {shouldQuit, FALSE}
  <1>1. CASE shouldQuit
    BY <1>1, ReturnStack DEF GoOn, Return
  <1>2. CASE ~shouldQuit
    BY <1>2, SetTopStack DEF GoOn
  <1> QED
    BY <1>1, <1>2

\* A nested Run is only entered from inside a task.
LEMMA EnterStack ==
  ASSUME StackOK, HistoryOK, NEW runAll \in BOOLEAN, Enter(runAll),
         depth = 0 \/ Top.pc = "Task"
  PROVE  StackOK'
  <1> DEFINE l == [NoLevel EXCEPT !.pc = "DoWork", !.quit = runAll,
                                  !.owed = IF runAll THEN Accepted ELSE {}]
  <1>1. InUse(l)
    BY DEF InUse, NoLevel, Level, Accepted
  <1> HIDE DEF l
  <1>2. level' = [level EXCEPT ![depth + 1] = l] /\ depth' = depth + 1 /\ depth < MaxDepth
    BY DEF Enter, l
  <1> QED
    BY <1>1, <1>2, ConstantsAssumption DEF StackOK, InUse, Top, ConstantsAssumption

\* The innermost level is one in use.
LEMMA TopInUse == ASSUME StackOK, depth > 0 PROVE InUse(Top)
  BY ConstantsAssumption DEF StackOK, Top, ConstantsAssumption

\* A level that is not inside a task goes on to another pc.
LEMMA PcChange ==
  ASSUME NEW l, InUse(l), NEW b \in BOOLEAN, l.pc # "Task",
         NEW pc \in {"DoWork", "Delayed", "Idle", "Sleep", "Asleep"}
  PROVE  /\ InUse([l EXCEPT !.pc = pc]) /\ [l EXCEPT !.pc = pc].pc = pc
         /\ InUse([l EXCEPT !.pc = pc, !.didWork = b])
         /\ [l EXCEPT !.pc = pc, !.didWork = b].pc = pc
  BY DEF InUse, Level

\* So does one whose DoDelayedWork returned false.
LEMMA AfterDelayedInUse ==
  ASSUME StackOK, depth > 0, Top.pc = "Delayed"
  PROVE  InUse(AfterDelayed) /\ AfterDelayed.pc # "Task"
  BY TopInUse, PcChange DEF AfterDelayed

\* Starting a task keeps the stack well formed.
LEMMA RunTaskStack ==
  ASSUME StackOK, depth > 0, NEW t \in Tasks, NEW resume \in {"DoWork", "Delayed"},
         RunTask(t, Top, resume)
  PROVE  StackOK'
  <1> DEFINE l == [Top EXCEPT !.pc = "Task", !.task = t, !.resume = resume,
                              !.didWork = TRUE, !.opened = FALSE]
  <1>1. InUse(l)
    BY TopInUse, ConstantsAssumption DEF InUse, Level, ConstantsAssumption
  <1> QED
    BY <1>1, SetTopStack DEF RunTask

(***************************************************************************)
(* Type correctness                                                        *)
(***************************************************************************)

LEMMA InitType == Init => TypeOK
  <1> SUFFICES ASSUME Init PROVE TypeOK
    OBVIOUS
  <1> USE ConstantsAssumption DEF Init, ConstantsAssumption
  <1>1. QueuesOK
    BY EmptySeq DEF QueuesOK
  <1>2. HistoryOK /\ PumpOK
    BY DEF HistoryOK, PumpOK
  <1>3. StackOK
    BY NoLevelType DEF StackOK
  <1> QED
    BY <1>1, <1>2, <1>3 DEF TypeOK

\* The elements of a queue.
LEMMA ElementsType == ASSUME NEW s \in Seq(Tasks) PROVE Elements(s) \subseteq Tasks
  BY DEF Elements

\* Posting appends to the incoming queue and numbers the post.
LEMMA PushType ==
  ASSUME QueuesOK, HistoryOK, PumpOK, NEW t \in Tasks, Push(t)
  PROVE  /\ incoming' \in Seq(Tasks)
         /\ due' \in [Tasks -> Nat] /\ stamp' \in [Tasks -> Nat] /\ posts' \in Nat
  <1>1. incoming' \in Seq(Tasks)
    BY AppendProperties DEF Push, QueuesOK
  <1>2. Delay[t] \in Nat
    BY ConstantsAssumption DEF ConstantsAssumption
  <1>3. stamp' \in [Tasks -> Nat] /\ posts' \in Nat
    BY DEF Push, HistoryOK
  <1>4. due' \in [Tasks -> Nat]
    BY <1>2 DEF Push, HistoryOK, PumpOK
  <1> QED
    BY <1>1, <1>3, <1>4

\* Every step keeps the types and the shape of the stack.
LEMMA TypeStep == TypeOK /\ [Next]_vars => TypeOK'
  <1> SUFFICES ASSUME TypeOK, [Next]_vars PROVE TypeOK'
    OBVIOUS
  <1> USE DEF TypeOK, queues, posting, runs, clocks, ending
  <1>a. ASSUME UNCHANGED <<depth, level>> PROVE StackOK'
    BY <1>a DEF StackOK
  <1>0. CASE UNCHANGED vars
    BY <1>0, <1>a DEF vars, QueuesOK, HistoryOK, PumpOK
  <1>1. ASSUME NEW p \in Posters, ScheduleWork(p) PROVE TypeOK'
    BY <1>1, <1>a DEF ScheduleWork, QueuesOK, HistoryOK, PumpOK
  <1>2. ASSUME NEW p \in Posters, NEW t \in Tasks, PostFromThread(p, t) PROVE TypeOK'
    BY <1>2, <1>a, PushType DEF PostFromThread, QueuesOK, HistoryOK, PumpOK
  <1>3. ASSUME NEW t \in Tasks, PostRefused(t) PROVE TypeOK'
    BY <1>3, <1>a DEF PostRefused, QueuesOK, HistoryOK, PumpOK
  <1>4. ASSUME NEW b \in BOOLEAN, RunFromOwner(b) PROVE TypeOK'
    BY <1>4, EnterStack DEF RunFromOwner, Enter, QueuesOK, HistoryOK, PumpOK
  <1>5. CASE PumpStep
    <2>1. CASE DoWorkFindsNothing
      <3>1. InUse([Top EXCEPT !.pc = "Delayed", !.didWork = FALSE])
        BY <2>1, PcChange, TopInUse DEF DoWorkFindsNothing
      <3> QED
        BY <2>1, <3>1, GoOnStack DEF DoWorkFindsNothing, QueuesOK, HistoryOK, PumpOK
    <2>2. CASE ReloadWorkQueue
      BY <2>2, <1>a, EmptySeq DEF ReloadWorkQueue, QueuesOK, HistoryOK, PumpOK
    <2>3. CASE DoWorkMovesDelayed
      <3> DEFINE t == Head(work)
      <3>1. t \in Tasks /\ Tail(work) \in Seq(Tasks)
        BY <2>3, HeadTailProperties DEF DoWorkMovesDelayed, QueuesOK
      <3>2. due[t] \in Nat
        BY <3>1 DEF HistoryOK
      <3>3. QueuesOK'
        BY <2>3, <3>1 DEF DoWorkMovesDelayed, AddToDelayedWorkQueue, QueuesOK
      <3>4. wakeTime' \in Nat
        BY <2>3, <3>2 DEF DoWorkMovesDelayed, PumpOK
      <3> QED
        BY <2>3, <1>a, <3>3, <3>4 DEF DoWorkMovesDelayed, HistoryOK, PumpOK
    <2>4. CASE DoWorkDefers
      <3>1. Head(work) \in Tasks /\ Tail(work) \in Seq(Tasks)
        BY <2>4, HeadTailProperties DEF DoWorkDefers, QueuesOK
      <3>2. deferred' \in Seq(Tasks)
        BY <2>4, <3>1, AppendProperties DEF DoWorkDefers, QueuesOK
      <3> QED
        BY <2>4, <1>a, <3>1, <3>2 DEF DoWorkDefers, QueuesOK, HistoryOK, PumpOK
    <2>5. CASE DoWorkRunsTask
      <3>1. Head(work) \in Tasks /\ Tail(work) \in Seq(Tasks)
        BY <2>5, HeadTailProperties DEF DoWorkRunsTask, QueuesOK
      <3>2. StackOK'
        BY <2>5, <3>1, RunTaskStack DEF DoWorkRunsTask
      <3> QED
        BY <2>5, <3>1, <3>2 DEF DoWorkRunsTask, RunTask, QueuesOK, HistoryOK, PumpOK
    <2>6. CASE DoDelayedWorkFindsNothing
      <3>1. InUse(AfterDelayed)
        BY <2>6, AfterDelayedInUse DEF DoDelayedWorkFindsNothing
      <3> QED
        BY <2>6, <3>1, GoOnStack DEF DoDelayedWorkFindsNothing, QueuesOK, HistoryOK, PumpOK
    <2>7. ASSUME NEW t \in Tasks, DoDelayedWorkIsEarly(t) PROVE TypeOK'
      <3>1. InUse(AfterDelayed)
        BY <2>7, AfterDelayedInUse DEF DoDelayedWorkIsEarly
      <3> QED
        BY <2>7, <3>1, GoOnStack DEF DoDelayedWorkIsEarly, QueuesOK, HistoryOK, PumpOK
    <2>8. ASSUME NEW t \in Tasks, DoDelayedWorkTakes(t) PROVE TypeOK'
      <3>1. InUse(AfterDelayed)
        BY <2>8, AfterDelayedInUse DEF DoDelayedWorkTakes
      <3>2. StackOK'
        BY <2>8, <3>1, GoOnStack, RunTaskStack DEF DoDelayedWorkTakes
      <3>3. wakeTime' \in Nat /\ recent' \in Nat
        BY <2>8 DEF DoDelayedWorkTakes, QueuesOK, HistoryOK, PumpOK
      <3>4. deferred' \in Seq(Tasks)
        <4>1. CASE Runnable(t)
          BY <2>8, <4>1 DEF DoDelayedWorkTakes, QueuesOK
        <4>2. CASE ~Runnable(t)
          <5>1. deferred' = Append(deferred, t)
            BY <2>8, <4>2 DEF DoDelayedWorkTakes
          <5> QED
            BY <5>1, AppendProperties DEF QueuesOK
        <4> QED
          BY <4>1, <4>2
      <3>5. allowed' \in BOOLEAN /\ started' \subseteq Tasks
        BY <2>8 DEF DoDelayedWorkTakes, RunTask, HistoryOK, PumpOK
      <3>6. shouldQuit' \in BOOLEAN
        BY <2>8 DEF DoDelayedWorkTakes, RunTask, GoOn, Return, PumpOK
      <3> QED
        BY <2>8, <3>2, <3>3, <3>4, <3>5, <3>6 DEF DoDelayedWorkTakes, QueuesOK, HistoryOK, PumpOK
    <2>9. CASE DoIdleWorkRunsDeferred
      <3>1. Head(deferred) \in Tasks /\ Tail(deferred) \in Seq(Tasks)
        BY <2>9, HeadTailProperties DEF DoIdleWorkRunsDeferred, QueuesOK
      <3>2. StackOK'
        BY <2>9, <3>1, RunTaskStack DEF DoIdleWorkRunsDeferred, StackOK
      <3> QED
        BY <2>9, <3>1, <3>2 DEF DoIdleWorkRunsDeferred, RunTask, QueuesOK, HistoryOK, PumpOK
    <2>10. CASE DoIdleWorkQuits
      BY <2>10, ReturnStack DEF DoIdleWorkQuits, Return, QueuesOK, HistoryOK, PumpOK
    <2>11. CASE DoIdleWorkFindsNothing
      <3>1. InUse([Top EXCEPT !.pc = "Sleep"])
        BY <2>11, PcChange, TopInUse DEF DoIdleWorkFindsNothing
      <3> QED
        BY <2>11, <3>1, GoOnStack DEF DoIdleWorkFindsNothing, QueuesOK, HistoryOK, PumpOK
    <2>12. CASE FallAsleep
      <3>1. InUse([Top EXCEPT !.pc = "Asleep"])
        BY <2>12, PcChange, TopInUse DEF FallAsleep
      <3> QED
        BY <2>12, <3>1, SetTopStack DEF FallAsleep, QueuesOK, HistoryOK, PumpOK
    <2>13. CASE SkipSleep
      <3>1. InUse([Top EXCEPT !.pc = "DoWork"])
        BY <2>13, PcChange, TopInUse DEF SkipSleep
      <3> QED
        BY <2>13, <3>1, SetTopStack DEF SkipSleep, QueuesOK, HistoryOK, PumpOK
    <2>14. CASE WakeBySignal
      <3>1. InUse([Top EXCEPT !.pc = "DoWork"])
        BY <2>14, PcChange, TopInUse DEF WakeBySignal
      <3> QED
        BY <2>14, <3>1, SetTopStack DEF WakeBySignal, QueuesOK, HistoryOK, PumpOK
    <2>15. CASE WakeByTimeout
      <3>1. InUse([Top EXCEPT !.pc = "DoWork"])
        BY <2>15, PcChange, TopInUse DEF WakeByTimeout
      <3> QED
        BY <2>15, <3>1, SetTopStack DEF WakeByTimeout, QueuesOK, HistoryOK, PumpOK
    <2> QED
      BY <1>5, <2>1, <2>2, <2>3, <2>4, <2>5, <2>6, <2>7, <2>8, <2>9, <2>10, <2>11,
         <2>12, <2>13, <2>14, <2>15 DEF PumpStep
  <1>6. CASE TaskStep
    <2>1. ASSUME NEW t \in Tasks, PostFromTask(t) PROVE TypeOK'
      BY <2>1, <1>a, PushType DEF PostFromTask, QueuesOK, HistoryOK, PumpOK
    <2>2. ASSUME NEW b \in BOOLEAN, SetNestableTasksAllowed(b) PROVE TypeOK'
      <3>1. InUse([Top EXCEPT !.opened = b])
        BY <2>2, TopInUse DEF SetNestableTasksAllowed, Running, InUse, Level
      <3> QED
        BY <2>2, <3>1, SetTopStack DEF SetNestableTasksAllowed, Running, QueuesOK, HistoryOK, PumpOK
    <2>3. ASSUME NEW b \in BOOLEAN, RunFromTask(b) PROVE TypeOK'
      BY <2>3, EnterStack DEF RunFromTask, Running, Enter, QueuesOK, HistoryOK, PumpOK
    <2>4. CASE Quit
      <3>1. InUse([Top EXCEPT !.quit = TRUE,
                              !.owed = IF Top.quit THEN Top.owed ELSE Accepted])
        BY <2>4, TopInUse DEF Quit, Running, InUse, Level, Accepted
      <3> QED
        BY <2>4, <3>1, SetTopStack DEF Quit, Running, QueuesOK, HistoryOK, PumpOK
    <2>5. CASE QuitNow
      BY <2>5, <1>a DEF QuitNow, QueuesOK, HistoryOK, PumpOK
    <2> QED
      BY <1>6, <2>1, <2>2, <2>3, <2>4, <2>5 DEF TaskStep
  <1>7. CASE FinishTask
    <2>1. InUse([Top EXCEPT !.pc = Top.resume, !.task = NoTask, !.opened = FALSE])
      BY <1>7, TopInUse DEF FinishTask, InUse, Level
    <2> QED
      BY <1>7, <2>1, GoOnStack DEF FinishTask, QueuesOK, HistoryOK, PumpOK
  <1>8. CASE Destructor
    <2>1. CASE Delete
      BY <2>1, <1>a DEF Delete, QueuesOK, HistoryOK, PumpOK
    <2>2. CASE DeletePendingTasks
      <3>1. Elements(work) \cup Elements(deferred) \cup delayed \subseteq Tasks
        BY ElementsType DEF QueuesOK
      <3> HIDE DEF Elements
      <3>2. QueuesOK'
        BY <2>2, EmptySeq DEF DeletePendingTasks, QueuesOK
      <3>3. HistoryOK' /\ PumpOK'
        BY <2>2, <3>1 DEF DeletePendingTasks, HistoryOK, PumpOK
      <3>4. StackOK'
        BY <2>2, <1>a DEF DeletePendingTasks
      <3> QED
        BY <3>2, <3>3, <3>4
    <2>3. CASE ReloadForDelete
      BY <2>3, <1>a DEF ReloadForDelete, QueuesOK, HistoryOK, PumpOK
    <2>4. CASE Disappear
      BY <2>4, <1>a DEF Disappear, QueuesOK, HistoryOK, PumpOK, Elements
    <2>5. ASSUME NEW t \in Tasks, PostFromDestructor(t) PROVE TypeOK'
      BY <2>5, <1>a, PushType DEF PostFromDestructor, QueuesOK, HistoryOK, PumpOK
    <2> QED
      BY <1>8, <2>1, <2>2, <2>3, <2>4, <2>5 DEF Destructor
  <1>9. CASE Tick
    BY <1>9, <1>a DEF Tick, QueuesOK, HistoryOK, PumpOK
  <1> QED
    BY <1>0, <1>1, <1>2, <1>3, <1>4, <1>5, <1>6, <1>7, <1>8, <1>9 DEF Next

\* TypeOK holds in every reachable state.
THEOREM TypeCorrect == Spec => []TypeOK
  <1>1. Init => TypeOK
    BY InitType
  <1>2. TypeOK /\ [Next]_vars => TypeOK'
    BY TypeStep
  <1> QED
    BY <1>1, <1>2, PTL DEF Spec

(***************************************************************************)
(* What a step does to the stack of Run calls                              *)
(***************************************************************************)

StackMoves ==
  /\ depth > 0 /\ Top.pc # "Task"
  /\ \E l \in Level : InUse(l) /\ l.pc # "Task" /\ SetTop(l)
  /\ UNCHANGED <<depth, allowed, started>>

StackReturns ==
  /\ depth > 0 /\ Top.pc # "Task"
  /\ Return
  /\ UNCHANGED <<allowed, started>>

\* The three places tasks are started from.
TaskTaken(t) ==
  \/ DoWorkRunsTask /\ t = Head(work)
  \/ DoDelayedWorkTakes(t)
  \/ DoIdleWorkRunsDeferred /\ t = Head(deferred)

StackStarts(t) ==
  /\ depth > 0 /\ Top.pc # "Task"
  /\ allowed \/ (depth = 1 /\ Top.pc = "Idle")
  /\ Runnable(t)
  /\ TaskTaken(t)
  /\ \E resume \in {"DoWork", "Delayed"} : RunTask(t, Top, resume)

StackEnters ==
  /\ depth = 0 \/ Top.pc = "Task"
  /\ \E b \in BOOLEAN : Enter(b)

StackStep ==
  \/ UNCHANGED <<depth, level, allowed, started>>
  \/ StackMoves \/ StackReturns \/ StackEnters
  \/ \E t \in Tasks : StackStarts(t)
  \/ \E b \in BOOLEAN : SetNestableTasksAllowed(b)
  \/ Quit \/ FinishTask

\* A level that goes on after a delegate call moves, or returns if should_quit_.
LEMMA GoOnStackStep ==
  ASSUME StackOK, depth > 0, Top.pc # "Task", NEW l, InUse(l), l.pc # "Task", GoOn(l),
         UNCHANGED <<allowed, started>>
  PROVE  StackStep
  <1>1. CASE shouldQuit
    BY <1>1 DEF GoOn, StackStep, StackReturns
  <1>2. CASE ~shouldQuit
    BY <1>2 DEF GoOn, StackStep, StackMoves, InUse
  <1> QED
    BY <1>1, <1>2

\* Every step of the system is one of the eight kinds of StackStep.
LEMMA StepKinds == TypeOK /\ [Next]_vars => StackStep
  <1> SUFFICES ASSUME TypeOK, [Next]_vars PROVE StackStep
    OBVIOUS
  <1> USE DEF TypeOK, queues, posting, runs, clocks, ending
  <1>0. CASE UNCHANGED vars
    BY <1>0 DEF vars, StackStep
  <1>1. ASSUME NEW p \in Posters, ScheduleWork(p) PROVE StackStep
    BY <1>1 DEF ScheduleWork, StackStep
  <1>2. ASSUME NEW p \in Posters, NEW t \in Tasks, PostFromThread(p, t) PROVE StackStep
    BY <1>2 DEF PostFromThread, StackStep
  <1>3. ASSUME NEW t \in Tasks, PostRefused(t) PROVE StackStep
    BY <1>3 DEF PostRefused, StackStep
  <1>4. ASSUME NEW b \in BOOLEAN, RunFromOwner(b) PROVE StackStep
    BY <1>4 DEF RunFromOwner, StackStep, StackEnters
  <1>5. CASE PumpStep
    <2>1. CASE DoWorkFindsNothing
      <3>1. InUse([Top EXCEPT !.pc = "Delayed", !.didWork = FALSE])
        BY <2>1, PcChange, TopInUse DEF DoWorkFindsNothing
      <3>2. [Top EXCEPT !.pc = "Delayed", !.didWork = FALSE].pc # "Task"
        BY <2>1, PcChange, TopInUse DEF DoWorkFindsNothing
      <3> QED
        BY <2>1, <3>1, <3>2, GoOnStackStep DEF DoWorkFindsNothing
    <2>2. CASE ReloadWorkQueue
      BY <2>2 DEF ReloadWorkQueue, StackStep
    <2>3. CASE DoWorkMovesDelayed
      BY <2>3 DEF DoWorkMovesDelayed, StackStep
    <2>4. CASE DoWorkDefers
      BY <2>4 DEF DoWorkDefers, StackStep
    <2>5. CASE DoWorkRunsTask
      <3>1. Head(work) \in Tasks
        BY <2>5, HeadTailProperties DEF DoWorkRunsTask, QueuesOK
      <3>2. StackStarts(Head(work))
        BY <2>5 DEF DoWorkRunsTask, StackStarts, TaskTaken
      <3> QED
        BY <3>1, <3>2 DEF StackStep
    <2>6. CASE DoDelayedWorkFindsNothing
      <3>1. InUse(AfterDelayed) /\ AfterDelayed.pc # "Task"
        BY <2>6, AfterDelayedInUse DEF DoDelayedWorkFindsNothing
      <3> QED
        BY <2>6, <3>1, GoOnStackStep DEF DoDelayedWorkFindsNothing
    <2>7. ASSUME NEW t \in Tasks, DoDelayedWorkIsEarly(t) PROVE StackStep
      <3>1. InUse(AfterDelayed) /\ AfterDelayed.pc # "Task"
        BY <2>7, AfterDelayedInUse DEF DoDelayedWorkIsEarly
      <3> QED
        BY <2>7, <3>1, GoOnStackStep DEF DoDelayedWorkIsEarly
    <2>8. ASSUME NEW t \in Tasks, DoDelayedWorkTakes(t) PROVE StackStep
      <3>1. InUse(AfterDelayed) /\ AfterDelayed.pc # "Task"
        BY <2>8, AfterDelayedInUse DEF DoDelayedWorkTakes
      <3>2. CASE Runnable(t)
        <4>1. StackStarts(t)
          BY <2>8, <3>2 DEF DoDelayedWorkTakes, StackStarts, TaskTaken
        <4> QED
          BY <4>1 DEF StackStep
      <3>3. CASE ~Runnable(t)
        BY <2>8, <3>1, <3>3, GoOnStackStep DEF DoDelayedWorkTakes
      <3> QED
        BY <3>2, <3>3
    <2>9. CASE DoIdleWorkRunsDeferred
      <3>1. Head(deferred) \in Tasks
        BY <2>9, HeadTailProperties DEF DoIdleWorkRunsDeferred, QueuesOK
      <3>2. StackStarts(Head(deferred))
        BY <2>9 DEF DoIdleWorkRunsDeferred, StackStarts, Runnable, TaskTaken
      <3> QED
        BY <3>1, <3>2 DEF StackStep
    <2>10. CASE DoIdleWorkQuits
      BY <2>10 DEF DoIdleWorkQuits, StackStep, StackReturns
    <2>11. CASE DoIdleWorkFindsNothing
      <3>1. InUse([Top EXCEPT !.pc = "Sleep"]) /\ [Top EXCEPT !.pc = "Sleep"].pc # "Task"
        BY <2>11, PcChange, TopInUse DEF DoIdleWorkFindsNothing
      <3> QED
        BY <2>11, <3>1, GoOnStackStep DEF DoIdleWorkFindsNothing
    <2>12. CASE FallAsleep
      <3>1. InUse([Top EXCEPT !.pc = "Asleep"]) /\ [Top EXCEPT !.pc = "Asleep"].pc # "Task"
        BY <2>12, PcChange, TopInUse DEF FallAsleep
      <3> QED
        BY <2>12, <3>1 DEF FallAsleep, StackStep, StackMoves, InUse
    <2>13. CASE SkipSleep \/ WakeBySignal \/ WakeByTimeout
      <3>1. depth > 0 /\ Top.pc \in {"Sleep", "Asleep"}
        BY <2>13 DEF SkipSleep, WakeBySignal, WakeByTimeout
      <3>2. InUse([Top EXCEPT !.pc = "DoWork"]) /\ [Top EXCEPT !.pc = "DoWork"].pc # "Task"
        BY <3>1, PcChange, TopInUse
      <3> QED
        BY <2>13, <3>2 DEF SkipSleep, WakeBySignal, WakeByTimeout, StackStep, StackMoves, InUse
    <2> QED
      BY <1>5, <2>1, <2>2, <2>3, <2>4, <2>5, <2>6, <2>7, <2>8, <2>9, <2>10, <2>11,
         <2>12, <2>13 DEF PumpStep
  <1>6. CASE TaskStep
    <2>1. ASSUME NEW t \in Tasks, PostFromTask(t) PROVE StackStep
      BY <2>1 DEF PostFromTask, StackStep
    <2>2. ASSUME NEW b \in BOOLEAN, RunFromTask(b) PROVE StackStep
      BY <2>2 DEF RunFromTask, Running, StackStep, StackEnters
    <2>3. CASE QuitNow
      BY <2>3 DEF QuitNow, StackStep
    <2> QED
      BY <1>6, <2>1, <2>2, <2>3 DEF TaskStep, StackStep
  <1>7. CASE FinishTask
    BY <1>7 DEF StackStep
  <1>8. CASE Destructor
    <2>1. ASSUME NEW t \in Tasks, PostFromDestructor(t) PROVE StackStep
      BY <2>1 DEF PostFromDestructor, StackStep
    <2> QED
      BY <1>8, <2>1 DEF Destructor, Delete, DeletePendingTasks, ReloadForDelete, Disappear,
                        StackStep
  <1>9. CASE Tick
    BY <1>9 DEF Tick, StackStep
  <1> QED
    BY <1>0, <1>1, <1>2, <1>3, <1>4, <1>5, <1>6, <1>7, <1>8, <1>9 DEF Next

(***************************************************************************)
(* Reentrancy protection and non-nestable tasks.  The invariant says what  *)
(* nestable_tasks_allowed_ is at each point of the stack: the setting of   *)
(* the innermost running task, or of the task that nested the innermost    *)
(* Run, or TRUE at the top level.                                          *)
(***************************************************************************)

ReentrancyInv ==
  /\ depth > 0 /\ Top.pc = "Task" => allowed = Top.opened
  /\ depth > 1 /\ Top.pc # "Task" => allowed = level[depth - 1].opened
  /\ \A d \in 2..depth : level[d].pc = "Task" => level[d - 1].opened
  /\ depth = 0 \/ (depth = 1 /\ Top.pc # "Task") => allowed
  /\ NonNestableAtTop

LEMMA ReentrancyInit == Init => ReentrancyInv
  BY DEF Init, ReentrancyInv, NonNestableAtTop

LEMMA ReentrancyStep == TypeOK /\ ReentrancyInv /\ [Next]_vars => ReentrancyInv'
  <1> SUFFICES ASSUME TypeOK, ReentrancyInv, [Next]_vars PROVE ReentrancyInv'
    OBVIOUS
  <1>t. StackOK /\ StackOK' /\ allowed \in BOOLEAN /\ MaxDepth \in Nat
    BY TypeStep, ConstantsAssumption DEF TypeOK, PumpOK, ConstantsAssumption
  <1> USE <1>t DEF ReentrancyInv, NonNestableAtTop, StackOK, Top
  <1>1. CASE UNCHANGED <<depth, level, allowed, started>>
    BY <1>1
  <1>2. CASE StackMoves
    BY <1>2 DEF StackMoves, SetTop
  <1>3. CASE StackReturns
    BY <1>3 DEF StackReturns, Return
  <1>4. CASE StackEnters
    <2>1. PICK b \in BOOLEAN : Enter(b)
      BY <1>4 DEF StackEnters
    <2> DEFINE l == [NoLevel EXCEPT !.pc = "DoWork", !.quit = b,
                                    !.owed = IF b THEN Accepted ELSE {}]
    <2>2. l.pc = "DoWork"
      BY DEF NoLevel
    <2>3. level' = [level EXCEPT ![depth + 1] = l] /\ depth' = depth + 1 /\ depth < MaxDepth
          /\ allowed' = allowed
      BY <2>1 DEF Enter
    <2> HIDE DEF l
    <2>4. \A d \in 1..depth : level'[d] = level[d]
      BY <2>3
    <2>5. level'[depth'] = l /\ depth' - 1 = depth
      BY <2>3
    <2> QED
      BY <1>4, <2>2, <2>3, <2>4, <2>5 DEF StackEnters
  <1>5. ASSUME NEW t \in Tasks, StackStarts(t) PROVE ReentrancyInv'
    <2>1. PICK resume \in {"DoWork", "Delayed"} : RunTask(t, Top, resume)
      BY <1>5 DEF StackStarts
    <2> DEFINE l == [Top EXCEPT !.pc = "Task", !.task = t, !.resume = resume,
                                !.didWork = TRUE, !.opened = FALSE]
    <2>2. l.pc = "Task" /\ l.task = t /\ l.opened = FALSE
      BY <1>5 DEF StackStarts, Level
    <2>3. level' = [level EXCEPT ![depth] = l] /\ depth' = depth /\ allowed' = FALSE
      BY <2>1 DEF RunTask, SetTop
    <2> HIDE DEF l
    <2>4. level'[depth] = l /\ \A d \in 1..depth - 1 : level'[d] = level[d]
      BY <1>5, <2>3 DEF StackStarts
    <2>5. depth > 1 => level[depth - 1].opened
      BY <1>5 DEF StackStarts
    <2>6. depth > 0 /\ depth \in Nat /\ depth' = depth /\ (Nestable[t] \/ depth = 1)
      BY <1>5, <2>3 DEF StackStarts, Runnable
    <2>7. \A d \in 2..depth' : level'[d].pc = "Task" =>
            level'[d - 1].opened /\ Nestable[level'[d].task]
      <3> SUFFICES ASSUME NEW d \in 2..depth, level'[d].pc = "Task"
                   PROVE  level'[d - 1].opened /\ Nestable[level'[d].task]
        BY <2>6
      <3>1. CASE d = depth
        BY <3>1, <2>2, <2>4, <2>5, <2>6
      <3>2. CASE d < depth
        BY <3>2, <2>4, <2>6
      <3> QED
        BY <2>6, <3>1, <3>2
    <2> HIDE DEF StackOK
    <2>8. Top'.pc = "Task" /\ Top'.opened = FALSE /\ allowed' = FALSE
      BY <2>2, <2>3, <2>4, <2>6
    <2>9. depth' > 0 /\ Top'.pc = "Task" => allowed' = Top'.opened
      BY <2>8
    <2>10. depth' > 1 /\ Top'.pc # "Task" => allowed' = level'[depth' - 1].opened
      BY <2>8
    <2>11. \A d \in 2..depth' : level'[d].pc = "Task" => level'[d - 1].opened
      BY <2>7
    <2>12. depth' = 0 \/ (depth' = 1 /\ Top'.pc # "Task") => allowed'
      BY <2>6, <2>8
    <2>13. NonNestableAtTop'
      BY <2>7
    <2> QED
      BY <2>9, <2>10, <2>11, <2>12, <2>13
  <1>6. ASSUME NEW b \in BOOLEAN, SetNestableTasksAllowed(b) PROVE ReentrancyInv'
    BY <1>6 DEF SetNestableTasksAllowed, Running, SetTop, Level
  <1>7. CASE Quit
    BY <1>7 DEF Quit, Running, SetTop, Level
  <1>8. CASE FinishTask
    <2> DEFINE l == [Top EXCEPT !.pc = Top.resume, !.task = NoTask, !.opened = FALSE]
    <2>1. depth > 0 /\ Top.pc = "Task" /\ allowed' = TRUE /\ GoOn(l)
      BY <1>8 DEF FinishTask
    <2>2. l.pc # "Task"
      BY <2>1, TopInUse DEF InUse, Level
    <2> HIDE DEF l
    <2>3. depth > 1 => level[depth - 1].opened
      BY <2>1
    <2>4. depth \in Nat /\ \A d \in 1..depth - 1 : level'[d] = level[d] /\ level[d].pc = "Task"
      <3>1. level' = [level EXCEPT ![depth] = NoLevel] \/ level' = [level EXCEPT ![depth] = l]
        BY <2>1 DEF GoOn, Return, SetTop
      <3>2. depth \in Nat /\ \A d \in 1..depth - 1 : level[d].pc = "Task"
        OBVIOUS
      <3>3. \A d \in 1..depth - 1 : d \in 1..MaxDepth /\ d # depth
        OBVIOUS
      <3> HIDE DEF InUse
      <3>4. \A d \in 1..depth - 1 : level'[d] = level[d]
        BY <3>1, <3>3
      <3> QED
        BY <3>2, <3>4
    <2> HIDE DEF StackOK
    <2>5. CASE shouldQuit
      <3>1. depth' = depth - 1
        BY <2>5, <2>1 DEF GoOn, Return
      <3>2. \A d \in 2..depth' : level'[d].pc = "Task" =>
              level'[d - 1].opened /\ Nestable[level'[d].task]
        BY <2>1, <2>4, <3>1
      <3>3. depth' > 0 => level'[depth'].pc = "Task" /\ level'[depth'].opened = TRUE
        <4>1. ASSUME depth > 1
              PROVE  level'[depth - 1].pc = "Task" /\ level'[depth - 1].opened = TRUE
          <5>1. level[depth - 1].opened \in BOOLEAN
            BY <4>1, <2>4 DEF StackOK, Level
          <5> QED
            BY <4>1, <5>1, <2>3, <2>4
        <4>2. depth' > 0 => depth > 1
          BY <3>1, <2>4
        <4> QED
          BY <4>1, <4>2, <3>1
      <3>4. depth' > 0 /\ Top'.pc = "Task" => allowed' = Top'.opened
        BY <2>1, <3>3
      <3>5. depth' > 1 /\ Top'.pc # "Task" => allowed' = level'[depth' - 1].opened
        BY <2>4, <3>1, <3>3
      <3>6. depth' = 0 \/ (depth' = 1 /\ Top'.pc # "Task") => allowed'
        BY <2>1
      <3>7. NonNestableAtTop'
        BY <3>2
      <3> QED
        BY <3>2, <3>4, <3>5, <3>6, <3>7
    <2>6. CASE ~shouldQuit
      <3>1. depth' = depth /\ level'[depth] = l
        BY <2>6, <2>1 DEF GoOn, SetTop, StackOK
      <3>2. \A d \in 2..depth' : level'[d].pc = "Task" =>
              level'[d - 1].opened /\ Nestable[level'[d].task]
        BY <2>1, <2>2, <2>4, <3>1
      <3>3. depth > 1 => level'[depth - 1].opened
        BY <2>1, <2>3, <2>4
      <3> QED
        BY <2>1, <2>2, <2>4, <3>1, <3>2, <3>3
    <2> QED
      BY <2>5, <2>6
  <1> QED
    BY <1>1, <1>2, <1>3, <1>4, <1>5, <1>6, <1>7, <1>8, StepKinds DEF StackStep

LEMMA SafetyInductive == Spec => [](TypeOK /\ ReentrancyInv)
  <1>1. Init => TypeOK /\ ReentrancyInv
    BY InitType, ReentrancyInit
  <1>2. TypeOK /\ ReentrancyInv /\ [Next]_vars => (TypeOK /\ ReentrancyInv)'
    BY TypeStep, ReentrancyStep
  <1> QED
    BY <1>1, <1>2, PTL DEF Spec

\* A task runs inside another only while the outer one has enabled nested
\* tasks, for any tasks, any nesting and any calls the tasks make.
THEOREM Reentrancy == Spec => []ReentrancyProtected
  <1>1. ReentrancyInv => ReentrancyProtected
    BY DEF ReentrancyInv, ReentrancyProtected
  <1> QED
    BY <1>1, SafetyInductive, PTL

\* Nor does a non-nestable task ever run inside another task.
THEOREM Nesting == Spec => []NestingRespected
  <1>1. ReentrancyInv => NestingRespected
    BY DEF ReentrancyInv, ReentrancyProtected, NestingRespected
  <1> QED
    BY <1>1, SafetyInductive, PTL

\* The assert of RunTask never fails, also when DoIdleWork runs a deferred task.
THEOREM NoTaskWhileForbidden == Spec => RunTaskAssert
  <1>1. TypeOK /\ ReentrancyInv /\ [Next]_vars => [started' # started => allowed]_vars
    <2> SUFFICES ASSUME TypeOK, ReentrancyInv, [Next]_vars, started' # started
                 PROVE  allowed
      OBVIOUS
    <2>1. \E t \in Tasks : StackStarts(t)
      BY StepKinds DEF StackStep, StackMoves, StackReturns, StackEnters, Enter,
                       SetNestableTasksAllowed, Quit, FinishTask
    <2> QED
      BY <2>1 DEF StackStarts, ReentrancyInv
  <1> QED
    BY <1>1, SafetyInductive, PTL DEF Spec, RunTaskAssert

----------------------------------------------------------------------------
(* No task is lost, duplicated or slept on.                                *)


(***************************************************************************)
(* The elements of a queue without repetitions                             *)
(***************************************************************************)

NoRepeat(s) == \A i, j \in 1..Len(s) : s[i] = s[j] => i = j

LEMMA EmptyElements == Elements(<< >>) = {} /\ NoRepeat(<< >>)
  BY EmptySeq DEF Elements, NoRepeat

LEMMA AppendElements ==
  ASSUME NEW s \in Seq(Tasks), NEW t \in Tasks
  PROVE  /\ Elements(Append(s, t)) = Elements(s) \cup {t}
         /\ NoRepeat(s) /\ t \notin Elements(s) => NoRepeat(Append(s, t))
  <1>1. /\ Len(Append(s, t)) = Len(s) + 1 /\ Len(s) \in Nat
        /\ \A i \in 1..Len(s) : Append(s, t)[i] = s[i]
        /\ Append(s, t)[Len(s) + 1] = t
    BY AppendProperties, LenProperties
  <1> QED
    BY <1>1 DEF Elements, NoRepeat

LEMMA TailElements ==
  ASSUME NEW s \in Seq(Tasks), s # << >>
  PROVE  /\ Head(s) \in Elements(s)
         /\ NoRepeat(s) => NoRepeat(Tail(s)) /\ Elements(Tail(s)) = Elements(s) \ {Head(s)}
  <1>1. /\ Len(s) \in Nat \ {0} /\ Len(Tail(s)) = Len(s) - 1
        /\ Head(s) = s[1]
        /\ \A i \in 1..Len(Tail(s)) : Tail(s)[i] = s[i + 1]
    BY HeadTailProperties, LenProperties, EmptySeq
  <1>2. Head(s) \in Elements(s)
    BY <1>1 DEF Elements
  <1>3. ASSUME NoRepeat(s) PROVE NoRepeat(Tail(s))
    BY <1>1, <1>3 DEF NoRepeat
  <1>4. ASSUME NoRepeat(s) PROVE Elements(Tail(s)) = Elements(s) \ {Head(s)}
    <2>1. ASSUME NEW x \in Elements(Tail(s)) PROVE x \in Elements(s) \ {Head(s)}
      <3>1. PICK i \in 1..Len(Tail(s)) : x = Tail(s)[i]
        BY <2>1 DEF Elements
      <3>2. i + 1 \in 1..Len(s) /\ i + 1 # 1 /\ x = s[i + 1] /\ 1 \in 1..Len(s)
        BY <1>1, <3>1
      <3> QED
        BY <1>1, <1>4, <3>2 DEF Elements, NoRepeat
    <2>2. ASSUME NEW x \in Elements(s) \ {Head(s)} PROVE x \in Elements(Tail(s))
      <3>1. PICK i \in 1..Len(s) : x = s[i]
        BY <2>2 DEF Elements
      <3>2. i - 1 \in 1..Len(Tail(s)) /\ x = Tail(s)[i - 1]
        BY <1>1, <2>2, <3>1
      <3> QED
        BY <3>2 DEF Elements
    <2> QED
      BY <2>1, <2>2
  <1> QED
    BY <1>2, <1>3, <1>4

(***************************************************************************)
(* Conservation.  To be inductive it has to say that the queues are        *)
(* disjoint and hold no task twice, and that nothing moves once the        *)
(* destructor has begun.                                                   *)
(***************************************************************************)

Disjoint ==
  /\ NoRepeat(incoming) /\ NoRepeat(work) /\ NoRepeat(deferred)
  /\ Elements(incoming) \cap (Elements(work) \cup Elements(deferred) \cup delayed) = {}
  /\ Elements(work) \cap (Elements(deferred) \cup delayed) = {}
  /\ Elements(deferred) \cap delayed = {}

Dying ==
  /\ life # "alive" => depth = 0
  /\ life \in {"Reload", "Notify"} => work = << >> /\ deferred = << >> /\ delayed = {}

QueueInv == Disjoint /\ Dying /\ Conservation

LEMMA QueueInit == Init => QueueInv
  BY EmptyElements DEF Init, QueueInv, Disjoint, Dying, Conservation, Queued, Accepted

\* A post adds one element to the incoming queue, and it is a new one.
LEMMA PushQueue ==
  ASSUME TypeOK, QueueInv, NEW t \in Tasks, Push(t),
         UNCHANGED <<queues, refused, started, dropped>>
  PROVE  Disjoint' /\ Conservation'
  <1>1. t \notin Queued /\ t \notin started \cup dropped \cup refused
    BY DEF Push, Fresh, Accepted, QueueInv, Conservation
  <1>2. /\ Elements(incoming') = Elements(incoming) \cup {t}
        /\ NoRepeat(incoming')
    BY <1>1, AppendElements DEF Push, TypeOK, QueuesOK, QueueInv, Disjoint, Queued
  <1>3. Accepted' = Accepted \cup {t}
    BY DEF Push, Accepted, TypeOK, HistoryOK
  <1> QED
    BY <1>1, <1>2, <1>3 DEF QueueInv, Disjoint, Conservation, Queued, queues

LEMMA QueueStep == TypeOK /\ QueueInv /\ [Next]_vars => QueueInv'
  <1> SUFFICES ASSUME TypeOK, QueueInv, [Next]_vars PROVE QueueInv'
    OBVIOUS
  <1> USE DEF queues, posting, runs, clocks, ending
  <1>a. ASSUME UNCHANGED <<incoming, work, deferred, delayed, stamp, started, dropped, refused>>
        PROVE  Disjoint' /\ Conservation'
    BY <1>a DEF QueueInv, Disjoint, Conservation, Queued, Accepted
  <1>0. CASE UNCHANGED vars
    BY <1>0, <1>a DEF vars, QueueInv, Dying
  <1>1. ASSUME NEW p \in Posters, ScheduleWork(p) PROVE QueueInv'
    BY <1>1, <1>a DEF ScheduleWork, QueueInv, Dying
  <1>2. ASSUME NEW p \in Posters, NEW t \in Tasks, PostFromThread(p, t) PROVE QueueInv'
    BY <1>2, PushQueue DEF PostFromThread, QueueInv, Dying
  <1>3. ASSUME NEW t \in Tasks, PostRefused(t) PROVE QueueInv'
    BY <1>3 DEF PostRefused, Fresh, QueueInv, Disjoint, Dying, Conservation, Queued, Accepted
  <1>4. ASSUME NEW b \in BOOLEAN, RunFromOwner(b) PROVE QueueInv'
    BY <1>4, <1>a DEF RunFromOwner, Enter, QueueInv, Dying
  <1>5. CASE PumpStep
    <2> USE DEF QueueInv
    <2>a. depth > 0 /\ life = "alive" /\ life' = life
      <3>1. CASE DoWorkFindsNothing \/ ReloadWorkQueue \/ DoWorkMovesDelayed
                 \/ DoWorkDefers \/ DoWorkRunsTask
        BY <3>1 DEF DoWorkFindsNothing, ReloadWorkQueue, DoWorkMovesDelayed, DoWorkDefers,
                    DoWorkRunsTask, Dying
      <3>2. ASSUME NEW t \in Tasks, DoDelayedWorkIsEarly(t) \/ DoDelayedWorkTakes(t)
            PROVE  depth > 0 /\ life = "alive" /\ life' = life
        BY <3>2 DEF DoDelayedWorkIsEarly, DoDelayedWorkTakes, Dying
      <3>3. CASE DoDelayedWorkFindsNothing \/ DoIdleWorkRunsDeferred \/ DoIdleWorkQuits
                 \/ DoIdleWorkFindsNothing
        BY <3>3 DEF DoDelayedWorkFindsNothing, DoIdleWorkRunsDeferred, DoIdleWorkQuits,
                    DoIdleWorkFindsNothing, Dying
      <3>4. CASE FallAsleep \/ SkipSleep \/ WakeBySignal \/ WakeByTimeout
        BY <3>4 DEF FallAsleep, SkipSleep, WakeBySignal, WakeByTimeout, Dying
      <3> QED
        BY <1>5, <3>1, <3>2, <3>3, <3>4 DEF PumpStep
    <2>b. Dying'
      BY <2>a DEF Dying
    <2>1. CASE DoWorkFindsNothing
      BY <2>1, <1>a, <2>b DEF DoWorkFindsNothing
    <2>2. CASE ReloadWorkQueue
      <3>1. Elements(work) = {} /\ Elements(incoming') = {} /\ NoRepeat(incoming')
        BY <2>2, EmptyElements DEF ReloadWorkQueue
      <3> QED
        BY <2>2, <2>b, <3>1 DEF ReloadWorkQueue, Disjoint, Conservation, Queued, Accepted
    <2>3. CASE DoWorkMovesDelayed
      <3>1. Head(work) \in Elements(work) /\ NoRepeat(Tail(work))
            /\ Elements(Tail(work)) = Elements(work) \ {Head(work)}
        BY <2>3, TailElements DEF DoWorkMovesDelayed, TypeOK, QueuesOK, Disjoint
      <3> QED
        BY <2>3, <2>b, <3>1 DEF DoWorkMovesDelayed, AddToDelayedWorkQueue, Disjoint,
                               Conservation, Queued, Accepted
    <2>4. CASE DoWorkDefers
      <3>1. Head(work) \in Elements(work) /\ NoRepeat(Tail(work)) /\ Head(work) \in Tasks
            /\ Elements(Tail(work)) = Elements(work) \ {Head(work)}
        BY <2>4, TailElements, HeadTailProperties DEF DoWorkDefers, TypeOK, QueuesOK, Disjoint
      <3>2. Elements(deferred') = Elements(deferred) \cup {Head(work)} /\ NoRepeat(deferred')
        BY <2>4, <3>1, AppendElements DEF DoWorkDefers, TypeOK, QueuesOK, Disjoint
      <3> QED
        BY <2>4, <2>b, <3>1, <3>2 DEF DoWorkDefers, Disjoint, Conservation, Queued, Accepted
    <2>5. CASE DoWorkRunsTask
      <3>1. Head(work) \in Elements(work) /\ NoRepeat(Tail(work))
            /\ Elements(Tail(work)) = Elements(work) \ {Head(work)}
        BY <2>5, TailElements DEF DoWorkRunsTask, TypeOK, QueuesOK, Disjoint
      <3> QED
        BY <2>5, <2>b, <3>1 DEF DoWorkRunsTask, RunTask, Disjoint, Conservation, Queued, Accepted
    <2>6. CASE DoDelayedWorkFindsNothing
      BY <2>6, <1>a, <2>b DEF DoDelayedWorkFindsNothing
    <2>7. ASSUME NEW t \in Tasks, DoDelayedWorkIsEarly(t) PROVE QueueInv'
      BY <2>7, <1>a, <2>b DEF DoDelayedWorkIsEarly
    <2>8. ASSUME NEW t \in Tasks, DoDelayedWorkTakes(t) PROVE QueueInv'
      <3>1. t \in delayed /\ delayed' = delayed \ {t}
            /\ UNCHANGED <<incoming, work, stamp, dropped, refused>>
        BY <2>8 DEF DoDelayedWorkTakes, IsTop
      <3>2. CASE Runnable(t)
        <4>1. started' = started \cup {t} /\ deferred' = deferred
          BY <2>8, <3>2 DEF DoDelayedWorkTakes, RunTask
        <4> QED
          BY <2>b, <3>1, <4>1 DEF Disjoint, Conservation, Queued, Accepted
      <3>3. CASE ~Runnable(t)
        <4>1. started' = started /\ deferred' = Append(deferred, t)
          BY <2>8, <3>3 DEF DoDelayedWorkTakes
        <4>2. Elements(deferred') = Elements(deferred) \cup {t} /\ NoRepeat(deferred')
          BY <3>1, <4>1, AppendElements DEF TypeOK, QueuesOK, Disjoint
        <4> QED
          BY <2>b, <3>1, <4>1, <4>2 DEF Disjoint, Conservation, Queued, Accepted
      <3> QED
        BY <3>2, <3>3
    <2>9. CASE DoIdleWorkRunsDeferred
      <3>1. Head(deferred) \in Elements(deferred) /\ NoRepeat(Tail(deferred))
            /\ Elements(Tail(deferred)) = Elements(deferred) \ {Head(deferred)}
        BY <2>9, TailElements DEF DoIdleWorkRunsDeferred, TypeOK, QueuesOK, Disjoint
      <3> QED
        BY <2>9, <2>b, <3>1 DEF DoIdleWorkRunsDeferred, RunTask, Disjoint, Conservation,
                               Queued, Accepted
    <2>10. CASE DoIdleWorkQuits \/ DoIdleWorkFindsNothing
      BY <2>10, <1>a, <2>b DEF DoIdleWorkQuits, DoIdleWorkFindsNothing
    <2>11. CASE FallAsleep \/ SkipSleep \/ WakeBySignal \/ WakeByTimeout
      BY <2>11, <1>a, <2>b DEF FallAsleep, SkipSleep, WakeBySignal, WakeByTimeout
    <2> QED
      BY <1>5, <2>1, <2>2, <2>3, <2>4, <2>5, <2>6, <2>7, <2>8, <2>9, <2>10, <2>11 DEF PumpStep
  <1>6. CASE TaskStep
    <2>1. ASSUME NEW t \in Tasks, PostFromTask(t) PROVE QueueInv'
      BY <2>1, PushQueue DEF PostFromTask, QueueInv, Dying
    <2>2. ASSUME NEW b \in BOOLEAN, SetNestableTasksAllowed(b) \/ RunFromTask(b)
          PROVE  QueueInv'
      BY <2>2, <1>a DEF SetNestableTasksAllowed, RunFromTask, Running, Enter, QueueInv, Dying
    <2>3. CASE Quit \/ QuitNow
      BY <2>3, <1>a DEF Quit, QuitNow, QueueInv, Dying
    <2> QED
      BY <1>6, <2>1, <2>2, <2>3 DEF TaskStep
  <1>7. CASE FinishTask
    <2>1. life = "alive" /\ life' = life
      BY <1>7 DEF FinishTask, QueueInv, Dying
    <2> QED
      BY <1>7, <1>a, <2>1 DEF FinishTask, QueueInv, Dying
  <1>8. CASE Destructor
    <2>1. CASE Delete
      BY <2>1, <1>a DEF Delete, QueueInv, Dying
    <2>2. CASE DeletePendingTasks
      <3>1. Elements(work') = {} /\ Elements(deferred') = {} /\ NoRepeat(work')
            /\ NoRepeat(deferred')
        BY <2>2, EmptyElements DEF DeletePendingTasks
      <3>2. dropped' = dropped \cup Elements(work) \cup Elements(deferred) \cup delayed
        BY <2>2 DEF DeletePendingTasks
      <3>3. Disjoint' /\ Conservation'
        BY <2>2, <3>1, <3>2 DEF DeletePendingTasks, QueueInv, Disjoint, Conservation, Queued,
                               Accepted
      <3> QED
        BY <2>2, <3>3 DEF DeletePendingTasks, QueueInv, Dying
    <2>3. CASE ReloadForDelete
      <3>1. Elements(work) = {} /\ Elements(incoming') = {} /\ NoRepeat(incoming')
        BY <2>3, EmptyElements DEF ReloadForDelete, QueueInv, Dying
      <3>2. Disjoint' /\ Conservation'
        BY <2>3, <3>1 DEF ReloadForDelete, QueueInv, Disjoint, Conservation, Queued, Accepted
      <3> QED
        BY <2>3, <3>2 DEF ReloadForDelete, QueueInv, Dying
    <2>4. CASE Disappear
      <3>1. Elements(incoming') = {} /\ NoRepeat(incoming')
        BY <2>4, EmptyElements DEF Disappear
      <3>2. Disjoint' /\ Conservation'
        BY <2>4, <3>1 DEF Disappear, QueueInv, Disjoint, Conservation, Queued, Accepted
      <3> QED
        BY <2>4, <3>2 DEF Disappear, QueueInv, Dying
    <2>5. ASSUME NEW t \in Tasks, PostFromDestructor(t) PROVE QueueInv'
      BY <2>5, PushQueue DEF PostFromDestructor, QueueInv, Dying
    <2> QED
      BY <1>8, <2>1, <2>2, <2>3, <2>4, <2>5 DEF Destructor
  <1>9. CASE Tick
    BY <1>9, <1>a DEF Tick, QueueInv, Dying
  <1> QED
    BY <1>0, <1>1, <1>2, <1>3, <1>4, <1>5, <1>6, <1>7, <1>8, <1>9 DEF Next

LEMMA QueueInductive == Spec => [](TypeOK /\ QueueInv)
  <1>1. Init => TypeOK /\ QueueInv
    BY InitType, QueueInit
  <1>2. TypeOK /\ QueueInv /\ [Next]_vars => (TypeOK /\ QueueInv)'
    BY TypeStep, QueueStep
  <1> QED
    BY <1>1, <1>2, PTL DEF Spec

\* Every accepted task is in exactly one of: a queue, the started tasks, the
\* tasks dropped by the destructor.
THEOREM NothingLost == Spec => []Conservation
  <1>1. QueueInv => Conservation
    BY DEF QueueInv
  <1> QED
    BY <1>1, QueueInductive, PTL

LEMMA GoneStep ==
  TypeOK /\ QueueInv /\ NoPostIntoDeadLoop /\ [Next]_vars => NoPostIntoDeadLoop'
  <1> SUFFICES ASSUME TypeOK, QueueInv, NoPostIntoDeadLoop, [Next]_vars
               PROVE  NoPostIntoDeadLoop'
    OBVIOUS
  <1> USE DEF NoPostIntoDeadLoop, queues, posting, runs, clocks, ending
  <1>1. Nobody \notin Posters /\ (life # "alive" => depth = 0)
    BY ConstantsAssumption DEF QueueInv, Dying
  <1>2. ASSUME NEW p \in Posters, ScheduleWork(p) \/ \E t \in Tasks : PostFromThread(p, t)
        PROVE  NoPostIntoDeadLoop'
    BY <1>1, <1>2 DEF ScheduleWork, PostFromThread
  <1>3. ASSUME NEW t \in Tasks, PostRefused(t) PROVE NoPostIntoDeadLoop'
    BY <1>3 DEF PostRefused
  <1>4. ASSUME NEW b \in BOOLEAN, RunFromOwner(b) PROVE NoPostIntoDeadLoop'
    BY <1>4 DEF RunFromOwner, Enter
  <1>5. CASE PumpStep
    <2>1. life' = life /\ depth > 0
      <3>1. CASE DoWorkFindsNothing \/ ReloadWorkQueue \/ DoWorkMovesDelayed
                 \/ DoWorkDefers \/ DoWorkRunsTask
        BY <3>1 DEF DoWorkFindsNothing, ReloadWorkQueue, DoWorkMovesDelayed, DoWorkDefers,
                    DoWorkRunsTask
      <3>2. ASSUME NEW t \in Tasks, DoDelayedWorkIsEarly(t) \/ DoDelayedWorkTakes(t)
            PROVE  life' = life /\ depth > 0
        BY <3>2 DEF DoDelayedWorkIsEarly, DoDelayedWorkTakes
      <3>3. CASE DoDelayedWorkFindsNothing \/ DoIdleWorkRunsDeferred \/ DoIdleWorkQuits
                 \/ DoIdleWorkFindsNothing
        BY <3>3 DEF DoDelayedWorkFindsNothing, DoIdleWorkRunsDeferred, DoIdleWorkQuits,
                    DoIdleWorkFindsNothing
      <3>4. CASE FallAsleep \/ SkipSleep \/ WakeBySignal \/ WakeByTimeout
        BY <3>4 DEF FallAsleep, SkipSleep, WakeBySignal, WakeByTimeout
      <3> QED
        BY <1>5, <3>1, <3>2, <3>3, <3>4 DEF PumpStep
    <2>2. depth \in Nat
      BY ConstantsAssumption DEF TypeOK, StackOK
    <2> QED
      BY <1>1, <2>1, <2>2
  <1>6. CASE TaskStep \/ FinishTask
    <2>1. life' = life /\ depth > 0
      <3>1. CASE \E t \in Tasks : PostFromTask(t)
        BY <3>1 DEF PostFromTask, Running
      <3>2. CASE \E b \in BOOLEAN : SetNestableTasksAllowed(b) \/ RunFromTask(b)
        BY <3>2 DEF SetNestableTasksAllowed, RunFromTask, Running, Enter
      <3>3. CASE Quit \/ QuitNow \/ FinishTask
        BY <3>3 DEF Quit, QuitNow, FinishTask, Running
      <3> QED
        BY <1>6, <3>1, <3>2, <3>3 DEF TaskStep
    <2>2. depth \in Nat
      BY ConstantsAssumption DEF TypeOK, StackOK
    <2> QED
      BY <1>1, <2>1, <2>2
  <1>7. CASE Destructor
    BY <1>7 DEF Destructor, Delete, DeletePendingTasks, ReloadForDelete, Disappear,
                PostFromDestructor
  <1>8. CASE Tick \/ UNCHANGED vars
    BY <1>8 DEF Tick, vars
  <1> QED
    BY <1>2, <1>3, <1>4, <1>5, <1>6, <1>7, <1>8 DEF Next

\* No thread is inside the loop's members when they are destroyed, nor puts a
\* task there afterwards.
THEOREM NothingIntoDeadLoop == Spec => []NoPostIntoDeadLoop
  <1>1. Init => NoPostIntoDeadLoop
    BY DEF Init, NoPostIntoDeadLoop
  <1>2. TypeOK /\ QueueInv /\ NoPostIntoDeadLoop /\ [Next]_vars => NoPostIntoDeadLoop'
    BY GoneStep
  <1> QED
    BY <1>1, <1>2, QueueInductive, PTL DEF Spec

(***************************************************************************)
(* No lost wake-up.  From the moment DoWork has found both queues empty    *)
(* until the pump has slept (Dry), a task that comes in leaves a signal    *)
(* behind, or a poster that is about to give one; and from the moment      *)
(* DoDelayedWork has found nothing due, delayed_work_time_ is the time of  *)
(* the earliest delayed task.                                              *)
(***************************************************************************)

Dry ==
  /\ depth > 0 /\ allowed
  /\ Top.pc \in {"Idle", "Sleep", "Asleep"} \/ (Top.pc = "Delayed" /\ ~Top.didWork)

DryInv == Dry => work = << >> /\ (incoming # << >> => signaled \/ lock # Nobody)

DidWorkInv == \A d \in 1..depth : level[d].pc = "Task" => level[d].didWork

DeferredInv == depth = 1 /\ Top.pc \in {"Sleep", "Asleep"} => deferred = << >>

TimerInv ==
  depth > 0 /\ allowed /\ Top.pc \in {"Idle", "Sleep", "Asleep"} =>
    \A t \in delayed : wakeTime # 0 /\ wakeTime <= due[t]

DueInv ==
  /\ \A t \in delayed : ~Immediate(t)
  /\ \A t \in Accepted : ~Immediate(t) => due[t] > 0

WakeInv == DryInv /\ DidWorkInv /\ DeferredInv /\ TimerInv /\ DueInv

LEMMA WakeInit == Init => WakeInv
  BY DEF Init, WakeInv, DryInv, Dry, DidWorkInv, DeferredInv, TimerInv, DueInv, Accepted

\* The innermost level after each kind of change.
LEMMA TopSet ==
  ASSUME StackOK, depth > 0, NEW l, SetTop(l), depth' = depth
  PROVE  Top' = l /\ \A d \in 1..depth - 1 : level'[d] = level[d]
  BY ConstantsAssumption DEF StackOK, SetTop, Top, ConstantsAssumption

LEMMA TopReturned ==
  ASSUME StackOK, depth > 0, Return
  PROVE  /\ depth' = 0 \/ (depth' > 0 /\ Top'.pc = "Task")
         /\ \A d \in 1..depth' : level'[d] = level[d]
  BY ConstantsAssumption DEF StackOK, Return, Top, ConstantsAssumption

\* What holds after a Run has returned to the task that nested it.
LEMMA WakeAfterReturn ==
  ASSUME StackOK, depth > 0, DidWorkInv, Return
  PROVE  DryInv' /\ DidWorkInv' /\ DeferredInv' /\ TimerInv'
  <1>1. depth \in Nat /\ depth' = depth - 1
    BY DEF StackOK, Return
  <1>2. DidWorkInv'
    BY <1>1, TopReturned DEF DidWorkInv
  <1> QED
    BY <1>2, TopReturned DEF DryInv, Dry, DeferredInv, TimerInv

\* A level not inside a task leaves DidWorkInv to the levels below it.
LEMMA DidWorkSet ==
  ASSUME StackOK, depth > 0, DidWorkInv, NEW l, SetTop(l), depth' = depth,
         l.pc = "Task" => l.didWork
  PROVE  DidWorkInv'
  <1>1. depth \in Nat
    BY DEF StackOK
  <1> QED
    BY <1>1, TopSet DEF DidWorkInv, Top

\* A post in a dry spell: the queue was empty and somebody signals, or was
\* not and somebody has or will.
LEMMA PushWake ==
  ASSUME TypeOK, QueueInv, WakeInv, NEW t \in Tasks, Push(t),
         UNCHANGED <<queues, runs, clocks, allowed>>,
         \/ incoming = << >> /\ (signaled' \/ lock' # Nobody)
         \/ incoming # << >> /\ (signaled' = signaled \/ signaled') /\ lock' = lock
  PROVE  WakeInv'
  <1> USE DEF queues, runs, clocks
  <1>1. DryInv' /\ DidWorkInv' /\ DeferredInv'
    BY DEF WakeInv, DryInv, Dry, DidWorkInv, DeferredInv, Top
  <1>2. t \notin Accepted /\ delayed \subseteq Accepted
    BY DEF Push, Fresh, Accepted, QueueInv, Conservation, Queued
  <1>3. due' = [due EXCEPT ![t] = IF Immediate(t) THEN 0 ELSE now + Delay[t]]
    BY DEF Push
  <1>4. \A u \in delayed : due'[u] = due[u]
    BY <1>2, <1>3 DEF Accepted, TypeOK, HistoryOK
  <1>5. TimerInv'
    BY <1>4 DEF WakeInv, TimerInv, Top
  <1>6. Accepted' = Accepted \cup {t} /\ \A u \in Accepted : due'[u] = due[u]
    BY <1>2, <1>3 DEF Push, Accepted, TypeOK, HistoryOK
  <1>7. ~Immediate(t) => due'[t] > 0
    <2>1. Delay[t] \in Nat /\ now \in Nat /\ due \in [Tasks -> Nat]
      BY ConstantsAssumption DEF ConstantsAssumption, TypeOK, HistoryOK, PumpOK
    <2> QED
      BY <1>3, <2>1 DEF Immediate
  <1>8. DueInv'
    BY <1>6, <1>7 DEF WakeInv, DueInv, Immediate
  <1> QED
    BY <1>1, <1>5, <1>8 DEF WakeInv

LEMMA WakeStep == TypeOK /\ QueueInv /\ WakeInv /\ [Next]_vars => WakeInv'
  <1> SUFFICES ASSUME TypeOK, QueueInv, WakeInv, [Next]_vars PROVE WakeInv'
    OBVIOUS
  <1> USE DEF queues, posting, runs, clocks, ending
  <1>t. StackOK
    BY DEF TypeOK
  \* Steps that touch neither the stack nor what WakeInv reads.
  <1>a. ASSUME UNCHANGED <<incoming, work, deferred, delayed, depth, level, allowed,
                           signaled, lock, wakeTime, due, stamp>>
        PROVE  WakeInv'
    BY <1>a DEF WakeInv, DryInv, Dry, DidWorkInv, DeferredInv, TimerInv, DueInv, Accepted, Top
  <1>b. ASSUME UNCHANGED <<delayed, due, stamp>> PROVE DueInv'
    BY <1>b DEF WakeInv, DueInv, Accepted
  \* Steps that go to a pc where WakeInv asks nothing of the queues.
  <1>c. ASSUME NEW l, depth > 0, SetTop(l), depth' = depth,
               l.pc \in {"DoWork", "Task"} \/ ~allowed',
               l.pc = "Task" => l.didWork, DueInv',
               ~(depth = 1 /\ l.pc \in {"Sleep", "Asleep"})
        PROVE  WakeInv'
    <2>1. Top' = l /\ DidWorkInv'
      BY <1>t, <1>c, TopSet, DidWorkSet DEF WakeInv
    <2> QED
      BY <1>c, <2>1 DEF WakeInv, DryInv, Dry, DeferredInv, TimerInv
  <1>0. CASE UNCHANGED vars
    BY <1>0, <1>a DEF vars
  <1>1. ASSUME NEW p \in Posters, ScheduleWork(p) PROVE WakeInv'
    BY <1>1 DEF ScheduleWork, WakeInv, DryInv, Dry, DidWorkInv, DeferredInv, TimerInv, DueInv,
                Accepted, Top
  <1>2. ASSUME NEW p \in Posters, NEW t \in Tasks, PostFromThread(p, t) PROVE WakeInv'
    BY <1>2, PushWake, ConstantsAssumption DEF PostFromThread, ConstantsAssumption
  <1>3. ASSUME NEW t \in Tasks, PostRefused(t) PROVE WakeInv'
    BY <1>3, <1>a DEF PostRefused
  <1>4. ASSUME NEW b \in BOOLEAN, Enter(b), depth = 0 \/ Top.pc = "Task" PROVE WakeInv'
    <2> DEFINE l == [NoLevel EXCEPT !.pc = "DoWork", !.quit = b,
                                    !.owed = IF b THEN Accepted ELSE {}]
    <2>1. l.pc = "DoWork"
      BY DEF NoLevel
    <2>2. level' = [level EXCEPT ![depth + 1] = l] /\ depth' = depth + 1 /\ depth < MaxDepth
          /\ depth \in Nat
      BY <1>4, <1>t DEF Enter, StackOK
    <2> HIDE DEF l
    <2>3. Top' = l /\ \A d \in 1..depth : level'[d] = level[d]
      BY <1>t, <2>2, ConstantsAssumption DEF StackOK, Top, ConstantsAssumption
    <2>4. DidWorkInv'
      BY <2>1, <2>2, <2>3 DEF WakeInv, DidWorkInv, Top
    <2>5. DueInv'
      BY <1>4, <1>b DEF Enter
    <2> QED
      BY <2>1, <2>3, <2>4, <2>5 DEF WakeInv, DryInv, Dry, DeferredInv, TimerInv
  <1>5. CASE PumpStep
    <2>1. CASE DoWorkFindsNothing
      <3> DEFINE l == [Top EXCEPT !.pc = "Delayed", !.didWork = FALSE]
      <3>1. l.pc = "Delayed" /\ InUse(l)
        BY <2>1, <1>t, PcChange, TopInUse DEF DoWorkFindsNothing
      <3>2. depth > 0 /\ GoOn(l) /\ (allowed' => work' = << >> /\ incoming' = << >>)
            /\ UNCHANGED <<work, incoming, delayed, due, stamp>>
        BY <2>1 DEF DoWorkFindsNothing
      <3> HIDE DEF l
      <3>3. DueInv'
        BY <3>2, <1>b
      <3>4. CASE shouldQuit
        BY <1>t, <3>2, <3>3, <3>4, WakeAfterReturn DEF GoOn, WakeInv
      <3>5. CASE ~shouldQuit
        <4>1. SetTop(l) /\ depth' = depth
          BY <3>2, <3>5 DEF GoOn
        <4>2. Top' = l /\ DidWorkInv'
          BY <4>1, <3>1, <3>2, <1>t, TopSet, DidWorkSet DEF WakeInv
        <4> QED
          BY <3>1, <3>2, <3>3, <4>1, <4>2 DEF WakeInv, DryInv, Dry, DeferredInv, TimerInv
      <3> QED
        BY <3>4, <3>5
    <2>2. CASE ReloadWorkQueue
      BY <2>2 DEF ReloadWorkQueue, WakeInv, DryInv, Dry, DidWorkInv, DeferredInv, TimerInv,
                  DueInv, Accepted, Top
    <2>3. CASE DoWorkMovesDelayed
      <3>1. delayed' = delayed \cup {Head(work)} /\ ~Immediate(Head(work))
            /\ UNCHANGED <<depth, level, allowed, due, stamp, incoming>>
        BY <2>3 DEF DoWorkMovesDelayed, AddToDelayedWorkQueue
      <3>2. DueInv'
        BY <3>1 DEF WakeInv, DueInv, Accepted
      <3> QED
        BY <2>3, <3>1, <3>2 DEF DoWorkMovesDelayed, WakeInv, DryInv, Dry, DidWorkInv,
                                 DeferredInv, TimerInv, Top
    <2>4. CASE DoWorkDefers
      BY <2>4 DEF DoWorkDefers, WakeInv, DryInv, Dry, DidWorkInv, DeferredInv, TimerInv,
                  DueInv, Accepted, Top
    <2>a. ASSUME NEW t \in Tasks, NEW resume \in {"DoWork", "Delayed"}, depth > 0,
                 RunTask(t, Top, resume), UNCHANGED <<due, stamp>>, delayed' \subseteq delayed
          PROVE  WakeInv'
      <3> DEFINE l == [Top EXCEPT !.pc = "Task", !.task = t, !.resume = resume,
                                  !.didWork = TRUE, !.opened = FALSE]
      <3>1. l.pc = "Task" /\ l.didWork
        BY <2>a, <1>t, TopInUse DEF InUse, Level
      <3>2. DueInv'
        BY <2>a DEF WakeInv, DueInv, Accepted
      <3> QED
        BY <2>a, <3>1, <3>2, <1>c DEF RunTask
    <2>5. CASE DoWorkRunsTask
      <3>1. Head(work) \in Tasks
        BY <2>5, HeadTailProperties DEF DoWorkRunsTask, TypeOK, QueuesOK
      <3> QED
        BY <2>5, <3>1, <2>a DEF DoWorkRunsTask
    \* After DoDelayedWork has returned false.
    <2>b. ASSUME depth > 0, Top.pc = "Delayed", GoOn(AfterDelayed), DueInv',
                 UNCHANGED <<work, incoming, allowed, signaled, lock>>,
                 allowed => \A t \in delayed' : wakeTime' # 0 /\ wakeTime' <= due'[t]
          PROVE  WakeInv'
      <3>1. CASE shouldQuit
        BY <1>t, <2>b, <3>1, WakeAfterReturn DEF GoOn, WakeInv
      <3>2. CASE ~shouldQuit
        <4>1. SetTop(AfterDelayed) /\ depth' = depth
          BY <2>b, <3>2 DEF GoOn
        <4>2. AfterDelayed.pc = IF Top.didWork THEN "DoWork" ELSE "Idle"
          BY <2>b, <1>t, TopInUse DEF AfterDelayed, InUse, Level
        <4>3. Top' = AfterDelayed /\ DidWorkInv'
          BY <4>1, <4>2, <2>b, <1>t, TopSet, DidWorkSet DEF WakeInv
        <4>4. DryInv'
          BY <2>b, <4>1, <4>2, <4>3 DEF WakeInv, DryInv, Dry
        <4>5. DeferredInv' /\ TimerInv'
          BY <2>b, <4>1, <4>2, <4>3 DEF DeferredInv, TimerInv
        <4> QED
          BY <2>b, <4>3, <4>4, <4>5 DEF WakeInv
      <3> QED
        BY <3>1, <3>2
    <2>6. CASE DoDelayedWorkFindsNothing
      <3>1. DueInv'
        BY <2>6, <1>b DEF DoDelayedWorkFindsNothing
      <3> QED
        BY <2>6, <3>1, <2>b DEF DoDelayedWorkFindsNothing
    <2>7. ASSUME NEW t \in Tasks, DoDelayedWorkIsEarly(t) PROVE WakeInv'
      <3>1. DueInv'
        BY <2>7, <1>b DEF DoDelayedWorkIsEarly
      <3>2. recent \in Nat /\ due \in [Tasks -> Nat] /\ delayed \subseteq Tasks
        BY DEF TypeOK, PumpOK, HistoryOK, QueuesOK
      <3>3. \A u \in delayed : due[t] <= due[u]
        BY <2>7, <3>2 DEF DoDelayedWorkIsEarly, IsTop
      <3>4. wakeTime' = due[t] /\ due[t] # 0
        BY <2>7, <3>2 DEF DoDelayedWorkIsEarly
      <3> QED
        BY <2>7, <3>1, <3>3, <3>4, <2>b DEF DoDelayedWorkIsEarly
    <2>8. ASSUME NEW t \in Tasks, DoDelayedWorkTakes(t) PROVE WakeInv'
      <3>1. depth > 0 /\ Top.pc = "Delayed" /\ delayed' = delayed \ {t}
            /\ UNCHANGED <<work, incoming, due, stamp, signaled, lock>>
        BY <2>8 DEF DoDelayedWorkTakes
      <3>2. CASE Runnable(t)
        BY <2>8, <3>1, <3>2, <2>a DEF DoDelayedWorkTakes
      <3>3. CASE ~Runnable(t)
        <4>1. GoOn(AfterDelayed) /\ allowed' = allowed
          BY <2>8, <3>3 DEF DoDelayedWorkTakes
        <4>2. DueInv'
          BY <3>1 DEF WakeInv, DueInv, Accepted
        <4>3. \A v \in delayed' : wakeTime' # 0 /\ wakeTime' <= due'[v]
          <5> SUFFICES ASSUME NEW v \in delayed' PROVE wakeTime' # 0 /\ wakeTime' <= due'[v]
            OBVIOUS
          <5>1. PICK u \in delayed \ {t} : IsTop(u, delayed \ {t}, seqNum) /\ wakeTime' = due[u]
            BY <2>8, <3>1 DEF DoDelayedWorkTakes
          <5>2. due \in [Tasks -> Nat] /\ delayed \subseteq Tasks /\ delayed \subseteq Accepted
            BY DEF TypeOK, HistoryOK, QueuesOK, QueueInv, Conservation, Queued
          <5>3. due[u] > 0
            BY <5>1, <5>2 DEF WakeInv, DueInv
          <5>4. due[u] <= due[v]
            BY <3>1, <5>1, <5>2 DEF IsTop
          <5> QED
            BY <3>1, <5>1, <5>2, <5>3, <5>4
        <4> QED
          BY <3>1, <4>1, <4>2, <4>3, <2>b
      <3> QED
        BY <3>2, <3>3
    <2>9. CASE DoIdleWorkRunsDeferred
      <3>1. Head(deferred) \in Tasks
        BY <2>9, HeadTailProperties DEF DoIdleWorkRunsDeferred, TypeOK, QueuesOK
      <3> QED
        BY <2>9, <3>1, <2>a DEF DoIdleWorkRunsDeferred
    <2>10. CASE DoIdleWorkQuits
      BY <2>10, <1>t, <1>b, WakeAfterReturn DEF DoIdleWorkQuits, WakeInv
    <2>11. CASE DoIdleWorkFindsNothing \/ FallAsleep
      <3>1. PICK pc \in {"Sleep", "Asleep"} :
              /\ depth > 0 /\ Top.pc \in {"Idle", "Sleep"}
              /\ GoOn([Top EXCEPT !.pc = pc])
                 \/ (SetTop([Top EXCEPT !.pc = pc]) /\ depth' = depth)
              /\ depth = 1 => deferred = << >>
        BY <2>11 DEF DoIdleWorkFindsNothing, FallAsleep, WakeInv, DeferredInv
      <3>2. UNCHANGED <<work, incoming, deferred, delayed, due, stamp, allowed, signaled, lock,
                        wakeTime>>
        BY <2>11 DEF DoIdleWorkFindsNothing, FallAsleep
      <3> DEFINE l == [Top EXCEPT !.pc = pc]
      <3>3. l.pc = pc
        BY <3>1, <1>t, TopInUse DEF InUse, Level
      <3> HIDE DEF l
      <3>4. DueInv'
        BY <3>2, <1>b
      <3>5. CASE Return
        BY <3>1, <3>4, <3>5, <1>t, WakeAfterReturn DEF WakeInv
      <3>6. CASE SetTop(l) /\ depth' = depth
        <4>1. Top' = l /\ DidWorkInv'
          BY <3>1, <3>3, <3>6, <1>t, TopSet, DidWorkSet DEF WakeInv
        <4>2. DryInv'
          BY <3>1, <3>2, <3>3, <3>6, <4>1 DEF WakeInv, DryInv, Dry
        <4>3. DeferredInv'
          BY <3>1, <3>2, <3>6 DEF DeferredInv
        <4>4. TimerInv'
          BY <3>1, <3>2, <3>3, <3>6, <4>1 DEF WakeInv, TimerInv
        <4> QED
          BY <3>4, <4>1, <4>2, <4>3, <4>4 DEF WakeInv
      <3> QED
        BY <3>1, <3>5, <3>6 DEF GoOn, l
    <2>12. CASE SkipSleep \/ WakeBySignal \/ WakeByTimeout
      <3>1. depth > 0 /\ Top.pc \in {"Sleep", "Asleep"} /\ depth' = depth
            /\ SetTop([Top EXCEPT !.pc = "DoWork"]) /\ UNCHANGED <<delayed, due, stamp>>
        BY <2>12 DEF SkipSleep, WakeBySignal, WakeByTimeout
      <3>2. [Top EXCEPT !.pc = "DoWork"].pc = "DoWork"
        BY <3>1, <1>t, PcChange, TopInUse
      <3> QED
        BY <3>1, <3>2, <1>b, <1>c
    <2> QED
      BY <1>5, <2>1, <2>2, <2>3, <2>4, <2>5, <2>6, <2>7, <2>8, <2>9, <2>10, <2>11,
         <2>12 DEF PumpStep
  <1>6. CASE TaskStep
    <2>1. ASSUME NEW t \in Tasks, PostFromTask(t) PROVE WakeInv'
      <3>1. signaled' = (signaled \/ incoming = << >>) /\ signaled \in BOOLEAN
        BY <2>1 DEF PostFromTask, TypeOK, PumpOK
      <3> QED
        BY <2>1, <3>1, PushWake DEF PostFromTask
    <2>2. ASSUME NEW b \in BOOLEAN, SetNestableTasksAllowed(b) PROVE WakeInv'
      <3>1. [Top EXCEPT !.opened = b].pc = "Task" /\ [Top EXCEPT !.opened = b].didWork
        BY <2>2, <1>t, TopInUse DEF SetNestableTasksAllowed, Running, InUse, Level, WakeInv,
                                    DidWorkInv, Top, StackOK
      <3> QED
        BY <2>2, <3>1, <1>b, <1>c DEF SetNestableTasksAllowed, Running
    <2>3. ASSUME NEW b \in BOOLEAN, RunFromTask(b) PROVE WakeInv'
      BY <2>3, <1>4 DEF RunFromTask, Running
    <2>4. CASE Quit
      <3> DEFINE l == [Top EXCEPT !.quit = TRUE,
                                  !.owed = IF Top.quit THEN Top.owed ELSE Accepted]
      <3>1. l.pc = "Task" /\ l.didWork
        BY <2>4, <1>t, TopInUse DEF Quit, Running, InUse, Level, WakeInv, DidWorkInv, Top, StackOK
      <3> QED
        BY <2>4, <3>1, <1>b, <1>c DEF Quit, Running
    <2>5. CASE QuitNow
      BY <2>5, <1>a DEF QuitNow
    <2> QED
      BY <1>6, <2>1, <2>2, <2>3, <2>4, <2>5 DEF TaskStep
  <1>7. CASE FinishTask
    <2> DEFINE l == [Top EXCEPT !.pc = Top.resume, !.task = NoTask, !.opened = FALSE]
    <2>1. depth > 0 /\ Top.pc = "Task" /\ GoOn(l) /\ UNCHANGED <<delayed, due, stamp>>
      BY <1>7 DEF FinishTask
    <2>2. l.pc \in {"DoWork", "Delayed"} /\ l.didWork
      BY <2>1, <1>t, TopInUse DEF InUse, Level, WakeInv, DidWorkInv, Top, StackOK
    <2>3. DueInv'
      BY <2>1, <1>b
    <2> HIDE DEF l
    <2>4. CASE shouldQuit
      BY <2>1, <2>3, <2>4, <1>t, WakeAfterReturn DEF GoOn, WakeInv
    <2>5. CASE ~shouldQuit
      <3>1. SetTop(l) /\ depth' = depth
        BY <2>1, <2>5 DEF GoOn
      <3>2. Top' = l /\ DidWorkInv'
        BY <3>1, <2>1, <2>2, <1>t, TopSet, DidWorkSet DEF WakeInv
      <3> QED
        BY <2>2, <2>3, <3>1, <3>2 DEF WakeInv, DryInv, Dry, DeferredInv, TimerInv
    <2> QED
      BY <2>4, <2>5
  <1>8. CASE Destructor
    <2>1. CASE Delete
      BY <2>1, <1>a DEF Delete
    <2>2. CASE DeletePendingTasks \/ ReloadForDelete \/ Disappear
      <3>1. depth = 0 /\ depth' = 0 /\ UNCHANGED <<due, stamp>> /\ delayed' \subseteq delayed
        BY <2>2 DEF DeletePendingTasks, ReloadForDelete, Disappear, QueueInv, Dying
      <3> QED
        BY <3>1 DEF WakeInv, DryInv, Dry, DidWorkInv, DeferredInv, TimerInv, DueInv, Accepted
    <2>3. ASSUME NEW t \in Tasks, PostFromDestructor(t) PROVE WakeInv'
      <3>1. signaled' = (signaled \/ incoming = << >>) /\ signaled \in BOOLEAN
        BY <2>3 DEF PostFromDestructor, TypeOK, PumpOK
      <3> QED
        BY <2>3, <3>1, PushWake DEF PostFromDestructor
    <2> QED
      BY <1>8, <2>1, <2>2, <2>3 DEF Destructor
  <1>9. CASE Tick
    BY <1>9, <1>a DEF Tick
  <1> QED
    BY <1>0, <1>1, <1>2, <1>3, <1>4, <1>5, <1>6, <1>7, <1>8, <1>9 DEF Next, RunFromOwner

\* The pump never sleeps on a task it may run, however posts, nested loops,
\* quits and timers interleave.
THEOREM NeverAsleepOnWork == Spec => []NoLostWakeup
  <1>1. Init => TypeOK /\ QueueInv /\ WakeInv
    BY InitType, QueueInit, WakeInit
  <1>2. TypeOK /\ QueueInv /\ WakeInv /\ [Next]_vars => (TypeOK /\ QueueInv /\ WakeInv)'
    BY TypeStep, QueueStep, WakeStep
  <1>3. WakeInv => NoLostWakeup
    BY DEF WakeInv, DryInv, Dry, DeferredInv, TimerInv, NoLostWakeup
  <1> QED
    BY <1>1, <1>2, <1>3, PTL DEF Spec
----------------------------------------------------------------------------
(***************************************************************************)
(* The order of the posts on their way through the queues                  *)
(***************************************************************************)

\* The posts in a queue are in the order in which they were accepted.
Rising(s) == \A i, j \in 1..Len(s) : i < j => stamp[s[i]] < stamp[s[j]]

\* The delayed queue holds the oldest posts, then the work queue, then the
\* incoming one; the delayed tasks are numbered in the order of the posts.
PostOrder ==
  /\ Rising(incoming) /\ Rising(work)
  /\ \A t \in Elements(work), u \in Elements(incoming) : stamp[t] < stamp[u]
  /\ \A t \in delayed, u \in Elements(work) \cup Elements(incoming) : stamp[t] < stamp[u]
  /\ \A t, u \in delayed : stamp[t] < stamp[u] => seqNum[t] < seqNum[u]
  /\ \A t \in delayed : seqNum[t] < nextSeq
  /\ \A t \in Tasks : stamp[t] <= posts

\* Only a task that may not nest is deferred, and only when it is due.
DeferOrder == \A t \in Elements(deferred) : ~Nestable[t] /\ due[t] <= now

\* The cached time is not ahead of the clock; only a delayed task has a due time.
CachedTime == recent <= now /\ \A t \in Tasks : Immediate(t) => due[t] = 0

OrderInv == PostOrder /\ DeferOrder /\ CachedTime

LEMMA OrderInit == Init => OrderInv
  <1> SUFFICES ASSUME Init PROVE OrderInv
    OBVIOUS
  <1>1. Elements(<< >>) = {} /\ Len(<< >>) = 0
    BY EmptyElements, EmptySeq
  <1> QED
    BY <1>1 DEF Init, OrderInv, PostOrder, DeferOrder, CachedTime, Rising

(* What a step does to the queues *)

QueuesKept == UNCHANGED <<queues, incoming, due, stamp, posts>>

QueuesPushed(t) == Push(t) /\ UNCHANGED queues

QueuesReloaded ==
  /\ work = << >> /\ work' = incoming /\ incoming' = << >>
  /\ UNCHANGED <<deferred, delayed, seqNum, nextSeq, due, stamp, posts>>

WorkPopped ==
  /\ work # << >> /\ work' = Tail(work)
  /\ \/ deferred' = deferred
     \/ /\ deferred' = Append(deferred, Head(work))
        /\ ~Nestable[Head(work)] /\ Immediate(Head(work))
  /\ UNCHANGED <<incoming, delayed, seqNum, nextSeq, due, stamp, posts>>

DelayedTaken(t) ==
  /\ t \in delayed /\ delayed' = delayed \ {t}
  /\ \/ deferred' = deferred
     \/ /\ deferred' = Append(deferred, t)
        /\ ~Nestable[t] /\ (due[t] <= recent \/ due[t] <= now)
  /\ UNCHANGED <<incoming, work, seqNum, nextSeq, due, stamp, posts>>

DeferredPopped ==
  /\ deferred # << >> /\ deferred' = Tail(deferred)
  /\ UNCHANGED <<incoming, work, delayed, seqNum, nextSeq, due, stamp, posts>>

QueuesCleared ==
  /\ work' \in {work, << >>} /\ incoming' \in {incoming, << >>}
  /\ deferred' \in {deferred, << >>} /\ delayed' \subseteq delayed
  /\ UNCHANGED <<seqNum, nextSeq, due, stamp, posts>>

QueuesStep ==
  \/ QueuesKept \/ QueuesReloaded \/ DoWorkMovesDelayed \/ WorkPopped \/ DeferredPopped
  \/ QueuesCleared
  \/ \E t \in Tasks : QueuesPushed(t) \/ DelayedTaken(t)

\* Every step is one of these kinds.
LEMMA QueueKinds == TypeOK /\ QueueInv /\ [Next]_vars => QueuesStep
  <1> SUFFICES ASSUME TypeOK, QueueInv, [Next]_vars PROVE QueuesStep
    OBVIOUS
  <1> USE DEF queues, posting, runs, clocks, ending, QueuesStep
  <1>0. CASE UNCHANGED vars
    BY <1>0 DEF vars, QueuesKept
  <1>1. ASSUME NEW p \in Posters, ScheduleWork(p) PROVE QueuesStep
    BY <1>1 DEF ScheduleWork, QueuesKept
  <1>2. ASSUME NEW p \in Posters, NEW t \in Tasks, PostFromThread(p, t) PROVE QueuesStep
    BY <1>2 DEF PostFromThread, QueuesPushed
  <1>3. ASSUME NEW t \in Tasks, PostRefused(t) PROVE QueuesStep
    BY <1>3 DEF PostRefused, QueuesKept
  <1>4. ASSUME NEW b \in BOOLEAN, RunFromOwner(b) PROVE QueuesStep
    BY <1>4 DEF RunFromOwner, Enter, QueuesKept
  <1>5. CASE PumpStep
    <2>1. CASE ReloadWorkQueue
      BY <2>1 DEF ReloadWorkQueue, QueuesReloaded
    <2>2. CASE DoWorkDefers
      BY <2>2 DEF DoWorkDefers, WorkPopped, Runnable
    <2>3. CASE DoWorkRunsTask
      BY <2>3 DEF DoWorkRunsTask, WorkPopped
    <2>4. ASSUME NEW t \in Tasks, DoDelayedWorkTakes(t) PROVE QueuesStep
      <3>1. DelayedTaken(t)
        <4>1. CASE Runnable(t)
          BY <2>4, <4>1 DEF DoDelayedWorkTakes, DelayedTaken, IsTop
        <4>2. CASE ~Runnable(t)
          BY <2>4, <4>2 DEF DoDelayedWorkTakes, DelayedTaken, IsTop, Runnable
        <4> QED
          BY <4>1, <4>2
      <3> QED
        BY <3>1
    <2>5. CASE DoIdleWorkRunsDeferred
      BY <2>5 DEF DoIdleWorkRunsDeferred, DeferredPopped
    <2>6. ASSUME NEW t \in Tasks, DoDelayedWorkIsEarly(t) PROVE QueuesStep
      BY <2>6 DEF DoDelayedWorkIsEarly, QueuesKept
    <2>7. CASE DoWorkFindsNothing \/ DoDelayedWorkFindsNothing \/ DoIdleWorkQuits
               \/ DoIdleWorkFindsNothing
      BY <2>7 DEF DoWorkFindsNothing, DoDelayedWorkFindsNothing, DoIdleWorkQuits,
                  DoIdleWorkFindsNothing, QueuesKept
    <2>8. CASE FallAsleep \/ SkipSleep \/ WakeBySignal \/ WakeByTimeout
      BY <2>8 DEF FallAsleep, SkipSleep, WakeBySignal, WakeByTimeout, QueuesKept
    <2> QED
      BY <1>5, <2>1, <2>2, <2>3, <2>4, <2>5, <2>6, <2>7, <2>8 DEF PumpStep
  <1>6. CASE TaskStep
    <2>1. ASSUME NEW t \in Tasks, PostFromTask(t) PROVE QueuesStep
      BY <2>1 DEF PostFromTask, QueuesPushed
    <2>2. ASSUME NEW b \in BOOLEAN, SetNestableTasksAllowed(b) \/ RunFromTask(b)
          PROVE  QueuesStep
      BY <2>2 DEF SetNestableTasksAllowed, RunFromTask, Enter, QueuesKept
    <2>3. CASE Quit \/ QuitNow
      BY <2>3 DEF Quit, QuitNow, QueuesKept
    <2> QED
      BY <1>6, <2>1, <2>2, <2>3 DEF TaskStep
  <1>7. CASE FinishTask
    BY <1>7 DEF FinishTask, QueuesKept
  <1>8. CASE Destructor
    <2>1. CASE Delete
      BY <2>1 DEF Delete, QueuesKept
    <2>2. CASE DeletePendingTasks
      BY <2>2 DEF DeletePendingTasks, QueuesCleared
    <2>3. CASE ReloadForDelete
      BY <2>3 DEF ReloadForDelete, QueuesReloaded, QueueInv, Dying
    <2>4. CASE Disappear
      BY <2>4 DEF Disappear, QueuesCleared
    <2>5. ASSUME NEW t \in Tasks, PostFromDestructor(t) PROVE QueuesStep
      BY <2>5 DEF PostFromDestructor, QueuesPushed
    <2> QED
      BY <1>8, <2>1, <2>2, <2>3, <2>4, <2>5 DEF Destructor
  <1>9. CASE Tick
    BY <1>9 DEF Tick, QueuesKept
  <1> QED
    BY <1>0, <1>1, <1>2, <1>3, <1>4, <1>5, <1>6, <1>7, <1>8, <1>9 DEF Next

\* The clock never goes back, and recent_tick_ is only ever set to Now() or 0.
LEMMA ClockStep ==
  TypeOK /\ [Next]_vars => now' >= now /\ recent' \in {recent, now, 0}
  <1> SUFFICES ASSUME TypeOK, [Next]_vars
               PROVE  now' >= now /\ recent' \in {recent, now, 0}
    OBVIOUS
  <1>a. ASSUME now' = now, recent' \in {recent, now, 0}
        PROVE  now' >= now /\ recent' \in {recent, now, 0}
    BY <1>a DEF TypeOK, PumpOK
  <1> USE DEF clocks
  <1>1. CASE PumpStep
    <2>1. CASE DoWorkFindsNothing \/ ReloadWorkQueue \/ DoWorkMovesDelayed
               \/ DoWorkDefers \/ DoWorkRunsTask
      BY <2>1, <1>a DEF DoWorkFindsNothing, ReloadWorkQueue, DoWorkMovesDelayed, DoWorkDefers,
                  DoWorkRunsTask
    <2>2. ASSUME NEW t \in Tasks, DoDelayedWorkIsEarly(t) \/ DoDelayedWorkTakes(t)
          PROVE  now' >= now /\ recent' \in {recent, now, 0}
      BY <2>2, <1>a DEF DoDelayedWorkIsEarly, DoDelayedWorkTakes
    <2>3. CASE DoDelayedWorkFindsNothing \/ DoIdleWorkRunsDeferred \/ DoIdleWorkQuits
               \/ DoIdleWorkFindsNothing
      BY <2>3, <1>a DEF DoDelayedWorkFindsNothing, DoIdleWorkRunsDeferred, DoIdleWorkQuits,
                  DoIdleWorkFindsNothing
    <2>4. CASE FallAsleep \/ SkipSleep \/ WakeBySignal \/ WakeByTimeout
      BY <2>4, <1>a DEF FallAsleep, SkipSleep, WakeBySignal, WakeByTimeout
    <2> QED
      BY <1>1, <2>1, <2>2, <2>3, <2>4 DEF PumpStep
  <1>2. CASE TaskStep \/ FinishTask \/ \E b \in BOOLEAN : RunFromOwner(b)
    BY <1>2, <1>a DEF TaskStep, FinishTask, RunFromOwner, RunFromTask, Enter, PostFromTask,
                      Quit, QuitNow, SetNestableTasksAllowed
  <1>3. CASE Destructor
    BY <1>3, <1>a DEF Destructor, Delete, DeletePendingTasks, ReloadForDelete, Disappear, PostFromDestructor
  <1>4. CASE \/ \E p \in Posters : ScheduleWork(p) \/ \E t \in Tasks : PostFromThread(p, t)
             \/ \E t \in Tasks : PostRefused(t)
    BY <1>4, <1>a DEF ScheduleWork, PostFromThread, PostRefused
  <1>5. CASE Tick
    BY <1>5 DEF Tick, TypeOK, PumpOK
  <1>6. CASE UNCHANGED vars
    BY <1>6, <1>a DEF vars
  <1> QED
    BY <1>1, <1>2, <1>3, <1>4, <1>5, <1>6 DEF Next

\* Appending the newest post to a rising queue keeps it rising.
LEMMA AppendRising ==
  ASSUME NEW s \in Seq(Tasks), NEW t \in Tasks, Rising(s), t \notin Elements(s),
         HistoryOK, \A u \in Tasks : stamp[u] <= posts,
         stamp' = [stamp EXCEPT ![t] = posts + 1]
  PROVE  Rising(Append(s, t))'
  <1>1. /\ Len(Append(s, t)) = Len(s) + 1 /\ Len(s) \in Nat
        /\ \A i \in 1..Len(s) : Append(s, t)[i] = s[i] /\ s[i] \in Tasks
        /\ Append(s, t)[Len(s) + 1] = t
    BY AppendProperties, LenProperties, ElementOfSeq
  <1> DEFINE r == Append(s, t)
  <1> HIDE DEF r
  <1>2. ASSUME NEW i \in 1..Len(r), NEW j \in 1..Len(r), i < j
        PROVE  stamp'[r[i]] < stamp'[r[j]]
    <2>1. i \in 1..Len(s) /\ r[i] = s[i] /\ s[i] # t /\ s[i] \in Tasks
      BY <1>1, <1>2 DEF Elements, r
    <2>2. stamp'[r[i]] = stamp[s[i]] /\ stamp[s[i]] <= posts /\ stamp[s[i]] \in Nat
      BY <2>1 DEF HistoryOK
    <2>3. CASE j = Len(s) + 1
      <3>1. r[j] = t
        BY <1>1, <2>3 DEF r
      <3>2. stamp'[t] = posts + 1 /\ posts \in Nat
        BY DEF HistoryOK
      <3> QED
        BY <2>2, <3>1, <3>2
    <2>4. CASE j # Len(s) + 1
      <3>1. j \in 1..Len(s) /\ r[j] = s[j] /\ s[j] # t /\ s[j] \in Tasks
        BY <1>1, <2>4, <1>2 DEF Elements, r
      <3> QED
        BY <2>1, <2>2, <3>1, <1>2 DEF HistoryOK, Rising
    <2> QED
      BY <2>3, <2>4
  <1> QED
    BY <1>2 DEF Rising, r

\* The tail of a rising queue rises, and its head is the oldest post in it.
LEMMA TailRising ==
  ASSUME NEW s \in Seq(Tasks), s # << >>, Rising(s), HistoryOK
  PROVE  /\ Rising(Tail(s))
         /\ \A u \in Elements(s) : u = Head(s) \/ stamp[Head(s)] < stamp[u]
         /\ \A u \in Elements(Tail(s)) : u \in Elements(s) /\ stamp[Head(s)] < stamp[u]
  <1>1. /\ Len(s) \in Nat \ {0} /\ Len(Tail(s)) = Len(s) - 1
        /\ Head(s) = s[1]
        /\ \A i \in 1..Len(Tail(s)) : Tail(s)[i] = s[i + 1]
    BY HeadTailProperties, LenProperties, EmptySeq
  <1>2. Rising(Tail(s))
    BY <1>1 DEF Rising
  <1>3. ASSUME NEW u \in Elements(s) PROVE u = Head(s) \/ stamp[Head(s)] < stamp[u]
    <2>1. PICK i \in 1..Len(s) : u = s[i]
      BY DEF Elements
    <2> QED
      BY <1>1, <2>1 DEF Rising
  <1>4. ASSUME NEW u \in Elements(Tail(s))
        PROVE  u \in Elements(s) /\ stamp[Head(s)] < stamp[u]
    <2>1. PICK i \in 1..Len(Tail(s)) : u = s[i + 1]
      BY <1>1 DEF Elements
    <2>2. i + 1 \in 1..Len(s) /\ 1 \in 1..Len(s) /\ 1 < i + 1
      BY <1>1
    <2> QED
      BY <1>1, <2>1, <2>2 DEF Rising, Elements
  <1> QED
    BY <1>2, <1>3, <1>4

LEMMA EmptyRising == Rising(<< >>) /\ Rising(<< >>)'
  <1>1. Len(<< >>) = 0
    BY EmptySeq
  <1> QED
    BY <1>1 DEF Rising

\* The order of the posts survives every kind of step.
LEMMA PostOrderStep ==
  ASSUME TypeOK, QueueInv, PostOrder, QueuesStep
  PROVE  PostOrder'
  <1> USE DEF queues
  <1>t. /\ incoming \in Seq(Tasks) /\ work \in Seq(Tasks) /\ delayed \subseteq Tasks
        /\ Elements(incoming) \subseteq Tasks /\ Elements(work) \subseteq Tasks
        /\ seqNum \in [Tasks -> Nat] /\ nextSeq \in Nat
        /\ stamp \in [Tasks -> Nat] /\ posts \in Nat
    BY ElementsType DEF TypeOK, QueuesOK, HistoryOK
  <1>e. Elements(<< >>) = {}
    BY EmptyElements
  <1>a. ASSUME NEW s, Rising(s), stamp' = stamp PROVE Rising(s)'
    BY <1>a DEF Rising
  <1>1. CASE QueuesKept
    BY <1>1, <1>a DEF QueuesKept, PostOrder
  <1>2. CASE QueuesReloaded
    BY <1>2, <1>e, <1>a, EmptyRising DEF QueuesReloaded, PostOrder
  <1>3. CASE DoWorkMovesDelayed
    <2> DEFINE t == Head(work)
    <2>1. /\ work # << >> /\ work' = Tail(work) /\ delayed' = delayed \cup {t}
          /\ seqNum' = [seqNum EXCEPT ![t] = nextSeq] /\ nextSeq' = nextSeq + 1
          /\ UNCHANGED <<incoming, stamp, posts>>
      BY <1>3 DEF DoWorkMovesDelayed, AddToDelayedWorkQueue, posting
    <2>2. t \in Elements(work) /\ t \in Tasks /\ t \notin delayed
      BY <2>1, <1>t, TailElements DEF QueueInv, Disjoint
    <2> HIDE DEF t
    <2>3. /\ Rising(work')
          /\ \A u \in Elements(work') : u \in Elements(work) /\ stamp[t] < stamp[u]
      BY <1>t, <2>1, TailRising DEF PostOrder, TypeOK, t
    <2>4. \A u \in delayed : seqNum'[u] = seqNum[u] /\ seqNum[u] < nextSeq /\ stamp[u] < stamp[t]
      BY <1>t, <2>1, <2>2 DEF PostOrder
    <2>5. seqNum'[t] = nextSeq
      BY <1>t, <2>1, <2>2
    <2>6. Rising(incoming)' /\ Rising(work)'
      BY <2>1, <2>3, <1>a DEF PostOrder, Rising
    <2>7. \A u \in Elements(work)', v \in Elements(incoming)' : stamp'[u] < stamp'[v]
      BY <2>1, <2>3 DEF PostOrder
    <2>8. \A u \in delayed', v \in (Elements(work) \cup Elements(incoming))' : stamp'[u] < stamp'[v]
      BY <2>1, <2>2, <2>3, SMTT(20) DEF PostOrder
    <2>9. \A u, v \in delayed' : stamp'[u] < stamp'[v] => seqNum'[u] < seqNum'[v]
      BY <2>1, <2>2, <2>4, <2>5, <1>t DEF PostOrder
    <2>10. \A u \in delayed' : seqNum'[u] < nextSeq'
      BY <2>1, <2>4, <2>5, <1>t
    <2> QED
      BY <2>1, <2>6, <2>7, <2>8, <2>9, <2>10 DEF PostOrder
  <1>4. CASE WorkPopped
    <2>1. /\ Rising(work') /\ \A u \in Elements(work') : u \in Elements(work)
      BY <1>4, <1>t, TailRising DEF WorkPopped, PostOrder, TypeOK
    <2> QED
      BY <1>4, <2>1, <1>a DEF WorkPopped, PostOrder, Rising
  <1>5. CASE DeferredPopped
    BY <1>5, <1>a DEF DeferredPopped, PostOrder
  <1>6. CASE QueuesCleared
    <2>1. Rising(work)' /\ Rising(incoming)'
      BY <1>6, <1>a, EmptyRising DEF QueuesCleared, PostOrder
    <2>2. Elements(work)' \subseteq Elements(work) /\ Elements(incoming)' \subseteq Elements(incoming)
      BY <1>6, <1>e DEF QueuesCleared
    <2> QED
      BY <1>6, <2>1, <2>2 DEF QueuesCleared, PostOrder
  <1>7. ASSUME NEW t \in Tasks, QueuesPushed(t) PROVE PostOrder'
    <2>1. /\ incoming' = Append(incoming, t) /\ stamp' = [stamp EXCEPT ![t] = posts + 1]
          /\ posts' = posts + 1 /\ UNCHANGED <<work, delayed, seqNum, nextSeq>>
      BY <1>7 DEF QueuesPushed, Push
    <2>2. t \notin Elements(incoming) /\ t \notin Elements(work) /\ t \notin delayed
      BY <1>7 DEF QueuesPushed, Push, Fresh, QueueInv, Conservation, Accepted, Queued
    <2>3. \A u \in Tasks : stamp[u] <= posts
      BY DEF PostOrder
    <2>4. Rising(incoming)'
      BY <2>1, <2>2, <2>3, <1>t, AppendRising DEF PostOrder, TypeOK, Rising
    <2>5. Elements(incoming)' = Elements(incoming) \cup {t}
      BY <2>1, <1>t, AppendElements
    <2>6. stamp'[t] = posts + 1 /\ \A u \in Tasks : u # t => stamp'[u] = stamp[u]
      BY <2>1, <1>t
    <2>7. \A u \in Elements(work) \cup delayed : u \in Tasks /\ u # t /\ stamp'[u] = stamp[u]
      BY <2>2, <2>6, <1>t
    <2>8. \A i \in 1..Len(work) : work[i] \in Elements(work)
      BY DEF Elements
    <2>9. Rising(work)'
      <3>1. ASSUME NEW i \in 1..Len(work), NEW j \in 1..Len(work), i < j
            PROVE  stamp'[work[i]] < stamp'[work[j]]
        <4>1. stamp'[work[i]] = stamp[work[i]] /\ stamp'[work[j]] = stamp[work[j]]
          BY <2>7, <2>8
        <4> QED
          BY <4>1, <3>1 DEF PostOrder, Rising
      <3> QED
        BY <3>1, <2>1 DEF Rising
    <2>10. \A u \in Elements(incoming) : u # t /\ stamp'[u] = stamp[u]
      BY <2>2, <2>6, <1>t
    <2>11. \A u \in Elements(work) \cup delayed : stamp'[u] < stamp'[t]
      BY <2>6, <2>7, <2>3, <1>t
    <2>12. \A u \in Elements(work)', v \in Elements(incoming)' : stamp'[u] < stamp'[v]
      BY <2>1, <2>5, <2>7, <2>10, <2>11 DEF PostOrder
    <2>13. \A u \in delayed', v \in (Elements(work) \cup Elements(incoming))' : stamp'[u] < stamp'[v]
      BY <2>1, <2>5, <2>7, <2>10, <2>11 DEF PostOrder
    <2>14. \A u, v \in delayed' : stamp'[u] < stamp'[v] => seqNum'[u] < seqNum'[v]
      BY <2>1, <2>7 DEF PostOrder
    <2>15. \A u \in Tasks : stamp'[u] <= posts'
      BY <2>1, <2>3, <2>6, <1>t
    <2> QED
      BY <2>1, <2>4, <2>9, <2>12, <2>13, <2>14, <2>15 DEF PostOrder
  <1>8. ASSUME NEW t \in Tasks, DelayedTaken(t) PROVE PostOrder'
    BY <1>8, <1>a DEF DelayedTaken, PostOrder
  <1> QED
    BY <1>1, <1>2, <1>3, <1>4, <1>5, <1>6, <1>7, <1>8 DEF QueuesStep

\* So does the state of the deferred tasks.
LEMMA DeferOrderStep ==
  ASSUME TypeOK, QueueInv, DeferOrder, CachedTime, QueuesStep, now' >= now, now' \in Nat
  PROVE  DeferOrder'
  <1> USE DEF queues
  <1>t. /\ work \in Seq(Tasks) /\ deferred \in Seq(Tasks)
        /\ Elements(deferred) \subseteq Tasks
        /\ due \in [Tasks -> Nat] /\ now \in Nat /\ recent \in Nat
    BY ElementsType DEF TypeOK, QueuesOK, HistoryOK, PumpOK
  <1>a. ASSUME due' = due, Elements(deferred)' \subseteq Elements(deferred) PROVE DeferOrder'
    BY <1>a, <1>t DEF DeferOrder
  <1>b. ASSUME NEW t \in Tasks, ~Nestable[t], due[t] <= now, due' = due,
               deferred' = Append(deferred, t)
        PROVE  DeferOrder'
    <2>1. Elements(deferred)' = Elements(deferred) \cup {t}
      BY <1>b, <1>t, AppendElements
    <2> QED
      BY <1>b, <2>1, <1>t DEF DeferOrder
  <1>1. CASE QueuesKept
    BY <1>1, <1>a DEF QueuesKept
  <1>2. CASE QueuesReloaded
    BY <1>2, <1>a DEF QueuesReloaded
  <1>3. CASE DoWorkMovesDelayed
    BY <1>3, <1>a DEF DoWorkMovesDelayed, posting
  <1>4. CASE WorkPopped
    <2>1. CASE deferred' = deferred
      BY <2>1, <1>4, <1>a DEF WorkPopped
    <2>2. CASE deferred' # deferred
      <3>1. Head(work) \in Tasks
        BY <1>4, <1>t, HeadTailProperties DEF WorkPopped
      <3> QED
        BY <2>2, <3>1, <1>4, <1>b, <1>t DEF WorkPopped, CachedTime
    <2> QED
      BY <2>1, <2>2
  <1>5. CASE DeferredPopped
    <2>1. Elements(deferred)' \subseteq Elements(deferred)
      BY <1>5, <1>t, TailElements DEF DeferredPopped, QueueInv, Disjoint
    <2> QED
      BY <1>5, <2>1, <1>a DEF DeferredPopped
  <1>6. CASE QueuesCleared
    BY <1>6, <1>a, EmptyElements DEF QueuesCleared
  <1>7. ASSUME NEW t \in Tasks, QueuesPushed(t) PROVE DeferOrder'
    <2>1. t \notin Elements(deferred) /\ deferred' = deferred
      BY <1>7 DEF QueuesPushed, Push, Fresh, QueueInv, Conservation, Accepted, Queued
    <2>2. \A u \in Elements(deferred) : due'[u] = due[u]
      BY <1>7, <2>1, <1>t DEF QueuesPushed, Push
    <2> QED
      BY <2>1, <2>2, <1>t DEF DeferOrder
  <1>8. ASSUME NEW t \in Tasks, DelayedTaken(t) PROVE DeferOrder'
    <2>1. CASE deferred' = deferred
      BY <2>1, <1>8, <1>a DEF DelayedTaken
    <2>2. CASE deferred' # deferred
      <3>1. due[t] <= now
        BY <1>8, <2>2, <1>t DEF DelayedTaken, CachedTime
      <3> QED
        BY <2>2, <3>1, <1>8, <1>b DEF DelayedTaken
    <2> QED
      BY <2>1, <2>2
  <1> QED
    BY <1>1, <1>2, <1>3, <1>4, <1>5, <1>6, <1>7, <1>8 DEF QueuesStep

\* Only a post sets a due time, and 0 when it has no delay.
LEMMA DueStep ==
  ASSUME TypeOK, CachedTime, QueuesStep
  PROVE  \A t \in Tasks : Immediate(t) => due'[t] = 0
  <1>1. CASE \E t \in Tasks : QueuesPushed(t)
    BY <1>1 DEF QueuesPushed, Push, CachedTime, Immediate, TypeOK, HistoryOK
  <1>2. CASE due' = due
    BY <1>2 DEF CachedTime
  <1> QED
    BY <1>1, <1>2 DEF QueuesStep, QueuesKept, QueuesReloaded, DoWorkMovesDelayed, WorkPopped,
                      DeferredPopped, QueuesCleared, DelayedTaken, posting

LEMMA OrderStep == TypeOK /\ QueueInv /\ OrderInv /\ [Next]_vars => OrderInv'
  <1> SUFFICES ASSUME TypeOK, QueueInv, OrderInv, [Next]_vars PROVE OrderInv'
    OBVIOUS
  <1>1. QueuesStep
    BY QueueKinds
  <1>2. now' >= now /\ recent' \in {recent, now, 0} /\ now' \in Nat /\ now \in Nat /\ recent \in Nat
    BY ClockStep, TypeStep DEF TypeOK, PumpOK
  <1>3. CachedTime'
    BY <1>1, <1>2, DueStep DEF OrderInv, CachedTime
  <1> QED
    BY <1>1, <1>2, <1>3, PostOrderStep, DeferOrderStep DEF OrderInv

LEMMA OrderInductive == Spec => [](TypeOK /\ QueueInv /\ OrderInv)
  <1>1. Init => TypeOK /\ QueueInv /\ OrderInv
    BY InitType, QueueInit, OrderInit
  <1>2. TypeOK /\ QueueInv /\ OrderInv /\ [Next]_vars => (TypeOK /\ QueueInv /\ OrderInv)'
    BY TypeStep, QueueStep, OrderStep
  <1> QED
    BY <1>1, <1>2, PTL DEF Spec

\* Tasks are started in three places only.
LEMMA StartKinds ==
  [Next]_vars =>
    \/ started' = started
    \/ DoWorkRunsTask \/ DoIdleWorkRunsDeferred
    \/ \E t \in Tasks : DoDelayedWorkTakes(t) /\ Runnable(t)
  <1> SUFFICES ASSUME [Next]_vars, ~DoWorkRunsTask, ~DoIdleWorkRunsDeferred,
                      \A t \in Tasks : ~(DoDelayedWorkTakes(t) /\ Runnable(t))
               PROVE  started' = started
    OBVIOUS
  <1>1. CASE PumpStep
    <2>1. CASE DoWorkFindsNothing \/ ReloadWorkQueue \/ DoWorkMovesDelayed \/ DoWorkDefers
      BY <2>1 DEF DoWorkFindsNothing, ReloadWorkQueue, DoWorkMovesDelayed, DoWorkDefers
    <2>2. ASSUME NEW t \in Tasks, DoDelayedWorkIsEarly(t) \/ DoDelayedWorkTakes(t)
          PROVE  started' = started
      BY <2>2 DEF DoDelayedWorkIsEarly, DoDelayedWorkTakes
    <2>3. CASE DoDelayedWorkFindsNothing \/ DoIdleWorkQuits \/ DoIdleWorkFindsNothing
      BY <2>3 DEF DoDelayedWorkFindsNothing, DoIdleWorkQuits, DoIdleWorkFindsNothing
    <2>4. CASE FallAsleep \/ SkipSleep \/ WakeBySignal \/ WakeByTimeout
      BY <2>4 DEF FallAsleep, SkipSleep, WakeBySignal, WakeByTimeout
    <2> QED
      BY <1>1, <2>1, <2>2, <2>3, <2>4 DEF PumpStep
  <1>2. CASE TaskStep \/ FinishTask \/ \E b \in BOOLEAN : RunFromOwner(b)
    BY <1>2 DEF TaskStep, FinishTask, RunFromOwner, RunFromTask, Enter, PostFromTask, Quit,
                QuitNow, SetNestableTasksAllowed
  <1>3. CASE Destructor
    BY <1>3 DEF Destructor, Delete, DeletePendingTasks, ReloadForDelete, Disappear,
                PostFromDestructor
  <1>4. CASE \/ \E p \in Posters : ScheduleWork(p) \/ \E t \in Tasks : PostFromThread(p, t)
             \/ \E t \in Tasks : PostRefused(t)
    BY <1>4 DEF ScheduleWork, PostFromThread, PostRefused
  <1>5. CASE Tick \/ UNCHANGED vars
    BY <1>5 DEF Tick, vars
  <1> QED
    BY <1>1, <1>2, <1>3, <1>4, <1>5 DEF Next

\* The earliest of the delayed tasks that DoDelayedWork may take is taken,
\* and the one posted first among those due together.
LEMMA DelayedFirst ==
  ASSUME TypeOK, PostOrder, NEW t \in Tasks, IsTop(t, delayed, seqNum),
         NEW u \in Queued, ~(u \in Elements(deferred)), stamp[u] < stamp[t]
  PROVE  due[t] < due[u]
  <1>t. /\ Elements(incoming) \subseteq Tasks /\ Elements(work) \subseteq Tasks
        /\ delayed \subseteq Tasks /\ seqNum \in [Tasks -> Nat]
        /\ stamp \in [Tasks -> Nat] /\ due \in [Tasks -> Nat]
    BY ElementsType DEF TypeOK, QueuesOK, HistoryOK
  <1>1. t \in delayed
    BY DEF IsTop
  <1>2. CASE u \in Elements(work) \cup Elements(incoming)
    <2>1. stamp[t] < stamp[u] /\ u \in Tasks
      BY <1>1, <1>2, <1>t DEF PostOrder
    <2> QED
      BY <2>1, <1>t
  <1>3. CASE u \in delayed
    <2>1. u # t /\ u \in Tasks
      BY <1>3, <1>t
    <2>2. seqNum[u] < seqNum[t]
      BY <1>1, <1>3 DEF PostOrder
    <2>3. due[t] < due[u] \/ seqNum[t] < seqNum[u]
      BY <1>3, <2>1 DEF IsTop
    <2> QED
      BY <2>1, <2>2, <2>3, <1>t
  <1> QED
    BY <1>2, <1>3 DEF Queued

\* A delayed task is never started before its time, and the earlier due or
\* first posted is taken first, in spite of the cached recent_tick_ and of the
\* two queues it crosses before the delayed one.
THEOREM DelayedTasksInOrder == Spec => DelayedInOrder
  <1>1. TypeOK /\ QueueInv /\ OrderInv /\ [Next]_vars =>
          [\A t \in (started' \ started) :
             ~Immediate(t) =>
               /\ due[t] <= now
               /\ t \in delayed =>
                    /\ \A u \in delayed : due[t] <= due[u]
                    /\ \A u \in Queued :
                         (/\ ~Immediate(u) /\ stamp[u] < stamp[t] /\ due[u] <= due[t])
                            => u \in Elements(deferred)]_vars
    <2> SUFFICES ASSUME TypeOK, QueueInv, OrderInv, [Next]_vars,
                        NEW t \in started' \ started, ~Immediate(t)
                 PROVE  /\ due[t] <= now
                        /\ t \in delayed =>
                             /\ \A u \in delayed : due[t] <= due[u]
                             /\ \A u \in Queued :
                                  (/\ ~Immediate(u) /\ stamp[u] < stamp[t] /\ due[u] <= due[t])
                                     => u \in Elements(deferred)
      OBVIOUS
    <2>t. /\ due \in [Tasks -> Nat] /\ now \in Nat /\ recent \in Nat
          /\ Queued \subseteq Tasks /\ deferred \in Seq(Tasks) /\ Elements(deferred) \subseteq Tasks
      BY ElementsType DEF TypeOK, QueuesOK, HistoryOK, PumpOK, Queued
    <2>1. CASE DoWorkRunsTask
      BY <2>1 DEF DoWorkRunsTask, RunTask
    <2>2. CASE DoIdleWorkRunsDeferred
      <3>1. t = Head(deferred) /\ deferred # << >>
        BY <2>2 DEF DoIdleWorkRunsDeferred, RunTask
      <3>2. t \in Elements(deferred)
        BY <3>1, <2>t, TailElements
      <3> QED
        BY <3>2 DEF OrderInv, DeferOrder, QueueInv, Disjoint
    <2>3. ASSUME NEW v \in Tasks, DoDelayedWorkTakes(v), Runnable(v)
          PROVE  /\ due[t] <= now
                 /\ t \in delayed =>
                      /\ \A u \in delayed : due[t] <= due[u]
                      /\ \A u \in Queued :
                           (/\ ~Immediate(u) /\ stamp[u] < stamp[t] /\ due[u] <= due[t])
                              => u \in Elements(deferred)
      <3>1. t = v /\ IsTop(t, delayed, seqNum) /\ (due[t] <= recent \/ due[t] <= now)
        BY <2>3 DEF DoDelayedWorkTakes, RunTask
      <3>2. due[t] <= now
        BY <3>1, <2>t DEF OrderInv, CachedTime
      <3>3. ASSUME NEW u \in Queued, stamp[u] < stamp[t], due[u] <= due[t]
            PROVE  u \in Elements(deferred)
        <4>1. u \notin Elements(deferred) => due[t] < due[u]
          BY <3>1, <3>3, DelayedFirst DEF OrderInv
        <4> QED
          BY <4>1, <3>1, <3>3, <2>t
      <3>4. \A u \in delayed : due[t] <= due[u]
        BY <3>1, <2>t DEF IsTop, Queued
      <3> QED
        BY <3>2, <3>3, <3>4
    <2> QED
      BY <2>1, <2>2, <2>3, StartKinds
  <1> QED
    BY <1>1, OrderInductive, PTL DEF Spec, DelayedInOrder

(***************************************************************************)
(* Quit.  The tasks that were accepted when quit_received became true are  *)
(* out of the incoming queue once DoWork has found nothing to do.          *)
(***************************************************************************)

OwedInv ==
  /\ \A k \in 1..depth : /\ level[k].owed \subseteq Accepted
                         /\ ~level[k].quit => level[k].owed = {}
  /\ Dry => Top.owed \cap Elements(incoming) = {}

LEMMA OwedInit == Init => OwedInv
  BY DEF Init, OwedInv, Dry

\* What a step does to the levels' quit_received.
OwedStep ==
  \A k \in 1..depth' :
    \/ k <= depth /\ level'[k].quit = level[k].quit /\ level'[k].owed = level[k].owed
    \/ /\ k = depth' /\ level'[k].pc \in {"DoWork", "Task"}
       /\ level'[k].owed \subseteq Accepted
       /\ ~level'[k].quit => level'[k].owed = {}

\* Run gets past DoWork by finding nothing there.
DryStep == Dry' => incoming' = << >> \/ (Dry /\ depth' = depth)

LEMMA OwedSetTop ==
  ASSUME StackOK, depth > 0, NEW l, SetTop(l), depth' = depth,
         l.quit = Top.quit, l.owed = Top.owed
  PROVE  OwedStep
  <1>1. Top' = l /\ \A k \in 1..depth - 1 : level'[k] = level[k]
    BY TopSet
  <1>2. depth \in Nat
    BY DEF StackOK
  <1> QED
    BY <1>1, <1>2 DEF OwedStep, Top

LEMMA OwedReturn ==
  ASSUME StackOK, depth > 0, Return
  PROVE  OwedStep /\ DryStep
  <1>1. /\ depth' = 0 \/ (depth' > 0 /\ Top'.pc = "Task")
        /\ \A d \in 1..depth' : level'[d] = level[d]
    BY TopReturned
  <1>2. depth \in Nat /\ depth' = depth - 1
    BY DEF StackOK, Return
  <1> QED
    BY <1>1, <1>2 DEF OwedStep, DryStep, Dry

\* Run goes round: it stays dry, or gets dry by finding no work.
LEMMA OwedGoOn ==
  ASSUME StackOK, depth > 0, NEW l, GoOn(l), l.quit = Top.quit, l.owed = Top.owed,
         allowed' = allowed, incoming' = incoming,
         \/ l.pc = "DoWork" \/ Dry \/ ~allowed \/ incoming = << >>
  PROVE  OwedStep /\ DryStep
  <1>1. CASE shouldQuit
    BY <1>1, OwedReturn DEF GoOn
  <1>2. CASE ~shouldQuit
    <2>1. SetTop(l) /\ depth' = depth
      BY <1>2 DEF GoOn
    <2>2. Top' = l
      BY <2>1, TopSet
    <2> QED
      BY <2>1, <2>2, OwedSetTop DEF DryStep, Dry
  <1> QED
    BY <1>1, <1>2

LEMMA OwedKept ==
  ASSUME StackOK, UNCHANGED <<depth, level>>
  PROVE  OwedStep
  BY DEF OwedStep, StackOK

LEMMA DryKept ==
  ASSUME UNCHANGED <<depth, level, allowed>>
  PROVE  DryStep
  BY DEF DryStep, Dry, Top

\* A level at the head of its loop, or inside a task, is not dry.
LEMMA NotDry ==
  ASSUME StackOK, depth > 0, NEW l, SetTop(l), depth' = depth, l.pc \in {"DoWork", "Task"}
  PROVE  DryStep
  <1>1. Top' = l
    BY TopSet
  <1> QED
    BY <1>1 DEF DryStep, Dry

LEMMA QuitKinds == TypeOK /\ DidWorkInv /\ [Next]_vars => OwedStep /\ DryStep
  <1> SUFFICES ASSUME TypeOK, DidWorkInv, [Next]_vars PROVE OwedStep /\ DryStep
    OBVIOUS
  <1> USE DEF queues, posting, runs, clocks, ending
  <1>t. /\ StackOK /\ depth \in Nat
        /\ depth > 0 => InUse(Top) /\ Top \in Level
    BY TopInUse DEF TypeOK, StackOK, InUse
  <1>0. CASE UNCHANGED <<depth, level, allowed>>
    BY <1>0, <1>t, OwedKept, DryKept
  <1>1. ASSUME NEW b \in BOOLEAN, Enter(b) PROVE OwedStep /\ DryStep
    <2> DEFINE l == [NoLevel EXCEPT !.pc = "DoWork", !.quit = b,
                                    !.owed = IF b THEN Accepted ELSE {}]
    <2>1. l.pc = "DoWork" /\ l.quit = b /\ l.owed = IF b THEN Accepted ELSE {}
      BY DEF NoLevel
    <2> HIDE DEF l
    <2>2. level' = [level EXCEPT ![depth + 1] = l] /\ depth' = depth + 1 /\ depth < MaxDepth
      BY <1>1 DEF Enter, l
    <2>3. level'[depth'] = l /\ \A k \in 1..depth : level'[k] = level[k]
      BY <2>2, <1>t, ConstantsAssumption DEF StackOK, ConstantsAssumption
    <2> QED
      BY <2>1, <2>2, <2>3, <1>t DEF OwedStep, DryStep, Dry, Top
  <1>2. CASE PumpStep
    <2>1. CASE DoWorkFindsNothing
      <3>1. /\ [Top EXCEPT !.pc = "Delayed", !.didWork = FALSE].quit = Top.quit
            /\ [Top EXCEPT !.pc = "Delayed", !.didWork = FALSE].owed = Top.owed
        BY <2>1, <1>t DEF DoWorkFindsNothing, Level
      <3>2. incoming' = incoming /\ (~allowed \/ incoming = << >>)
        BY <2>1 DEF DoWorkFindsNothing
      <3> QED
        BY <2>1, <3>1, <3>2, <1>t, OwedGoOn DEF DoWorkFindsNothing
    <2>2. CASE ReloadWorkQueue \/ DoWorkMovesDelayed \/ DoWorkDefers
      BY <2>2, <1>0 DEF ReloadWorkQueue, DoWorkMovesDelayed, DoWorkDefers
    <2>3. ASSUME NEW t, NEW resume, depth > 0, RunTask(t, Top, resume) PROVE OwedStep /\ DryStep
      <3> DEFINE l == [Top EXCEPT !.pc = "Task", !.task = t, !.resume = resume,
                                  !.didWork = TRUE, !.opened = FALSE]
      <3>1. l.pc = "Task" /\ l.quit = Top.quit /\ l.owed = Top.owed
        BY <2>3, <1>t DEF Level
      <3>2. SetTop(l) /\ depth' = depth
        BY <2>3 DEF RunTask
      <3> HIDE DEF l
      <3> QED
        BY <2>3, <3>1, <3>2, <1>t, OwedSetTop, NotDry
    <2>4. CASE DoWorkRunsTask
      BY <2>4, <2>3 DEF DoWorkRunsTask
    <2>5. ASSUME depth > 0, Top.pc = "Delayed", GoOn(AfterDelayed), allowed' = allowed,
                 incoming' = incoming
          PROVE  OwedStep /\ DryStep
      <3>1. AfterDelayed.quit = Top.quit /\ AfterDelayed.owed = Top.owed
        BY <2>5, <1>t DEF AfterDelayed, Level
      <3>2. AfterDelayed.pc = "DoWork" \/ Dry \/ ~allowed
        BY <2>5, <1>t DEF AfterDelayed, Level, Dry
      <3> QED
        BY <2>5, <3>1, <3>2, <1>t, OwedGoOn
    <2>6. CASE DoDelayedWorkFindsNothing
      BY <2>5, <2>6 DEF DoDelayedWorkFindsNothing
    <2>7. ASSUME NEW t \in Tasks, DoDelayedWorkIsEarly(t) PROVE OwedStep /\ DryStep
      BY <2>5, <2>7 DEF DoDelayedWorkIsEarly
    <2>8. ASSUME NEW t \in Tasks, DoDelayedWorkTakes(t) PROVE OwedStep /\ DryStep
      <3>1. CASE Runnable(t)
        BY <2>3, <2>8, <3>1 DEF DoDelayedWorkTakes
      <3>2. CASE ~Runnable(t)
        BY <2>5, <2>8, <3>2 DEF DoDelayedWorkTakes
      <3> QED
        BY <3>1, <3>2
    <2>9. CASE DoIdleWorkRunsDeferred
      BY <2>9, <2>3 DEF DoIdleWorkRunsDeferred
    <2>10. CASE DoIdleWorkQuits
      BY <2>10, <1>t, OwedReturn DEF DoIdleWorkQuits
    <2>11. CASE DoIdleWorkFindsNothing
      <3>1. [Top EXCEPT !.pc = "Sleep"].quit = Top.quit /\ [Top EXCEPT !.pc = "Sleep"].owed = Top.owed
        BY <2>11, <1>t DEF DoIdleWorkFindsNothing, Level
      <3>2. Dry \/ ~allowed
        BY <2>11 DEF DoIdleWorkFindsNothing, Dry
      <3> QED
        BY <2>11, <3>1, <3>2, <1>t, OwedGoOn DEF DoIdleWorkFindsNothing
    <2>12. CASE FallAsleep
      <3> DEFINE l == [Top EXCEPT !.pc = "Asleep"]
      <3>1. l.quit = Top.quit /\ l.owed = Top.owed
        BY <2>12, <1>t DEF FallAsleep, Level
      <3>2. depth > 0 /\ SetTop(l) /\ depth' = depth /\ (Dry \/ ~allowed) /\ allowed' = allowed
        BY <2>12 DEF FallAsleep, Dry
      <3> HIDE DEF l
      <3> QED
        BY <3>1, <3>2, <1>t, OwedSetTop DEF DryStep, Dry
    <2>13. CASE SkipSleep \/ WakeBySignal \/ WakeByTimeout
      <3> DEFINE l == [Top EXCEPT !.pc = "DoWork"]
      <3>1. depth > 0 /\ SetTop(l) /\ depth' = depth
        BY <2>13 DEF SkipSleep, WakeBySignal, WakeByTimeout
      <3>2. l.quit = Top.quit /\ l.owed = Top.owed /\ l.pc = "DoWork"
        BY <3>1, <1>t DEF Level
      <3> HIDE DEF l
      <3> QED
        BY <3>1, <3>2, <1>t, OwedSetTop, NotDry
    <2> QED
      BY <1>2, <2>1, <2>2, <2>4, <2>6, <2>7, <2>8, <2>9, <2>10, <2>11, <2>12, <2>13 DEF PumpStep
  <1>3. CASE TaskStep
    <2>1. ASSUME NEW t \in Tasks, PostFromTask(t) PROVE OwedStep /\ DryStep
      BY <2>1, <1>0 DEF PostFromTask
    <2>2. ASSUME NEW b \in BOOLEAN, SetNestableTasksAllowed(b) PROVE OwedStep /\ DryStep
      <3> DEFINE l == [Top EXCEPT !.opened = b]
      <3>1. depth > 0 /\ SetTop(l) /\ depth' = depth /\ Top.pc = "Task"
        BY <2>2 DEF SetNestableTasksAllowed, Running
      <3>2. l.quit = Top.quit /\ l.owed = Top.owed /\ l.pc = "Task"
        BY <3>1, <1>t DEF Level
      <3> HIDE DEF l
      <3> QED
        BY <3>1, <3>2, <1>t, OwedSetTop, NotDry
    <2>3. ASSUME NEW b \in BOOLEAN, RunFromTask(b) PROVE OwedStep /\ DryStep
      BY <2>3, <1>1 DEF RunFromTask
    <2>4. CASE Quit
      <3> DEFINE l == [Top EXCEPT !.quit = TRUE, !.owed = IF Top.quit THEN Top.owed ELSE Accepted]
      <3>1. depth > 0 /\ SetTop(l) /\ depth' = depth /\ Top.pc = "Task"
        BY <2>4 DEF Quit, Running
      <3>2. l.quit = TRUE /\ l.pc = "Task" /\ (l.owed = Accepted \/ (l.owed = Top.owed /\ Top.quit))
        BY <3>1, <1>t DEF Level
      <3> HIDE DEF l
      <3>3. DryStep
        BY <3>1, <3>2, <1>t, NotDry
      <3>4. CASE l.owed = Accepted
        <4>1. Top' = l /\ \A k \in 1..depth - 1 : level'[k] = level[k]
          BY <3>1, <1>t, TopSet
        <4> QED
          BY <3>1, <3>2, <3>3, <3>4, <4>1, <1>t DEF OwedStep, Top
      <3>5. CASE l.owed = Top.owed /\ Top.quit
        BY <3>1, <3>2, <3>3, <3>5, <1>t, OwedSetTop
      <3> QED
        BY <3>2, <3>4, <3>5
    <2>5. CASE QuitNow
      BY <2>5, <1>0 DEF QuitNow
    <2> QED
      BY <1>3, <2>1, <2>2, <2>3, <2>4, <2>5 DEF TaskStep
  <1>4. CASE FinishTask
    <2> DEFINE l == [Top EXCEPT !.pc = Top.resume, !.task = NoTask, !.opened = FALSE]
    <2>1. depth > 0 /\ GoOn(l) /\ Top.pc = "Task"
      BY <1>4 DEF FinishTask
    <2>2. /\ l.quit = Top.quit /\ l.owed = Top.owed
          /\ l.pc = "DoWork" \/ (l.pc = "Delayed" /\ l.didWork)
      <3>1. Top.didWork
        BY <2>1, <1>t DEF DidWorkInv, Top
      <3> QED
        BY <2>1, <3>1, <1>t DEF Level
    <2> HIDE DEF l
    <2>3. CASE shouldQuit
      BY <2>1, <2>3, <1>t, OwedReturn DEF GoOn
    <2>4. CASE ~shouldQuit
      <3>1. SetTop(l) /\ depth' = depth
        BY <2>1, <2>4 DEF GoOn
      <3>2. Top' = l
        BY <2>1, <3>1, <1>t, TopSet
      <3> QED
        BY <2>1, <2>2, <3>1, <3>2, <1>t, OwedSetTop DEF DryStep, Dry
    <2> QED
      BY <2>3, <2>4
  <1>5. CASE Destructor
    BY <1>5, <1>0 DEF Destructor, Delete, DeletePendingTasks, ReloadForDelete, Disappear,
                PostFromDestructor
  <1>6. CASE \/ \E p \in Posters : ScheduleWork(p) \/ \E t \in Tasks : PostFromThread(p, t)
             \/ \E t \in Tasks : PostRefused(t)
    BY <1>6, <1>0 DEF ScheduleWork, PostFromThread, PostRefused
  <1>7. CASE Tick \/ UNCHANGED vars
    BY <1>7, <1>0 DEF Tick, vars
  <1>8. CASE \E b \in BOOLEAN : RunFromOwner(b)
    BY <1>8, <1>1 DEF RunFromOwner
  <1> QED
    BY <1>2, <1>3, <1>4, <1>5, <1>6, <1>7, <1>8 DEF Next

LEMMA OwedInvStep ==
  TypeOK /\ QueueInv /\ DidWorkInv /\ OwedInv /\ [Next]_vars => OwedInv'
  <1> SUFFICES ASSUME TypeOK, QueueInv, DidWorkInv, OwedInv, [Next]_vars PROVE OwedInv'
    OBVIOUS
  <1> USE DEF queues
  <1>1. OwedStep /\ DryStep /\ QueuesStep
    BY QuitKinds, QueueKinds
  <1>t. /\ depth \in Nat /\ depth' \in Nat /\ stamp \in [Tasks -> Nat] /\ posts \in Nat
    BY TypeStep DEF TypeOK, StackOK, HistoryOK
  <1>2. Accepted \subseteq Accepted'
    <2>1. CASE stamp' = stamp
      BY <2>1 DEF Accepted
    <2>2. CASE \E t \in Tasks : QueuesPushed(t)
      BY <2>2, <1>t DEF QueuesPushed, Push, Accepted
    <2> QED
      BY <1>1, <2>1, <2>2 DEF QueuesStep, QueuesKept, QueuesReloaded, DoWorkMovesDelayed,
         WorkPopped, DeferredPopped, QueuesCleared, DelayedTaken, posting
  <1>3. ASSUME NEW k \in 1..depth'
        PROVE  level'[k].owed \subseteq Accepted' /\ (~level'[k].quit => level'[k].owed = {})
    <2>1. CASE k <= depth /\ level'[k].quit = level[k].quit /\ level'[k].owed = level[k].owed
      BY <2>1, <1>2, <1>t DEF OwedInv
    <2> QED
      BY <1>1, <1>2, <2>1 DEF OwedStep
  <1>4. ASSUME Dry' PROVE Top'.owed \cap Elements(incoming)' = {}
    <2>1. CASE incoming' = << >>
      BY <2>1, EmptyElements
    <2>2. CASE incoming' # << >>
      <3>1. Dry /\ depth' = depth /\ depth > 0
        BY <1>1, <1>4, <2>2 DEF DryStep, Dry
      <3>2. Top'.owed = Top.owed
        BY <1>1, <1>4, <1>t, <3>1 DEF OwedStep, Dry, Top
      <3>3. Top.owed \cap Elements(incoming) = {} /\ Top.owed \subseteq Accepted
        BY <3>1, <1>t DEF OwedInv, Top
      <3>4. CASE incoming' = incoming
        BY <3>2, <3>3, <3>4
      <3>5. ASSUME NEW t \in Tasks, QueuesPushed(t) PROVE Top'.owed \cap Elements(incoming)' = {}
        <4>1. t \notin Accepted /\ incoming' = Append(incoming, t)
          BY <3>5 DEF QueuesPushed, Push, Fresh, Accepted
        <4>2. Elements(incoming)' = Elements(incoming) \cup {t}
          BY <4>1, AppendElements DEF TypeOK, QueuesOK
        <4> QED
          BY <3>2, <3>3, <4>1, <4>2
      <3> QED
        BY <1>1, <2>2, <3>4, <3>5 DEF QueuesStep, QueuesKept, QueuesReloaded, DoWorkMovesDelayed,
           WorkPopped, DeferredPopped, QueuesCleared, DelayedTaken, posting
    <2> QED
      BY <2>1, <2>2
  <1> QED
    BY <1>3, <1>4 DEF OwedInv

\* DoIdleWork makes the outermost Run return only when no deferred task is left.
LEMMA IdleReturns ==
  TypeOK /\ [Next]_vars /\ depth > 0 /\ Top.pc = "Idle" /\ depth' = depth - 1
    => depth # 1 \/ deferred = << >>
  <1> SUFFICES ASSUME TypeOK, [Next]_vars, depth > 0, Top.pc = "Idle", depth' = depth - 1,
                      ~DoIdleWorkQuits, ~DoIdleWorkFindsNothing
               PROVE  FALSE
    BY DEF DoIdleWorkQuits, DoIdleWorkFindsNothing
  <1> USE DEF runs
  <1>t. depth \in Nat /\ depth' # depth
    BY DEF TypeOK, StackOK
  <1>1. CASE PumpStep
    <2>1. CASE DoWorkFindsNothing \/ ReloadWorkQueue \/ DoWorkMovesDelayed
               \/ DoWorkDefers \/ DoWorkRunsTask
      BY <2>1 DEF DoWorkFindsNothing, ReloadWorkQueue, DoWorkMovesDelayed, DoWorkDefers,
                  DoWorkRunsTask
    <2>2. ASSUME NEW t \in Tasks, DoDelayedWorkIsEarly(t) \/ DoDelayedWorkTakes(t)
          PROVE  FALSE
      BY <2>2 DEF DoDelayedWorkIsEarly, DoDelayedWorkTakes
    <2>3. CASE DoDelayedWorkFindsNothing \/ DoIdleWorkRunsDeferred
      BY <2>3, <1>t DEF DoDelayedWorkFindsNothing, DoIdleWorkRunsDeferred, RunTask
    <2>4. CASE FallAsleep \/ SkipSleep \/ WakeBySignal \/ WakeByTimeout
      BY <2>4 DEF FallAsleep, SkipSleep, WakeBySignal, WakeByTimeout
    <2> QED
      BY <1>1, <2>1, <2>2, <2>3, <2>4 DEF PumpStep
  <1>2. CASE TaskStep \/ FinishTask
    BY <1>2, <1>t DEF TaskStep, FinishTask, RunFromTask, Running, PostFromTask, Quit, QuitNow,
                      SetNestableTasksAllowed
  <1>3. CASE Destructor \/ \E b \in BOOLEAN : RunFromOwner(b)
    BY <1>3, <1>t DEF Destructor, Delete, DeletePendingTasks, ReloadForDelete, Disappear,
                      PostFromDestructor, RunFromOwner
  <1>4. CASE \/ \E p \in Posters : ScheduleWork(p) \/ \E t \in Tasks : PostFromThread(p, t)
             \/ \E t \in Tasks : PostRefused(t)
    BY <1>4, <1>t DEF ScheduleWork, PostFromThread, PostRefused
  <1>5. CASE Tick \/ UNCHANGED vars
    BY <1>5, <1>t DEF Tick, vars
  <1> QED
    BY <1>1, <1>2, <1>3, <1>4, <1>5 DEF Next

\* A Run ended by Quit has run every task without delay that was accepted
\* before the call and that it may run.
THEOREM QuitRunsWhatItOwes == Spec => QuitDrains
  <1> DEFINE Inv == TypeOK /\ QueueInv /\ WakeInv /\ OrderInv /\ OwedInv
  <1>1. Init => Inv
    BY InitType, QueueInit, WakeInit, OrderInit, OwedInit
  <1>2. Inv /\ [Next]_vars => Inv'
    BY TypeStep, QueueStep, WakeStep, OrderStep, OwedInvStep DEF WakeInv
  <1>3. Inv /\ [Next]_vars =>
          [\A d \in 1..MaxDepth :
             (/\ depth = d /\ depth' = d - 1 /\ Top.pc = "Idle" /\ allowed) =>
               \A t \in Top.owed :
                 (Immediate(t) /\ (Nestable[t] \/ d = 1)) => t \in started \cup dropped]_vars
    <2> SUFFICES ASSUME Inv, [Next]_vars, NEW d \in 1..MaxDepth,
                        depth = d, depth' = d - 1, Top.pc = "Idle", allowed,
                        NEW t \in Top.owed, Immediate(t), Nestable[t] \/ d = 1
                 PROVE  t \in started \cup dropped
      OBVIOUS
    <2>1. depth > 0 /\ Dry /\ depth \in Nat
      BY ConstantsAssumption DEF Dry, ConstantsAssumption
    <2>2. t \in Accepted /\ t \notin Elements(incoming)
      BY <2>1 DEF OwedInv, Top
    <2>3. t \notin Elements(work)
      BY <2>1, EmptyElements DEF WakeInv, DryInv
    <2>4. t \notin delayed
      BY DEF WakeInv, DueInv
    <2>5. t \notin Elements(deferred)
      <3>1. CASE d = 1
        <4>1. deferred = << >>
          BY <2>1, <3>1, IdleReturns
        <4> QED
          BY <4>1, EmptyElements
      <3>2. CASE d # 1
        BY <3>2 DEF OrderInv, DeferOrder
      <3> QED
        BY <3>1, <3>2
    <2> QED
      BY <2>2, <2>3, <2>4, <2>5 DEF QueueInv, Conservation, Queued
  <1> HIDE DEF Inv
  <1> QED
    BY <1>1, <1>2, <1>3, PTL DEF Spec, QuitDrains

----------------------------------------------------------------------------
(***************************************************************************)
(* MessageLoop implements TaskService.                                     *)
(***************************************************************************)

Inside == [d \in 1..MaxDepth |-> level[d].task]

\* Nothing the service shows changes when the stack moves without a task
\* being started or finished.
LEMMA SilentSet ==
  ASSUME StackOK, depth > 0, NEW l, SetTop(l), depth' = depth,
         l.task = Top.task, l.pc = "Task" <=> Top.pc = "Task"
  PROVE  Inside' = Inside /\ Height' = Height
  <1>1. Top' = l
    BY TopSet
  <1>2. \A d \in 1..MaxDepth : level'[d].task = level[d].task
    BY DEF SetTop, StackOK, Top
  <1> QED
    BY <1>1, <1>2 DEF Inside, Height

\* A task ends, or the Run that runs none returns.
LEMMA ReturnInside ==
  ASSUME StackOK, depth > 0, Return
  PROVE  /\ Inside' = [Inside EXCEPT ![depth] = NoTask]
         /\ Height' = depth - 1
  <1>1. depth \in 1..MaxDepth /\ MaxDepth \in Nat
    BY ConstantsAssumption DEF StackOK, ConstantsAssumption
  <1>2. depth' = 0 \/ (depth' > 0 /\ Top'.pc = "Task")
    BY TopReturned
  <1>3. Height' = depth - 1
    BY <1>1, <1>2 DEF Height, Return
  <1>4. level' = [level EXCEPT ![depth] = NoLevel] /\ NoLevel.task = NoTask
    BY DEF Return, NoLevel
  <1>5. Inside' = [Inside EXCEPT ![depth] = NoTask]
    BY <1>1, <1>4 DEF Inside, StackOK
  <1> QED
    BY <1>3, <1>5

\* A level that runs no task has none.
LEMMA NoTaskInside ==
  ASSUME StackOK, depth > 0, Top.pc # "Task"
  PROVE  [Inside EXCEPT ![depth] = NoTask] = Inside /\ Height = depth - 1
  <1>1. depth \in 1..MaxDepth /\ Top.task = NoTask /\ Inside[depth] = NoTask
    BY TopInUse, ConstantsAssumption DEF StackOK, ConstantsAssumption, InUse, Inside, Top
  <1> QED
    BY <1>1 DEF Inside, Height

LEMMA EnterInside ==
  ASSUME StackOK, depth = 0 \/ Top.pc = "Task", NEW b \in BOOLEAN, Enter(b)
  PROVE  Inside' = Inside /\ Height' = Height
  <1> DEFINE l == [NoLevel EXCEPT !.pc = "DoWork", !.quit = b,
                                  !.owed = IF b THEN Accepted ELSE {}]
  <1>1. l.pc = "DoWork" /\ l.task = NoTask
    BY DEF NoLevel
  <1> HIDE DEF l
  <1>2. level' = [level EXCEPT ![depth + 1] = l] /\ depth' = depth + 1 /\ depth < MaxDepth
    BY DEF Enter, l
  <1>3. depth \in Nat /\ MaxDepth \in Nat /\ depth + 1 \in 1..MaxDepth
    BY <1>2, ConstantsAssumption DEF StackOK, ConstantsAssumption
  <1>4. Top' = l /\ level[depth + 1].task = NoTask
    BY <1>2, <1>3 DEF StackOK, Top, NoLevel
  <1>5. Height' = depth /\ Height = depth
    BY <1>1, <1>2, <1>3, <1>4 DEF Height
  <1>6. \A d \in 1..MaxDepth : level'[d].task = level[d].task
    BY <1>1, <1>2, <1>3, <1>4 DEF StackOK
  <1> QED
    BY <1>5, <1>6 DEF Inside

LEMMA StartInside ==
  ASSUME StackOK, NEW t \in Tasks, StackStarts(t)
  PROVE  /\ Inside' = [Inside EXCEPT ![depth] = t]
         /\ Height = depth - 1 /\ Height' = depth /\ depth \in 1..MaxDepth
         /\ started' = started \cup {t}
  <1>1. depth \in 1..MaxDepth /\ Height = depth - 1
    BY NoTaskInside, ConstantsAssumption DEF StackOK, ConstantsAssumption, StackStarts
  <1>2. PICK resume \in {"DoWork", "Delayed"} : RunTask(t, Top, resume)
    BY DEF StackStarts
  <1> DEFINE l == [Top EXCEPT !.pc = "Task", !.task = t, !.resume = resume,
                              !.didWork = TRUE, !.opened = FALSE]
  <1>3. l.pc = "Task" /\ l.task = t
    BY <1>1, TopInUse DEF InUse, Level
  <1>4. SetTop(l) /\ depth' = depth /\ started' = started \cup {t}
    BY <1>2 DEF RunTask
  <1> HIDE DEF l
  <1>5. Top' = l
    BY <1>1, <1>4, TopSet
  <1>6. Inside' = [Inside EXCEPT ![depth] = t]
    BY <1>1, <1>3, <1>4 DEF SetTop, StackOK, Inside
  <1> QED
    BY <1>1, <1>3, <1>4, <1>5, <1>6 DEF Height

LEMMA FinishInside ==
  ASSUME StackOK, FinishTask
  PROVE  /\ Height = depth /\ depth > 0
         /\ Inside' = [Inside EXCEPT ![depth] = NoTask] /\ Height' = depth - 1
  <1>1. depth > 0 /\ Height = depth /\ depth \in 1..MaxDepth
    BY ConstantsAssumption DEF FinishTask, Height, StackOK, ConstantsAssumption
  <1> DEFINE l == [Top EXCEPT !.pc = Top.resume, !.task = NoTask, !.opened = FALSE]
  <1>2. l.pc # "Task" /\ l.task = NoTask
    BY <1>1, TopInUse DEF InUse, Level
  <1>3. GoOn(l)
    BY DEF FinishTask
  <1> HIDE DEF l
  <1>4. CASE shouldQuit
    BY <1>1, <1>3, <1>4, ReturnInside DEF GoOn
  <1>5. CASE ~shouldQuit
    <2>1. SetTop(l) /\ depth' = depth
      BY <1>3, <1>5 DEF GoOn
    <2>2. Top' = l
      BY <1>1, <2>1, TopSet
    <2>3. Inside' = [Inside EXCEPT ![depth] = NoTask]
      BY <1>1, <1>2, <2>1 DEF SetTop, StackOK, Inside
    <2> QED
      BY <1>1, <1>2, <2>1, <2>2, <2>3 DEF Height
  <1> QED
    BY <1>4, <1>5

\* Every step is one that starts or ends a task, or shows nothing on the stack.
LEMMA InsideKinds ==
  TypeOK /\ [Next]_vars =>
    \/ Inside' = Inside /\ Height' = Height /\ started' = started
    \/ FinishTask
    \/ \E t \in Tasks : StackStarts(t)
  <1> SUFFICES ASSUME TypeOK, [Next]_vars, ~FinishTask, \A t \in Tasks : ~StackStarts(t)
               PROVE  Inside' = Inside /\ Height' = Height /\ started' = started
    OBVIOUS
  <1>t. StackOK /\ (depth > 0 => InUse(Top) /\ Top \in Level)
    BY TopInUse DEF TypeOK, InUse
  <1>1. CASE UNCHANGED <<depth, level, allowed, started>>
    BY <1>1 DEF Inside, Height, Top
  <1>2. CASE StackMoves
    <2>1. PICK l \in Level : InUse(l) /\ l.pc # "Task" /\ SetTop(l)
      BY <1>2 DEF StackMoves
    <2>2. depth > 0 /\ depth' = depth /\ started' = started /\ Top.pc # "Task"
      BY <1>2 DEF StackMoves
    <2>3. l.task = Top.task
      BY <2>1, <2>2, <1>t DEF InUse
    <2> QED
      BY <2>1, <2>2, <2>3, <1>t, SilentSet
  <1>3. CASE StackReturns
    BY <1>3, <1>t, ReturnInside, NoTaskInside DEF StackReturns
  <1>4. CASE StackEnters
    BY <1>4, <1>t, EnterInside DEF StackEnters, Enter
  <1>5. ASSUME NEW b \in BOOLEAN, SetNestableTasksAllowed(b)
        PROVE  Inside' = Inside /\ Height' = Height /\ started' = started
    <2> DEFINE l == [Top EXCEPT !.opened = b]
    <2>1. depth > 0 /\ SetTop(l) /\ depth' = depth /\ started' = started
      BY <1>5 DEF SetNestableTasksAllowed, Running, runs
    <2>2. l.task = Top.task /\ l.pc = Top.pc
      BY <2>1, <1>t DEF Level
    <2> HIDE DEF l
    <2> QED
      BY <2>1, <2>2, <1>t, SilentSet
  <1>6. CASE Quit
    <2> DEFINE l == [Top EXCEPT !.quit = TRUE, !.owed = IF Top.quit THEN Top.owed ELSE Accepted]
    <2>1. depth > 0 /\ SetTop(l) /\ depth' = depth /\ started' = started
      BY <1>6 DEF Quit, Running, runs
    <2>2. l.task = Top.task /\ l.pc = Top.pc
      BY <2>1, <1>t DEF Level
    <2> HIDE DEF l
    <2> QED
      BY <2>1, <2>2, <1>t, SilentSet
  <1> QED
    BY <1>1, <1>2, <1>3, <1>4, <1>5, <1>6, StepKinds DEF StackStep

\* A started task comes from a queue, and no ordinary task posted before an
\* ordinary one is left behind.
LEMMA StartOrder ==
  ASSUME TypeOK, QueueInv, PostOrder, DeferOrder, DueInv, NEW t \in Tasks, TaskTaken(t)
  PROVE  /\ t \in Queued
         /\ Nestable[t] /\ Immediate(t) =>
              \A u \in Queued : Nestable[u] /\ Immediate(u) => ~(stamp[u] < stamp[t])
  <1>t. /\ Elements(incoming) \subseteq Tasks /\ Elements(work) \subseteq Tasks
        /\ work \in Seq(Tasks) /\ deferred \in Seq(Tasks) /\ stamp \in [Tasks -> Nat]
    BY ElementsType DEF TypeOK, QueuesOK, HistoryOK
  <1>1. CASE DoWorkRunsTask /\ t = Head(work)
    <2>1. work # << >>
      BY <1>1 DEF DoWorkRunsTask
    <2>2. /\ t \in Elements(work)
          /\ \A u \in Elements(work) : u = t \/ stamp[t] < stamp[u]
      BY <1>1, <1>t, <2>1, TailElements, TailRising DEF PostOrder, TypeOK
    <2>3. ASSUME NEW u \in Queued, Nestable[u], Immediate(u) PROVE ~(stamp[u] < stamp[t])
      <3>1. u \in Elements(work) \/ u \in Elements(incoming)
        BY <2>3 DEF Queued, DeferOrder, DueInv
      <3>2. u = t \/ stamp[t] < stamp[u]
        BY <2>2, <3>1 DEF PostOrder
      <3> QED
        BY <3>1, <3>2, <1>t
    <2> QED
      BY <2>2, <2>3 DEF Queued
  <1>2. CASE DoDelayedWorkTakes(t)
    BY <1>2 DEF DoDelayedWorkTakes, IsTop, Queued, DueInv
  <1>3. CASE DoIdleWorkRunsDeferred /\ t = Head(deferred)
    <2>1. t \in Elements(deferred)
      BY <1>3, <1>t, TailElements DEF DoIdleWorkRunsDeferred
    <2> QED
      BY <2>1 DEF Queued, DeferOrder
  <1> QED
    BY <1>1, <1>2, <1>3 DEF TaskTaken

(* What a step does to the answers of the posts and to the dropped tasks *)

HistoryKept ==
  /\ UNCHANGED <<stamp, posts, refused, dropped>>
  /\ life' = "gone" <=> life = "gone"

HistoryPosts(t) ==
  /\ life # "gone" /\ life' = life
  /\ Push(t)
  /\ UNCHANGED <<refused, dropped, started, depth, level>>

HistoryDrops ==
  /\ life # "gone" /\ depth = 0
  /\ UNCHANGED <<stamp, posts, refused, started, depth, level>>
  /\ \/ life' # "gone" /\ \E D \in SUBSET Queued : dropped' = dropped \cup D
     \/ life' = "gone" /\ Queued = Elements(incoming) /\ dropped' = dropped \cup Queued

LEMMA HistoryKinds ==
  TypeOK /\ QueueInv /\ [Next]_vars =>
    \/ HistoryKept \/ HistoryDrops
    \/ \E t \in Tasks : HistoryPosts(t) \/ PostRefused(t)
  <1> SUFFICES ASSUME TypeOK, QueueInv, [Next]_vars,
                      \A t \in Tasks : ~HistoryPosts(t) /\ ~PostRefused(t)
               PROVE  HistoryKept \/ HistoryDrops
    OBVIOUS
  <1> USE DEF posting, ending, runs
  <1>d. life # "alive" => depth = 0
    BY DEF QueueInv, Dying
  <1>1. CASE PumpStep
    <2>1. CASE DoWorkFindsNothing \/ ReloadWorkQueue \/ DoWorkMovesDelayed
               \/ DoWorkDefers \/ DoWorkRunsTask
      BY <2>1 DEF DoWorkFindsNothing, ReloadWorkQueue, DoWorkMovesDelayed, DoWorkDefers,
                  DoWorkRunsTask, HistoryKept
    <2>2. ASSUME NEW t \in Tasks, DoDelayedWorkIsEarly(t) \/ DoDelayedWorkTakes(t)
          PROVE  HistoryKept
      BY <2>2 DEF DoDelayedWorkIsEarly, DoDelayedWorkTakes, HistoryKept
    <2>3. CASE DoDelayedWorkFindsNothing \/ DoIdleWorkRunsDeferred \/ DoIdleWorkQuits
               \/ DoIdleWorkFindsNothing
      BY <2>3 DEF DoDelayedWorkFindsNothing, DoIdleWorkRunsDeferred, DoIdleWorkQuits,
                  DoIdleWorkFindsNothing, HistoryKept
    <2>4. CASE FallAsleep \/ SkipSleep \/ WakeBySignal \/ WakeByTimeout
      BY <2>4 DEF FallAsleep, SkipSleep, WakeBySignal, WakeByTimeout, HistoryKept
    <2> QED
      BY <1>1, <2>1, <2>2, <2>3, <2>4 DEF PumpStep
  <1>2. CASE TaskStep
    <2>1. ASSUME NEW t \in Tasks, PostFromTask(t) PROVE FALSE
      <3>1. life # "gone"
        BY <2>1, <1>d DEF PostFromTask, Running
      <3> QED
        BY <2>1, <3>1 DEF PostFromTask, HistoryPosts
    <2>2. CASE \/ \E b \in BOOLEAN : SetNestableTasksAllowed(b) \/ RunFromTask(b)
               \/ Quit \/ QuitNow
      BY <2>2 DEF SetNestableTasksAllowed, RunFromTask, Enter, Quit, QuitNow, HistoryKept
    <2> QED
      BY <1>2, <2>1, <2>2 DEF TaskStep
  <1>3. CASE FinishTask \/ \E b \in BOOLEAN : RunFromOwner(b)
    BY <1>3 DEF FinishTask, RunFromOwner, Enter, HistoryKept
  <1>4. CASE Destructor
    <2>1. CASE Delete \/ ReloadForDelete
      BY <2>1 DEF Delete, ReloadForDelete, HistoryKept
    <2>2. CASE DeletePendingTasks
      <3>1. dropped' = dropped \cup (Elements(work) \cup Elements(deferred) \cup delayed)
        BY <2>2 DEF DeletePendingTasks
      <3>2. life # "gone" /\ life' # "gone" /\ depth = 0
        BY <2>2, <1>d DEF DeletePendingTasks
      <3>3. \E D \in SUBSET Queued : dropped' = dropped \cup D
        BY <3>1 DEF Queued
      <3> QED
        BY <2>2, <3>2, <3>3 DEF DeletePendingTasks, HistoryDrops
    <2>3. CASE Disappear
      <3>1. Queued = Elements(incoming)
        BY <2>3, EmptyElements DEF Disappear, QueueInv, Dying, Queued
      <3> QED
        BY <2>3, <3>1, <1>d DEF Disappear, HistoryDrops
    <2>4. ASSUME NEW t \in Tasks, PostFromDestructor(t) PROVE FALSE
      BY <2>4 DEF PostFromDestructor, HistoryPosts
    <2> QED
      BY <1>4, <2>1, <2>2, <2>3, <2>4 DEF Destructor
  <1>5. ASSUME NEW p \in Posters, NEW t \in Tasks, PostFromThread(p, t) PROVE FALSE
    BY <1>5 DEF PostFromThread, HistoryPosts
  <1>6. CASE Tick \/ UNCHANGED vars \/ \E p \in Posters : ScheduleWork(p)
    BY <1>6 DEF Tick, vars, ScheduleWork, HistoryKept
  <1> QED
    BY <1>1, <1>2, <1>3, <1>4, <1>5, <1>6 DEF Next

\* How a task answers to those who posted it, from where it is.
LEMMA StatusOf ==
  ASSUME TypeOK, QueueInv, NEW t \in Tasks
  PROVE  /\ Status(t) = "accepted" <=> t \in Queued
         /\ Status(t) = "new" <=> Fresh(t)
         /\ Status(t) = "started" <=> t \in started
         /\ Status(t) = "dropped" <=> t \in dropped
         /\ Status(t) = "refused" <=> t \in refused
  <1>1. t \in Queued \cup started \cup dropped <=> stamp[t] # 0
    BY DEF QueueInv, Conservation, Accepted
  <1>2. t \in Queued => t \notin started \cup dropped
    BY DEF QueueInv, Conservation
  <1>3. t \in started => t \notin dropped
    BY DEF QueueInv, Conservation
  <1>4. t \in refused => stamp[t] = 0
    BY DEF QueueInv, Conservation, Accepted
  <1> QED
    BY <1>1, <1>2, <1>3, <1>4 DEF Status, Fresh

\* Every step of the loop is a step of the service or none.
LEMMA ServiceStep ==
  TypeOK /\ QueueInv /\ PostOrder /\ DeferOrder /\ DueInv /\ [Next]_vars
    => [Service!SNext]_(Service!svars)
  <1> SUFFICES ASSUME TypeOK, QueueInv, PostOrder, DeferOrder, DueInv, [Next]_vars
               PROVE  [Service!SNext]_(Service!svars)
    OBVIOUS
  <1> DEFINE S == [t \in Tasks |-> Status(t)]
  <1>q. Queued \subseteq Tasks
    BY ElementsType DEF TypeOK, QueuesOK, Queued
  <1>t. StackOK /\ depth \in Nat /\ stamp \in [Tasks -> Nat] /\ posts \in Nat
    BY DEF TypeOK, HistoryOK, StackOK
  <1>1. CASE HistoryKept
    <2>1. UNCHANGED <<stamp, posts, refused, dropped>> /\ (life' # "gone" <=> life # "gone")
      BY <1>1 DEF HistoryKept
    <2>2. CASE Inside' = Inside /\ Height' = Height /\ started' = started
      <3>1. S' = S
        BY <2>1, <2>2 DEF Status
      <3> QED
        BY <2>1, <2>2, <3>1 DEF Service!svars, Inside
    <2>3. CASE FinishTask
      <3>1. started' = started
        BY <2>3 DEF FinishTask
      <3>2. S' = S
        BY <2>1, <3>1 DEF Status
      <3>3. /\ Height > 0 /\ Inside' = [Inside EXCEPT ![Height] = NoTask]
            /\ Height' = Height - 1
        BY <2>3, <1>t, FinishInside
      <3>4. Service!Finish
        BY <2>1, <3>2, <3>3 DEF Service!Finish, Inside
      <3> QED
        BY <3>4 DEF Service!SNext
    <2>4. ASSUME NEW t \in Tasks, StackStarts(t) PROVE Service!SNext
      <3>1. /\ Inside' = [Inside EXCEPT ![depth] = t]
            /\ Height = depth - 1 /\ Height' = depth /\ depth \in 1..MaxDepth
            /\ started' = started \cup {t}
        BY <2>4, <1>t, StartInside
      <3>2. /\ t \in Queued
            /\ Nestable[t] /\ Immediate(t) =>
                 \A u \in Queued : Nestable[u] /\ Immediate(u) => ~(stamp[u] < stamp[t])
        BY <2>4, StartOrder DEF StackStarts
      <3>3. life # "gone" /\ (Nestable[t] \/ Height = 0)
        BY <2>4, <3>1, <1>t DEF StackStarts, Runnable, QueueInv, Dying
      <3>4. \A u \in Tasks : (Status(u))' = IF u = t THEN "started" ELSE Status(u)
        <4>1. t \notin dropped
          BY <3>2 DEF QueueInv, Conservation
        <4> QED
          BY <2>1, <3>1, <4>1 DEF Status
      <3>5. S' = [S EXCEPT ![t] = "started"]
        BY <3>4
      <3>6. S[t] = "accepted" /\ \A u \in Tasks : S[u] = "accepted" => u \in Queued
        BY <3>2, StatusOf
      <3> HIDE DEF S
      <3>7. PICK h \in 1..MaxDepth : h = depth
        BY <3>1
      <3>8. Service!Start(t, h)
        BY <2>1, <3>1, <3>2, <3>3, <3>5, <3>6, <3>7, <1>t DEF Service!Start, Inside, S
      <3> QED
        BY <3>8 DEF Service!SNext
    <2> QED
      BY <2>2, <2>3, <2>4, InsideKinds
  <1>2. CASE HistoryDrops
    <2>1. Inside' = Inside /\ Height' = Height /\ Height = 0
      BY <1>2, <1>t DEF HistoryDrops, Inside, Height, Top
    <2>2. PICK D \in SUBSET Queued :
            /\ dropped' = dropped \cup D
            /\ life' = "gone" => D = Queued
      BY <1>2 DEF HistoryDrops
    <2>3. UNCHANGED <<stamp, posts, refused, started>> /\ life # "gone"
      BY <1>2 DEF HistoryDrops
    <2>4. \A u \in Tasks : (Status(u))' = IF u \in D THEN "dropped" ELSE Status(u)
      BY <2>2, <2>3 DEF Status
    <2>5. Queued = {u \in Tasks : S[u] = "accepted"}
      BY <1>q, StatusOf
    <2>6. S' = [u \in Tasks |-> IF u \in D THEN "dropped" ELSE S[u]]
      BY <2>4
    <2> HIDE DEF S
    <2>7. Service!Discard(life' = "gone")
      BY <2>1, <2>2, <2>3, <2>5, <2>6 DEF Service!Discard, Inside, S
    <2> QED
      BY <2>7 DEF Service!SNext
  <1>3. ASSUME NEW t \in Tasks, HistoryPosts(t) PROVE Service!SNext
    <2>1. Inside' = Inside /\ Height' = Height
      BY <1>3 DEF HistoryPosts, Inside, Height, Top
    <2>2. /\ life # "gone" /\ life' = life /\ Fresh(t)
          /\ posts' = posts + 1 /\ stamp' = [stamp EXCEPT ![t] = posts + 1]
          /\ UNCHANGED <<refused, dropped, started>>
      BY <1>3 DEF HistoryPosts, Push
    <2>3. \A u \in Tasks : (Status(u))' = IF u = t THEN "accepted" ELSE Status(u)
      <3>1. t \notin started /\ t \notin dropped /\ t \notin refused /\ stamp'[t] # 0
        BY <2>2, <1>t DEF Fresh, QueueInv, Conservation, Accepted
      <3>2. \A u \in Tasks : u # t => stamp'[u] = stamp[u]
        BY <2>2, <1>t
      <3> QED
        BY <2>2, <3>1, <3>2 DEF Status
    <2>4. S' = [S EXCEPT ![t] = "accepted"] /\ S[t] = "new"
      BY <2>2, <2>3, StatusOf
    <2> HIDE DEF S
    <2>5. Service!Accept(t)
      BY <2>1, <2>2, <2>4 DEF Service!Accept, Inside, S
    <2> QED
      BY <2>5 DEF Service!SNext
  <1>4. ASSUME NEW t \in Tasks, PostRefused(t) PROVE Service!SNext
    <2>1. Inside' = Inside /\ Height' = Height
      BY <1>4 DEF PostRefused, Inside, Height, Top, runs
    <2>2. /\ life = "gone" /\ life' = life /\ Fresh(t) /\ refused' = refused \cup {t}
          /\ UNCHANGED <<stamp, posts, dropped, started>>
      BY <1>4 DEF PostRefused, ending
    <2>3. \A u \in Tasks : (Status(u))' = IF u = t THEN "refused" ELSE Status(u)
      <3>1. t \notin started /\ t \notin dropped
        BY <2>2, <1>t DEF Fresh, QueueInv, Conservation, Accepted
      <3> QED
        BY <2>2, <3>1 DEF Status
    <2>4. S' = [S EXCEPT ![t] = "refused"] /\ S[t] = "new"
      BY <2>2, <2>3, StatusOf
    <2> HIDE DEF S
    <2>5. Service!Refuse(t)
      BY <2>1, <2>2, <2>4 DEF Service!Refuse, Inside, S
    <2> QED
      BY <2>5 DEF Service!SNext
  <1> QED
    BY <1>1, <1>2, <1>3, <1>4, HistoryKinds


\* To those who post, the loop, its pump, its four queues and its destructor
\* are the TaskService: a post is accepted or refused for good, ordinary tasks
\* start in the order of their posts, non-nestable ones never inside another,
\* and what never ran is destroyed with the loop.
THEOREM LoopImplementsService == Spec => ImplementsTaskService
  <1> DEFINE Inv == TypeOK /\ QueueInv /\ WakeInv /\ OrderInv
  <1>1. Init => Inv
    BY InitType, QueueInit, WakeInit, OrderInit
  <1>2. Inv /\ [Next]_vars => Inv'
    BY TypeStep, QueueStep, WakeStep, OrderStep
  <1>3. Init => Service!SInit
    <2> SUFFICES ASSUME Init PROVE Service!SInit
      OBVIOUS
    <2>1. \A t \in Tasks : Status(t) = "new"
      BY DEF Init, Status
    <2>2. \A d \in 1..MaxDepth : level[d].task = NoTask
      BY DEF Init, NoLevel
    <2> QED
      BY <2>1, <2>2 DEF Init, Service!SInit, Height
  <1>4. Inv /\ [Next]_vars => [Service!SNext]_(Service!svars)
    BY ServiceStep DEF WakeInv, OrderInv
  <1> HIDE DEF Inv
  <1> QED
    BY <1>1, <1>2, <1>3, <1>4, PTL DEF Spec, ImplementsTaskService, Service!SSpec
============================================================================
