-------------------------- MODULE AsyncModalProofs --------------------------
(***************************************************************************)
(* For any number of dialogs, on any addresses that are used again: the    *)
(* list of the manager is exact, and a dialog outlives its thread.         *)
(***************************************************************************)
EXTENDS AsyncModal, TLAPS, SequenceTheorems

Places == {"none", "created", "signaled", "modal", "closed", "exiting"}

VarsOK ==
  /\ runners \subseteq Runners /\ alive \subseteq Runners
  /\ isRunning \subseteq Runners /\ quitPosted \subseteq Runners /\ quit \subseteq Runners
  /\ thread \in [Runners -> Places]
  /\ ui \in [at : {"idle", "starting", "cancel", "join"}, with : SUBSET Runners]
  /\ tasks \in Seq(Runners)
  /\ cancelled \in BOOLEAN /\ dialogs \in 0..MaxDialogs

\* Who deregisters is out of the list while the UI thread joins its thread, and
\* no dialog is started any more after CancelAllThreads.
ListOK ==
  /\ runners = IF cancelled THEN {} ELSE alive
  /\ ui.at = "cancel" => cancelled
  /\ ~cancelled /\ ui.at = "join" => ui.with \cap alive = {}

\* A Deregister task in the queue is the only one of its address, and its
\* runner is still there: a task is never met by a later runner.
TasksOK ==
  ~cancelled =>
    /\ \A i \in 1..Len(tasks) : tasks[i] \in alive /\ thread[tasks[i]] \in {"exiting", "none"}
    /\ \A i, j \in 1..Len(tasks) : tasks[i] = tasks[j] => i = j

ModalInv == VarsOK /\ ListOK /\ TasksOK /\ DialogOutlivesThread

LEMMA ModalInit == Init => ModalInv
  <1> SUFFICES ASSUME Init PROVE ModalInv
    OBVIOUS
  <1>1. << >> \in Seq(Runners) /\ Len(<< >>) = 0
    BY EmptySeq
  <1>2. VarsOK
    <2>1. 0 \in 0..MaxDialogs
      BY MaxDialogsAssumption DEF MaxDialogsAssumption
    <2>2. ui \in [at : {"idle", "starting", "cancel", "join"}, with : SUBSET Runners]
      BY DEF Init, UI
    <2> QED
      BY <1>1, <2>1, <2>2 DEF Init, VarsOK, Places
  <1>3. ListOK /\ TasksOK /\ DialogOutlivesThread
    BY <1>1 DEF Init, UI, ListOK, TasksOK, DialogOutlivesThread
  <1> QED
    BY <1>2, <1>3 DEF ModalInv

\* The types of the flags, which no other part of the invariant reads.
LEMMA FlagsStep ==
  ASSUME VarsOK, NEW r \in Runners, CancelModalThenExit(r)
  PROVE  isRunning' \subseteq Runners /\ quitPosted' \subseteq Runners /\ quit' \subseteq Runners
  BY DEF VarsOK, CancelModalThenExit, flags

\* A step of the thread of a runner.
LEMMA ThreadModalStep ==
  ASSUME ModalInv, NEW r \in Runners, ThreadStep(r) \/ UserCloses(r) PROVE ModalInv'
  <1> USE DEF ModalInv, VarsOK, ListOK, TasksOK, DialogOutlivesThread, Places, Goto, flags
  <1>1. CASE Signal(r)
    BY <1>1 DEF Signal
  <1>2. CASE OpenDialog(r)
    BY <1>2 DEF OpenDialog
  <1>3. CASE UserCloses(r)
    BY <1>3 DEF UserCloses
  <1>4. CASE OnThreadWillExit(r)
    <2>1. /\ tasks' = Append(tasks, r) /\ tasks' \in Seq(Runners)
          /\ Len(tasks') = Len(tasks) + 1 /\ Len(tasks) \in Nat /\ tasks'[Len(tasks) + 1] = r
          /\ \A i \in 1..Len(tasks) : tasks'[i] = tasks[i]
      BY <1>4, AppendProperties, LenProperties DEF OnThreadWillExit, Posted
    <2>2. r \in alive /\ ~cancelled => \A i \in 1..Len(tasks) : tasks[i] # r
      BY <1>4 DEF OnThreadWillExit
    <2>3. VarsOK' /\ ListOK' /\ DialogOutlivesThread'
      BY <1>4, <2>1 DEF OnThreadWillExit
    <2>4. TasksOK'
      <3> SUFFICES ASSUME ~cancelled PROVE TasksOK'
        BY <1>4 DEF OnThreadWillExit
      <3>1. r \in alive /\ alive' = alive /\ thread'[r] = "exiting"
            /\ \A p \in Runners \ {r} : thread'[p] = thread[p]
        BY <1>4 DEF OnThreadWillExit
      <3>2. \A i \in 1..Len(tasks') :
              /\ tasks'[i] \in alive' /\ thread'[tasks'[i]] \in {"exiting", "none"}
              /\ i # Len(tasks) + 1 => i \in 1..Len(tasks) /\ tasks'[i] = tasks[i] /\ tasks[i] # r
        BY <2>1, <2>2, <3>1
      <3>3. \A i, j \in 1..Len(tasks') : tasks'[i] = tasks'[j] => i = j
        BY <2>1, <3>2
      <3> QED
        BY <3>2, <3>3
    <2> QED
      BY <2>3, <2>4
  <1>5. CASE Exit(r)
    BY <1>5 DEF Exit
  <1> QED
    BY <1>1, <1>2, <1>3, <1>4, <1>5 DEF ThreadStep, QuitCloses

\* A step of the UI thread.
LEMMA UIModalStep ==
  ASSUME ModalInv,
         CancelAllThreads \/ UIStep \/ \E r \in Runners : DoModal(r)
  PROVE  ModalInv'
  <1> USE DEF ModalInv, VarsOK, ListOK, TasksOK, DialogOutlivesThread, Places, Goto, flags, UI
  <1>1. ASSUME NEW r \in Runners, DoModal(r) PROVE ModalInv'
    BY <1>1, MaxDialogsAssumption DEF DoModal, MaxDialogsAssumption
  <1>2. CASE DoModalReturns
    BY <1>2 DEF DoModalReturns, NowRunning
  <1>3. CASE Deregister
    <2> DEFINE r == Head(tasks)
    <2>1. /\ r \in Runners /\ r = tasks[1] /\ tasks # << >> /\ Len(tasks) \in Nat \ {0}
          /\ tasks' = Tail(tasks) /\ tasks' \in Seq(Runners) /\ Len(tasks') = Len(tasks) - 1
          /\ \A i \in 1..Len(tasks') : tasks'[i] = tasks[i + 1]
      BY <1>3, HeadTailProperties, EmptySeq DEF Deregister
    <2> HIDE DEF r
    <2>2. UNCHANGED <<thread, cancelled, dialogs>> /\ ui.at = "idle"
      BY <1>3 DEF Deregister
    <2>3. CASE /\ r \in runners /\ runners' = runners \ {r} /\ alive' = alive \ {r}
               /\ CancelModalThenExit(r) /\ ui' = UI("join", {r})
      <3>1. ~cancelled /\ thread[r] \in {"exiting", "none"}
        BY <2>1, <2>3
      <3>2. VarsOK' /\ ListOK' /\ DialogOutlivesThread'
        BY <2>1, <2>2, <2>3, <3>1, FlagsStep
      <3>3. TasksOK'
        BY <2>1, <2>2, <2>3, <3>1
      <3> QED
        BY <3>2, <3>3
    <2>4. CASE r \notin runners /\ UNCHANGED <<runners, alive, flags, ui>>
      BY <2>1, <2>2, <2>4
    <2> QED
      BY <1>3, <2>3, <2>4 DEF Deregister, Erased, r
  <1>4. CASE CancelAllThreads
    BY <1>4 DEF CancelAllThreads
  <1>5. CASE CancelNext
    BY <1>5, FlagsStep DEF CancelNext
  <1>6. CASE Joined
    BY <1>6 DEF Joined, Exited
  <1> QED
    BY <1>1, <1>2, <1>3, <1>4, <1>5, <1>6 DEF UIStep

LEMMA ModalAlways == Spec => []ModalInv
  <1>1. ModalInv /\ UNCHANGED vars => ModalInv'
    BY DEF ModalInv, VarsOK, ListOK, TasksOK, DialogOutlivesThread, vars
  <1>2. ModalInv /\ [Next]_vars => ModalInv'
    BY <1>1, ThreadModalStep, UIModalStep DEF Next
  <1> QED
    BY <1>2, ModalInit, PTL DEF Spec

\* The list of the manager holds exactly the runners that exist.
THEOREM ModalTypes == Spec => []TypeOK
  <1>1. ModalInv => TypeOK
    BY DEF ModalInv, VarsOK, ListOK, TypeOK, Places
  <1> QED
    BY <1>1, ModalAlways, PTL

\* No runner is destroyed under a thread that still uses it, whatever addresses
\* are used again and whichever tasks are still queued.
THEOREM DialogsOutlive == Spec => []DialogOutlivesThread
  BY ModalAlways, PTL DEF ModalInv
=============================================================================
