------------------------ MODULE FrameworkThreadProofs ------------------------
(***************************************************************************)
(* For any tasks and any number of activations: what Start returns can be  *)
(* used, Stop leaves the object as new, and what was accepted before       *)
(* DoStopSoon has run when a thread that Stop ends leaves its loop.        *)
(***************************************************************************)
EXTENDS FrameworkThread, TLAPS, SequenceTheorems

(***************************************************************************)
(* What is in a sequence                                                   *)
(***************************************************************************)

In(x, q) == \E i \in 1..Len(q) : q[i] = x

LEMMA NothingIn == \A x : ~In(x, << >>)
  BY EmptySeq DEF In

LEMMA InAppend ==
  ASSUME NEW S, NEW q \in Seq(S), NEW t \in S
  PROVE  Append(q, t) \in Seq(S) /\ \A x : In(x, Append(q, t)) <=> In(x, q) \/ x = t
  <1>1. /\ Append(q, t) \in Seq(S) /\ Len(Append(q, t)) = Len(q) + 1 /\ Len(q) \in Nat
        /\ Append(q, t)[Len(q) + 1] = t
        /\ \A i \in 1..Len(q) : Append(q, t)[i] = q[i]
    BY AppendProperties, LenProperties
  <1>2. ASSUME NEW x, In(x, Append(q, t)) PROVE In(x, q) \/ x = t
    <2>1. PICK i \in 1..(Len(q) + 1) : Append(q, t)[i] = x
      BY <1>1, <1>2 DEF In
    <2>2. i = Len(q) + 1 \/ i \in 1..Len(q)
      BY <1>1
    <2> QED
      BY <1>1, <2>1, <2>2 DEF In
  <1>3. ASSUME NEW x, In(x, q) PROVE In(x, Append(q, t))
    <2>1. PICK i \in 1..Len(q) : q[i] = x
      BY <1>3 DEF In
    <2> QED
      BY <1>1, <2>1 DEF In
  <1>4. In(t, Append(q, t))
    BY <1>1 DEF In
  <1> QED
    BY <1>1, <1>2, <1>3, <1>4

LEMMA InTail ==
  ASSUME NEW S, NEW q \in Seq(S), q # << >>
  PROVE  /\ Tail(q) \in Seq(S) /\ Head(q) \in S /\ In(Head(q), q)
         /\ \A x : In(x, q) <=> x = Head(q) \/ In(x, Tail(q))
  <1>1. /\ Tail(q) \in Seq(S) /\ Head(q) \in S /\ Head(q) = q[1]
        /\ Len(q) \in Nat \ {0} /\ Len(Tail(q)) = Len(q) - 1
        /\ \A i \in 1..(Len(q) - 1) : Tail(q)[i] = q[i + 1]
    BY HeadTailProperties, LenProperties, EmptySeq
  <1>2. ASSUME NEW x, In(x, q), x # Head(q) PROVE In(x, Tail(q))
    <2>1. PICK i \in 1..Len(q) : q[i] = x
      BY <1>2 DEF In
    <2>2. i - 1 \in 1..(Len(q) - 1) /\ i - 1 + 1 = i
      BY <1>1, <1>2, <2>1
    <2> QED
      BY <1>1, <2>1, <2>2 DEF In
  <1>3. ASSUME NEW x, In(x, Tail(q)) PROVE In(x, q)
    <2>1. PICK i \in 1..(Len(q) - 1) : Tail(q)[i] = x
      BY <1>1, <1>3 DEF In
    <2>2. i + 1 \in 1..Len(q)
      BY <1>1
    <2> QED
      BY <1>1, <2>1, <2>2 DEF In
  <1>4. In(Head(q), q)
    BY <1>1 DEF In
  <1> QED
    BY <1>1, <1>2, <1>3, <1>4

(***************************************************************************)
(* The invariant                                                           *)
(***************************************************************************)

Places == {"none", "created", "init", "signal", "work", "idle", "cleanup",
           "delete", "clear", "exit", "done"}
Early == {"created", "init", "signal"}
Late == {"cleanup", "delete", "clear", "exit", "done"}
HasLoop == {"init", "signal", "work", "idle", "cleanup", "delete"}

\* Where the last activation of Run is.
At == IF next = 0 THEN "done" ELSE pc[next]

InQueue(t, r) == In(t, queue[r])

\* The fields of the object follow the activation.
FieldsOK ==
  /\ loop = (IF At \in HasLoop \cup {"clear"} THEN next ELSE 0)
  /\ alive = (IF At \in HasLoop THEN {next} ELSE {})
  /\ At \in HasLoop \cup {"clear", "exit"} => id = next
  /\ At = "done" => id = 0
  /\ At \in {"signal", "work", "idle", "cleanup"} => registered
  /\ derived /\ At \in {"delete", "clear", "exit", "done"} => ~registered
  /\ \A r \in Runs : r > next =>
       quit[r] = FALSE /\ queue[r] = << >> /\ accepted[r] = {}

\* The last activation was told to quit, or will be.
Ending == next > 0 /\ (quit[next] \/ InQueue(StopSoonTask, next) \/ At \in Late)

\* What the owner does and what the thread does.
UseOK ==
  /\ used = "new" => next = 0 /\ op \in {"free", "destroyed"} /\ ~started /\ ~event
                     /\ handle = 0 /\ wmQuit = {}
  /\ used = "here" =>
       /\ op \in {"free", "here", "closing", "destroyed"} /\ handle = 0
       /\ op # "here" => At = "done"
  /\ used = "start" =>
       /\ op # "here"
       /\ IF started \/ op = "starting" THEN handle = next /\ next > 0
          ELSE At = "done" /\ handle = 0
       /\ At \in Early => op = "starting"
       /\ op = "starting" => ~started
       /\ event => op = "starting" /\ At \notin Early
       /\ ~stopping /\ (started \/ op = "starting") => ~Ending
       /\ op \in {"posting", "stopping"} => started /\ (stopping => next \in itself)
       /\ op = "crashed" => next \in itself
       /\ wmQuit = {}
       /\ \A t \in Quitters : \A r \in Runs : ~InQueue(t, r)
  /\ op \in {"posting", "stopping", "closing"} => started
  /\ op = "destroyed" => At = "done"

\* A task accepted is in the queue until it has run or the loop is deleted;
\* those owed have run when the thread is about to leave its loop, unless it
\* leaves it on WM_QUIT.
QueueOK ==
  /\ \A r, o \in Runs : r # o => accepted[r] \cap accepted[o] = {}
  /\ owed \subseteq UNION {accepted[r] : r \in Runs}
  /\ At \in Early \cup {"work", "idle"} =>
       \A t \in accepted[next] : t \in ran \/ InQueue(t, next)
  /\ next > 0 /\ next \notin wmQuit /\ (At \in Late \/ (At = "idle" /\ quit[next])) =>
       accepted[next] \cap owed \subseteq ran
  /\ \A r \in 1..next : r < next /\ r \notin wmQuit => accepted[r] \cap owed \subseteq ran

ThreadInv == TypeOK /\ FieldsOK /\ UseOK /\ QueueOK

LEMMA ThreadInit == Init => ThreadInv
  <1> SUFFICES ASSUME Init PROVE ThreadInv
    OBVIOUS
  <1> USE DEF Init
  <1>1. At = "done"
    BY DEF At
  <1>2. TypeOK
    <2>1. << >> \in Seq(Tasks \cup {StopSoonTask})
      BY EmptySeq
    <2>2. 0 \in 0..MaxRuns /\ 0 \in 0..0 /\ {} \subseteq 1..0 /\ \A r \in Runs : r > 0
      BY ThreadAssumption DEF ThreadAssumption, Runs
    <2>3. started \in BOOLEAN /\ stopping \in BOOLEAN /\ event \in BOOLEAN
          /\ registered \in BOOLEAN /\ derived \in BOOLEAN
      OBVIOUS
    <2>4. /\ pc \in [Runs -> {"none", "created", "init", "signal", "work", "idle", "cleanup",
                             "delete", "clear", "exit", "done"}]
          /\ queue \in [Runs -> Seq(Tasks \cup {StopSoonTask})]
      BY <2>1
    <2>5. quit \in [Runs -> BOOLEAN] /\ accepted \in [Runs -> SUBSET Tasks]
          /\ wmQuit \subseteq Runs /\ itself \subseteq Runs
      OBVIOUS
    <2>6. \A r \in Runs : pc[r] = "none" <=> r > next
      BY <2>2
    <2>7. \A r \in 1..next : r < next => pc[r] = "done"
      OBVIOUS
    <2> QED
      BY <2>2, <2>3, <2>4, <2>5, <2>6, <2>7 DEF TypeOK
  <1>3. FieldsOK
    BY <1>1 DEF FieldsOK, HasLoop, Late
  <1>4. UseOK
    BY <1>1 DEF UseOK
  <1>5. QueueOK
    BY <1>1 DEF QueueOK, Early, Late
  <1> QED
    BY <1>2, <1>3, <1>4, <1>5 DEF ThreadInv

LEMMA NextType == ThreadInv => next \in Nat /\ 0 \in 0..next /\ next \in 0..next
  BY ThreadAssumption DEF ThreadInv, TypeOK, ThreadAssumption

\* What the owner does between its calls leaves the thread alone.
LEMMA ThreadAlone ==
  ASSUME ThreadInv, UNCHANGED <<pc, queue, quit, wmQuit, next, accepted, ran, owed>>
  PROVE  /\ At' = At /\ Ending' = Ending /\ QueueOK'
         /\ \A t, r : InQueue(t, r)' = InQueue(t, r)
  <1>1. At' = At /\ \A t, r : InQueue(t, r)' = InQueue(t, r)
    BY DEF At, InQueue
  <1>2. Ending' = Ending
    BY <1>1 DEF Ending
  <1>3. QueueOK'
    BY <1>1 DEF ThreadInv, QueueOK
  <1> QED
    BY <1>1, <1>2, <1>3

LEMMA StartReturnsStep == ASSUME ThreadInv, StartReturns PROVE ThreadInv'
  <1> USE DEF StartReturns, loops, past
  <1>1. At' = At /\ Ending' = Ending /\ QueueOK' /\ \A t, r : InQueue(t, r)' = InQueue(t, r)
    BY ThreadAlone
  <1>2. TypeOK'
    BY DEF ThreadInv, TypeOK
  <1>3. FieldsOK'
    BY <1>1 DEF ThreadInv, FieldsOK
  <1>4. UseOK'
    BY <1>1 DEF ThreadInv, UseOK
  <1> QED
    BY <1>1, <1>2, <1>3, <1>4 DEF ThreadInv

LEMMA StopSoonStep == ASSUME ThreadInv, StopSoon PROVE ThreadInv'
  <1> USE DEF StopSoon, object, loops, past
  <1>1. At' = At /\ Ending' = Ending /\ QueueOK' /\ \A t, r : InQueue(t, r)' = InQueue(t, r)
    BY ThreadAlone
  <1>2. TypeOK'
    BY DEF ThreadInv, TypeOK
  <1>3. FieldsOK'
    BY <1>1 DEF ThreadInv, FieldsOK
  <1>4. At # "done"
    BY DEF ThreadInv, FieldsOK, HasLoop
  <1>5. used = "start" /\ started
    BY <1>4 DEF ThreadInv, TypeOK, UseOK, At
  <1>6. UseOK'
    BY <1>1, <1>5 DEF ThreadInv, UseOK
  <1> QED
    BY <1>1, <1>2, <1>3, <1>6 DEF ThreadInv

LEMMA StopStep == ASSUME ThreadInv, Stop \/ Destroy PROVE ThreadInv'
  <1> USE DEF Stop, Destroy, object, loops, past
  <1>1. At' = At /\ Ending' = Ending /\ QueueOK' /\ \A t, r : InQueue(t, r)' = InQueue(t, r)
    BY ThreadAlone
  <1>2. TypeOK'
    BY DEF ThreadInv, TypeOK
  <1>3. FieldsOK'
    BY <1>1 DEF ThreadInv, FieldsOK
  <1>4. /\ op = "free" /\ used' = used /\ started' = started /\ handle' = handle
        /\ event' = event /\ next' = next
        /\ op' \in {"closing", "stopping", "destroyed"}
        /\ op' = "destroyed" <=> ~started
        /\ op' = "stopping" => ~stopping /\ loop # 0
        /\ UNCHANGED <<stopping, wmQuit, itself>>
    BY DEF ThreadInv, TypeOK
  <1> HIDE DEF Stop, Destroy
  <1>5. loop # 0 => At # "done"
    BY DEF ThreadInv, FieldsOK, HasLoop
  <1>6. UseOK'
    <2>1. CASE used = "new"
      BY <1>1, <1>4, <2>1 DEF ThreadInv, UseOK, At
    <2>2. CASE used = "here"
      BY <1>1, <1>4, <1>5, <2>2 DEF ThreadInv, UseOK
    <2>3. CASE used = "start"
      BY <1>1, <1>4, <1>5, <2>3 DEF ThreadInv, UseOK
    <2> QED
      BY <2>1, <2>2, <2>3 DEF ThreadInv, TypeOK
  <1> QED
    BY <1>1, <1>2, <1>3, <1>6 DEF ThreadInv

LEMMA StopReturnsStep ==
  ASSUME ThreadInv, StopReturns PROVE ThreadInv' /\ At = "done" /\ id' = 0 /\ (used = "start" => ~event)
  <1> USE DEF StopReturns, loops, past
  <1>1. At' = At /\ Ending' = Ending /\ QueueOK' /\ \A t, r : InQueue(t, r)' = InQueue(t, r)
    BY ThreadAlone
  <1>2. TypeOK'
    <2>1. /\ id' \in 0..next /\ handle' \in 0..next
          /\ started' \in BOOLEAN /\ stopping' \in BOOLEAN
      BY NextType DEF ThreadInv, TypeOK
    <2>2. op' \in {"free", "destroyed"}
      OBVIOUS
    <2> QED
      BY <2>1, <2>2 DEF ThreadInv, TypeOK
  <1>3. At = "done" /\ (used = "start" => ~event) /\ used # "new"
    <2>1. CASE used = "start"
      BY <2>1 DEF ThreadInv, UseOK, At
    <2>2. CASE used = "here"
      BY <2>2 DEF ThreadInv, UseOK
    <2>3. CASE used = "new"
      BY <2>3 DEF ThreadInv, UseOK
    <2> QED
      BY <2>1, <2>2, <2>3 DEF ThreadInv, TypeOK
  <1>4. id' = 0
    BY <1>3 DEF ThreadInv, FieldsOK
  <1>5. FieldsOK'
    BY <1>1, <1>3, <1>4 DEF ThreadInv, FieldsOK, HasLoop
  <1>6. UseOK'
    BY <1>1, <1>3 DEF ThreadInv, UseOK, Early
  <1> QED
    BY <1>1, <1>2, <1>3, <1>4, <1>5, <1>6 DEF ThreadInv

(***************************************************************************)
(* A new activation                                                        *)
(***************************************************************************)

LEMMA Begins ==
  ASSUME ThreadInv, At = "done", next < MaxRuns, next' = next + 1,
         pc' = [pc EXCEPT ![next'] = "created"],
         UNCHANGED <<loop, alive, queue, quit, wmQuit, registered, derived, accepted, ran,
                     owed>>
  PROVE  /\ At' = "created" /\ ~Ending' /\ FieldsOK' /\ QueueOK'
         /\ \A t, r : InQueue(t, r)' = InQueue(t, r)
         /\ next' \in 1..MaxRuns /\ loop' \in 0..next' /\ alive' \subseteq 1..next'
         /\ pc' \in [Runs -> {"none", "created", "init", "signal", "work", "idle", "cleanup",
                              "delete", "clear", "exit", "done"}]
         /\ \A r \in Runs : pc'[r] = "none" <=> r > next'
         /\ \A r \in 1..next' : r < next' => pc'[r] = "done"
  <1>0. next \in Nat /\ MaxRuns \in Nat /\ next' \in Runs /\ next' > 0 /\ loop = 0 /\ alive = {}
    BY ThreadAssumption DEF ThreadInv, TypeOK, ThreadAssumption, Runs, FieldsOK, HasLoop
  <1>1. pc'[next'] = "created" /\ \A r \in Runs : r # next' => pc'[r] = pc[r]
    BY <1>0 DEF ThreadInv, TypeOK
  <1>2. At' = "created"
    BY <1>0, <1>1 DEF At
  <1>3. \A t, r : InQueue(t, r)' = InQueue(t, r)
    BY DEF InQueue
  <1>4. /\ quit[next'] = FALSE /\ queue[next'] = << >> /\ accepted[next'] = {}
        /\ \A r \in Runs : r > next' => r > next
    BY <1>0 DEF ThreadInv, FieldsOK, Runs
  <1>5. ~Ending'
    BY <1>2, <1>3, <1>4, NothingIn DEF Ending, InQueue, Late
  <1>6. FieldsOK'
    BY <1>0, <1>2, <1>4 DEF ThreadInv, FieldsOK, HasLoop
  <1>7. QueueOK'
    <2>1. \A r \in 1..next : r \notin wmQuit => accepted[r] \cap owed \subseteq ran
      <3>1. CASE next = 0
        BY <3>1
      <3>2. CASE next > 0
        <4>1. next \notin wmQuit => accepted[next] \cap owed \subseteq ran
          BY <3>2 DEF ThreadInv, QueueOK, Late
        <4>2. \A r \in 1..next : r < next /\ r \notin wmQuit => accepted[r] \cap owed \subseteq ran
          BY DEF ThreadInv, QueueOK
        <4> QED
          BY <1>0, <4>1, <4>2
      <3> QED
        BY <1>0, <3>1, <3>2
    <2>2. \A r \in 1..next' : r < next' => r \in 1..next
      BY <1>0
    <2> QED
      BY <1>2, <1>3, <1>4, <2>1, <2>2 DEF ThreadInv, QueueOK, Late
  <1>8. /\ \A r \in Runs : pc'[r] = "none" <=> r > next'
        /\ \A r \in 1..next' : r < next' => pc'[r] = "done"
    <2>1. \A r \in 1..next : pc[r] = "done"
      BY <1>0 DEF ThreadInv, TypeOK, At
    <2>2. \A r \in Runs : pc[r] = "none" <=> r > next
      BY DEF ThreadInv, TypeOK
    <2> QED
      BY <1>0, <1>1, <2>1, <2>2 DEF Runs
  <1>9. pc' \in [Runs -> {"none", "created", "init", "signal", "work", "idle", "cleanup",
                          "delete", "clear", "exit", "done"}]
    BY <1>0 DEF ThreadInv, TypeOK
  <1> QED
    BY <1>0, <1>2, <1>3, <1>5, <1>6, <1>7, <1>8, <1>9 DEF Runs

LEMMA StartStep == ASSUME ThreadInv, Start \/ RunOnCurrentThread PROVE ThreadInv'
  <1> USE DEF Start, RunOnCurrentThread, loops, past
  <1>1. At = "done"
    <2>1. op = "free"
      OBVIOUS
    <2>2. CASE used = "new"
      BY <2>2 DEF ThreadInv, UseOK, At
    <2>3. CASE used = "here"
      BY <2>1, <2>3 DEF ThreadInv, UseOK
    <2>4. CASE used = "start"
      <3>1. op = "free" /\ loop = 0 /\ ~stopping
        BY <2>4 DEF May
      <3>2. CASE ~started
        BY <2>4, <3>1, <3>2 DEF ThreadInv, UseOK
      <3>3. CASE started
        <4>1. At \notin Early /\ ~Ending /\ next > 0
          BY <2>4, <3>1, <3>3 DEF ThreadInv, UseOK
        <4>2. At \in {"work", "idle"}
          <5>1. At # "none"
            BY <4>1 DEF ThreadInv, TypeOK, At, Runs
          <5> QED
            BY <4>1, <5>1 DEF ThreadInv, TypeOK, At, Ending, Late, Early, Runs
        <4> QED
          BY <3>1, <4>1, <4>2 DEF ThreadInv, FieldsOK, HasLoop
      <3> QED
        BY <3>2, <3>3
    <2> QED
      BY <2>2, <2>3, <2>4 DEF ThreadInv, TypeOK
  <1>2. /\ At' = "created" /\ ~Ending' /\ FieldsOK' /\ QueueOK'
        /\ \A t, r : InQueue(t, r)' = InQueue(t, r)
        /\ next' \in 1..MaxRuns /\ loop' \in 0..next' /\ alive' \subseteq 1..next'
        /\ pc' \in [Runs -> {"none", "created", "init", "signal", "work", "idle", "cleanup",
                             "delete", "clear", "exit", "done"}]
        /\ \A r \in Runs : pc'[r] = "none" <=> r > next'
        /\ \A r \in 1..next' : r < next' => pc'[r] = "done"
    BY <1>1, Begins
  <1>3. TypeOK'
    <2>1. handle' \in 0..next' /\ id' \in 0..next'
      <3>1. next' \in 0..next' /\ \A n \in 0..next : n \in 0..next'
        BY NextType
      <3> QED
        BY <3>1 DEF ThreadInv, TypeOK
    <2>2. next' \in 0..MaxRuns
      BY <1>2
    <2>3. started' \in BOOLEAN /\ op' \in {"starting", "here"} /\ used' \in {"start", "here"}
      BY DEF ThreadInv, TypeOK
    <2> QED
      BY <1>2, <2>1, <2>2, <2>3 DEF ThreadInv, TypeOK
  <1>4. CASE Start
    <2>1. used \in {"new", "start"}
      BY <1>4 DEF May
    <2>2. ~started /\ ~event
      <3>1. op = "free" /\ loop = 0 /\ ~stopping
        BY <1>4
      <3>2. CASE used = "start"
        <4>1. ~event
          BY <3>1, <3>2 DEF ThreadInv, UseOK
        <4>2. started => ~Ending /\ next > 0
          BY <3>1, <3>2 DEF ThreadInv, UseOK
        <4> QED
          BY <1>1, <4>1, <4>2 DEF Ending, Late
      <3> QED
        BY <2>1, <3>2 DEF ThreadInv, UseOK
    <2>3. \A t \in Quitters, r \in Runs : ~InQueue(t, r)
      <3>1. CASE used = "start"
        BY <3>1 DEF ThreadInv, UseOK
      <3>2. CASE used = "new"
        <4>1. \A r \in Runs : r > next
          BY <3>2 DEF ThreadInv, UseOK, Runs
        <4> QED
          BY <4>1, NothingIn DEF ThreadInv, FieldsOK, InQueue
      <3> QED
        BY <2>1, <3>1, <3>2
    <2>4. wmQuit = {}
      BY <2>1 DEF ThreadInv, UseOK
    <2>5. UseOK'
      BY <1>2, <1>4, <2>2, <2>3, <2>4 DEF UseOK
    <2> QED
      BY <1>2, <1>3, <2>5 DEF ThreadInv
  <1>5. CASE RunOnCurrentThread
    <2>1. handle = 0
      BY <1>5 DEF ThreadInv, UseOK, May
    <2>2. UseOK'
      BY <1>2, <1>5, <2>1 DEF UseOK
    <2> QED
      BY <1>2, <1>3, <2>2 DEF ThreadInv
  <1> QED
    BY <1>4, <1>5

(***************************************************************************)
(* The activation that runs                                                *)
(***************************************************************************)

LEMMA Running ==
  ASSUME ThreadInv, NEW r \in Runs, pc[r] \notin {"none", "done"}
  PROVE  r = next /\ next \in Runs /\ next \in Nat /\ next > 0 /\ At = pc[r]
  <1>1. next \in Nat /\ r \in Nat /\ r > 0
    BY NextType, ThreadAssumption DEF Runs, ThreadAssumption
  <1>2. ~(r > next)
    BY DEF ThreadInv, TypeOK
  <1>3. ~(r < next)
    BY <1>1 DEF ThreadInv, TypeOK
  <1>4. r = next
    BY <1>1, <1>2, <1>3
  <1> QED
    BY <1>1, <1>4 DEF At

LEMMA Moves ==
  ASSUME ThreadInv, NEW r \in Runs, pc[r] \notin {"none", "done"}, NEW to \in Places \ {"none"},
         pc' = [pc EXCEPT ![r] = to], next' = next
  PROVE  /\ At' = to
         /\ pc' \in [Runs -> Places]
         /\ \A s \in Runs : pc'[s] = "none" <=> s > next'
         /\ \A s \in 1..next' : s < next' => pc'[s] = "done"
  <1>1. r = next /\ next \in Runs /\ next \in Nat /\ next > 0
    BY Running
  <1>2. pc \in [Runs -> Places]
    BY DEF ThreadInv, TypeOK, Places
  <1>3. pc' \in [Runs -> Places] /\ pc'[r] = to /\ \A s \in Runs : s # r => pc'[s] = pc[s]
    BY <1>2
  <1>4. At' = to
    BY <1>1, <1>3 DEF At
  <1>5. \A s \in Runs : pc'[s] = "none" <=> s > next'
    BY <1>1, <1>3 DEF ThreadInv, TypeOK, Runs
  <1>6. \A s \in 1..next' : s < next' => s \in Runs /\ s # r
    BY <1>1, ThreadAssumption DEF Runs, ThreadAssumption
  <1>7. \A s \in 1..next' : s < next' => pc'[s] = "done"
    BY <1>3, <1>6 DEF ThreadInv, TypeOK
  <1> QED
    BY <1>3, <1>4, <1>5, <1>7

\* While an activation runs the object is started, or being started.
LEMMA InUse ==
  ASSUME ThreadInv, At # "done"
  PROVE  \/ used = "here" /\ op = "here"
         \/ used = "start" /\ op # "here" /\ (started \/ op = "starting")
  BY DEF ThreadInv, TypeOK, UseOK, At

LEMMA SetMessageLoopStep == ASSUME ThreadInv, NEW r \in Runs, SetMessageLoop(r) PROVE ThreadInv'
  <1> USE DEF SetMessageLoop, past
  <1>1. r = next /\ next \in Runs /\ next \in Nat /\ next > 0 /\ At = "created"
    BY Running
  <1>2. /\ At' = "init" /\ pc' \in [Runs -> Places]
        /\ \A s \in Runs : pc'[s] = "none" <=> s > next'
        /\ \A s \in 1..next' : s < next' => pc'[s] = "done"
    BY Moves DEF Places
  <1>3. \A t, s : InQueue(t, s)' = InQueue(t, s)
    BY DEF InQueue
  <1>4. TypeOK'
    <2>1. loop' \in 0..next' /\ id' \in 0..next' /\ alive' \subseteq 1..next'
      BY <1>1 DEF ThreadInv, TypeOK
    <2> QED
      BY <1>2, <2>1 DEF ThreadInv, TypeOK, Places
  <1>5. FieldsOK'
    BY <1>1, <1>2 DEF ThreadInv, FieldsOK, HasLoop
  <1>6. UseOK'
    <2>1. Ending' = Ending
      BY <1>1, <1>2, <1>3 DEF Ending, Late
    <2> QED
      BY <1>1, <1>2, <1>3, <2>1 DEF ThreadInv, UseOK, Early
  <1>7. QueueOK'
    <2>1. At \in Early /\ At' \notin Late /\ At' # "idle"
      BY <1>1, <1>2 DEF Early, Late
    <2> QED
      BY <1>1, <1>3, <2>1 DEF ThreadInv, QueueOK
  <1> QED
    BY <1>4, <1>5, <1>6, <1>7 DEF ThreadInv

LEMMA InitAndSignalStep == ASSUME ThreadInv, NEW r \in Runs, InitAndSignal(r) PROVE ThreadInv'
  <1> USE DEF InitAndSignal, loops, past
  <1>1. r = next /\ next \in Runs /\ next \in Nat /\ next > 0 /\ At \in {"init", "signal"}
    BY Running
  <1>2. PICK to \in {"signal", "work"} : pc' = [pc EXCEPT ![r] = to]
    OBVIOUS
  <1>3. /\ At' = to /\ pc' \in [Runs -> Places]
        /\ \A s \in Runs : pc'[s] = "none" <=> s > next'
        /\ \A s \in 1..next' : s < next' => pc'[s] = "done"
    BY <1>2, Moves DEF Places
  <1>4. \/ At = "init" /\ At' = "signal" /\ registered' /\ event' = event
        \/ At = "signal" /\ At' = "work" /\ registered' = registered /\ event'
    <2>1. pc'[r] = At' /\ pc[r] = At
      BY <1>1 DEF At
    <2> QED
      BY <2>1 DEF ThreadInv, TypeOK
  <1>5. \A t, s : InQueue(t, s)' = InQueue(t, s)
    BY DEF InQueue
  <1>6. TypeOK'
    <2>1. pc' \in [Runs -> {"none", "created", "init", "signal", "work", "idle", "cleanup",
                             "delete", "clear", "exit", "done"}]
      BY <1>3 DEF Places
    <2>2. registered' \in BOOLEAN /\ event' \in BOOLEAN
      BY <1>4 DEF ThreadInv, TypeOK
    <2> QED
      BY <1>3, <2>1, <2>2 DEF ThreadInv, TypeOK
  <1>7. FieldsOK'
    BY <1>1, <1>4 DEF ThreadInv, FieldsOK, HasLoop
  <1>8. UseOK'
    <2>1. Ending' = Ending
      BY <1>1, <1>4, <1>5 DEF Ending, Late
    <2> QED
      BY <1>1, <1>4, <1>5, <2>1 DEF ThreadInv, UseOK, Early
  <1>9. QueueOK'
    BY <1>1, <1>4, <1>5 DEF ThreadInv, QueueOK, Early, Late
  <1> QED
    BY <1>6, <1>7, <1>8, <1>9 DEF ThreadInv

\* The steps that only move the activation: FindsNothing, Idle, LeaveOnQuitMessage
\* and Cleanup.
LEMMA LeavingStep ==
  ASSUME ThreadInv, NEW r \in Runs,
         FindsNothing(r) \/ Idle(r) \/ LeaveOnQuitMessage(r) \/ Cleanup(r)
  PROVE  ThreadInv'
  <1> USE DEF loops, past
  <1>1. pc[r] \in {"work", "idle", "cleanup"}
    BY DEF FindsNothing, Idle, LeaveOnQuitMessage, Cleanup
  <1>2. r = next /\ next \in Runs /\ next \in Nat /\ next > 0 /\ At \in {"work", "idle", "cleanup"}
    BY <1>1, Running
  <1>3. PICK to \in {"work", "idle", "cleanup", "delete"} : pc' = [pc EXCEPT ![r] = to]
    BY DEF FindsNothing, Idle, LeaveOnQuitMessage, Cleanup
  <1>4. UNCHANGED <<object, derived, op, queue, quit, wmQuit, alive, next, used, accepted, ran,
                    owed, itself>>
    BY DEF FindsNothing, Idle, LeaveOnQuitMessage, Cleanup
  <1>5. /\ At' = to /\ pc' \in [Runs -> Places]
        /\ \A s \in Runs : pc'[s] = "none" <=> s > next'
        /\ \A s \in 1..next' : s < next' => pc'[s] = "done"
    BY <1>1, <1>3, <1>4, Moves DEF Places
  <1>6. \/ At = "work" /\ At' = "idle" /\ queue[next] = << >> /\ registered' = registered
        \/ At = "idle" /\ At' = "cleanup" /\ quit[next] /\ registered' = registered
        \/ At = "idle" /\ At' = "work" /\ ~quit[next] /\ registered' = registered
        \/ At \in {"work", "idle"} /\ At' = "cleanup" /\ next \in wmQuit
           /\ registered' = registered
        \/ At = "cleanup" /\ At' = "delete" /\ registered' = (registered /\ ~derived)
    <2>1. pc'[next] = At' /\ pc[next] = At /\ pc[next] \in Places
      BY <1>2, <1>4 DEF At, ThreadInv, TypeOK, Places
    <2>2. pc \in [Runs -> Places]
      BY DEF ThreadInv, TypeOK, Places
    <2> QED
      BY <1>2, <2>1, <2>2 DEF FindsNothing, Idle, LeaveOnQuitMessage, Cleanup
  <1>7. \A t, s : InQueue(t, s)' = InQueue(t, s)
    BY <1>4 DEF InQueue
  <1> USE DEF object
  <1>8. TypeOK'
    <2>1. pc' \in [Runs -> {"none", "created", "init", "signal", "work", "idle", "cleanup",
                             "delete", "clear", "exit", "done"}]
      BY <1>5 DEF Places
    <2>2. registered' \in BOOLEAN
      BY <1>6 DEF ThreadInv, TypeOK
    <2> QED
      BY <1>4, <1>5, <2>1, <2>2 DEF ThreadInv, TypeOK
  <1>9. FieldsOK'
    BY <1>2, <1>4, <1>6 DEF ThreadInv, FieldsOK, HasLoop
  <1>10. UseOK'
    <2>1. wmQuit = {} => Ending' = Ending
      BY <1>2, <1>4, <1>6, <1>7 DEF Ending, Late
    <2> QED
      <3>1. CASE used = "here"
        BY <1>2, <1>4, <1>6, <3>1 DEF ThreadInv, UseOK
      <3>2. CASE used = "start"
        BY <1>2, <1>4, <1>6, <1>7, <2>1, <3>2 DEF ThreadInv, UseOK, Early
      <3> QED
        BY <1>2, <3>1, <3>2, InUse
  <1>11. QueueOK'
    <2>1. At' \in Early \cup {"work", "idle"} => At \in Early \cup {"work", "idle"}
      BY <1>6 DEF Early
    <2>2. next \notin wmQuit /\ (At' \in Late \/ (At' = "idle" /\ quit[next]))
            => accepted[next] \cap owed \subseteq ran
      <3>0. SUFFICES ASSUME next \notin wmQuit, At' \in Late \/ (At' = "idle" /\ quit[next])
                     PROVE  accepted[next] \cap owed \subseteq ran
        OBVIOUS
      <3>1. CASE At = "work"
        <4>1. queue[next] = << >>
          BY <1>6, <3>0, <3>1
        <4>2. \A t \in accepted[next] : t \in ran
          BY <3>1, <4>1, NothingIn DEF ThreadInv, QueueOK, InQueue
        <4> QED
          BY <4>2
      <3>2. CASE At # "work"
        BY <1>2, <1>6, <3>0, <3>2 DEF ThreadInv, QueueOK, Late
      <3> QED
        BY <3>1, <3>2
    <2> QED
      BY <1>4, <1>7, <2>1, <2>2 DEF ThreadInv, QueueOK
  <1> QED
    BY <1>8, <1>9, <1>10, <1>11 DEF ThreadInv

LEMMA DeleteLoopStep == ASSUME ThreadInv, NEW r \in Runs, DeleteLoop(r) PROVE ThreadInv'
  <1> USE DEF DeleteLoop, object, past
  <1>1. r = next /\ next \in Runs /\ next \in Nat /\ next > 0 /\ At = "delete"
    BY Running
  <1>2. /\ At' = "clear" /\ pc' \in [Runs -> Places]
        /\ \A s \in Runs : pc'[s] = "none" <=> s > next'
        /\ \A s \in 1..next' : s < next' => pc'[s] = "done"
    BY Moves DEF Places
  <1>3. \A s \in Runs : queue'[s] = queue[s] \/ queue'[s] = << >>
    BY DEF ThreadInv, TypeOK
  <1>4. \A t : \A s \in Runs : InQueue(t, s)' => InQueue(t, s)
    BY <1>3, NothingIn DEF InQueue
  <1>5. TypeOK'
    <2>1. << >> \in Seq(Tasks \cup {StopSoonTask})
      BY EmptySeq
    <2>2. queue' \in [Runs -> Seq(Tasks \cup {StopSoonTask})]
      BY <2>1 DEF ThreadInv, TypeOK
    <2>3. alive' \subseteq 1..next'
      BY DEF ThreadInv, TypeOK
    <2> QED
      BY <1>2, <2>2, <2>3 DEF ThreadInv, TypeOK, Places
  <1>6. FieldsOK'
    <2>1. alive' = {}
      BY <1>1 DEF ThreadInv, FieldsOK, HasLoop
    <2>2. \A s \in Runs : s > next' =>
            quit'[s] = FALSE /\ queue'[s] = << >> /\ accepted'[s] = {}
      BY <1>1, <1>3 DEF ThreadInv, FieldsOK
    <2> QED
      BY <1>1, <1>2, <2>1, <2>2 DEF ThreadInv, FieldsOK, HasLoop
  <1>7. UseOK'
    <2>1. Ending' = Ending
      BY <1>1, <1>2 DEF Ending, Late
    <2> QED
      BY <1>1, <1>2, <1>4, <2>1 DEF ThreadInv, UseOK, Early
  <1>8. QueueOK'
    BY <1>1, <1>2 DEF ThreadInv, QueueOK, Early, Late
  <1> QED
    BY <1>5, <1>6, <1>7, <1>8 DEF ThreadInv

LEMMA ClearMessageLoopStep ==
  ASSUME ThreadInv, NEW r \in Runs, ClearMessageLoop(r) PROVE ThreadInv'
  <1> USE DEF ClearMessageLoop, loops, past
  <1>1. r = next /\ next \in Runs /\ next \in Nat /\ next > 0 /\ At = "clear"
    BY Running
  <1>2. /\ At' = "exit" /\ pc' \in [Runs -> Places]
        /\ \A s \in Runs : pc'[s] = "none" <=> s > next'
        /\ \A s \in 1..next' : s < next' => pc'[s] = "done"
    BY Moves DEF Places
  <1>3. \A t, s : InQueue(t, s)' = InQueue(t, s)
    BY DEF InQueue
  <1>4. TypeOK'
    BY <1>1, <1>2 DEF ThreadInv, TypeOK, Places
  <1>5. FieldsOK'
    BY <1>1, <1>2 DEF ThreadInv, FieldsOK, HasLoop
  <1>6. UseOK'
    <2>1. Ending' = Ending
      BY <1>1, <1>2 DEF Ending, Late
    <2> QED
      BY <1>1, <1>2, <1>3, <2>1 DEF ThreadInv, UseOK, Early
  <1>7. QueueOK'
    BY <1>1, <1>2 DEF ThreadInv, QueueOK, Early, Late
  <1> QED
    BY <1>4, <1>5, <1>6, <1>7 DEF ThreadInv

LEMMA ExitStep == ASSUME ThreadInv, NEW r \in Runs, Exit(r) PROVE ThreadInv'
  <1> USE DEF Exit, loops, past
  <1>1. r = next /\ next \in Runs /\ next \in Nat /\ next > 0 /\ At = "exit"
    BY Running
  <1>2. /\ At' = "done" /\ pc' \in [Runs -> Places]
        /\ \A s \in Runs : pc'[s] = "none" <=> s > next'
        /\ \A s \in 1..next' : s < next' => pc'[s] = "done"
    BY Moves DEF Places
  <1>3. \A t, s : InQueue(t, s)' = InQueue(t, s)
    BY DEF InQueue
  <1>4. TypeOK'
    <2>1. id' \in 0..next' /\ op' \in {"free", "starting", "here", "posting", "stopping",
                                       "closing", "destroyed", "crashed"}
      BY <1>1 DEF ThreadInv, TypeOK
    <2> QED
      BY <1>2, <2>1 DEF ThreadInv, TypeOK, Places
  <1>5. FieldsOK'
    BY <1>1, <1>2 DEF ThreadInv, FieldsOK, HasLoop, Late
  <1>6. UseOK'
    <2>1. Ending' = Ending
      BY <1>1, <1>2 DEF Ending, Late
    <2>2. CASE used = "here" /\ op = "here"
      BY <1>1, <1>2, <2>1, <2>2 DEF ThreadInv, UseOK, Early
    <2>3. CASE used = "start" /\ op # "here" /\ (started \/ op = "starting")
      BY <1>1, <1>2, <1>3, <2>1, <2>3 DEF ThreadInv, UseOK, Early
    <2> QED
      BY <1>1, <2>2, <2>3, InUse
  <1>7. QueueOK'
    <2>1. At \in Late /\ At' \in Late /\ At' \notin Early \cup {"work", "idle"}
      BY <1>1, <1>2 DEF Early, Late
    <2> QED
      BY <1>1, <2>1 DEF ThreadInv, QueueOK
  <1> QED
    BY <1>4, <1>5, <1>6, <1>7 DEF ThreadInv

(***************************************************************************)
(* The queue                                                               *)
(***************************************************************************)

\* The loop that lives is that of the activation that runs.
LEMMA LivingLoop ==
  ASSUME ThreadInv, NEW r \in alive
  PROVE  r = next /\ r \in Runs /\ next \in Nat /\ next > 0 /\ At \in HasLoop /\ loop = next
         /\ queue[r] \in Seq(Tasks \cup {StopSoonTask})
  <1>1. At \in HasLoop /\ r = next /\ loop = next
    BY DEF ThreadInv, FieldsOK
  <1>2. r \in 1..next /\ next \in 0..MaxRuns
    BY DEF ThreadInv, TypeOK
  <1>3. next \in Nat /\ next > 0 /\ r \in Runs
    BY <1>1, <1>2, ThreadAssumption DEF ThreadAssumption, Runs
  <1> QED
    BY <1>1, <1>3 DEF ThreadInv, TypeOK

LEMMA PostTaskStep ==
  ASSUME ThreadInv, NEW r \in Runs, NEW t \in Tasks, PostTask(r, t) PROVE ThreadInv'
  <1> USE DEF PostTask, Accept, object
  <1>1. r = next /\ next \in Nat /\ next > 0 /\ At \in HasLoop
        /\ queue[r] \in Seq(Tasks \cup {StopSoonTask})
    BY LivingLoop
  <1>2. At' = At
    BY DEF At
  <1>3. /\ queue'[r] = Append(queue[r], t) /\ accepted'[r] = accepted[r] \cup {t}
        /\ \A s \in Runs : s # r => queue'[s] = queue[s] /\ accepted'[s] = accepted[s]
    BY DEF ThreadInv, TypeOK
  <1>4. /\ queue'[r] \in Seq(Tasks \cup {StopSoonTask})
        /\ \A x : InQueue(x, r)' <=> InQueue(x, r) \/ x = t
    BY <1>1, <1>3, InAppend DEF InQueue
  <1>5. \A x : \A s \in Runs : s # r => InQueue(x, s)' = InQueue(x, s)
    BY <1>3 DEF InQueue
  <1>6. TypeOK'
    <2>1. queue' \in [Runs -> Seq(Tasks \cup {StopSoonTask})]
      BY <1>3, <1>4 DEF ThreadInv, TypeOK
    <2>2. accepted' \in [Runs -> SUBSET Tasks]
      BY DEF ThreadInv, TypeOK
    <2> QED
      BY <2>1, <2>2 DEF ThreadInv, TypeOK
  <1>7. FieldsOK'
    BY <1>1, <1>2, <1>3 DEF ThreadInv, FieldsOK
  <1>8. UseOK'
    <2>1. t # StopSoonTask
      BY ThreadAssumption DEF ThreadAssumption
    <2>2. Ending' = Ending
      BY <1>1, <1>2, <1>4, <2>1 DEF Ending
    <2>3. used = "start" => \A x \in Quitters : \A s \in Runs : ~InQueue(x, s)'
      BY <1>4, <1>5 DEF ThreadInv, UseOK
    <2> QED
      BY <1>2, <2>2, <2>3 DEF ThreadInv, UseOK
  <1>9. QueueOK'
    <2>1. \A s \in Runs : t \notin accepted[s]
      OBVIOUS
    <2>2. t \notin owed
      BY <2>1 DEF ThreadInv, QueueOK
    <2>3. \A s \in Runs : accepted'[s] \cap owed = accepted[s] \cap owed
      BY <1>3, <2>2
    <2>4. \A s, o \in Runs : s # o => accepted'[s] \cap accepted'[o] = {}
      BY <1>3, <2>1 DEF ThreadInv, QueueOK
    <2>5. \A s \in Runs : accepted[s] \subseteq accepted'[s]
      BY <1>3
    <2>6. owed' \subseteq UNION {accepted'[s] : s \in Runs}
      BY <2>5 DEF ThreadInv, QueueOK
    <2>7. At' \in Early \cup {"work", "idle"} =>
            \A x \in accepted'[next] : x \in ran \/ InQueue(x, next)'
      BY <1>1, <1>2, <1>3, <1>4 DEF ThreadInv, QueueOK
    <2>8. \A s \in 1..next : s \in Runs
      BY ThreadAssumption DEF Runs, ThreadAssumption, ThreadInv, TypeOK
    <2> QED
      BY <1>1, <1>2, <2>3, <2>4, <2>6, <2>7, <2>8 DEF ThreadInv, QueueOK
  <1> QED
    BY <1>6, <1>7, <1>8, <1>9 DEF ThreadInv

\* More is owed: whatever the activation that runs has accepted, which is not
\* what an earlier one has.
LEMMA OwesMore ==
  ASSUME ThreadInv, next \in Runs, NEW more, more = owed \cup accepted[next]
  PROVE  /\ more \subseteq Tasks /\ more \subseteq UNION {accepted[r] : r \in Runs}
         /\ \A r \in 1..next : r < next /\ r \notin wmQuit => accepted[r] \cap more \subseteq ran
  <1>1. more \subseteq Tasks /\ more \subseteq UNION {accepted[r] : r \in Runs}
    BY DEF ThreadInv, TypeOK, QueueOK
  <1>2. \A r \in 1..next : r < next => r \in Runs /\ r # next
    BY ThreadAssumption DEF Runs, ThreadAssumption
  <1>3. \A r \in 1..next : r < next /\ r \notin wmQuit => accepted[r] \cap more \subseteq ran
    BY <1>2 DEF ThreadInv, QueueOK
  <1> QED
    BY <1>1, <1>3

LEMMA PostStopStep == ASSUME ThreadInv, PostStop PROVE ThreadInv'
  <1> USE DEF PostStop, Owe
  <1>1. loop = next /\ next \in Runs /\ next \in Nat /\ next > 0 /\ At \in HasLoop
        /\ queue[next] \in Seq(Tasks \cup {StopSoonTask})
    BY LivingLoop
  <1>2. At' = At
    BY DEF At
  <1>3. /\ queue'[next] = Append(queue[next], StopSoonTask)
        /\ \A s \in Runs : s # next => queue'[s] = queue[s]
    BY <1>1 DEF ThreadInv, TypeOK
  <1>4. /\ queue'[next] \in Seq(Tasks \cup {StopSoonTask})
        /\ \A x : InQueue(x, next)' <=> InQueue(x, next) \/ x = StopSoonTask
    BY <1>1, <1>3, InAppend DEF InQueue
  <1>5. \A x : \A s \in Runs : s # next => InQueue(x, s)' = InQueue(x, s)
    BY <1>3 DEF InQueue
  <1>6. used = "start" /\ started /\ (~stopping => ~Ending) /\ stopping'
    BY DEF ThreadInv, TypeOK, UseOK
  <1>7. owed' \subseteq Tasks /\ owed' \subseteq UNION {accepted[r] : r \in Runs}
        /\ \A r \in 1..next : r < next /\ r \notin wmQuit => accepted[r] \cap owed' \subseteq ran
    <2>1. CASE stopping
      BY <2>1 DEF ThreadInv, TypeOK, QueueOK
    <2>2. CASE ~stopping
      BY <1>1, <2>2, OwesMore
    <2> QED
      BY <2>1, <2>2
  <1>8. TypeOK'
    <2>1. queue' \in [Runs -> Seq(Tasks \cup {StopSoonTask})]
      BY <1>3, <1>4 DEF ThreadInv, TypeOK
    <2>2. op' \in {"free", "closing"}
      OBVIOUS
    <2> QED
      BY <1>7, <2>1, <2>2 DEF ThreadInv, TypeOK
  <1>9. FieldsOK'
    BY <1>1, <1>2, <1>3 DEF ThreadInv, FieldsOK
  <1>10. UseOK'
    <2>1. \A x \in Quitters : \A s \in Runs : ~InQueue(x, s)'
      BY <1>4, <1>5, <1>6, ThreadAssumption DEF ThreadInv, UseOK, ThreadAssumption
    <2>2. op' \in {"free", "closing"} /\ op # "starting"
      OBVIOUS
    <2> QED
      BY <1>2, <1>6, <2>1, <2>2 DEF ThreadInv, UseOK
  <1>11. QueueOK'
    <2>1. CASE stopping
      BY <1>1, <1>2, <1>4, <2>1 DEF ThreadInv, QueueOK
    <2>2. CASE ~stopping
      <3>1. At \notin Late /\ ~quit[next]
        BY <1>1, <1>6, <2>2 DEF Ending
      <3> QED
        BY <1>1, <1>2, <1>4, <1>7, <3>1 DEF ThreadInv, QueueOK
    <2> QED
      BY <2>1, <2>2
  <1> QED
    BY <1>8, <1>9, <1>10, <1>11 DEF ThreadInv

\* While nobody has told the thread to stop, its loop is there.
LEMMA RunningLoop ==
  ASSUME ThreadInv, used = "start", started, op # "starting", ~Ending
  PROVE  loop \in alive /\ id # 0 /\ registered
  <1>1. next > 0 /\ At \notin Early
    BY DEF ThreadInv, UseOK
  <1>2. next \in Runs /\ At = pc[next] /\ At \notin Late
    BY <1>1, ThreadAssumption DEF ThreadInv, TypeOK, ThreadAssumption, Runs, At, Ending
  <1>3. At \in {"work", "idle"}
    <2>1. At # "none"
      BY <1>2, NextType DEF ThreadInv, TypeOK
    <2>2. At \in Places
      BY <1>2 DEF ThreadInv, TypeOK, Places
    <2> QED
      BY <1>1, <1>2, <2>1, <2>2 DEF Places, Early, Late
  <1> QED
    BY <1>1, <1>3, NextType DEF ThreadInv, FieldsOK, HasLoop

\* Only a thread that stops itself deletes the loop under its owner.
LEMMA DeadLoop ==
  ASSUME ThreadInv, op \in {"posting", "stopping"}
  PROVE  used = "start" /\ (loop \in alive \/ next \in itself)
  <1>1. used = "start" /\ started /\ (stopping => next \in itself)
    BY DEF ThreadInv, TypeOK, UseOK
  <1>2. ~stopping => ~Ending
    BY <1>1 DEF ThreadInv, UseOK
  <1> QED
    BY <1>1, <1>2, RunningLoop

LEMMA PostStopToDeadLoopStep == ASSUME ThreadInv, PostStopToDeadLoop PROVE ThreadInv'
  <1> USE DEF PostStopToDeadLoop, object, loops, past
  <1>1. At' = At /\ Ending' = Ending /\ QueueOK' /\ \A t, r : InQueue(t, r)' = InQueue(t, r)
    BY ThreadAlone
  <1>2. TypeOK'
    BY DEF ThreadInv, TypeOK
  <1>3. FieldsOK'
    BY <1>1 DEF ThreadInv, FieldsOK
  <1>4. used = "start" /\ next \in itself
    BY DeadLoop
  <1>5. UseOK'
    BY <1>1, <1>4 DEF ThreadInv, UseOK
  <1> QED
    BY <1>1, <1>2, <1>3, <1>5 DEF ThreadInv

LEMMA RunTaskStep == ASSUME ThreadInv, NEW r \in Runs, RunTask(r) PROVE ThreadInv'
  <1> DEFINE t == Head(queue[r])
             stops == t \in Stoppers /\ ~stopping /\ loop # 0
  <1>1. r = next /\ next \in Runs /\ next \in Nat /\ next > 0 /\ At = "work"
    BY Running DEF RunTask
  <1>2. queue[r] \in Seq(Tasks \cup {StopSoonTask}) /\ queue[r] # << >>
    BY DEF ThreadInv, TypeOK, RunTask
  <1>3. /\ Tail(queue[r]) \in Seq(Tasks \cup {StopSoonTask})
        /\ t \in Tasks \cup {StopSoonTask} /\ InQueue(t, r)
        /\ \A x : InQueue(x, r) <=> x = t \/ In(x, Tail(queue[r]))
    BY <1>2, InTail DEF InQueue
  <1>4. At' = At
    BY DEF RunTask, At
  <1>5. /\ queue'[r] = IF stops THEN Append(Tail(queue[r]), StopSoonTask) ELSE Tail(queue[r])
        /\ \A s \in Runs : s # r => queue'[s] = queue[s] /\ quit'[s] = quit[s]
        /\ quit'[r] = (quit[r] \/ t = StopSoonTask)
    BY DEF RunTask, ThreadInv, TypeOK
  <1>6. /\ queue'[r] \in Seq(Tasks \cup {StopSoonTask})
        /\ \A x : InQueue(x, r)' <=> In(x, Tail(queue[r])) \/ (stops /\ x = StopSoonTask)
    <2>1. CASE stops
      <3>1. PICK q : q = Tail(queue[r])
        OBVIOUS
      <3>2. q \in Seq(Tasks \cup {StopSoonTask}) /\ queue'[r] = Append(q, StopSoonTask)
        BY <1>3, <1>5, <2>1, <3>1
      <3>3. /\ Append(q, StopSoonTask) \in Seq(Tasks \cup {StopSoonTask})
            /\ \A x : In(x, Append(q, StopSoonTask)) <=> In(x, q) \/ x = StopSoonTask
        BY <3>2, InAppend
      <3> HIDE DEF stops
      <3> QED
        BY <2>1, <3>1, <3>2, <3>3 DEF InQueue
    <2>2. CASE ~stops
      BY <1>3, <1>5, <2>2 DEF InQueue
    <2> QED
      BY <2>1, <2>2
  <1>7. \A x : \A s \in Runs : s # r => InQueue(x, s)' = InQueue(x, s)
    BY <1>5 DEF InQueue
  <1>8. owed' = (IF stops THEN owed \cup accepted[next] ELSE owed)
        /\ ran' = ran \cup ({t} \ {StopSoonTask}) /\ stopping' = (stopping \/ stops)
        /\ wmQuit' = (IF t \in Quitters THEN wmQuit \cup {r} ELSE wmQuit)
        /\ itself' = (IF stops THEN itself \cup {r} ELSE itself)
    BY <1>1 DEF RunTask
  <1>9. UNCHANGED <<started, loop, event, handle, id, registered, derived, op, pc, alive,
                    next, used, accepted>>
    BY DEF RunTask
  <1>10. owed' \subseteq Tasks /\ owed' \subseteq UNION {accepted[s] : s \in Runs}
         /\ \A s \in 1..next : s < next /\ s \notin wmQuit => accepted[s] \cap owed' \subseteq ran
    <2>1. CASE stops
      BY <1>1, <1>8, <2>1, OwesMore
    <2>2. CASE ~stops
      BY <1>8, <2>2 DEF ThreadInv, TypeOK, QueueOK
    <2> QED
      BY <2>1, <2>2
  <1>11. quit' \in [Runs -> BOOLEAN] /\ queue' \in [Runs -> Seq(Tasks \cup {StopSoonTask})]
    <2>1. quit' \in [Runs -> BOOLEAN]
      BY DEF RunTask, ThreadInv, TypeOK
    <2>2. queue' = [queue EXCEPT ![r] = queue'[r]]
      BY DEF RunTask, ThreadInv, TypeOK
    <2> QED
      BY <1>6, <2>1, <2>2 DEF ThreadInv, TypeOK
  <1> HIDE DEF t, stops
  <1>12. stops \in BOOLEAN
    BY DEF stops
  <1>13. TypeOK'
    <2>1. /\ ran' \subseteq Tasks /\ stopping' \in BOOLEAN
          /\ wmQuit' \subseteq Runs /\ itself' \subseteq Runs
      BY <1>3, <1>8, <1>12 DEF ThreadInv, TypeOK
    <2> QED
      BY <1>9, <1>10, <1>11, <2>1 DEF ThreadInv, TypeOK
  <1>14. FieldsOK'
    BY <1>1, <1>4, <1>5, <1>9 DEF ThreadInv, FieldsOK
  <1>15. used = "start" => \A x \in Quitters : \A s \in Runs : ~InQueue(x, s)'
    BY <1>3, <1>6, <1>7, ThreadAssumption DEF ThreadInv, UseOK, ThreadAssumption
  <1>16. ~Ending /\ ~stops => ~Ending'
    <2>1. ~Ending => t # StopSoonTask /\ ~In(StopSoonTask, Tail(queue[r])) /\ ~quit[r]
      BY <1>1, <1>3 DEF Ending
    <2> QED
      BY <1>1, <1>4, <1>5, <1>6, <1>9, <2>1 DEF Ending, Late
  <1>17. UseOK'
    <2>1. CASE used = "start"
      <3>1. wmQuit' = {}
        BY <1>1, <1>3, <1>8, <2>1 DEF ThreadInv, UseOK
      <3>2. /\ op \in {"posting", "stopping"} => started /\ (stopping' => next \in itself')
            /\ op = "crashed" => next \in itself'
        BY <1>1, <1>8, <2>1 DEF ThreadInv, UseOK
      <3>3. ~stopping' /\ (started \/ op = "starting") => ~Ending'
        BY <1>8, <1>16, <2>1 DEF ThreadInv, UseOK
      <3> QED
        BY <1>4, <1>9, <1>15, <2>1, <3>1, <3>2, <3>3 DEF ThreadInv, UseOK
    <2>2. CASE used = "here"
      BY <1>4, <1>9, <2>2 DEF ThreadInv, UseOK
    <2> QED
      BY <1>1, <2>1, <2>2, InUse
  <1>18. QueueOK'
    <2>1. \A x \in accepted[next] : x \in ran' \/ InQueue(x, next)'
      <3>1. SUFFICES ASSUME NEW x \in accepted[next], x \notin ran' PROVE InQueue(x, next)'
        OBVIOUS
      <3>2. x \in Tasks /\ x # StopSoonTask
        BY <1>1, ThreadAssumption DEF ThreadInv, TypeOK, ThreadAssumption
      <3>3. InQueue(x, next)
        BY <1>1, <1>8, <3>1 DEF ThreadInv, QueueOK
      <3>4. x # t
        BY <1>8, <3>1, <3>2
      <3> QED
        BY <1>1, <1>3, <1>6, <1>9, <3>3, <3>4
    <2>2. ran \subseteq ran' /\ wmQuit \subseteq wmQuit'
      BY <1>8
    <2> QED
      BY <1>1, <1>4, <1>9, <1>10, <2>1, <2>2 DEF ThreadInv, QueueOK, Late
  <1> QED
    BY <1>13, <1>14, <1>17, <1>18 DEF ThreadInv

(***************************************************************************)
(* The theorems                                                            *)
(***************************************************************************)

LEMMA ThreadStep == ThreadInv /\ [Next]_vars => ThreadInv'
  <1> SUFFICES ASSUME ThreadInv, [Next]_vars PROVE ThreadInv'
    OBVIOUS
  <1>1. CASE Start \/ RunOnCurrentThread
    BY <1>1, StartStep
  <1>2. CASE StopSoon
    BY <1>2, StopSoonStep
  <1>3. CASE Stop \/ Destroy
    BY <1>3, StopStep
  <1>4. CASE OwnerReturns
    BY <1>4, StartReturnsStep, PostStopStep, PostStopToDeadLoopStep, StopReturnsStep
       DEF OwnerReturns
  <1>5. ASSUME NEW r \in Runs, RunStep(r) PROVE ThreadInv'
    BY <1>5, SetMessageLoopStep, InitAndSignalStep, RunTaskStep, LeavingStep, DeleteLoopStep,
       ClearMessageLoopStep, ExitStep DEF RunStep
  <1>6. ASSUME NEW r \in Runs, NEW t \in Tasks, PostTask(r, t) PROVE ThreadInv'
    BY <1>6, PostTaskStep
  <1>7. CASE UNCHANGED vars
    <2>1. At' = At /\ Ending' = Ending /\ QueueOK' /\ \A t, r : InQueue(t, r)' = InQueue(t, r)
      BY <1>7, ThreadAlone DEF vars
    <2>2. TypeOK'
      BY <1>7 DEF vars, ThreadInv, TypeOK
    <2>3. FieldsOK'
      BY <1>7, <2>1 DEF vars, ThreadInv, FieldsOK
    <2>4. UseOK'
      BY <1>7, <2>1 DEF vars, ThreadInv, UseOK
    <2> QED
      BY <2>1, <2>2, <2>3, <2>4 DEF ThreadInv
  <1> QED
    BY <1>1, <1>2, <1>3, <1>4, <1>5, <1>6, <1>7 DEF Next

LEMMA ThreadAlways == Spec => []ThreadInv
  BY ThreadInit, ThreadStep, PTL DEF Spec

\* Every variable of an object keeps its type, message_loop_ and the handle
\* name an activation that has begun, and only the last one executes.
THEOREM ThreadTypes == Spec => []TypeOK
  <1>1. ThreadInv => TypeOK
    BY DEF ThreadInv
  <1> QED
    BY <1>1, ThreadAlways, PTL

LEMMA UsableNow == ThreadInv => LoopUsable
  <1> SUFFICES ASSUME ThreadInv PROVE LoopUsable
    OBVIOUS
  <1>1. UsableAfterStart
    BY RunningLoop DEF UsableAfterStart, ThreadInv, UseOK
  <1>2. op = "crashed" => next \in itself
    BY DEF ThreadInv, TypeOK, UseOK
  <1>3. NoPostToDeadLoop
    BY <1>2, DeadLoop DEF NoPostToDeadLoop
  <1> QED
    BY <1>1, <1>3 DEF LoopUsable

\* After Start has returned true, and until the thread was told to stop, the
\* object has a living loop, its own thread id and its entry in ThreadMap; and
\* StopSoon and Stop never post DoStopSoon to a deleted loop, unless the thread
\* itself has called StopSoon between their test and their post.
THEOREM LoopAlwaysUsable == Spec => []LoopUsable
  BY UsableNow, ThreadAlways, PTL

LEMMA DrainedNow == ThreadInv => DrainedByStop
  <1> SUFFICES ASSUME ThreadInv, NEW r \in Runs \ wmQuit, pc[r] \in {"cleanup", "done"}
               PROVE  accepted[r] \cap owed \subseteq ran
    BY DEF DrainedByStop
  <1>1. next \in Nat /\ r \in Nat /\ r > 0 /\ ~(r > next)
    BY NextType, ThreadAssumption DEF ThreadInv, TypeOK, Runs, ThreadAssumption
  <1>2. CASE r = next
    BY <1>1, <1>2 DEF ThreadInv, QueueOK, At, Late
  <1>3. CASE r < next
    BY <1>1, <1>3 DEF ThreadInv, QueueOK
  <1> QED
    BY <1>1, <1>2, <1>3

\* A thread that was not sent WM_QUIT leaves its loop only after it has run every
\* task it had accepted when DoStopSoon was first posted.
THEOREM Drained == Spec => []DrainedByStop
  BY DrainedNow, ThreadAlways, PTL

\* When Stop or the destructor returns, no activation executes, the loop is gone
\* and the flags, the identity and the event are as in a new object.
THEOREM StopResets == Spec => ResetByStop
  <1>1. ASSUME ThreadInv, [Next]_vars, op = "closing", op' # op
        PROVE  /\ \A r \in 1..next : pc[r] = "done"
               /\ loop' = 0 /\ id' = 0 /\ handle' = 0 /\ alive' = {}
               /\ ~started' /\ ~stopping' /\ (derived => ~registered')
               /\ (used = "start" => ~event')
    <2>1. StopReturns
      <3>1. ASSUME NEW r \in Runs, RunStep(r) PROVE op' = op
        BY <1>1, <3>1 DEF RunStep, SetMessageLoop, InitAndSignal, RunTask, FindsNothing, Idle,
                          LeaveOnQuitMessage, Cleanup, DeleteLoop, ClearMessageLoop, Exit, object
      <3>2. ASSUME NEW r \in Runs, NEW t \in Tasks, PostTask(r, t) PROVE op' = op
        BY <3>2 DEF PostTask
      <3> QED
        BY <1>1, <3>1, <3>2 DEF Next, OwnerReturns, Start, RunOnCurrentThread, StopSoon, Stop,
                                Destroy, StartReturns, PostStop,
                                PostStopToDeadLoop, vars
    <2>2. At = "done" /\ id' = 0 /\ (used = "start" => ~event)
      BY <1>1, <2>1, StopReturnsStep
    <2>3. loop = 0 /\ alive = {} /\ (derived => ~registered)
      BY <1>1, <2>2 DEF ThreadInv, FieldsOK, HasLoop
    <2>4. \A r \in 1..next : pc[r] = "done"
      <3>1. next \in Nat
        BY <1>1, NextType
      <3> QED
        BY <1>1, <2>2, <3>1 DEF At, ThreadInv, TypeOK
    <2> QED
      BY <2>1, <2>2, <2>3, <2>4 DEF StopReturns, loops
  <1>2. ThreadInv /\ [Next]_vars =>
          [(op = "closing" /\ op' # op) =>
             /\ \A r \in 1..next : pc[r] = "done"
             /\ loop' = 0 /\ id' = 0 /\ handle' = 0 /\ alive' = {}
             /\ ~started' /\ ~stopping' /\ (derived => ~registered')
             /\ (used = "start" => ~event')]_vars
    BY <1>1
  <1> QED
    BY <1>2, ThreadAlways, PTL DEF Spec, ResetByStop
=============================================================================
