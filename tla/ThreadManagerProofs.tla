------------------------ MODULE ThreadManagerProofs ------------------------
(***************************************************************************)
(* For any threads, identifiers and jobs: ThreadMap is exact, a worker     *)
(* reaches the main thread from its start to its end, the pointers a post  *)
(* carries with no lock are valid when it follows them, a repeated         *)
(* callback goes on once at a time, as often as it is owed and never after *)
(* its flag expired, and the relay of an await has one owner at a time.    *)
(***************************************************************************)
EXTENDS ThreadManager, TLAPS, SequenceTheorems, FiniteSetTheorems

Lives == {"none", "init", "registering", "starting", "work", "cleanup",
          "unregistering", "delete", "clear", "done", "gone"}

\* Where the main thread may have workers, and where a thread may be managed.
Hosting == {"starting", "work", "cleanup"}
Registered == Hosting \cup {"unregistering"}

RegistryTypeOK ==
  /\ life \in [Threads -> Lives]
  /\ threads \in [Ids -> Threads \cup {Nobody}]
  /\ managed \subseteq Threads

\* The main thread is managed as long as it has workers, and has none outside
\* of that time; who erases an entry is still managed.
HostInv ==
  /\ \A p \in managed : life[p] \in Registered
  /\ \A p \in Threads : life[p] = "unregistering" => p \in managed
  /\ life[Main] \in Registered => Main \in managed
  /\ life[Main] \notin Hosting => \A w \in Workers : life[w] \in {"none", "gone"}

RegistryInv == RegistryTypeOK /\ RegistryExact /\ HostInv

LEMMA RegistryInit == Init => RegistryInv
  BY ManagerAssumption
  DEF Init, RegistryInv, RegistryTypeOK, RegistryExact, HostInv, Threads, Lives, Hosting,
      Registered

\* A step that touches neither the map nor anybody's life changes nothing here.
LEMMA RegistryKept ==
  ASSUME RegistryInv, UNCHANGED <<life, threads, managed>> PROVE RegistryInv'
  BY DEF RegistryInv, RegistryTypeOK, RegistryExact, HostInv

LEMMA RegisterStep ==
  ASSUME RegistryInv, NEW p \in Threads, RegisterThread(p) PROVE RegistryInv'
  <1> USE ManagerAssumption DEF RegistryInv, RegistryTypeOK, RegistryExact, HostInv,
          Threads, Lives, Hosting, Registered
  <1>1. CASE life[p] = "init" /\ life' = [life EXCEPT ![p] = "registering"]
             /\ UNCHANGED <<threads, managed>>
    BY <1>1
  <1>2. ASSUME life[p] = "registering",
               life' = [life EXCEPT ![p] = IF p = Main THEN "starting" ELSE "work"],
               IF threads[Id[p]] \in {Nobody, p}
                 THEN /\ threads' = [threads EXCEPT ![Id[p]] = p]
                      /\ managed' = managed \cup {p}
                 ELSE UNCHANGED <<threads, managed>>
        PROVE  RegistryInv'
    <2>1. p \notin managed
      BY <1>2
    <2>2. Id[p] \in Ids /\ (p = Main => threads[Id[p]] \in {Nobody, p})
      OBVIOUS
    <2>3. RegistryTypeOK'
      BY <1>2, <2>2
    <2>4. RegistryExact'
      BY <1>2, <2>1, <2>2
    <2>5. HostInv'
      BY <1>2, <2>1, <2>2
    <2> QED
      BY <2>3, <2>4, <2>5
  <1> QED
    BY <1>1, <1>2 DEF RegisterThread

LEMMA UnregisterStep ==
  ASSUME RegistryInv, NEW p \in Threads, UnregisterThread(p) PROVE RegistryInv'
  <1> USE ManagerAssumption DEF RegistryInv, RegistryTypeOK, RegistryExact, HostInv,
          Threads, Lives, Hosting, Registered
  <1>1. CASE /\ life[p] = "cleanup" /\ p \notin managed
             /\ p = Main => \A w \in Workers : life[w] = "gone"
             /\ life' = [life EXCEPT ![p] = "delete"]
             /\ UNCHANGED registry
    BY <1>1 DEF registry
  <1>2. CASE /\ life[p] = "cleanup"
             /\ p = Main => \A w \in Workers : life[w] = "gone"
             /\ p \in managed
             /\ life' = [life EXCEPT ![p] = "unregistering"]
             /\ UNCHANGED <<threads, managed>>
    BY <1>2
  <1>3. ASSUME life[p] = "unregistering",
               life' = [life EXCEPT ![p] = "delete"],
               threads' = [threads EXCEPT ![Id[p]] = Nobody],
               managed' = managed \ {p}
        PROVE  RegistryInv'
    <2>1. RegistryTypeOK'
      BY <1>3
    <2>2. RegistryExact'
      BY <1>3
    <2>3. HostInv'
      BY <1>3
    <2> QED
      BY <2>1, <2>2, <2>3
  <1> QED
    BY <1>1, <1>2, <1>3 DEF UnregisterThread

\* The other steps of a thread's life.
LEMMA LifeStep ==
  ASSUME RegistryInv,
         \/ PreMessageLoop \/ PostMessageLoop
         \/ \E p \in Threads : LeaveLoop(p) \/ DeleteLoop(p)
  PROVE  RegistryInv'
  <1> USE ManagerAssumption DEF RegistryInv, RegistryTypeOK, RegistryExact, HostInv,
          Threads, Lives, Hosting, Registered, registry
  <1>1. CASE PreMessageLoop
    BY <1>1 DEF PreMessageLoop
  <1>2. CASE PostMessageLoop
    BY <1>2 DEF PostMessageLoop
  <1>3. ASSUME NEW p \in Threads, LeaveLoop(p) PROVE RegistryInv'
    BY <1>3 DEF LeaveLoop
  <1>4. ASSUME NEW p \in Threads, DeleteLoop(p) PROVE RegistryInv'
    BY <1>4 DEF DeleteLoop
  <1> QED
    BY <1>1, <1>2, <1>3, <1>4

LEMMA RegistryStep == RegistryInv /\ [Next]_vars => RegistryInv'
  <1> SUFFICES ASSUME RegistryInv, [Next]_vars PROVE RegistryInv'
    OBVIOUS
  <1>1. ASSUME NEW p \in Threads, Registers(p) PROVE RegistryInv'
    BY <1>1, RegisterStep, UnregisterStep DEF Registers
  <1>2. CASE \/ PreMessageLoop \/ PostMessageLoop
             \/ \E p \in Threads : LeaveLoop(p) \/ DeleteLoop(p)
    BY <1>2, LifeStep
  <1>3. ASSUME NEW p \in Threads, Posts(p) \/ RunNext(p) \/ RunRepeatedly(p) \/ Finish(p)
        PROVE  RegistryInv'
    <2>1. UNCHANGED <<life, registry>>
      BY <1>3 DEF Posts, FindThread, GetMessageLoop, PostThroughProxy, RunNext,
                  RunRepeatedly, Finish, FinishPlain, FinishRun, FinishReply, FinishRepeat
    <2> QED
      BY <2>1, RegistryKept DEF registry
  <1>4. CASE Choice
    <2>1. UNCHANGED <<life, registry>>
      BY <1>4 DEF Choice, Quit, AskHere, Ask, Cancel
    <2> QED
      BY <2>1, RegistryKept DEF registry
  <1>5. CASE UNCHANGED vars
    BY <1>5, RegistryKept DEF vars, registry
  <1> QED
    BY <1>1, <1>2, <1>3, <1>4, <1>5 DEF Next, Work, Step

LEMMA RegistryAlways == Spec => []RegistryInv
  BY RegistryInit, RegistryStep, PTL DEF Spec

\* ThreadMap has exactly the managed threads, whoever registers, is refused or
\* unregisters meanwhile.
THEOREM MapIsExact == Spec => []RegistryExact
  <1>1. RegistryInv => RegistryExact
    BY DEF RegistryInv
  <1> QED
    BY <1>1, RegistryAlways, PTL

\* Post2UI finds a living loop as long as the caller is a worker of the program.
THEOREM WorkersReachUI == Spec => []UIReachable
  <1>1. RegistryInv => UIReachable
    <2> SUFFICES ASSUME RegistryInv, NEW w \in Workers, HasPointer(w)
                 PROVE  threads[Id[Main]] = Main /\ LoopAlive(Main)
      BY DEF UIReachable
    <2>1. life[Main] \in Hosting
      BY DEF RegistryInv, HostInv, HasPointer
    <2>2. Main \in managed /\ Main \in Threads /\ Id[Main] \in Ids
      BY <2>1, ManagerAssumption DEF RegistryInv, HostInv, Registered, Threads
    <2> QED
      BY <2>1, <2>2 DEF RegistryInv, RegistryExact, Hosting, LoopAlive, HasPointer
  <1> QED
    BY <1>1, RegistryAlways, PTL

(***************************************************************************)
(* Tasks, posts and what they carry                                        *)
(***************************************************************************)

States == {"new", "asking", "asked", "answered", "replied", "refused", "ended", "lost"}
Tags == Ids \cup {Nobody}

Single == [kind : {"task"}, job : Plain, id : Tags, times : Int]
Relayed == [kind : {"run", "reply"}, job : Awaits, id : Tags, times : Int]
Repeated == [kind : {"repeat"}, job : Repeats, id : Tags, times : Int]
Queued == Single \cup Relayed \cup {StopTask}

Executed ==
  [kind : {"task"}, job : Plain] \cup [kind : {"run", "reply"}, job : Awaits] \cup Repeated
Looking == [step : {"find"}, job : Jobs, id : Ids, times : Int]
Found == [step : {"thread", "loop", "proxy"}, job : Jobs, id : Ids, times : Int, to : Threads]

\* What is fetched, posted and run, by type.
CarriedOK ==
  /\ queue \in [Threads -> Seq(Queued)]
  /\ delayed \in [Threads -> SUBSET Repeated]
  /\ running \in [Threads -> Executed \cup {Idle}]
  /\ call \in [Threads -> Looking \cup Found \cup {NoCall}]

\* The rest, by type.
PlainOK ==
  /\ changing \in Threads \cup {Nobody} /\ joining \in Workers \cup {Nobody}
  /\ quit \subseteq Threads
  /\ relay \in [Awaits -> [origin : Threads \cup {Nobody}, task : BOOLEAN]]
  /\ state \in [Jobs -> States]
  /\ runs \in [Repeats -> Nat] /\ cancelled \subseteq Repeats

\* Only a living loop has tasks, and only a thread in its loop runs one or posts.
AliveOK ==
  \A p \in Threads :
    /\ ~LoopAlive(p) => queue[p] = << >> /\ delayed[p] = {}
    /\ running[p] # Idle \/ call[p] # NoCall => life[p] = "work"

\* A worker is told to stop, and ends, only after the main thread's loop.
Early == {"none", "init", "registering", "work"}
StopOK ==
  life[Main] \in {"init", "registering", "starting", "work"} =>
    \A w \in Workers :
      /\ life[w] \in Early /\ w \notin quit
      /\ \A n \in 1..Len(queue[w]) : queue[w][n] # StopTask

\* q has been found in the map, which it leaves only at its end.
Known(q) ==
  /\ life[q] \notin {"none", "init", "registering"}
  /\ life[q] = "work" => q \in managed

\* A worker posts by identifier to the main thread, or again to itself.
DelayedReach(p) == \A x \in delayed[p] : x.id # Nobody => x.id = Id[p] /\ Known(p)
RunReach(p) ==
  running[p] # Idle /\ running[p].kind = "repeat" /\ running[p].id # Nobody =>
    running[p].id = Id[p] /\ Known(p)
CallReach(p) ==
  /\ call[p] \in Looking /\ p # Main =>
       call[p].id = Id[Main] \/ (call[p].id = Id[p] /\ Known(p))
  /\ call[p] \in Found =>
       /\ call[p].id = Id[call[p].to] /\ Known(call[p].to)
       /\ p = Main \/ call[p].to \in {p, Main}
ReachOK == \A p \in Threads : DelayedReach(p) /\ RunReach(p) /\ CallReach(p)

PostInv == RegistryInv /\ CarriedOK /\ PlainOK /\ AliveOK /\ StopOK /\ ReachOK

OtherOK == CarriedOK /\ PlainOK /\ AliveOK /\ StopOK /\ ReachOK

LEMMA MainIsThread ==
  /\ Main \in Threads /\ Main \notin Workers /\ Workers \subseteq Threads
  /\ Id \in [Threads -> Ids] /\ Nobody \notin Threads
  /\ \A w \in Workers : Id[w] # Id[Main]
  BY ManagerAssumption DEF Threads

\* As long as nobody leaves the map, what a thread keeps stays reachable.
LEMMA ReachKept ==
  ASSUME PostInv, \A q \in Threads : Known(q) => Known(q)', NEW p \in Threads
  PROVE  /\ delayed'[p] = delayed[p] => DelayedReach(p)'
         /\ running'[p] = running[p] => RunReach(p)'
         /\ call'[p] = call[p] => CallReach(p)'
  <1>1. DelayedReach(p) /\ RunReach(p) /\ CallReach(p)
    BY DEF PostInv, ReachOK
  <1>2. call[p] \in Found => call[p].to \in Threads
    BY DEF Found
  <1> QED
    BY <1>1, <1>2 DEF DelayedReach, RunReach, CallReach

LEMMA PostInit == Init => PostInv
  <1> SUFFICES ASSUME Init PROVE PostInv
    OBVIOUS
  <1> USE MainIsThread DEF Init
  <1>1. RegistryInv
    BY RegistryInit
  <1>2. CarriedOK
    BY EmptySeq DEF CarriedOK
  <1>3. PlainOK
    BY DEF PlainOK, States
  <1>4. AliveOK
    BY DEF AliveOK
  <1>5. StopOK
    BY EmptySeq DEF StopOK, Early
  <1>6. ReachOK
    <2>1. \A p \in Threads : delayed[p] = {} /\ running[p] = Idle /\ call[p] = NoCall
      OBVIOUS
    <2>2. NoCall \notin Looking \cup Found
      BY DEF NoCall, Looking, Found
    <2> QED
      BY <2>1, <2>2 DEF ReachOK, DelayedReach, RunReach, CallReach
  <1> QED
    BY <1>1, <1>2, <1>3, <1>4, <1>5, <1>6 DEF PostInv

LEMMA PostRegisterStep ==
  ASSUME PostInv, NEW t \in Threads, RegisterThread(t),
         UNCHANGED <<joining, loops, running, call, past>>
  PROVE  OtherOK'
  <1> USE MainIsThread
  <1>1. life \in [Threads -> Lives] /\ life' \in [Threads -> Lives] /\ managed \subseteq managed'
    BY RegisterStep DEF PostInv, RegistryInv, RegistryTypeOK, RegisterThread
  <1>2. CarriedOK'
    BY DEF PostInv, CarriedOK, loops
  <1>3. PlainOK'
    BY DEF PostInv, PlainOK, loops, past, RegisterThread
  <1>4. \A p \in Threads : /\ LoopAlive(p) => LoopAlive(p)'
                           /\ life[p] = "work" => life'[p] = "work"
    BY <1>1 DEF LoopAlive, HasPointer, RegisterThread
  <1>5. AliveOK'
    <2>1. \A p \in Threads : LoopAlive(p)' => LoopAlive(p)
      BY <1>1 DEF LoopAlive, HasPointer, RegisterThread
    <2> QED
      BY <1>4, <2>1 DEF PostInv, AliveOK, loops
  <1>6. StopOK'
    <2>1. /\ life'[Main] \in {"init", "registering", "starting", "work"} =>
               life[Main] \in {"init", "registering", "starting", "work"}
          /\ \A w \in Workers : life[w] \in Early => life'[w] \in Early
      BY <1>1 DEF RegisterThread, Early
    <2> QED
      BY <2>1 DEF PostInv, StopOK, loops
  <1>7. ASSUME NEW q \in Threads, Known(q) PROVE Known(q)'
    BY <1>1, <1>7 DEF Known, RegisterThread
  <1>8. ReachOK'
    BY <1>7, ReachKept DEF ReachOK, loops
  <1> QED
    BY <1>2, <1>3, <1>5, <1>6, <1>8 DEF OtherOK

LEMMA PostUnregisterStep ==
  ASSUME PostInv, NEW t \in Threads, UnregisterThread(t),
         UNCHANGED <<joining, loops, running, call, past>>
  PROVE  OtherOK'
  <1> USE MainIsThread
  <1>1. life \in [Threads -> Lives]
    BY DEF PostInv, RegistryInv, RegistryTypeOK
  <1>2. /\ life[t] \in {"cleanup", "unregistering"}
        /\ life' = [life EXCEPT ![t] = life'[t]] /\ life'[t] \in {"unregistering", "delete"}
        /\ managed \ {t} \subseteq managed'
        /\ changing' \in {changing, t, Nobody}
    BY <1>1 DEF UnregisterThread, registry
  <1>3. CarriedOK'
    BY DEF PostInv, CarriedOK, loops
  <1>4. PlainOK'
    BY <1>2 DEF PostInv, PlainOK, loops, past
  <1>5. AliveOK'
    BY <1>1, <1>2 DEF PostInv, AliveOK, loops, LoopAlive, HasPointer
  <1>6. StopOK'
    BY <1>1, <1>2 DEF PostInv, StopOK, loops, Early
  <1>7. ASSUME NEW q \in Threads, Known(q) PROVE Known(q)'
    BY <1>1, <1>2, <1>7 DEF Known
  <1>8. ReachOK'
    BY <1>7, ReachKept DEF ReachOK, loops
  <1> QED
    BY <1>3, <1>4, <1>5, <1>6, <1>8 DEF OtherOK

\* The start and the end of a thread, with nothing posted.
LEMMA PostLifeStep ==
  ASSUME PostInv, RegistryInv',
         PreMessageLoop \/ \E t \in Threads : LeaveLoop(t)
  PROVE  OtherOK'
  <1> USE MainIsThread
  <1>1. life \in [Threads -> Lives] /\ life' \in [Threads -> Lives]
    BY DEF PostInv, RegistryInv, RegistryTypeOK
  <1>2. UNCHANGED <<registry, joining, loops, running, call, past>>
    BY DEF PreMessageLoop, LeaveLoop
  <1>3. CarriedOK' /\ PlainOK'
    BY <1>2 DEF PostInv, CarriedOK, PlainOK, registry, loops, past
  <1>4. AliveOK'
    <2>1. CASE PreMessageLoop
      BY <1>1, <1>2, <2>1 DEF PreMessageLoop, PostInv, AliveOK, loops, LoopAlive, HasPointer
    <2>2. ASSUME NEW t \in Threads, LeaveLoop(t) PROVE AliveOK'
      BY <1>1, <1>2, <2>2 DEF LeaveLoop, PostInv, AliveOK, loops, LoopAlive, HasPointer
    <2> QED
      BY <2>1, <2>2
  <1>5. StopOK'
    <2>1. CASE PreMessageLoop
      <3>1. \A w \in Workers : life[w] \in Early /\ life'[w] \in Early
        BY <1>1, <2>1 DEF PreMessageLoop, PostInv, StopOK, Early
      <3> QED
        BY <1>2, <2>1, <3>1 DEF PreMessageLoop, PostInv, StopOK, loops
    <2>2. ASSUME NEW t \in Threads, LeaveLoop(t) PROVE StopOK'
      <3>1. life[t] = "work" /\ t \in quit /\ life' = [life EXCEPT ![t] = "cleanup"]
        BY <2>2 DEF LeaveLoop
      <3>2. CASE t = Main
        BY <1>1, <3>1, <3>2 DEF StopOK
      <3>3. CASE t # Main
        BY <1>1, <1>2, <3>1, <3>3 DEF PostInv, StopOK, loops, Threads
      <3> QED
        BY <3>2, <3>3
    <2> QED
      BY <2>1, <2>2
  <1>6. ASSUME NEW q \in Threads, Known(q) PROVE Known(q)'
    <2>1. life'[q] \notin {"none", "init", "registering"}
      BY <1>1, <1>6 DEF Known, PreMessageLoop, LeaveLoop
    <2>2. life'[q] = "work" => q \in managed'
      <3>1. life'[q] = "work" => life[q] = "work" \/ (q = Main /\ life[q] = "starting")
        BY <1>1, <1>6 DEF Known, PreMessageLoop, LeaveLoop
      <3>2. life[Main] = "starting" => Main \in managed
        BY DEF PostInv, RegistryInv, HostInv, Registered, Hosting
      <3> QED
        BY <1>2, <1>6, <3>1, <3>2 DEF Known, registry
    <2> QED
      BY <2>1, <2>2 DEF Known
  <1>7. ReachOK'
    BY <1>2, <1>6, ReachKept DEF ReachOK, loops
  <1> QED
    BY <1>3, <1>4, <1>5, <1>7 DEF OtherOK

LEMMA PostStopStep ==
  ASSUME PostInv, PostMessageLoop PROVE OtherOK'
  <1> USE MainIsThread
  <1>1. life \in [Threads -> Lives] /\ life[Main] = "cleanup" /\ queue \in [Threads -> Seq(Queued)]
    BY DEF PostInv, RegistryInv, RegistryTypeOK, PostMessageLoop, CarriedOK
  <1>2. CASE \E w \in Workers : /\ joining = Nobody /\ life[w] = "work"
                                /\ queue' = [queue EXCEPT ![w] = Append(@, StopTask)]
                                /\ joining' = w /\ UNCHANGED life
    <2>1. PICK w \in Workers : /\ life[w] = "work"
                               /\ queue' = [queue EXCEPT ![w] = Append(@, StopTask)]
                               /\ joining' = w
      BY <1>2
    <2>2. UNCHANGED <<life, registry, delayed, quit, running, call, past>>
      BY <1>2 DEF PostMessageLoop
    <2>3. CarriedOK'
      <3>1. Append(queue[w], StopTask) \in Seq(Queued)
        BY <1>1, AppendProperties DEF Queued
      <3> QED
        BY <1>1, <2>1, <2>2, <3>1 DEF PostInv, CarriedOK
    <2>4. PlainOK'
      BY <2>1, <2>2 DEF PostInv, PlainOK, registry, past
    <2>5. AliveOK'
      BY <1>1, <2>1, <2>2 DEF PostInv, AliveOK, LoopAlive, HasPointer
    <2>6. StopOK'
      BY <1>1, <2>2 DEF StopOK
    <2>7. ReachOK'
      BY <2>1, <2>2, ReachKept DEF ReachOK, Known, registry
    <2> QED
      BY <2>3, <2>4, <2>5, <2>6, <2>7 DEF OtherOK
  <1>3. CASE \E w \in Workers : /\ joining = w /\ life[w] = "done"
                                /\ life' = [life EXCEPT ![w] = "gone"]
                                /\ joining' = Nobody /\ UNCHANGED queue
    <2>1. PICK w \in Workers : /\ life[w] = "done"
                               /\ life' = [life EXCEPT ![w] = "gone"]
                               /\ joining' = Nobody /\ UNCHANGED queue
      BY <1>3
    <2>2. UNCHANGED <<registry, delayed, quit, running, call, past>>
      BY DEF PostMessageLoop
    <2>3. CarriedOK' /\ PlainOK'
      BY <2>1, <2>2 DEF PostInv, CarriedOK, PlainOK, registry, past
    <2>4. AliveOK'
      BY <1>1, <2>1, <2>2 DEF PostInv, AliveOK, LoopAlive, HasPointer
    <2>5. StopOK'
      BY <1>1, <2>1 DEF StopOK
    <2>6. ASSUME NEW q \in Threads, Known(q) PROVE Known(q)'
      BY <1>1, <2>1, <2>2, <2>6 DEF Known, registry
    <2>7. ReachOK'
      BY <2>2, <2>6, ReachKept DEF ReachOK
    <2> QED
      BY <2>3, <2>4, <2>5, <2>7 DEF OtherOK
  <1> QED
    BY <1>2, <1>3 DEF PostMessageLoop

LEMMA PostDeleteStep ==
  ASSUME PostInv, NEW t \in Threads, DeleteLoop(t) PROVE OtherOK'
  <1> USE MainIsThread
  <1>1. /\ life \in [Threads -> Lives] /\ queue \in [Threads -> Seq(Queued)]
        /\ delayed \in [Threads -> SUBSET Repeated]
    BY DEF PostInv, RegistryInv, RegistryTypeOK, CarriedOK
  <1>2. /\ life[t] \in {"delete", "clear"} /\ life'[t] \in {"clear", "done"}
        /\ life' = [life EXCEPT ![t] = life'[t]]
        /\ UNCHANGED <<registry, joining, quit, running, call, relay, runs, cancelled>>
    BY <1>1 DEF DeleteLoop, loops, past
  <1>3. \A p \in Threads : /\ queue'[p] = IF p = t THEN << >> ELSE queue[p]
                           /\ delayed'[p] = IF p = t THEN {} ELSE delayed[p]
    <2>1. life[t] = "clear" => queue[t] = << >> /\ delayed[t] = {}
      BY DEF PostInv, AliveOK, LoopAlive
    <2> QED
      BY <1>1, <2>1 DEF DeleteLoop, loops
  <1>4. CarriedOK'
    <2>1. queue' \in [Threads -> Seq(Queued)]
      <3>1. queue' = queue \/ queue' = [queue EXCEPT ![t] = << >>]
        BY DEF DeleteLoop, loops
      <3>2. << >> \in Seq(Queued)
        BY EmptySeq
      <3> QED
        BY <1>1, <3>1, <3>2
    <2>2. delayed' \in [Threads -> SUBSET Repeated]
      BY <1>1 DEF DeleteLoop, loops
    <2> QED
      BY <1>2, <2>1, <2>2 DEF PostInv, CarriedOK
  <1>5. PlainOK'
    <2>1. state' \in [Jobs -> States]
      BY DEF DeleteLoop, PostInv, PlainOK, States, past
    <2> QED
      BY <1>2, <2>1 DEF PostInv, PlainOK, registry
  <1>6. AliveOK'
    BY <1>1, <1>2, <1>3 DEF PostInv, AliveOK, LoopAlive, HasPointer
  <1>7. StopOK'
    <2> SUFFICES ASSUME life'[Main] \in {"init", "registering", "starting", "work"},
                        NEW w \in Workers
                 PROVE  /\ life'[w] \in Early /\ w \notin quit'
                        /\ \A n \in 1..Len(queue'[w]) : queue'[w][n] # StopTask
      BY DEF StopOK
    <2>1. t # Main /\ life'[Main] = life[Main]
      BY <1>1, <1>2
    <2>2. /\ life[w] \in Early /\ w \notin quit
          /\ \A n \in 1..Len(queue[w]) : queue[w][n] # StopTask
      BY <2>1 DEF PostInv, StopOK
    <2>3. t # w
      BY <1>2, <2>2 DEF Early
    <2>4. life'[w] = life[w] /\ queue'[w] = queue[w] /\ quit' = quit
      BY <1>1, <1>2, <1>3, <2>3
    <2> QED
      BY <2>2, <2>4
  <1>8. ASSUME NEW q \in Threads, Known(q) PROVE Known(q)'
    BY <1>1, <1>2, <1>8 DEF Known, registry
  <1>9. ReachOK'
    <2>1. ASSUME NEW p \in Threads PROVE DelayedReach(p)'
      BY <1>3, <1>8, ReachKept DEF DelayedReach
    <2> QED
      BY <1>2, <1>8, <2>1, ReachKept DEF ReachOK
  <1> QED
    BY <1>4, <1>5, <1>6, <1>7, <1>9 DEF OtherOK

(***************************************************************************)
(* The steps of threads that work leave the registry and the lives alone   *)
(***************************************************************************)

LEMMA Steady ==
  ASSUME PostInv, UNCHANGED <<life, registry>>
  PROVE  /\ \A q \in Threads : (Known(q)' <=> Known(q)) /\ (LoopAlive(q)' <=> LoopAlive(q))
         /\ life' = life
  BY DEF registry, Known, LoopAlive, HasPointer

KeepsReach(p) ==
  /\ delayed'[p] = delayed[p] => DelayedReach(p)'
  /\ running'[p] = running[p] => RunReach(p)'
  /\ call'[p] = call[p] => CallReach(p)'

LEMMA SteadyReach ==
  ASSUME PostInv, UNCHANGED <<life, registry>>
  PROVE  \A p \in Threads : KeepsReach(p)
  BY Steady, ReachKept DEF KeepsReach

\* The types of what a thread has, and that who is active is in its loop.
LEMMA Held ==
  ASSUME PostInv, NEW p \in Threads
  PROVE  /\ queue[p] \in Seq(Queued) /\ delayed[p] \subseteq Repeated
         /\ running[p] \in Executed \cup {Idle}
         /\ call[p] \in Looking \cup Found \cup {NoCall}
         /\ life[p] = "work" => LoopAlive(p)
         /\ Active(p) => life[p] = "work" /\ call[p] = NoCall
  BY DEF PostInv, CarriedOK, AliveOK, Active, LoopAlive, HasPointer

LEMMA PostQuitStep ==
  ASSUME PostInv, Quit PROVE OtherOK'
  <1> USE MainIsThread, Steady DEF Quit, PostInv
  <1>1. CarriedOK' /\ PlainOK'
    BY DEF CarriedOK, PlainOK, past, registry
  <1>2. AliveOK' /\ ReachOK'
    BY ReachKept DEF AliveOK, ReachOK
  <1>3. StopOK'
    BY DEF StopOK
  <1> QED
    BY <1>1, <1>2, <1>3 DEF OtherOK

LEMMA PostAskStep ==
  ASSUME PostInv, NEW t \in Threads, NEW j \in Jobs, NEW i \in Ids, Ask(t, j, i)
  PROVE  OtherOK'
  <1> DEFINE c == [step |-> "find", job |-> j, id |-> i,
                   times |-> IF j \in Repeats THEN Times[j] ELSE 0]
  <1>1. /\ call' = [call EXCEPT ![t] = c] /\ state' = [state EXCEPT ![j] = "asking"]
        /\ t = Main \/ i = Id[Main]
        /\ UNCHANGED <<life, registry, joining, loops, running, relay, runs, cancelled>>
    BY DEF Ask
  <1>2. c \in Looking /\ c \notin Found /\ c # NoCall /\ c.id = i
    BY ManagerAssumption DEF Looking, Found, NoCall
  <1>3. life[t] = "work"
    BY Held DEF Ask
  <1> HIDE DEF c
  <1> USE Steady DEF PostInv
  <1>4. CarriedOK'
    BY <1>1, <1>2 DEF CarriedOK, loops
  <1>5. PlainOK'
    BY <1>1 DEF PlainOK, loops, registry, States
  <1>6. AliveOK'
    BY <1>1, <1>3, <1>4 DEF AliveOK, loops, CarriedOK
  <1>7. StopOK'
    BY <1>1 DEF StopOK, loops
  <1>8. ReachOK'
    <2>1. ASSUME NEW p \in Threads PROVE CallReach(p)'
      BY <1>1, <1>2, <2>1, ReachKept DEF CallReach, CarriedOK
    <2> QED
      BY <1>1, <2>1, ReachKept DEF ReachOK, loops
  <1> QED
    BY <1>4, <1>5, <1>6, <1>7, <1>8 DEF OtherOK

\* A post that gets on, or is refused.
LEMMA PostCallStep ==
  ASSUME PostInv, NEW t \in Threads, NEW c \in Found \cup {NoCall},
         call[t] \in Looking \cup Found, call' = [call EXCEPT ![t] = c],
         state' = state \/ state' = [state EXCEPT ![call[t].job] = "refused"],
         c \in Found => /\ c.id = Id[c.to] /\ Known(c.to)
                        /\ t = Main \/ c.to \in {t, Main},
         UNCHANGED <<life, registry, joining, loops, running, relay, runs, cancelled>>
  PROVE  OtherOK'
  <1>1. c \notin Looking /\ call[t] # NoCall /\ call[t].job \in Jobs
    BY DEF Looking, Found, NoCall
  <1>2. life[t] = "work"
    BY <1>1 DEF PostInv, AliveOK
  <1>t. c \in Found => c.to \in Threads
    BY DEF Found
  <1> USE Steady DEF PostInv
  <1>3. CarriedOK'
    BY DEF CarriedOK, loops
  <1>4. PlainOK'
    BY <1>1 DEF PlainOK, loops, registry, States
  <1>5. AliveOK'
    BY <1>2 DEF AliveOK, loops, CarriedOK
  <1>6. StopOK'
    BY DEF StopOK, loops
  <1>7. ReachOK'
    <2>1. ASSUME NEW p \in Threads PROVE CallReach(p)'
      BY <1>1, <1>t, <2>1, ReachKept DEF CallReach, CarriedOK
    <2> QED
      BY <2>1, ReachKept DEF ReachOK, loops
  <1> QED
    BY <1>3, <1>4, <1>5, <1>6, <1>7 DEF OtherOK

LEMMA PostFindStep ==
  ASSUME PostInv, NEW t \in Threads, FindThread(t) PROVE OtherOK'
  <1>1. call[t] \in Looking
    BY Held DEF FindThread, Found, NoCall
  <1>2. call[t].id \in Ids /\ call[t].job \in Jobs /\ call[t].times \in Int
    BY <1>1 DEF Looking
  <1>3. CASE /\ threads[call[t].id] # Nobody
             /\ call' = [call EXCEPT ![t] = [step |-> "thread", job |-> @.job, id |-> @.id,
                                             times |-> @.times, to |-> threads[@.id]]]
             /\ UNCHANGED state
    <2> DEFINE i == call[t].id
               q == threads[i]
               c == [step |-> "thread", job |-> call[t].job, id |-> i,
                     times |-> call[t].times, to |-> q]
    <2>1. q \in Threads /\ q \in managed /\ Id[q] = i
      BY <1>2, <1>3 DEF PostInv, RegistryInv, RegistryTypeOK, RegistryExact
    <2>2. Known(q)
      BY <2>1 DEF PostInv, RegistryInv, HostInv, Registered, Hosting, Known
    <2>3. ASSUME t # Main PROVE q \in {t, Main}
      <3>1. CASE i = Id[Main]
        BY <2>1, <3>1, MainIsThread DEF Threads
      <3>2. CASE i = Id[t] /\ Known(t)
        <4>1. life[t] = "work"
          BY <1>1 DEF PostInv, AliveOK, NoCall, Looking
        <4>2. threads[Id[t]] = t
          BY <3>2, <4>1, MainIsThread DEF Known, PostInv, RegistryInv, RegistryExact
        <4> QED
          BY <3>2, <4>2
      <3> QED
        BY <1>1, <2>3, <3>1, <3>2 DEF PostInv, ReachOK, CallReach
    <2>4. c \in Found /\ c.to = q /\ c.id = i
      BY <1>2, <2>1 DEF Found
    <2>5. call' = [call EXCEPT ![t] = c]
      BY <1>3
    <2> HIDE DEF c, q, i
    <2>6. UNCHANGED <<life, registry, joining, loops, running, relay, runs, cancelled>>
      BY DEF FindThread
    <2> QED
      BY <1>1, <1>3, <2>1, <2>2, <2>3, <2>4, <2>5, <2>6, PostCallStep
  <1>4. CASE Refuse(t)
    BY <1>1, <1>4, PostCallStep DEF Refuse, FindThread, NoCall, Found
  <1> QED
    BY <1>3, <1>4 DEF FindThread

LEMMA PostGetStep ==
  ASSUME PostInv, NEW t \in Threads, GetMessageLoop(t) PROVE OtherOK'
  <1>1. call[t] \in Found
    BY Held DEF GetMessageLoop, Looking, NoCall
  <1>2. UNCHANGED <<life, registry, joining, loops, running, relay, runs, cancelled>>
    BY DEF GetMessageLoop
  <1>3. CASE Refuse(t)
    BY <1>1, <1>2, <1>3, PostCallStep DEF Refuse, NoCall, Found
  <1>4. ASSUME NEW s \in {"loop", "proxy"}, call' = [call EXCEPT ![t].step = s],
               UNCHANGED state
        PROVE  OtherOK'
    <2> DEFINE c == [call[t] EXCEPT !.step = s]
    <2>1. c \in Found /\ c.to = call[t].to /\ c.id = call[t].id
      BY <1>1 DEF Found
    <2>2. call' = [call EXCEPT ![t] = c]
      BY <1>4
    <2> HIDE DEF c
    <2> QED
      BY <1>1, <1>2, <1>4, <2>1, <2>2, PostCallStep DEF PostInv, ReachOK, CallReach
  <1> QED
    BY <1>3, <1>4 DEF GetMessageLoop

LEMMA PostProxyStep ==
  ASSUME PostInv, NEW t \in Threads, PostThroughProxy(t) PROVE OtherOK'
  <1>1. call[t] \in Found
    BY Held DEF PostThroughProxy, Looking, NoCall
  <1> DEFINE j == call[t].job
             q == call[t].to
             x == [kind |-> Kind(j), job |-> j, id |-> call[t].id, times |-> call[t].times]
  <1>2. UNCHANGED <<life, registry, joining, quit, running, runs, cancelled>>
    BY DEF PostThroughProxy
  <1>3. CASE Refuse(t) /\ UNCHANGED <<relay, queue, delayed>>
    BY <1>1, <1>2, <1>3, PostCallStep DEF Refuse, NoCall, Found, loops
  <1>4. ASSUME LoopAlive(q), call' = [call EXCEPT ![t] = NoCall],
               state' = [state EXCEPT ![j] = "asked"],
               relay' = [r \in Awaits |->
                           IF r = j THEN [origin |-> t, task |-> TRUE] ELSE relay[r]],
               IF j \in Repeats
                 THEN delayed' = [delayed EXCEPT ![q] = @ \cup {x}] /\ UNCHANGED queue
                 ELSE queue' = [queue EXCEPT ![q] = Append(@, x)] /\ UNCHANGED delayed
        PROVE  OtherOK'
    <2>1. j \in Jobs /\ q \in Threads /\ call[t].id \in Ids /\ call[t].times \in Int
      BY <1>1 DEF Found
    <2>2. IF j \in Repeats THEN x \in Repeated ELSE x \in Single \cup Relayed
      BY <2>1, ManagerAssumption DEF Kind, Repeated, Single, Relayed, Tags, Jobs
    <2>3. x # StopTask /\ x.id = Id[q] /\ Known(q)
      BY <1>1 DEF StopTask, PostInv, ReachOK, CallReach
    <2> HIDE DEF j, q, x
    <2>4. queue[q] \in Seq(Queued) /\ delayed[q] \subseteq Repeated
      BY <2>1, Held
    <2>5. \A p \in Threads :
             /\ queue'[p] = queue[p] \/ (p = q /\ x \in Queued /\ queue'[p] = Append(queue[q], x))
             /\ delayed'[p] = delayed[p]
                  \/ (p = q /\ x \in Repeated /\ delayed'[p] = delayed[q] \cup {x})
      BY <1>4, <2>1, <2>2 DEF PostInv, CarriedOK, Queued
    <2>k. \A p \in Threads : KeepsReach(p)
      BY <1>2, SteadyReach
    <2>d. \A p \in Threads : DelayedReach(p)
      BY DEF PostInv, ReachOK
    <2> USE Steady DEF PostInv
    <2>6. CarriedOK'
      <3>1. /\ \E s \in Seq(Queued) : queue' = [queue EXCEPT ![q] = s]
            /\ \E s \in SUBSET Repeated : delayed' = [delayed EXCEPT ![q] = s]
        <4>1. CASE j \in Repeats
          BY <1>4, <2>2, <2>4, <4>1 DEF CarriedOK
        <4>2. CASE j \notin Repeats
          <5>1. Append(queue[q], x) \in Seq(Queued)
            BY <2>2, <2>4, <4>2, AppendProperties DEF Queued
          <5>2. delayed' = [delayed EXCEPT ![q] = delayed[q]]
            BY <1>4, <4>2 DEF CarriedOK
          <5> QED
            BY <1>4, <2>4, <4>2, <5>1, <5>2
        <4> QED
          BY <4>1, <4>2
      <3> QED
        BY <1>2, <1>4, <3>1 DEF CarriedOK
    <2>7. PlainOK'
      BY <1>2, <1>4, <2>1 DEF PlainOK, registry, States
    <2>8. AliveOK'
      BY <1>2, <1>4, <2>5 DEF AliveOK, CarriedOK
    <2>9. StopOK'
      <3> SUFFICES ASSUME life[Main] \in {"init", "registering", "starting", "work"},
                          NEW w \in Workers
                   PROVE  /\ life[w] \in Early /\ w \notin quit
                          /\ \A n \in 1..Len(queue'[w]) : queue'[w][n] # StopTask
        BY <1>2 DEF StopOK
      <3>1. /\ life[w] \in Early /\ w \notin quit
            /\ \A n \in 1..Len(queue[w]) : queue[w][n] # StopTask
        BY DEF StopOK
      <3>2. w \in Threads /\ queue[w] \in Seq(Queued)
        BY Held, MainIsThread
      <3>3. CASE queue'[w] = Append(queue[w], x)
        BY <2>2, <2>3, <2>5, <3>1, <3>2, <3>3, AppendProperties DEF Queued
      <3> QED
        BY <2>5, <3>1, <3>2, <3>3
    <2>10. ReachOK'
      <3>1. ASSUME NEW p \in Threads PROVE DelayedReach(p)'
        <4>1. CASE delayed'[p] = delayed[p]
          BY <2>k, <3>1, <4>1 DEF KeepsReach
        <4>2. CASE p = q /\ delayed'[p] = delayed[q] \cup {x}
          BY <1>2, <2>3, <2>d, <3>1, <4>2 DEF DelayedReach
        <4> QED
          BY <2>5, <3>1, <4>1, <4>2
      <3>2. ASSUME NEW p \in Threads PROVE CallReach(p)'
        <4>1. NoCall \notin Looking \cup Found
          BY DEF NoCall, Looking, Found
        <4> QED
          BY <1>4, <3>2, <4>1, <2>k DEF KeepsReach, CallReach, CarriedOK
      <3> QED
        BY <1>2, <3>1, <3>2, <2>k DEF KeepsReach, ReachOK
    <2> QED
      BY <2>6, <2>7, <2>8, <2>9, <2>10 DEF OtherOK
  <1> QED
    BY <1>3, <1>4 DEF PostThroughProxy

\* What is left of a queue is still free of StopTask where it was.
LEMMA Rest ==
  ASSUME NEW S, NEW s \in Seq(S), s # << >>
  PROVE  /\ Head(s) \in S /\ Tail(s) \in Seq(S) /\ Head(s) = s[1] /\ 1 \in 1..Len(s)
         /\ \A n \in 1..Len(Tail(s)) : n + 1 \in 1..Len(s) /\ Tail(s)[n] = s[n + 1]
  BY HeadTailProperties

LEMMA PostRunStep ==
  ASSUME PostInv, NEW t \in Threads, RunNext(t) PROVE OtherOK'
  <1> DEFINE x == Head(queue[t])
  <1>1. /\ life[t] = "work" /\ queue[t] # << >> /\ queue' = [queue EXCEPT ![t] = Tail(@)]
        /\ UNCHANGED <<life, registry, joining, delayed, call, state, runs, cancelled>>
    BY DEF RunNext
  <1>2. \/ x = StopTask /\ quit' = quit \cup {t} /\ UNCHANGED <<running, relay>>
        \/ /\ x # StopTask /\ quit' = quit
           /\ running' = [running EXCEPT ![t] = [kind |-> x.kind, job |-> x.job]]
           /\ relay' = [r \in Awaits |-> IF x.kind = "reply" /\ r = x.job
                          THEN [relay[r] EXCEPT !.task = FALSE] ELSE relay[r]]
    BY DEF RunNext
  <1>3. /\ x \in Queued /\ Tail(queue[t]) \in Seq(Queued) /\ x = queue[t][1]
        /\ 1 \in 1..Len(queue[t])
        /\ \A n \in 1..Len(Tail(queue[t])) :
              n + 1 \in 1..Len(queue[t]) /\ Tail(queue[t])[n] = queue[t][n + 1]
    BY <1>1, Held, Rest
  <1> HIDE DEF x
  <1>4. x # StopTask => /\ [kind |-> x.kind, job |-> x.job] \in Executed
                        /\ x.kind # "repeat" /\ x.kind # "none"
    BY <1>3 DEF Queued, Single, Relayed, Executed
  <1>k. \A p \in Threads : KeepsReach(p)
    BY <1>1, SteadyReach
  <1> USE Steady DEF PostInv
  <1>5. CarriedOK'
    <2>1. queue' \in [Threads -> Seq(Queued)]
      BY <1>1, <1>3 DEF CarriedOK
    <2>2. running' \in [Threads -> Executed \cup {Idle}]
      BY <1>2, <1>4 DEF CarriedOK
    <2> QED
      BY <1>1, <2>1, <2>2 DEF CarriedOK
  <1>6. PlainOK'
    <2>1. relay' \in [Awaits -> [origin : Threads \cup {Nobody}, task : BOOLEAN]]
      <3>1. \A r \in Awaits :
              [relay[r] EXCEPT !.task = FALSE] \in [origin : Threads \cup {Nobody}, task : BOOLEAN]
        BY DEF PlainOK
      <3> QED
        BY <1>2, <3>1 DEF PlainOK
    <2>2. quit' \subseteq Threads
      BY <1>2 DEF PlainOK
    <2> QED
      BY <1>1, <2>1, <2>2 DEF PlainOK, registry
  <1>7. AliveOK'
    BY <1>1, <1>2, Held DEF AliveOK, CarriedOK
  <1>8. StopOK'
    <2> SUFFICES ASSUME life[Main] \in {"init", "registering", "starting", "work"},
                        NEW w \in Workers
                 PROVE  /\ life[w] \in Early /\ w \notin quit'
                        /\ \A n \in 1..Len(queue'[w]) : queue'[w][n] # StopTask
      BY <1>1 DEF StopOK
    <2>1. /\ life[w] \in Early /\ w \notin quit
          /\ \A n \in 1..Len(queue[w]) : queue[w][n] # StopTask
      BY DEF StopOK
    <2>2. w = t => x # StopTask
      BY <1>3, <2>1
    <2>3. queue'[w] = IF w = t THEN Tail(queue[t]) ELSE queue[w]
      BY <1>1, MainIsThread DEF CarriedOK
    <2> QED
      BY <1>2, <1>3, <2>1, <2>2, <2>3
  <1>9. ReachOK'
    <2>1. ASSUME NEW p \in Threads PROVE RunReach(p)'
      <3>1. CASE running'[p] = running[p]
        BY <2>1, <3>1, <1>k DEF KeepsReach
      <3>2. CASE running'[p] # running[p]
        BY <1>2, <1>4, <2>1, <3>2 DEF RunReach, CarriedOK
      <3> QED
        BY <3>1, <3>2
    <2> QED
      BY <1>1, <2>1, <1>k DEF KeepsReach, ReachOK
  <1> QED
    BY <1>5, <1>6, <1>7, <1>8, <1>9 DEF OtherOK

LEMMA PostRepeatStep ==
  ASSUME PostInv, NEW t \in Threads, RunRepeatedly(t) PROVE OtherOK'
  <1>1. PICK x \in delayed[t] :
          /\ delayed' = [delayed EXCEPT ![t] = @ \ {x}]
          /\ \/ state' = [state EXCEPT ![x.job] = "ended"] /\ UNCHANGED <<running, runs>>
             \/ /\ running' = [running EXCEPT ![t] = [kind |-> "repeat", job |-> x.job,
                                 id |-> x.id, times |-> x.times]]
                /\ runs' = [runs EXCEPT ![x.job] = Count(x.job, @)]
                /\ UNCHANGED state
    BY DEF RunRepeatedly
  <1>2. /\ life[t] = "work"
        /\ UNCHANGED <<life, registry, joining, queue, quit, call, relay, cancelled>>
    BY DEF RunRepeatedly
  <1> DEFINE r == [kind |-> "repeat", job |-> x.job, id |-> x.id, times |-> x.times]
  <1>3. x \in Repeated /\ r \in Executed /\ r.id = x.id /\ x.job \in Repeats
    BY Held DEF Repeated, Executed
  <1>4. \/ UNCHANGED running \/ running' = [running EXCEPT ![t] = r]
    BY <1>1
  <1> HIDE DEF r
  <1>5. x.id # Nobody => x.id = Id[t] /\ Known(t)
    BY <1>1 DEF PostInv, ReachOK, DelayedReach
  <1>d. \A p \in Threads : DelayedReach(p)
    BY DEF PostInv, ReachOK
  <1>k. \A p \in Threads : KeepsReach(p)
    BY <1>2, SteadyReach
  <1> USE Steady DEF PostInv
  <1>6. CarriedOK'
    BY <1>1, <1>2, <1>3, <1>4 DEF CarriedOK
  <1>7. PlainOK'
    <2>1. runs' \in [Repeats -> Nat]
      BY <1>1, <1>3 DEF PlainOK, Count
    <2>2. state' \in [Jobs -> States]
      BY <1>1 DEF PlainOK, States
    <2> QED
      BY <1>2, <2>1, <2>2 DEF PlainOK, registry
  <1>8. AliveOK'
    BY <1>1, <1>2, <1>4, Held DEF AliveOK, CarriedOK
  <1>9. StopOK'
    BY <1>2 DEF StopOK
  <1>10. ReachOK'
    <2>1. ASSUME NEW p \in Threads PROVE DelayedReach(p)'
      <3>1. delayed'[p] \subseteq delayed[p]
        BY <1>1 DEF CarriedOK
      <3> QED
        BY <1>2, <1>d, <2>1, <3>1 DEF DelayedReach
    <2>2. ASSUME NEW p \in Threads PROVE RunReach(p)'
      <3>1. CASE running'[p] = running[p]
        BY <2>2, <3>1, <1>k DEF KeepsReach
      <3>2. CASE p = t /\ running'[p] = r
        BY <1>2, <1>3, <1>5, <2>2, <3>2 DEF RunReach
      <3> QED
        BY <1>4, <3>1, <3>2 DEF CarriedOK
    <2> QED
      BY <1>2, <2>1, <2>2, <1>k DEF KeepsReach, ReachOK
  <1> QED
    BY <1>6, <1>7, <1>8, <1>9, <1>10 DEF OtherOK

\* A task that is appended to the queue of a living loop.
LEMMA Grow ==
  ASSUME PostInv, NEW o, NEW x \in Single \cup Relayed, o \in Threads => LoopAlive(o),
         queue' = [queue EXCEPT ![o] = Append(@, x)]
  PROVE  /\ queue' \in [Threads -> Seq(Queued)]
         /\ \A p \in Threads : ~LoopAlive(p) => queue'[p] = queue[p]
         /\ \A p \in Threads :
              (\A n \in 1..Len(queue[p]) : queue[p][n] # StopTask)
                => \A n \in 1..Len(queue'[p]) : queue'[p][n] # StopTask
  <1>1. queue \in [Threads -> Seq(Queued)]
    BY DEF PostInv, CarriedOK
  <1>2. x \in Queued /\ x # StopTask
    BY DEF Queued, Single, Relayed, StopTask
  <1>3. \A p \in Threads : queue'[p] = IF p = o THEN Append(queue[p], x) ELSE queue[p]
    BY <1>1
  <1>4. \A p \in Threads : Append(queue[p], x) \in Seq(Queued)
    BY <1>1, <1>2, AppendProperties
  <1>5. ASSUME NEW p \in Threads, \A n \in 1..Len(queue[p]) : queue[p][n] # StopTask,
               NEW n \in 1..Len(queue'[p])
        PROVE  queue'[p][n] # StopTask
    <2>1. CASE p = o
      <3>1. queue[p] \in Seq(Queued) /\ queue'[p] = Append(queue[p], x)
        BY <1>1, <1>3, <2>1
      <3> QED
        BY <1>2, <1>5, <3>1, AppendProperties
    <2> QED
      BY <1>3, <1>5, <2>1
  <1> QED
    BY <1>1, <1>3, <1>4, <1>5

LEMMA PostAskHereStep ==
  ASSUME PostInv, NEW t \in Threads, NEW j \in Jobs, AskHere(t, j) PROVE OtherOK'
  <1> DEFINE x == [kind |-> Kind(j), job |-> j, id |-> Nobody,
                   times |-> IF j \in Repeats THEN Times[j] ELSE 0]
  <1>1. /\ j \notin Awaits /\ state' = [state EXCEPT ![j] = "asked"]
        /\ UNCHANGED <<life, registry, joining, quit, running, call, relay, runs, cancelled>>
        /\ IF j \in Repeats
             THEN delayed' = [delayed EXCEPT ![t] = @ \cup {x}] /\ UNCHANGED queue
             ELSE queue' = [queue EXCEPT ![t] = Append(@, x)] /\ UNCHANGED delayed
    BY DEF AskHere
  <1>2. LoopAlive(t)
    BY Held DEF AskHere
  <1>3. (IF j \in Repeats THEN x \in Repeated ELSE x \in Single) /\ x.id = Nobody
    BY <1>1, ManagerAssumption DEF Kind, Repeated, Single, Tags, Jobs
  <1> HIDE DEF x
  <1>4. /\ queue' \in [Threads -> Seq(Queued)]
        /\ \A p \in Threads : ~LoopAlive(p) => queue'[p] = queue[p]
        /\ \A p \in Threads :
              (\A n \in 1..Len(queue[p]) : queue[p][n] # StopTask)
                => \A n \in 1..Len(queue'[p]) : queue'[p][n] # StopTask
    <2>1. CASE j \in Repeats
      BY <1>1, <2>1 DEF PostInv, CarriedOK
    <2>2. CASE j \notin Repeats
      BY <1>1, <1>2, <1>3, <2>2, Grow
    <2> QED
      BY <2>1, <2>2
  <1>5. /\ delayed' \in [Threads -> SUBSET Repeated]
        /\ \A p \in Threads : \/ delayed'[p] = delayed[p]
                              \/ p = t /\ delayed'[p] = delayed[t] \cup {x}
    <2>1. delayed \in [Threads -> SUBSET Repeated]
      BY DEF PostInv, CarriedOK
    <2>2. CASE j \in Repeats
      BY <1>1, <1>3, <2>1, <2>2
    <2>3. CASE j \notin Repeats
      BY <1>1, <2>1, <2>3
    <2> QED
      BY <2>2, <2>3
  <1>k. /\ \A p \in Threads : KeepsReach(p) /\ DelayedReach(p)
        /\ \A p \in Threads : Known(p) => Known(p)'
    BY <1>1, SteadyReach, Steady DEF PostInv, ReachOK
  <1>s. \A p \in Threads : LoopAlive(p)' <=> LoopAlive(p)
    BY <1>1, Steady
  <1> USE DEF PostInv
  <1>6. CarriedOK'
    BY <1>1, <1>4, <1>5 DEF CarriedOK
  <1>7. PlainOK'
    BY <1>1 DEF PlainOK, registry, States
  <1>8. AliveOK'
    BY <1>1, <1>2, <1>4, <1>5, <1>s DEF AliveOK
  <1>9. StopOK'
    BY <1>1, <1>4, MainIsThread DEF StopOK
  <1>10. ReachOK'
    <2>1. ASSUME NEW p \in Threads PROVE DelayedReach(p)'
      <3>1. CASE delayed'[p] = delayed[p]
        BY <1>k, <2>1, <3>1 DEF KeepsReach
      <3>2. CASE p = t /\ delayed'[p] = delayed[t] \cup {x}
        BY <1>3, <1>k, <2>1, <3>2 DEF DelayedReach
      <3> QED
        BY <1>5, <2>1, <3>1, <3>2
    <2> QED
      BY <1>1, <1>k, <2>1 DEF KeepsReach, ReachOK
  <1> QED
    BY <1>6, <1>7, <1>8, <1>9, <1>10 DEF OtherOK

LEMMA PostCancelStep ==
  ASSUME PostInv, NEW t \in Threads, NEW j \in Repeats, Cancel(t, j) PROVE OtherOK'
  <1>1. /\ cancelled' = cancelled \cup {j}
        /\ UNCHANGED <<life, registry, joining, loops, running, call, relay, state, runs>>
    BY DEF Cancel
  <1>2. /\ \A p \in Threads : KeepsReach(p)
        /\ \A p \in Threads : LoopAlive(p)' <=> LoopAlive(p)
    BY <1>1, SteadyReach, Steady
  <1>3. CarriedOK' /\ PlainOK'
    BY <1>1 DEF PostInv, CarriedOK, PlainOK, loops, registry
  <1>4. AliveOK' /\ StopOK'
    BY <1>1, <1>2 DEF PostInv, AliveOK, StopOK, loops
  <1>5. ReachOK'
    BY <1>1, <1>2 DEF KeepsReach, ReachOK, loops
  <1> QED
    BY <1>3, <1>4, <1>5 DEF OtherOK

\* The end of a task that is not a repeated one.
LEMMA PostFinishStep ==
  ASSUME PostInv, NEW t \in Threads, FinishPlain(t) \/ FinishRun(t) \/ FinishReply(t)
  PROVE  OtherOK'
  <1> DEFINE j == running[t].job
  <1>1. /\ running' = [running EXCEPT ![t] = Idle]
        /\ \E how \in States : state' = [state EXCEPT ![j] = how]
        /\ UNCHANGED <<life, registry, joining, delayed, quit, call, runs, cancelled>>
    BY DEF FinishPlain, FinishRun, FinishReply, Ends, States, loops
  <1>2. /\ \A p \in Threads : KeepsReach(p)
        /\ \A p \in Threads : LoopAlive(p)' <=> LoopAlive(p)
    BY <1>1, SteadyReach, Steady
  <1>3. /\ queue' \in [Threads -> Seq(Queued)]
        /\ \A p \in Threads : ~LoopAlive(p) => queue'[p] = queue[p]
        /\ \A p \in Threads :
              (\A n \in 1..Len(queue[p]) : queue[p][n] # StopTask)
                => \A n \in 1..Len(queue'[p]) : queue'[p][n] # StopTask
    <2>1. CASE UNCHANGED queue
      BY <2>1 DEF PostInv, CarriedOK
    <2>2. CASE FinishRun(t) /\ LoopAlive(relay[j].origin)
      <3> DEFINE x == [kind |-> "reply", job |-> j, id |-> Nobody, times |-> 0]
                 o == relay[j].origin
      <3>1. j \in Awaits
        BY <2>2, Held DEF FinishRun, Executed, Repeated
      <3>2. x \in Relayed
        BY <3>1 DEF Relayed, Tags
      <3>3. queue' = [queue EXCEPT ![o] = Append(@, x)]
        BY <2>2 DEF FinishRun
      <3> HIDE DEF x
      <3> QED
        BY <2>2, <3>2, <3>3, Grow
    <2> QED
      BY <2>1, <2>2 DEF FinishPlain, FinishRun, FinishReply, loops
  <1>4. relay' \in [Awaits -> [origin : Threads \cup {Nobody}, task : BOOLEAN]]
    <2>1. relay' = relay \/ relay' = [relay EXCEPT ![j] = [origin |-> Nobody, task |-> FALSE]]
      BY DEF FinishPlain, FinishRun, FinishReply
    <2>2. [origin |-> Nobody, task |-> FALSE] \in [origin : Threads \cup {Nobody}, task : BOOLEAN]
      OBVIOUS
    <2>3. relay \in [Awaits -> [origin : Threads \cup {Nobody}, task : BOOLEAN]]
      BY DEF PostInv, PlainOK
    <2> QED
      BY <2>1, <2>2, <2>3
  <1> HIDE DEF j
  <1> USE DEF PostInv
  <1>5. CarriedOK'
    BY <1>1, <1>3 DEF CarriedOK
  <1>6. PlainOK'
    BY <1>1, <1>4 DEF PlainOK, registry
  <1>7. AliveOK'
    BY <1>1, <1>2, <1>3 DEF AliveOK, CarriedOK
  <1>8. StopOK'
    BY <1>1, <1>3, MainIsThread DEF StopOK
  <1>9. ReachOK'
    <2>1. ASSUME NEW p \in Threads PROVE RunReach(p)'
      BY <1>1, <1>2, <2>1 DEF KeepsReach, RunReach, CarriedOK
    <2> QED
      BY <1>1, <1>2, <2>1 DEF KeepsReach, ReachOK
  <1> QED
    BY <1>5, <1>6, <1>7, <1>8, <1>9 DEF OtherOK

LEMMA PostFinishRepeatStep ==
  ASSUME PostInv, NEW t \in Threads, FinishRepeat(t) PROVE OtherOK'
  <1> DEFINE r == running[t]
             n == Left(r.times)
             x == [kind |-> "repeat", job |-> r.job, id |-> Nobody, times |-> n]
             c == [step |-> "find", job |-> r.job, id |-> r.id, times |-> n]
  <1>1. /\ running' = [running EXCEPT ![t] = Idle]
        /\ \E how \in States : state' = [state EXCEPT ![r.job] = how]
        /\ UNCHANGED <<life, registry, joining, queue, quit, relay, runs, cancelled>>
    BY DEF FinishRepeat, Ends, States
  <1>2. \/ UNCHANGED <<delayed, call>>
        \/ delayed' = [delayed EXCEPT ![t] = @ \cup {x}] /\ UNCHANGED call
        \/ r.id # Nobody /\ call' = [call EXCEPT ![t] = c] /\ UNCHANGED delayed
    BY DEF FinishRepeat
  <1>3. r \in Repeated /\ r # Idle /\ r.kind = "repeat"
    BY Held DEF FinishRepeat, Executed
  <1>4. x \in Repeated /\ x.id = Nobody /\ n \in Int /\ r.job \in Repeats /\ r.id \in Tags
    BY <1>3 DEF Repeated, Left, Forever, Tags
  <1>5. r.id # Nobody => /\ c \in Looking /\ c \notin Found /\ c # NoCall
                         /\ c.id = Id[t] /\ Known(t)
    <2>1. r.id # Nobody => r.id = Id[t] /\ Known(t)
      BY <1>3 DEF PostInv, ReachOK, RunReach
    <2> HIDE DEF n
    <2>2. r.id # Nobody => c \in Looking
      BY <1>4 DEF Looking, Tags, Jobs
    <2> QED
      BY <2>1, <2>2 DEF Looking, Found, NoCall
  <1>6. LoopAlive(t) /\ life[t] = "work"
    BY Held DEF FinishRepeat
  <1>k. /\ \A p \in Threads : KeepsReach(p) /\ DelayedReach(p)
        /\ \A p \in Threads : Known(p) => Known(p)'
        /\ \A p \in Threads : LoopAlive(p)' <=> LoopAlive(p)
    BY <1>1, SteadyReach, Steady DEF PostInv, ReachOK
  <1> HIDE DEF r, n, x, c
  <1>7. /\ delayed' \in [Threads -> SUBSET Repeated]
        /\ \A p \in Threads : \/ delayed'[p] = delayed[p]
                              \/ p = t /\ delayed'[p] = delayed[t] \cup {x}
    <2>1. delayed \in [Threads -> SUBSET Repeated]
      BY DEF PostInv, CarriedOK
    <2>2. CASE delayed' = delayed
      BY <2>1, <2>2
    <2>3. CASE delayed' = [delayed EXCEPT ![t] = @ \cup {x}]
      BY <1>4, <2>1, <2>3
    <2> QED
      BY <1>2, <2>2, <2>3
  <1>8. /\ call' \in [Threads -> Looking \cup Found \cup {NoCall}]
        /\ \A p \in Threads : \/ call'[p] = call[p]
                              \/ p = t /\ call'[p] = c /\ r.id # Nobody
    <2>1. call \in [Threads -> Looking \cup Found \cup {NoCall}]
      BY DEF PostInv, CarriedOK
    <2> QED
      BY <1>2, <1>5, <2>1
  <1> USE DEF PostInv
  <1>9. CarriedOK'
    BY <1>1, <1>7, <1>8 DEF CarriedOK
  <1>10. PlainOK'
    BY <1>1 DEF PlainOK, registry
  <1>11. AliveOK'
    BY <1>1, <1>6, <1>7, <1>8, <1>k DEF AliveOK, CarriedOK
  <1>12. StopOK'
    BY <1>1 DEF StopOK
  <1>13. ReachOK'
    <2>1. ASSUME NEW p \in Threads PROVE DelayedReach(p)'
      <3>1. CASE delayed'[p] = delayed[p]
        BY <1>k, <2>1, <3>1 DEF KeepsReach
      <3>2. CASE p = t /\ delayed'[p] = delayed[t] \cup {x}
        BY <1>4, <1>k, <2>1, <3>2 DEF DelayedReach
      <3> QED
        BY <1>7, <2>1, <3>1, <3>2
    <2>2. ASSUME NEW p \in Threads PROVE RunReach(p)'
      BY <1>1, <1>k, <2>2 DEF KeepsReach, RunReach, CarriedOK
    <2>3. ASSUME NEW p \in Threads PROVE CallReach(p)'
      <3>1. CASE call'[p] = call[p]
        BY <1>k, <2>3, <3>1 DEF KeepsReach
      <3>2. CASE p = t /\ call'[p] = c /\ r.id # Nobody
        BY <1>5, <1>k, <2>3, <3>2 DEF CallReach
      <3> QED
        BY <1>8, <2>3, <3>1, <3>2
    <2> QED
      BY <2>1, <2>2, <2>3 DEF ReachOK
  <1> QED
    BY <1>9, <1>10, <1>11, <1>12, <1>13 DEF OtherOK

LEMMA PostStep == PostInv /\ [Next]_vars => PostInv'
  <1> SUFFICES ASSUME PostInv, [Next]_vars PROVE PostInv'
    OBVIOUS
  <1>1. RegistryInv'
    BY RegistryStep DEF PostInv
  <1> SUFFICES OtherOK'
    BY <1>1 DEF PostInv, OtherOK
  <1>2. CASE PreMessageLoop \/ \E t \in Threads : LeaveLoop(t)
    BY <1>1, <1>2, PostLifeStep
  <1>3. CASE PostMessageLoop
    BY <1>3, PostStopStep
  <1>4. ASSUME NEW t \in Threads, Registers(t) PROVE OtherOK'
    BY <1>4, PostRegisterStep, PostUnregisterStep DEF Registers
  <1>5. ASSUME NEW t \in Threads, DeleteLoop(t) PROVE OtherOK'
    BY <1>5, PostDeleteStep
  <1>6. ASSUME NEW t \in Threads, Posts(t) PROVE OtherOK'
    BY <1>6, PostFindStep, PostGetStep, PostProxyStep DEF Posts
  <1>7. ASSUME NEW t \in Threads, RunNext(t) \/ RunRepeatedly(t) PROVE OtherOK'
    BY <1>7, PostRunStep, PostRepeatStep
  <1>8. ASSUME NEW t \in Threads, Finish(t) PROVE OtherOK'
    BY <1>8, PostFinishStep, PostFinishRepeatStep DEF Finish
  <1>9. CASE Choice
    <2>1. \A t \in Threads, j \in Repeats : Cancel(t, j) => OtherOK'
      BY PostCancelStep
    <2>2. \A t \in Threads, j \in Jobs, i \in Ids : Ask(t, j, i) => OtherOK'
      BY PostAskStep
    <2>3. \A t \in Threads, j \in Jobs : AskHere(t, j) => OtherOK'
      BY PostAskHereStep
    <2>4. Quit => OtherOK'
      BY PostQuitStep
    <2> QED
      BY <1>9, <2>1, <2>2, <2>3, <2>4 DEF Choice
  <1>10. CASE UNCHANGED vars
    <2>1. UNCHANGED <<life, registry, joining, loops, running, call, past>>
      BY <1>10 DEF vars
    <2>2. /\ \A p \in Threads : KeepsReach(p)
          /\ \A p \in Threads : LoopAlive(p)' <=> LoopAlive(p)
      BY <2>1, SteadyReach, Steady
    <2>3. CarriedOK' /\ PlainOK' /\ StopOK'
      BY <2>1 DEF PostInv, CarriedOK, PlainOK, StopOK, loops, past, registry
    <2>4. AliveOK' /\ ReachOK'
      BY <2>1, <2>2 DEF PostInv, AliveOK, ReachOK, KeepsReach, loops
    <2> QED
      BY <2>3, <2>4 DEF OtherOK
  <1> QED
    BY <1>2, <1>3, <1>4, <1>5, <1>6, <1>7, <1>8, <1>9, <1>10 DEF Next, Work, Step

LEMMA PostAlways == Spec => []PostInv
  BY PostInit, PostStep, PTL DEF Spec

\* Every variable keeps its type; only a living loop has tasks, and only a
\* thread in its loop runs one or posts.
THEOREM ManagerTypes == Spec => []TypeOK
  <1>1. PostInv => TypeOK
    <2> SUFFICES ASSUME PostInv PROVE TypeOK
      OBVIOUS
    <2> USE DEF PostInv
    <2>1. Queued \subseteq Items \cup {StopTask} /\ Repeated \subseteq Items
      BY DEF Queued, Single, Relayed, Repeated, Items, Tags, Jobs
    <2>2. /\ queue \in [Threads -> Seq(Items \cup {StopTask})]
          /\ delayed \in [Threads -> SUBSET Items]
      <3>1. \A s \in Seq(Queued) : s \in Seq(Items \cup {StopTask})
        BY <2>1, SeqDef
      <3> QED
        BY <2>1, <3>1 DEF CarriedOK
    <2> QED
      BY <2>2 DEF RegistryInv, RegistryTypeOK, Lives, PlainOK, States, AliveOK, TypeOK
  <1> QED
    BY <1>1, PostAlways, PTL

\* The pointers that a post by identifier carries with no lock, from the map to
\* the thread, its loop and its proxy, are valid when it follows them.
THEOREM LookupsSafe == Spec => []LookupSafe
  <1>1. PostInv => LookupSafe
    <2> SUFFICES ASSUME PostInv, NEW p \in Threads, call[p].step \in {"thread", "loop"}
                 PROVE  LoopAlive(call[p].to) /\ life[call[p].to] # "gone"
      BY DEF LookupSafe
    <2> DEFINE q == call[p].to
    <2>1. call[p] \in Found
      BY Held DEF Looking, NoCall
    <2>2. q \in Threads /\ Known(q) /\ (p = Main \/ q \in {p, Main})
      BY <2>1 DEF PostInv, ReachOK, CallReach, Found
    <2>3. life[p] = "work"
      BY <2>1 DEF PostInv, AliveOK, Found, NoCall
    <2>4. CASE p = Main
      <3>1. life[q] = "work"
        BY <2>2, <2>3, <2>4 DEF PostInv, StopOK, Early, Known, Threads
      <3> QED
        BY <3>1 DEF LoopAlive, HasPointer
    <2>5. CASE p # Main /\ q = Main
      <3>1. life[Main] \in Hosting
        BY <2>3, <2>5, MainIsThread DEF PostInv, RegistryInv, HostInv, Threads
      <3> QED
        BY <2>5, <3>1 DEF LoopAlive, HasPointer, Hosting
    <2>6. CASE q = p
      BY <2>3, <2>6 DEF LoopAlive, HasPointer
    <2> QED
      BY <2>2, <2>4, <2>5, <2>6
  <1> QED
    BY <1>1, PostAlways, PTL

(***************************************************************************)
(* Repeated callbacks.  At most one thing carries a repeated callback on:  *)
(* its delayed task, the call of it, or the post of it by identifier; and  *)
(* the number of runs left goes with it.                                   *)
(***************************************************************************)

\* p has nothing to do with the callback j.
Free(p, j) == (\A x \in delayed[p] : x.job # j) /\ ~Runs(p, j) /\ ~Asks(p, j)

\* p carries j at most once.
Alone(p, j) ==
  /\ \A x, y \in delayed[p] : x.job = j /\ y.job = j => x = y
  /\ (\E x \in delayed[p] : x.job = j) => ~Runs(p, j) /\ ~Asks(p, j)
  /\ ~(Runs(p, j) /\ Asks(p, j))

\* The runs made and the times left add up to times.
Counted(p, j) ==
  Times[j] > 0 =>
    /\ \A x \in delayed[p] : x.job = j => x.times >= 1 /\ runs[j] + x.times = Times[j]
    /\ Asks(p, j) => call[p].times >= 1 /\ runs[j] + call[p].times = Times[j]
    /\ Runs(p, j) => running[p].times >= 1 /\ runs[j] + running[p].times = Times[j] + 1

RepeatOK(j) ==
  /\ state[j] = "new" => runs[j] = 0 /\ \A p \in Threads : Free(p, j)
  /\ \A p, q \in Threads : p # q => Free(p, j) \/ Free(q, j)
  /\ \A p \in Threads : Alone(p, j) /\ Counted(p, j)

RepeatInv == \A j \in Repeats : RepeatOK(j)

LEMMA RepeatInit == Init => RepeatInv
  <1> SUFFICES ASSUME Init, NEW j \in Repeats PROVE RepeatOK(j)
    BY DEF RepeatInv
  <1>1. state[j] = "new" /\ runs[j] = 0
    BY DEF Init, Jobs
  <1>2. \A p \in Threads : delayed[p] = {} /\ running[p] = Idle /\ call[p] = NoCall
    BY DEF Init
  <1>3. \A p \in Threads : ~Runs(p, j) /\ ~Asks(p, j)
    BY <1>2 DEF Runs, Asks
  <1>4. \A p \in Threads : Free(p, j) /\ Alone(p, j) /\ Counted(p, j)
    BY <1>2, <1>3 DEF Free, Alone, Counted
  <1> QED
    BY <1>1, <1>4 DEF RepeatOK

Same(p) == delayed'[p] = delayed[p] /\ running'[p] = running[p] /\ call'[p] = call[p]

LEMMA SameFree ==
  ASSUME NEW p, NEW j, Same(p)
  PROVE  /\ Free(p, j)' <=> Free(p, j)
         /\ Runs(p, j)' <=> Runs(p, j)
         /\ Asks(p, j)' <=> Asks(p, j)
         /\ Alone(p, j) => Alone(p, j)'
         /\ Counted(p, j) /\ runs'[j] = runs[j] => Counted(p, j)'
  BY DEF Same, Free, Runs, Asks, Alone, Counted

\* A thread that has nothing to do with j is alone, and counts nothing.
LEMMA FreeIsFine ==
  ASSUME NEW p, NEW j
  PROVE  /\ Free(p, j) => Alone(p, j) /\ Counted(p, j)
         /\ Free(p, j)' => Alone(p, j)' /\ Counted(p, j)'
  BY DEF Free, Alone, Counted

\* A step moves j only at the thread t.
LEMMA RepeatLocal ==
  ASSUME NEW j \in Repeats, RepeatOK(j), NEW t \in Threads,
         \A p \in Threads \ {t} : Free(p, j)' \/ (Same(p) /\ runs'[j] = runs[j]),
         Free(t, j)' \/ \A p \in Threads \ {t} : Free(p, j)',
         Alone(t, j)', Counted(t, j)',
         state'[j] = "new" =>
           state[j] = "new" /\ runs'[j] = runs[j] /\ \A p \in Threads : Free(p, j)'
  PROVE  RepeatOK(j)'
  <1>1. ASSUME NEW p \in Threads PROVE Alone(p, j)' /\ Counted(p, j)'
    <2>1. CASE p = t
      BY <2>1
    <2>2. CASE p # t /\ Free(p, j)'
      BY <2>2, FreeIsFine
    <2>3. CASE p # t /\ Same(p) /\ runs'[j] = runs[j]
      BY <2>3, SameFree DEF RepeatOK
    <2> QED
      BY <2>1, <2>2, <2>3
  <1>2. ASSUME NEW p \in Threads, NEW q \in Threads, p # q PROVE Free(p, j)' \/ Free(q, j)'
    <2>1. CASE p # t /\ q # t
      <3>1. CASE Same(p) /\ Same(q)
        BY <1>2, <3>1, SameFree DEF RepeatOK
      <3> QED
        BY <2>1, <3>1
    <2> QED
      BY <1>2, <2>1
  <1>3. state'[j] = "new" => runs'[j] = 0 /\ \A p \in Threads : Free(p, j)'
    BY DEF RepeatOK
  <1> QED
    BY <1>1, <1>2, <1>3 DEF RepeatOK

\* Of what p has to do with j, nothing is new.
Shrinks(p, j) ==
  /\ \A x \in delayed'[p] : x.job = j => x \in delayed[p]
  /\ Runs(p, j)' => Runs(p, j) /\ running'[p].times = running[p].times
  /\ Asks(p, j)' => Asks(p, j) /\ call'[p].times = call[p].times

\* A step leaves j alone, or only drops what carries it.
LEMMA RepeatLess ==
  ASSUME NEW j \in Repeats, RepeatOK(j), runs'[j] = runs[j],
         state'[j] = "new" => state[j] = "new",
         \A p \in Threads : Shrinks(p, j)
  PROVE  RepeatOK(j)'
  <1>1. ASSUME NEW p \in Threads
        PROVE  (Free(p, j) => Free(p, j)') /\ Alone(p, j)' /\ Counted(p, j)'
    <2>1. Alone(p, j) /\ Counted(p, j) /\ Shrinks(p, j)
      BY DEF RepeatOK
    <2>2. Free(p, j) => Free(p, j)'
      BY <2>1 DEF Free, Shrinks
    <2>3. Alone(p, j)'
      BY <2>1 DEF Alone, Shrinks
    <2>4. Counted(p, j)'
      BY <2>1 DEF Counted, Shrinks
    <2> QED
      BY <2>2, <2>3, <2>4
  <1> QED
    BY <1>1 DEF RepeatOK

LEMMA SameShrinks ==
  ASSUME NEW p, NEW j, Same(p) PROVE Shrinks(p, j)
  BY SameFree DEF Same, Shrinks

\* What the posts and the tasks of one thread t change elsewhere.
LEMMA OthersSame ==
  ASSUME NEW t \in Threads, NEW d, NEW r, NEW c, PostInv,
         delayed' = delayed \/ delayed' = [delayed EXCEPT ![t] = d],
         running' = running \/ running' = [running EXCEPT ![t] = r],
         call' = call \/ call' = [call EXCEPT ![t] = c]
  PROVE  \A p \in Threads \ {t} : Same(p)
  BY DEF Same, PostInv, CarriedOK

LEMMA RepeatAsk ==
  ASSUME PostInv, RepeatInv, NEW t \in Threads, NEW k \in Jobs, NEW i \in Ids, Ask(t, k, i)
  PROVE  RepeatInv'
  <1> DEFINE c == [step |-> "find", job |-> k, id |-> i,
                   times |-> IF k \in Repeats THEN Times[k] ELSE 0]
  <1>1. /\ call' = [call EXCEPT ![t] = c] /\ state[k] = "new" /\ call[t] = NoCall
        /\ state' = [state EXCEPT ![k] = "asking"]
        /\ UNCHANGED <<delayed, running, runs>>
    BY DEF Ask, Active, loops
  <1>2. c.job = k /\ (k \in Repeats => c.times = Times[k]) /\ c # NoCall
    BY DEF NoCall
  <1> HIDE DEF c
  <1>3. \A p \in Threads \ {t} : Same(p)
    BY <1>1, OthersSame
  <1>4. call'[t] = c
    BY <1>1 DEF PostInv, CarriedOK
  <1>5. ASSUME NEW j \in Repeats PROVE RepeatOK(j)'
    <2>s. state \in [Jobs -> States] /\ RepeatOK(j) /\ Times[j] \in Int
      BY ManagerAssumption DEF PostInv, PlainOK, RepeatInv
    <2>1. CASE j = k
      <3>1. runs[j] = 0 /\ \A p \in Threads : Free(p, j)
        BY <1>1, <2>1, <2>s DEF RepeatOK
      <3>2. \A p \in Threads \ {t} : Free(p, j)'
        BY <1>3, <3>1, SameFree
      <3>3. delayed'[t] = delayed[t] /\ ~Runs(t, j)' /\ \A x \in delayed[t] : x.job # j
        BY <1>1, <3>1 DEF Free, Runs
      <3>4. Alone(t, j)'
        BY <3>3 DEF Alone
      <3>5. Counted(t, j)'
        BY <1>1, <1>2, <1>4, <2>1, <2>s, <3>1, <3>3 DEF Counted
      <3>6. state'[j] # "new"
        BY <1>1, <2>1, <2>s
      <3> QED
        BY <1>1, <2>s, <3>2, <3>4, <3>5, <3>6, RepeatLocal
    <2>2. CASE j # k
      <3>1. ~Asks(t, j)'
        BY <1>2, <1>4, <2>2 DEF Asks
      <3>2. Runs(t, j)' => Runs(t, j) /\ running'[t].times = running[t].times
        BY <1>1 DEF Runs
      <3>3. state'[j] = state[j]
        BY <1>1, <2>2, <2>s
      <3>4. Shrinks(t, j)
        BY <1>1, <3>1, <3>2 DEF Shrinks
      <3> QED
        BY <1>1, <1>3, <2>s, <3>3, <3>4, SameShrinks, RepeatLess
    <2> QED
      BY <2>1, <2>2
  <1> QED
    BY <1>5 DEF RepeatInv

\* The lookup goes on with the call, or gives it up.
LEMMA RepeatLookup ==
  ASSUME PostInv, RepeatInv, NEW t \in Threads, FindThread(t) \/ GetMessageLoop(t)
  PROVE  RepeatInv'
  <1>1. call[t] \in Looking \cup Found /\ call[t] # NoCall
    BY Held DEF FindThread, GetMessageLoop, NoCall
  <1>2. PICK c \in {NoCall} \cup {[step |-> "thread", job |-> call[t].job, id |-> call[t].id,
                                  times |-> call[t].times, to |-> threads[call[t].id]],
                                [call[t] EXCEPT !.step = "loop"],
                                [call[t] EXCEPT !.step = "proxy"]} :
          call' = [call EXCEPT ![t] = c]
    BY DEF FindThread, GetMessageLoop, Refuse
  <1>3. c # NoCall => c.job = call[t].job /\ c.times = call[t].times
    BY <1>1, <1>2 DEF Looking, Found
  <1>4. /\ \A p \in Threads \ {t} : Same(p)
        /\ UNCHANGED <<delayed, running, runs>>
        /\ state' = state \/ state' = [state EXCEPT ![call[t].job] = "refused"]
    BY <1>2, OthersSame DEF FindThread, GetMessageLoop, Refuse, loops
  <1>5. call'[t] = c
    BY <1>2 DEF PostInv, CarriedOK
  <1>6. ASSUME NEW j \in Repeats PROVE RepeatOK(j)'
    <2>1. Asks(t, j)' => Asks(t, j) /\ call'[t].times = call[t].times
      BY <1>1, <1>3, <1>5 DEF Asks
    <2>2. Runs(t, j)' => Runs(t, j) /\ running'[t].times = running[t].times
      BY <1>4 DEF Runs
    <2>3. state'[j] = "new" => state[j] = "new"
      BY <1>4 DEF PostInv, PlainOK, Jobs
    <2>4. Shrinks(t, j)
      BY <1>4, <2>1, <2>2 DEF Shrinks
    <2> QED
      BY <1>4, <2>3, <2>4, SameShrinks, RepeatLess DEF RepeatInv
  <1> QED
    BY <1>6 DEF RepeatInv

\* The post itself, which moves the callback to the loop it was made for.
LEMMA RepeatPost ==
  ASSUME PostInv, RepeatInv, NEW t \in Threads, PostThroughProxy(t) PROVE RepeatInv'
  <1>k. PICK k, q : k = call[t].job /\ q = call[t].to
    OBVIOUS
  <1> DEFINE x == [kind |-> Kind(k), job |-> k, id |-> call[t].id, times |-> call[t].times]
  <1>1. call[t] \in Found /\ call[t] # NoCall
    BY Held DEF PostThroughProxy, Looking, NoCall
  <1>2. /\ call' = [call EXCEPT ![t] = NoCall] /\ UNCHANGED <<running, runs>>
        /\ \E how \in States \ {"new"} : state' = [state EXCEPT ![k] = how]
        /\ \/ UNCHANGED delayed
           \/ k \in Repeats /\ delayed' = [delayed EXCEPT ![q] = @ \cup {x}]
    BY <1>k DEF PostThroughProxy, Refuse, States
  <1>3. x.job = k /\ x.times = call[t].times /\ k \in Jobs /\ q \in Threads
    BY <1>1, <1>k DEF Found
  <1>4. Asks(t, k) /\ \A j : ~Asks(t, j)'
    BY <1>1, <1>2, <1>k DEF Asks, PostInv, CarriedOK
  <1>5. \A p \in Threads : /\ delayed'[p] \subseteq delayed[p] \cup (IF p = q THEN {x} ELSE {})
                           /\ running'[p] = running[p] /\ (p # t => call'[p] = call[p])
    BY <1>2 DEF PostInv, CarriedOK
  <1> HIDE DEF x
  <1>6. ASSUME NEW j \in Repeats PROVE RepeatOK(j)'
    <2>s. /\ state \in [Jobs -> States] /\ RepeatOK(j) /\ Times[j] \in Int /\ runs'[j] = runs[j]
          /\ state'[j] = "new" => state[j] = "new"
      BY <1>2, ManagerAssumption DEF PostInv, PlainOK, RepeatInv
    <2>1. CASE j # k \/ UNCHANGED delayed
      <3>1. ASSUME NEW p \in Threads PROVE Shrinks(p, j)
        <4>1. \A y \in delayed'[p] : y.job = j => y \in delayed[p]
          BY <1>3, <1>5, <2>1
        <4>2. Asks(p, j)' => Asks(p, j) /\ call'[p].times = call[p].times
          BY <1>4, <1>5 DEF Asks
        <4>3. Runs(p, j)' => Runs(p, j) /\ running'[p].times = running[p].times
          BY <1>5 DEF Runs
        <4> QED
          BY <4>1, <4>2, <4>3 DEF Shrinks
      <3> QED
        BY <2>s, <3>1, RepeatLess
    <2>2. CASE j = k /\ delayed' = [delayed EXCEPT ![q] = @ \cup {x}]
      <3>1. ~Free(t, j) /\ Alone(t, j) /\ Counted(t, j) /\ \A p \in Threads \ {t} : Free(p, j)
        BY <1>4, <2>2, <2>s DEF Free, RepeatOK
      <3>2. \A p \in Threads : (\A y \in delayed[p] : y.job # j) /\ ~Runs(p, j)'
        BY <1>4, <1>5, <2>2, <3>1 DEF Free, Alone, Runs
      <3>3. \A p \in Threads : ~Asks(p, j)'
        BY <1>4, <1>5, <3>1 DEF Free, Asks
      <3>4. \A p \in Threads : (\A y \in delayed'[p] : y.job = j => p = q /\ y = x)
        BY <1>5, <3>2
      <3>5. \A p \in Threads \ {q} : Free(p, j)'
        BY <3>2, <3>3, <3>4 DEF Free
      <3>6. Alone(q, j)'
        BY <1>3, <3>2, <3>3, <3>4 DEF Alone
      <3>7. Counted(q, j)'
        <4>1. Times[j] > 0 => call[t].times >= 1 /\ runs[j] + call[t].times = Times[j]
          BY <1>4, <2>2, <3>1 DEF Counted
        <4> QED
          BY <1>3, <2>s, <3>2, <3>3, <3>4, <4>1 DEF Counted
      <3>8. state'[j] # "new"
        BY <1>2, <1>3, <2>2, <2>s
      <3> QED
        BY <1>3, <2>s, <3>5, <3>6, <3>7, <3>8, RepeatLocal
    <2> QED
      BY <1>2, <2>1, <2>2
  <1> QED
    BY <1>6 DEF RepeatInv

\* A repeated callback is called, or found to have expired.
LEMMA RepeatRun ==
  ASSUME PostInv, RepeatInv, NEW t \in Threads, RunRepeatedly(t) PROVE RepeatInv'
  <1>1. PICK x \in delayed[t] :
          /\ delayed' = [delayed EXCEPT ![t] = @ \ {x}]
          /\ \/ state' = [state EXCEPT ![x.job] = "ended"] /\ UNCHANGED <<running, runs>>
             \/ /\ running' = [running EXCEPT ![t] = [kind |-> "repeat", job |-> x.job,
                                id |-> x.id, times |-> x.times]]
                /\ runs' = [runs EXCEPT ![x.job] = Count(x.job, @)]
                /\ UNCHANGED state
    BY DEF RunRepeatedly
  <1> DEFINE r == [kind |-> "repeat", job |-> x.job, id |-> x.id, times |-> x.times]
  <1>2. r # Idle /\ r.job = x.job /\ r.times = x.times
    BY DEF Idle
  <1>3. running[t] = Idle /\ call[t] = NoCall /\ UNCHANGED call
    BY DEF RunRepeatedly
  <1>4. x.job \in Repeats /\ x.times \in Int
    BY Held DEF Repeated
  <1>5. running' = running \/ running' = [running EXCEPT ![t] = r]
    BY <1>1
  <1>6. delayed'[t] = delayed[t] \ {x} /\ \A p \in Threads \ {t} : Same(p)
    BY <1>1, <1>3, <1>5 DEF PostInv, CarriedOK, Same
  <1>7. ASSUME NEW j \in Repeats PROVE RepeatOK(j)'
    <2>s. /\ state \in [Jobs -> States] /\ runs \in [Repeats -> Nat]
          /\ RepeatOK(j) /\ Times[j] \in Int
      BY ManagerAssumption DEF PostInv, PlainOK, RepeatInv
    <2>n. state'[j] = "new" => state[j] = "new"
      BY <1>1, <1>4, <2>s DEF Jobs
    <2>a. ~Asks(t, j)'
      BY <1>3 DEF Asks
    <2>1. CASE j # x.job \/ UNCHANGED <<running, runs>>
      <3>1. runs'[j] = runs[j]
        BY <1>1, <2>1, <2>s
      <3>2. ~Runs(t, j)'
        BY <1>2, <1>3, <1>5, <2>1 DEF Runs, PostInv, CarriedOK
      <3>3. Shrinks(t, j)
        BY <1>6, <2>a, <3>2 DEF Shrinks
      <3> QED
        BY <1>6, <2>n, <2>s, <3>1, <3>3, SameShrinks, RepeatLess
    <2>2. CASE /\ j = x.job /\ running' = [running EXCEPT ![t] = r]
               /\ runs' = [runs EXCEPT ![j] = Count(j, @)]
      <3>1. ~Free(t, j) /\ Alone(t, j) /\ Counted(t, j)
        BY <2>2, <2>s DEF Free, RepeatOK
      <3>2. \A p \in Threads \ {t} : Free(p, j)'
        BY <1>6, <2>s, <3>1, SameFree DEF RepeatOK
      <3>3. \A y \in delayed'[t] : y.job # j
        BY <1>6, <2>2, <3>1 DEF Alone
      <3>4. Alone(t, j)'
        BY <2>a, <3>3 DEF Alone
      <3>5. running'[t].times = x.times
        BY <1>2, <2>2 DEF PostInv, CarriedOK
      <3>6. Counted(t, j)'
        <4>1. Times[j] > 0 => x.times >= 1 /\ runs[j] + x.times = Times[j]
          BY <2>2, <3>1 DEF Counted
        <4>2. Times[j] > 0 => runs'[j] = runs[j] + 1
          BY <1>4, <2>2, <2>s, <4>1 DEF Count
        <4> QED
          BY <1>4, <2>a, <2>s, <3>3, <3>5, <4>1, <4>2 DEF Counted
      <3>7. state'[j] # "new"
        <4>1. state[j] # "new"
          BY <2>s, <3>1 DEF RepeatOK
        <4> QED
          BY <2>n, <4>1
      <3> QED
        BY <2>s, <3>2, <3>4, <3>6, <3>7, RepeatLocal
    <2> QED
      BY <1>1, <2>1, <2>2
  <1> QED
    BY <1>7 DEF RepeatInv

\* A post to the caller's own loop starts a new callback, or none.
LEMMA RepeatAskHere ==
  ASSUME PostInv, RepeatInv, NEW t \in Threads, NEW k \in Jobs, AskHere(t, k)
  PROVE  RepeatInv'
  <1> DEFINE x == [kind |-> Kind(k), job |-> k, id |-> Nobody,
                   times |-> IF k \in Repeats THEN Times[k] ELSE 0]
  <1>1. /\ state[k] = "new" /\ call[t] = NoCall /\ state' = [state EXCEPT ![k] = "asked"]
        /\ UNCHANGED <<running, call, runs>>
        /\ IF k \in Repeats THEN delayed' = [delayed EXCEPT ![t] = @ \cup {x}]
                           ELSE UNCHANGED delayed
    BY DEF AskHere, Active
  <1>2. x.job = k /\ (k \in Repeats => x.times = Times[k])
    OBVIOUS
  <1> HIDE DEF x
  <1>3. \A p \in Threads : p # t \/ k \notin Repeats => Same(p)
    BY <1>1 DEF PostInv, CarriedOK, Same
  <1>4. k \in Repeats => delayed'[t] = delayed[t] \cup {x}
    BY <1>1 DEF PostInv, CarriedOK
  <1>5. ASSUME NEW j \in Repeats PROVE RepeatOK(j)'
    <2>s. state \in [Jobs -> States] /\ RepeatOK(j) /\ Times[j] \in Int
      BY ManagerAssumption DEF PostInv, PlainOK, RepeatInv
    <2>1. CASE j # k
      <3>1. Shrinks(t, j)
        <4>1. CASE k \in Repeats
          BY <1>1, <1>2, <1>4, <2>1, <4>1 DEF Shrinks, Runs, Asks
        <4> QED
          BY <1>3, <4>1, SameShrinks
      <3>2. state'[j] = state[j]
        BY <1>1, <2>1, <2>s
      <3> QED
        BY <1>1, <1>3, <2>s, <3>1, <3>2, SameShrinks, RepeatLess
    <2>2. CASE j = k
      <3>1. runs[j] = 0 /\ \A p \in Threads : Free(p, j)
        BY <1>1, <2>2, <2>s DEF RepeatOK
      <3>2. \A p \in Threads \ {t} : Free(p, j)'
        BY <1>3, <3>1, SameFree
      <3>3. ~Runs(t, j)' /\ ~Asks(t, j)' /\ \A y \in delayed'[t] : y.job = j => y = x
        BY <1>1, <1>4, <2>2, <3>1 DEF Free, Runs, Asks
      <3>4. Alone(t, j)'
        BY <3>3 DEF Alone
      <3>5. Counted(t, j)'
        BY <1>1, <1>2, <2>2, <2>s, <3>1, <3>3 DEF Counted
      <3>6. state'[j] # "new"
        BY <1>1, <2>2, <2>s
      <3> QED
        BY <2>s, <3>2, <3>4, <3>5, <3>6, RepeatLocal
    <2> QED
      BY <2>1, <2>2
  <1> QED
    BY <1>5 DEF RepeatInv

\* A thread turns to a task that is no repeated callback, or ends one.
LEMMA RepeatNot ==
  ASSUME PostInv, RepeatInv, NEW t \in Threads,
         RunNext(t) \/ FinishPlain(t) \/ FinishRun(t) \/ FinishReply(t)
  PROVE  RepeatInv'
  <1>1. /\ UNCHANGED <<delayed, call, runs>>
        /\ \A j \in Jobs : state'[j] = "new" => state[j] = "new"
    BY DEF RunNext, FinishPlain, FinishRun, FinishReply, Ends, loops, PostInv, PlainOK
  <1>2. PICK r : running' = running \/ (running' = [running EXCEPT ![t] = r]
                                        /\ \A j \in Repeats : r = Idle \/ r.job # j)
    <2>1. CASE RunNext(t)
      <3> DEFINE x == Head(queue[t])
                 r == [kind |-> x.kind, job |-> x.job]
      <3>1. x \in Queued
        BY <2>1, Held, Rest DEF RunNext
      <3>2. \/ UNCHANGED running
            \/ x # StopTask /\ running' = [running EXCEPT ![t] = r]
        BY <2>1 DEF RunNext
      <3>3. x # StopTask => \A j \in Repeats : r.job # j
        BY <3>1, ManagerAssumption DEF Queued, Single, Relayed
      <3> HIDE DEF r, x
      <3> QED
        BY <3>2, <3>3
    <2> QED
      BY <2>1 DEF FinishPlain, FinishRun, FinishReply, Ends
  <1>3. ASSUME NEW j \in Repeats PROVE RepeatOK(j)'
    <2>1. ASSUME NEW p \in Threads PROVE Shrinks(p, j)
      <3>1. Runs(p, j)' => Runs(p, j) /\ running'[p].times = running[p].times
        BY <1>2 DEF Runs, PostInv, CarriedOK
      <3> QED
        BY <1>1, <3>1 DEF Shrinks, Asks
    <2> QED
      BY <1>1, <2>1, RepeatLess DEF RepeatInv, Jobs
  <1> QED
    BY <1>3 DEF RepeatInv

\* A repeated callback returns, and is posted again as often as it is owed.
LEMMA RepeatFinish ==
  ASSUME PostInv, RepeatInv, NEW t \in Threads, FinishRepeat(t) PROVE RepeatInv'
  <1>1. PICK r : r = running[t]
    OBVIOUS
  <1> DEFINE n == Left(r.times)
             x == [kind |-> "repeat", job |-> r.job, id |-> Nobody, times |-> n]
             c == [step |-> "find", job |-> r.job, id |-> r.id, times |-> n]
  <1>2. r \in Repeated /\ r # Idle /\ call[t] = NoCall
    BY <1>1, Held DEF FinishRepeat, Executed, Active
  <1>3. /\ running' = [running EXCEPT ![t] = Idle] /\ UNCHANGED runs
        /\ \E how \in States \ {"new"} : state' = [state EXCEPT ![r.job] = how]
    BY <1>1 DEF FinishRepeat, Ends, States
  <1>4. \/ UNCHANGED <<delayed, call>>
        \/ n # 0 /\ delayed' = [delayed EXCEPT ![t] = @ \cup {x}] /\ UNCHANGED call
        \/ n # 0 /\ call' = [call EXCEPT ![t] = c] /\ UNCHANGED delayed
    BY <1>1 DEF FinishRepeat
  <1>5. /\ x.job = r.job /\ x.times = n /\ c # NoCall /\ c.job = r.job /\ c.times = n
        /\ r.job \in Repeats /\ r.times \in Int
        /\ n = IF r.times = Forever THEN Forever ELSE r.times - 1
    BY <1>2 DEF Repeated, NoCall, Left
  <1>6. Runs(t, r.job)
    BY <1>1, <1>2 DEF Runs
  <1> HIDE DEF n, x, c
  <1>7. /\ \A p \in Threads \ {t} : Same(p)
        /\ running'[t] = Idle
        /\ \/ delayed'[t] = delayed[t] /\ call'[t] = NoCall
           \/ n # 0 /\ delayed'[t] = delayed[t] \cup {x} /\ call'[t] = NoCall
           \/ n # 0 /\ delayed'[t] = delayed[t] /\ call'[t] = c
    BY <1>2, <1>3, <1>4 DEF PostInv, CarriedOK, Same
  <1>8. ASSUME NEW j \in Repeats PROVE RepeatOK(j)'
    <2>s. /\ state \in [Jobs -> States] /\ RepeatOK(j) /\ Times[j] \in Int
          /\ runs[j] \in Nat /\ runs'[j] = runs[j]
      BY <1>3, ManagerAssumption DEF PostInv, PlainOK, RepeatInv
    <2>n. state'[j] = "new" => state[j] = "new"
      BY <1>3, <1>5, <2>s DEF Jobs
    <2>r. ~Runs(t, j)'
      BY <1>7 DEF Runs
    <2>1. CASE j # r.job
      <3>1. Shrinks(t, j)
        BY <1>5, <1>7, <2>1, <2>r DEF Shrinks, Asks
      <3> QED
        BY <1>7, <2>n, <2>s, <3>1, SameShrinks, RepeatLess
    <2>2. CASE j = r.job
      <3>1. ~Free(t, j) /\ Alone(t, j) /\ Counted(t, j)
        BY <1>6, <2>2, <2>s DEF Free, RepeatOK
      <3>2. \A p \in Threads \ {t} : Free(p, j)'
        BY <1>7, <2>s, <3>1, SameFree DEF RepeatOK
      <3>3. \A y \in delayed[t] : y.job # j
        BY <1>6, <2>2, <3>1 DEF Alone
      <3>4. /\ \A y \in delayed'[t] : y.job = j => y = x /\ n # 0 /\ call'[t] = NoCall
            /\ Asks(t, j)' => call'[t] = c /\ n # 0
        BY <1>7, <3>3 DEF Asks
      <3>5. Alone(t, j)'
        BY <2>r, <3>4 DEF Alone, Asks
      <3>6. Counted(t, j)'
        <4>1. Times[j] > 0 => r.times >= 1 /\ runs[j] + r.times = Times[j] + 1
          BY <1>1, <1>6, <2>2, <3>1 DEF Counted
        <4>2. Times[j] > 0 /\ n # 0 => n >= 1 /\ runs[j] + n = Times[j]
          BY <1>5, <2>s, <4>1 DEF Forever
        <4> QED
          BY <1>5, <2>r, <2>s, <3>4, <4>2 DEF Counted
      <3>7. state'[j] # "new"
        <4>1. state[j] # "new"
          BY <2>s, <3>1 DEF RepeatOK
        <4> QED
          BY <2>n, <4>1
      <3> QED
        BY <2>s, <3>2, <3>5, <3>6, <3>7, RepeatLocal
    <2> QED
      BY <2>1, <2>2
  <1> QED
    BY <1>8 DEF RepeatInv

\* A loop is deleted with the callbacks waiting in it.
LEMMA RepeatDelete ==
  ASSUME PostInv, RepeatInv, NEW t \in Threads, DeleteLoop(t) PROVE RepeatInv'
  <1>1. /\ UNCHANGED <<running, call, runs>>
        /\ \A j \in Jobs : state'[j] = "new" => state[j] = "new"
        /\ \A p \in Threads : delayed'[p] \subseteq delayed[p]
    BY DEF DeleteLoop, PostInv, CarriedOK, past, loops
  <1>2. \A p \in Threads, j \in Repeats : Shrinks(p, j)
    BY <1>1 DEF Shrinks, Runs, Asks
  <1> QED
    BY <1>1, <1>2, RepeatLess DEF RepeatInv, Jobs

LEMMA RepeatStep == PostInv /\ RepeatInv /\ [Next]_vars => RepeatInv'
  <1> SUFFICES ASSUME PostInv, RepeatInv, [Next]_vars PROVE RepeatInv'
    OBVIOUS
  <1>1. ASSUME UNCHANGED <<delayed, running, call, state, runs>> PROVE RepeatInv'
    <2>1. \A p \in Threads, j \in Repeats : Shrinks(p, j)
      BY <1>1 DEF Shrinks, Runs, Asks
    <2> QED
      BY <1>1, <2>1, RepeatLess DEF RepeatInv
  <1>2. CASE PreMessageLoop \/ PostMessageLoop \/ Quit \/ UNCHANGED vars
    BY <1>1, <1>2 DEF PreMessageLoop, PostMessageLoop, Quit, vars, loops, past
  <1>3. ASSUME NEW t \in Threads, Registers(t) \/ LeaveLoop(t) PROVE RepeatInv'
    BY <1>1, <1>3 DEF Registers, LeaveLoop, loops, past
  <1>4. ASSUME NEW t \in Threads, NEW j \in Repeats, Cancel(t, j) PROVE RepeatInv'
    BY <1>1, <1>4 DEF Cancel, loops
  <1>5. ASSUME NEW t \in Threads, Posts(t) PROVE RepeatInv'
    BY <1>5, RepeatLookup, RepeatPost DEF Posts
  <1>6. ASSUME NEW t \in Threads, NEW j \in Jobs, NEW i \in Ids, AskHere(t, j) \/ Ask(t, j, i)
        PROVE  RepeatInv'
    BY <1>6, RepeatAsk, RepeatAskHere
  <1>7. ASSUME NEW t \in Threads, RunNext(t) \/ RunRepeatedly(t) \/ Finish(t) PROVE RepeatInv'
    BY <1>7, RepeatNot, RepeatRun, RepeatFinish DEF Finish
  <1>8. ASSUME NEW t \in Threads, NEW j \in Jobs, AskHere(t, j) PROVE RepeatInv'
    BY <1>8, RepeatAskHere
  <1>9. ASSUME NEW t \in Threads, DeleteLoop(t) PROVE RepeatInv'
    BY <1>9, RepeatDelete
  <1> QED
    BY <1>2, <1>3, <1>4, <1>5, <1>6, <1>7, <1>8, <1>9 DEF Next, Work, Choice, Step

LEMMA RepeatAlways == Spec => []RepeatInv
  <1>1. Init => RepeatInv
    BY RepeatInit
  <1> QED
    BY <1>1, RepeatStep, PostAlways, PTL DEF Spec

\* A repeated callback is never called once its flag has expired, never more
\* than times, and never while an earlier call of it is still running: whatever
\* its posts go through between two calls, there is only one of them.
THEOREM RepeatsAreDisciplined == Spec => RepeatDiscipline
  <1>1. ASSUME PostInv, RepeatInv, [Next]_vars, NEW p \in Threads, NEW j \in Repeats,
               ~Runs(p, j), Runs(p, j)'
        PROVE  /\ j \notin cancelled
               /\ Times[j] > 0 => runs[j] < Times[j]
               /\ \A q \in Threads \ {p} : ~Runs(q, j)
    <2>1. RunRepeatedly(p)
      <3>1. running'[p] # running[p]
        BY <1>1 DEF Runs
      <3>2. ASSUME NEW t \in Threads, NEW r, running' = [running EXCEPT ![t] = r]
            PROVE  p = t /\ running'[p] = r
        BY <1>1, <3>1, <3>2 DEF PostInv, CarriedOK
      <3>3. ASSUME NEW t \in Threads, Finish(t) PROVE FALSE
        <4>1. running' = [running EXCEPT ![t] = Idle]
          BY <3>3 DEF Finish, FinishPlain, FinishRun, FinishReply, FinishRepeat, Ends
        <4> QED
          BY <1>1, <3>2, <4>1 DEF Runs
      <3>4. ASSUME NEW t \in Threads, RunNext(t) PROVE FALSE
        <4> DEFINE x == Head(queue[t])
                   r == [kind |-> x.kind, job |-> x.job]
        <4>1. x \in Queued
          BY <1>1, <3>4, Held, Rest DEF RunNext
        <4>2. x # StopTask /\ running' = [running EXCEPT ![t] = r]
          BY <3>1, <3>4 DEF RunNext
        <4>3. r.job \notin Repeats
          BY <4>1, <4>2, ManagerAssumption DEF Queued, Single, Relayed
        <4> HIDE DEF r, x
        <4> QED
          BY <1>1, <3>2, <4>2, <4>3 DEF Runs
      <3>5. ASSUME NEW t \in Threads, RunRepeatedly(t) PROVE t = p
        BY <3>1, <3>2, <3>5 DEF RunRepeatedly
      <3>6. ASSUME NEW t \in Threads,
                   Registers(t) \/ LeaveLoop(t) \/ DeleteLoop(t) \/ Posts(t)
            PROVE  FALSE
        BY <3>1, <3>6 DEF Registers, LeaveLoop, DeleteLoop, Posts, FindThread, GetMessageLoop,
                          PostThroughProxy
      <3>7. CASE PreMessageLoop \/ PostMessageLoop \/ Choice \/ UNCHANGED vars
        BY <3>1, <3>7 DEF PreMessageLoop, PostMessageLoop, Choice, Quit, AskHere, Ask, Cancel, vars
      <3> QED
        BY <1>1, <3>3, <3>4, <3>5, <3>6, <3>7 DEF Next, Work, Step
    <2>2. PICK x \in delayed[p] : /\ x.job \notin cancelled
                                  /\ running' = [running EXCEPT ![p] = [kind |-> "repeat",
                                       job |-> x.job, id |-> x.id, times |-> x.times]]
      <3>1. running' # running
        BY <1>1 DEF Runs
      <3> QED
        BY <2>1, <3>1 DEF RunRepeatedly
    <2>3. running'[p].job = x.job
      BY <1>1, <2>2 DEF PostInv, CarriedOK
    <2>4. x.job = j /\ x.times \in Int
      BY <1>1, <2>3, Held DEF Runs, Repeated
    <2>5. Times[j] > 0 => x.times >= 1 /\ runs[j] + x.times = Times[j]
      BY <1>1, <2>4 DEF RepeatInv, RepeatOK, Counted
    <2>6. \A q \in Threads \ {p} : ~Runs(q, j)
      BY <1>1, <2>4 DEF RepeatInv, RepeatOK, Free
    <2>7. runs[j] \in Nat /\ Times[j] \in Int
      BY <1>1, ManagerAssumption DEF PostInv, PlainOK
    <2> QED
      BY <2>2, <2>4, <2>5, <2>6, <2>7
  <1>2. PostInv /\ RepeatInv /\ [Next]_vars =>
          [\A p \in Threads, j \in Repeats : ~Runs(p, j) /\ Runs(p, j)' =>
             /\ j \notin cancelled
             /\ Times[j] > 0 => runs[j] < Times[j]
             /\ \A q \in Threads \ {p} : ~Runs(q, j)]_vars
    BY <1>1
  <1> QED
    BY <1>2, PostAlways, RepeatAlways, PTL DEF Spec, RepeatDiscipline

(***************************************************************************)
(* Relays.  From the post that makes it to its end, one queue or one       *)
(* thread has a relay, and the reply is only where the relay was made.     *)
(***************************************************************************)

Has(p, j) == Waiting(p, j) # {} \/ Runs(p, j)

\* p has the relay of j at most once.
Once(p, j) ==
  /\ \A m, n \in Waiting(p, j) : m = n
  /\ Runs(p, j) => Waiting(p, j) = {}

\* Where a closure of a relay made on the loop of o may be: a worker makes them
\* only for itself and for the main thread.
RightPlace(kind, p, o) == IF kind = "reply" THEN p = o ELSE o = Main \/ p \in {o, Main}

Placed(p, j) ==
  /\ \A n \in Waiting(p, j) : RightPlace(queue[p][n].kind, p, relay[j].origin)
  /\ Runs(p, j) => /\ RightPlace(running[p].kind, p, relay[j].origin)
                   /\ running[p].kind = "reply" => ~relay[j].task

RelayHeld(j) ==
  /\ \A p \in Threads : Once(p, j) /\ Placed(p, j)
  /\ \A p, q \in Threads : p # q => ~Has(p, j) \/ ~Has(q, j)
  /\ (\E p \in Threads : Has(p, j)) <=> relay[j].origin # Nobody /\ state[j] # "lost"

\* Before it is posted there is no relay, and one thread at most is posting it;
\* a lost one was made on a loop that is gone.
RelayMade(j) ==
  /\ state[j] = "new" => relay[j].origin = Nobody /\ \A p \in Threads : ~Asks(p, j)
  /\ \A p \in Threads : Asks(p, j) =>
       relay[j].origin = Nobody /\ \A q \in Threads \ {p} : ~Asks(q, j)
  /\ relay[j].origin # Nobody => life[relay[j].origin] # "none"
  /\ state[j] = "lost" => relay[j].origin # Nobody /\ ~LoopAlive(relay[j].origin)

\* A worker that has left its loop gets no more tasks.
LeftEmpty ==
  \A w \in Workers : life[w] \in {"cleanup", "unregistering", "delete"} => queue[w] = << >>

RelayInv == LeftEmpty /\ \A j \in Awaits : RelayHeld(j) /\ RelayMade(j)

LEMMA RelayInit == Init => RelayInv
  <1> SUFFICES ASSUME Init PROVE RelayInv
    OBVIOUS
  <1>1. \A p \in Threads : queue[p] = << >> /\ running[p] = Idle /\ call[p] = NoCall
    BY DEF Init
  <1>2. LeftEmpty
    BY <1>1, MainIsThread DEF LeftEmpty
  <1>3. ASSUME NEW j \in Awaits PROVE RelayHeld(j) /\ RelayMade(j)
    <2>1. relay[j].origin = Nobody /\ state[j] = "new"
      BY DEF Init, Jobs
    <2>2. \A p \in Threads : Waiting(p, j) = {} /\ ~Runs(p, j) /\ ~Asks(p, j)
      BY <1>1, EmptySeq DEF Waiting, Runs, Asks
    <2>3. RelayHeld(j)
      BY <2>1, <2>2 DEF RelayHeld, Once, Placed, Has
    <2>4. RelayMade(j)
      BY <2>1, <2>2 DEF RelayMade
    <2> QED
      BY <2>3, <2>4
  <1> QED
    BY <1>2, <1>3 DEF RelayInv

\* Who was started stays started, and a loop that is gone stays gone.
Lasting(p) ==
  life[p] # "none" => life'[p] # "none" /\ (~LoopAlive(p) => ~LoopAlive(p)')

LEMMA LivesLast ==
  ASSUME PostInv, [Next]_vars PROVE \A p \in Threads : Lasting(p)
  <1> USE DEF Lasting, LoopAlive, HasPointer
  <1>t. life \in [Threads -> Lives]
    BY DEF PostInv, RegistryInv, RegistryTypeOK
  <1>1. CASE UNCHANGED life
    BY <1>1
  <1>2. CASE PreMessageLoop
    BY <1>2, <1>t DEF PreMessageLoop
  <1>3. CASE PostMessageLoop
    BY <1>3, <1>t DEF PostMessageLoop
  <1>4. ASSUME NEW t \in Threads, Registers(t) \/ LeaveLoop(t) \/ DeleteLoop(t)
        PROVE  \A p \in Threads : Lasting(p)
    <2>1. RegisterThread(t) => \A p \in Threads : Lasting(p)
      BY <1>t DEF RegisterThread
    <2>2. UnregisterThread(t) => \A p \in Threads : Lasting(p)
      BY <1>t DEF UnregisterThread
    <2>3. LeaveLoop(t) => \A p \in Threads : Lasting(p)
      BY <1>t DEF LeaveLoop
    <2>4. DeleteLoop(t) => \A p \in Threads : Lasting(p)
      BY <1>t DEF DeleteLoop
    <2> QED
      BY <1>4, <2>1, <2>2, <2>3, <2>4 DEF Registers
  <1>5. ASSUME NEW t \in Threads, Posts(t) \/ RunNext(t) \/ RunRepeatedly(t) \/ Finish(t)
        PROVE  UNCHANGED life
    BY <1>5 DEF Posts, FindThread, GetMessageLoop, PostThroughProxy, RunNext,
                RunRepeatedly, Finish, FinishPlain, FinishRun, FinishReply, FinishRepeat
  <1>6. ASSUME Choice \/ UNCHANGED vars PROVE UNCHANGED life
    BY <1>6 DEF Choice, Quit, AskHere, Ask, Cancel, vars
  <1> QED
    BY <1>1, <1>2, <1>3, <1>4, <1>5, <1>6 DEF Next, Work, Step

\* What an append does to the places where j waits.
LEMMA WaitingAppend ==
  ASSUME NEW p, NEW j, NEW x, queue[p] \in Seq(Queued), queue'[p] = Append(queue[p], x)
  PROVE  /\ x = StopTask \/ x.job # j => Waiting(p, j)' = Waiting(p, j)
         /\ x # StopTask /\ x.job = j =>
              Waiting(p, j)' = Waiting(p, j) \cup {Len(queue[p]) + 1}
         /\ \A n \in Waiting(p, j) : queue'[p][n] = queue[p][n]
         /\ queue'[p][Len(queue[p]) + 1] = x
  <1>1. /\ Len(queue[p]) \in Nat /\ Len(queue'[p]) = Len(queue[p]) + 1
        /\ \A n \in 1..Len(queue[p]) : queue'[p][n] = queue[p][n]
        /\ queue'[p][Len(queue[p]) + 1] = x
    OBVIOUS
  <1> QED
    BY <1>1 DEF Waiting

LEMMA WaitingTail ==
  ASSUME NEW p, NEW j, queue[p] \in Seq(Queued), queue[p] # << >>, queue'[p] = Tail(queue[p])
  PROVE  /\ \A n \in Waiting(p, j)' :
              n \in Nat /\ n + 1 \in Waiting(p, j) /\ n + 1 # 1 /\ queue'[p][n] = queue[p][n + 1]
         /\ \A n \in Waiting(p, j) : n \in Nat /\ (n = 1 \/ n - 1 \in Waiting(p, j)')
         /\ 1 \in Waiting(p, j) <=> Head(queue[p]) # StopTask /\ Head(queue[p]).job = j
  <1>1. /\ Len(queue[p]) \in Nat /\ Len(queue[p]) >= 1 /\ Len(queue'[p]) = Len(queue[p]) - 1
        /\ Head(queue[p]) = queue[p][1]
        /\ \A n \in 1..(Len(queue[p]) - 1) : queue'[p][n] = queue[p][n + 1]
    BY HeadTailProperties, EmptySeq
  <1>2. ASSUME NEW n \in Waiting(p, j) PROVE n \in Nat /\ (n = 1 \/ n - 1 \in Waiting(p, j)')
    <2>1. n \in 1..Len(queue[p]) /\ queue[p][n] # StopTask /\ queue[p][n].job = j
      BY DEF Waiting
    <2>2. CASE n # 1
      <3>1. n - 1 \in 1..(Len(queue[p]) - 1) /\ (n - 1) + 1 = n
        BY <1>1, <2>1, <2>2
      <3>2. queue'[p][n - 1] = queue[p][n]
        BY <1>1, <3>1
      <3> QED
        BY <1>1, <2>1, <3>1, <3>2 DEF Waiting
    <2> QED
      BY <2>1, <2>2
  <1>3. ASSUME NEW n \in Waiting(p, j)'
        PROVE  n \in Nat /\ n + 1 \in Waiting(p, j) /\ n + 1 # 1 /\ queue'[p][n] = queue[p][n + 1]
    <2>1. n \in 1..Len(queue'[p]) /\ queue'[p][n] # StopTask /\ queue'[p][n].job = j
      BY DEF Waiting
    <2>2. n \in 1..(Len(queue[p]) - 1) /\ n + 1 \in 1..Len(queue[p]) /\ n + 1 # 1
      BY <1>1, <2>1
    <2> QED
      BY <1>1, <2>1, <2>2 DEF Waiting
  <1>4. 1 \in Waiting(p, j) <=> Head(queue[p]) # StopTask /\ Head(queue[p]).job = j
    BY <1>1 DEF Waiting
  <1> QED
    BY <1>2, <1>3, <1>4

\* With respect to j nothing happens at p.
Stays(p, j) ==
  /\ Has(p, j)' <=> Has(p, j)
  /\ Once(p, j) => Once(p, j)'
  /\ Placed(p, j) => Placed(p, j)'

LEMMA HeldKept ==
  ASSUME NEW j, RelayHeld(j), \A p \in Threads : Stays(p, j),
         relay'[j].origin = relay[j].origin,
         state'[j] = "lost" <=> state[j] = "lost"
  PROVE  RelayHeld(j)'
  BY DEF RelayHeld, Stays

\* After a step q alone has j, or nobody does.
LEMMA HeldBy ==
  ASSUME NEW j, NEW q \in Threads, Has(q, j)', Once(q, j)', Placed(q, j)',
         \A p \in Threads \ {q} : ~Has(p, j)',
         relay'[j].origin # Nobody, state'[j] # "lost"
  PROVE  RelayHeld(j)'
  <1>1. \A p \in Threads : Once(p, j)' /\ Placed(p, j)'
    BY DEF Has, Once, Placed
  <1> QED
    BY <1>1 DEF RelayHeld

LEMMA HeldByNone ==
  ASSUME NEW j, \A p \in Threads : ~Has(p, j)',
         relay'[j].origin = Nobody \/ state'[j] = "lost"
  PROVE  RelayHeld(j)'
  <1>1. \A p \in Threads : Once(p, j)' /\ Placed(p, j)'
    BY DEF Has, Once, Placed
  <1> QED
    BY <1>1 DEF RelayHeld

\* Who is posting j has no relay of it yet, and nobody else has one.
LEMMA AsksNone ==
  ASSUME NEW j, RelayHeld(j), RelayMade(j), NEW t \in Threads, Asks(t, j)
  PROVE  /\ relay[j].origin = Nobody /\ state[j] \notin {"new", "lost"}
         /\ \A p \in Threads : ~Has(p, j)
         /\ \A p \in Threads \ {t} : ~Asks(p, j)
  BY DEF RelayHeld, RelayMade

\* Who has j is alone, and knows where it was made.
LEMMA HasAlone ==
  ASSUME PostInv, NEW j \in Awaits, RelayHeld(j), RelayMade(j), NEW t \in Threads, Has(t, j)
  PROVE  /\ relay[j].origin \in Threads /\ state[j] \notin {"new", "lost"}
         /\ \A p \in Threads \ {t} : ~Has(p, j)
         /\ \A p \in Threads : ~Asks(p, j)
         /\ Once(t, j) /\ Placed(t, j)
  BY DEF RelayHeld, RelayMade, PostInv, PlainOK

\* The task that p executes is none of the relay of j.
Aside(p, j) == ~Runs(p, j) /\ ~Runs(p, j)'

\* What waits at p for j is where it was.
WaitStays(p, j) ==
  Waiting(p, j)' = Waiting(p, j) /\ \A n \in Waiting(p, j) : queue'[p][n] = queue[p][n]

LEMMA WaitKept ==
  ASSUME PostInv, NEW p \in Threads, NEW j, NEW x,
         \/ queue'[p] = queue[p]
         \/ queue'[p] = Append(queue[p], x) /\ (x = StopTask \/ x.job # j)
  PROVE  WaitStays(p, j)
  <1>1. queue[p] \in Seq(Queued)
    BY Held
  <1>2. CASE queue'[p] = queue[p]
    BY <1>2 DEF Waiting, WaitStays
  <1>3. CASE queue'[p] = Append(queue[p], x) /\ (x = StopTask \/ x.job # j)
    <2>1. Waiting(p, j)' = Waiting(p, j)
      BY ONLY <1>1, <1>3, WaitingAppend
    <2>2. \A n \in Waiting(p, j) : queue'[p][n] = queue[p][n]
      BY ONLY <1>1, <1>3, WaitingAppend
    <2> QED
      BY <2>1, <2>2 DEF WaitStays
  <1> QED
    BY <1>2, <1>3

LEMMA QueueStays ==
  ASSUME NEW p \in Threads, NEW j \in Awaits, WaitStays(p, j),
         running'[p] = running[p] \/ Aside(p, j),
         relay'[j].origin = relay[j].origin, relay'[j].task => relay[j].task
  PROVE  Stays(p, j)
  <1>2. /\ Waiting(p, j)' = Waiting(p, j)
        /\ \A n \in Waiting(p, j) : queue'[p][n] = queue[p][n]
    BY DEF WaitStays
  <1>3. Runs(p, j)' <=> Runs(p, j)
    BY DEF Aside, Runs
  <1>4. Runs(p, j) => running'[p] = running[p]
    BY DEF Aside
  <1>5. Has(p, j)' <=> Has(p, j)
    BY <1>2, <1>3 DEF Has
  <1>6. Once(p, j) => Once(p, j)'
    BY <1>2, <1>3 DEF Once
  <1>7. Placed(p, j) => Placed(p, j)'
    <2> SUFFICES ASSUME Placed(p, j) PROVE Placed(p, j)'
      OBVIOUS
    <2>1. \A n \in Waiting(p, j)' : RightPlace(queue'[p][n].kind, p, relay'[j].origin)
      BY <1>2 DEF Placed
    <2>2. Runs(p, j)' => /\ RightPlace(running'[p].kind, p, relay'[j].origin)
                         /\ running'[p].kind = "reply" => ~relay'[j].task
      BY <1>3, <1>4 DEF Placed
    <2> QED
      BY <2>1, <2>2 DEF Placed, RightPlace
  <1> QED
    BY <1>5, <1>6, <1>7 DEF Stays

\* A step that makes no relay and loses none.
LEMMA MadeKept ==
  ASSUME PostInv, NEW j \in Awaits, RelayMade(j), \A p \in Threads : Lasting(p),
         relay'[j].origin = relay[j].origin,
         state'[j] = "new" => state[j] = "new", state'[j] = "lost" => state[j] = "lost",
         \A p \in Threads : Asks(p, j)' => Asks(p, j)
  PROVE  RelayMade(j)'
  <1>1. PICK o \in Threads \cup {Nobody} : o = relay[j].origin
    BY DEF PostInv, PlainOK
  <1>2. o # Nobody => life'[o] # "none"
    BY <1>1 DEF RelayMade, Lasting
  <1>3. state'[j] = "lost" => o # Nobody /\ ~LoopAlive(o)'
    BY <1>1 DEF RelayMade, Lasting
  <1>4. state'[j] = "new" => relay'[j].origin = Nobody /\ \A p \in Threads : ~Asks(p, j)'
    BY DEF RelayMade
  <1>5. \A p \in Threads : Asks(p, j)' =>
          relay'[j].origin = Nobody /\ \A q \in Threads \ {p} : ~Asks(q, j)'
    BY DEF RelayMade
  <1> QED
    BY <1>1, <1>2, <1>3, <1>4, <1>5 DEF RelayMade

\* A step that is not about j.
LEMMA RelayAside ==
  ASSUME PostInv, NEW j \in Awaits, RelayHeld(j), RelayMade(j),
         \A p \in Threads : Lasting(p),
         relay'[j] = relay[j], state'[j] = state[j],
         \A p \in Threads :
           /\ WaitStays(p, j)
           /\ running'[p] = running[p] \/ Aside(p, j)
           /\ Asks(p, j)' => Asks(p, j)
  PROVE  RelayHeld(j)' /\ RelayMade(j)'
  <1>1. \A p \in Threads : Stays(p, j)
    BY QueueStays
  <1>2. RelayHeld(j)'
    BY <1>1, HeldKept
  <1>3. RelayMade(j)'
    BY MadeKept
  <1> QED
    BY <1>2, <1>3

Relays == \A j \in Awaits : RelayHeld(j) /\ RelayMade(j)

\* Lives pass, and nothing else of concern.
LEMMA RelayLife ==
  ASSUME PostInv, Relays, \A p \in Threads : Lasting(p),
         UNCHANGED <<queue, running, call, relay, state>>
  PROVE  Relays'
  <1>1. ASSUME NEW j \in Awaits PROVE RelayHeld(j)' /\ RelayMade(j)'
    <2>1. \A p \in Threads : WaitStays(p, j) /\ (Asks(p, j)' => Asks(p, j))
      BY WaitKept DEF Asks
    <2> QED
      BY <2>1, RelayAside DEF Relays
  <1> QED
    BY <1>1 DEF Relays

LEMMA RelayStop ==
  ASSUME PostInv, Relays, \A p \in Threads : Lasting(p), PostMessageLoop
  PROVE  Relays'
  <1>1. ASSUME NEW j \in Awaits PROVE RelayHeld(j)' /\ RelayMade(j)'
    <2>1. \A p \in Threads : queue'[p] = queue[p] \/ queue'[p] = Append(queue[p], StopTask)
      BY DEF PostMessageLoop, PostInv, CarriedOK
    <2>2. \A p \in Threads : WaitStays(p, j)
      BY <2>1, WaitKept
    <2>3. UNCHANGED <<running, call, relay, state>>
      BY DEF PostMessageLoop, past
    <2> QED
      BY <2>2, <2>3, RelayAside DEF Relays, Asks
  <1> QED
    BY <1>1 DEF Relays

LEMMA RelayAskHere ==
  ASSUME PostInv, Relays, \A p \in Threads : Lasting(p), NEW t \in Threads, NEW k \in Jobs,
         AskHere(t, k)
  PROVE  Relays'
  <1> DEFINE x == [kind |-> Kind(k), job |-> k, id |-> Nobody,
                   times |-> IF k \in Repeats THEN Times[k] ELSE 0]
  <1>1. /\ k \notin Awaits /\ state' = [state EXCEPT ![k] = "asked"]
        /\ UNCHANGED <<running, call, relay>>
        /\ queue' = queue \/ queue' = [queue EXCEPT ![t] = Append(@, x)]
    BY DEF AskHere
  <1>2. x.job = k
    OBVIOUS
  <1> HIDE DEF x
  <1>3. \A p \in Threads : queue'[p] = queue[p] \/ queue'[p] = Append(queue[p], x)
    BY <1>1 DEF PostInv, CarriedOK
  <1>4. ASSUME NEW j \in Awaits PROVE RelayHeld(j)' /\ RelayMade(j)'
    <2>1. \A p \in Threads : WaitStays(p, j)
      BY <1>1, <1>2, <1>3, WaitKept
    <2>2. state'[j] = state[j]
      BY <1>1 DEF PostInv, PlainOK, Jobs
    <2> QED
      BY <1>1, <2>1, <2>2, RelayAside DEF Relays, Asks
  <1> QED
    BY <1>4 DEF Relays

\* A thread begins or ends a task that is no closure of an await.
LEMMA RelayNot ==
  ASSUME PostInv, Relays, \A p \in Threads : Lasting(p), NEW t \in Threads,
         RunRepeatedly(t) \/ FinishPlain(t) \/ FinishRepeat(t)
  PROVE  Relays'
  <1>1. UNCHANGED <<queue, relay>>
    BY DEF RunRepeatedly, FinishPlain, FinishRepeat, loops
  <1>2. PICK k \in Plain \cup Repeats :
          /\ \E how \in States : state' = [state EXCEPT ![k] = how] \/ state' = state
          /\ running[t] = Idle \/ running[t].job = k
          /\ \E r : /\ running' = running \/ running' = [running EXCEPT ![t] = r]
                    /\ r = Idle \/ r.job = k
          /\ \E c : /\ call' = call \/ call' = [call EXCEPT ![t] = c]
                    /\ c.job = k
    <2>1. CASE RunRepeatedly(t)
      <3>1. PICK x \in delayed[t] :
              /\ \E how \in States : state' = [state EXCEPT ![x.job] = how] \/ state' = state
              /\ \/ running' = running
                 \/ running' = [running EXCEPT ![t] = [kind |-> "repeat", job |-> x.job,
                                                      id |-> x.id, times |-> x.times]]
        BY <2>1 DEF RunRepeatedly, States
      <3> DEFINE r == [kind |-> "repeat", job |-> x.job, id |-> x.id, times |-> x.times]
      <3>2. x.job \in Repeats /\ r.job = x.job
        BY Held DEF Repeated
      <3> HIDE DEF r
      <3>3. running' = running \/ running' = [running EXCEPT ![t] = r]
        BY <3>1 DEF r
      <3>4. call' = call /\ running[t] = Idle
        BY <2>1 DEF RunRepeatedly
      <3> QED
        BY <3>1, <3>2, <3>3, <3>4
    <2>2. CASE FinishPlain(t)
      <3>1. running[t].job \in Plain
        BY <2>2, Held DEF FinishPlain, Executed, Repeated
      <3>2. /\ running' = [running EXCEPT ![t] = Idle] /\ call' = call
            /\ state' = [state EXCEPT ![running[t].job] = "ended"]
        BY <2>2 DEF FinishPlain, Ends
      <3> QED
        BY <3>1, <3>2 DEF States
    <2>3. CASE FinishRepeat(t)
      <3> DEFINE k == running[t].job
                 c == [step |-> "find", job |-> k, id |-> running[t].id,
                       times |-> Left(running[t].times)]
      <3>1. k \in Repeats
        BY <2>3, Held DEF FinishRepeat, Executed, Repeated
      <3>2. /\ running' = [running EXCEPT ![t] = Idle]
            /\ \E how \in States : state' = [state EXCEPT ![k] = how]
            /\ call' = call \/ call' = [call EXCEPT ![t] = c]
        BY <2>3 DEF FinishRepeat, Ends, States
      <3>3. c.job = k
        OBVIOUS
      <3> HIDE DEF c
      <3> QED
        BY <3>1, <3>2, <3>3
    <2> QED
      BY <2>1, <2>2, <2>3
  <1>3. ASSUME NEW j \in Awaits PROVE RelayHeld(j)' /\ RelayMade(j)'
    <2>1. j # k /\ k \in Jobs
      BY ManagerAssumption DEF Jobs
    <2>2. \A p \in Threads : WaitStays(p, j)
      BY <1>1, WaitKept
    <2>3. state'[j] = state[j]
      BY <1>2, <2>1 DEF PostInv, PlainOK, Jobs
    <2>4. \A p \in Threads : running'[p] = running[p] \/ Aside(p, j)
      BY <1>2, <2>1 DEF Aside, Runs, PostInv, CarriedOK
    <2>5. \A p \in Threads : Asks(p, j)' => Asks(p, j)
      BY <1>2, <2>1 DEF Asks, PostInv, CarriedOK
    <2> QED
      BY <1>1, <2>2, <2>3, <2>4, <2>5, RelayAside DEF Relays
  <1> QED
    BY <1>3 DEF Relays

\* An await begins with a post by identifier, by one thread.
LEMMA RelayAsk ==
  ASSUME PostInv, Relays, \A p \in Threads : Lasting(p),
         NEW t \in Threads, NEW k \in Jobs, NEW i \in Ids, Ask(t, k, i)
  PROVE  Relays'
  <1> DEFINE c == [step |-> "find", job |-> k, id |-> i,
                   times |-> IF k \in Repeats THEN Times[k] ELSE 0]
  <1>1. /\ call' = [call EXCEPT ![t] = c] /\ state[k] = "new"
        /\ state' = [state EXCEPT ![k] = "asking"] /\ UNCHANGED <<queue, running, relay>>
    BY DEF Ask, loops
  <1>2. c.job = k
    OBVIOUS
  <1> HIDE DEF c
  <1>3. ASSUME NEW j \in Awaits PROVE RelayHeld(j)' /\ RelayMade(j)'
    <2>1. \A p \in Threads : WaitStays(p, j)
      BY <1>1, WaitKept
    <2>2. \A p \in Threads : Asks(p, j)' => Asks(p, j) \/ (p = t /\ j = k)
      BY <1>1, <1>2 DEF Asks, PostInv, CarriedOK
    <2>3. state'[j] = IF j = k THEN "asking" ELSE state[j]
      BY <1>1 DEF PostInv, PlainOK, Jobs
    <2>4. CASE j # k
      BY <1>1, <2>1, <2>2, <2>3, <2>4, RelayAside DEF Relays
    <2>5. CASE j = k
      <3>1. RelayHeld(j)'
        <4>1. \A p \in Threads : Stays(p, j)
          BY <1>1, <2>1, QueueStays
        <4> QED
          BY <1>1, <2>3, <2>5, <4>1, HeldKept DEF Relays
      <3>2. relay'[j].origin = Nobody /\ \A p \in Threads : ~Asks(p, j)
        BY <1>1, <2>5 DEF Relays, RelayMade
      <3>3. RelayMade(j)'
        BY <2>2, <2>3, <2>5, <3>2 DEF RelayMade
      <3> QED
        BY <3>1, <3>3
    <2> QED
      BY <2>4, <2>5
  <1> QED
    BY <1>3 DEF Relays

\* The lookup goes on with the post, or gives it up.
LEMMA RelayLookup ==
  ASSUME PostInv, Relays, \A p \in Threads : Lasting(p), NEW t \in Threads,
         \/ FindThread(t) \/ GetMessageLoop(t)
         \/ PostThroughProxy(t) /\ UNCHANGED <<relay, queue>>
  PROVE  Relays'
  <1>1. PICK k \in Jobs : k = call[t].job /\ Asks(t, k)
    BY Held DEF FindThread, GetMessageLoop, PostThroughProxy, NoCall, Looking, Found, Asks
  <1>2. /\ UNCHANGED <<queue, running, relay>>
        /\ \E c : call' = [call EXCEPT ![t] = c] /\ (c = NoCall \/ c.job = k)
        /\ \E how \in {"refused", "asked"} : state' = state \/ state' = [state EXCEPT ![k] = how]
    <2>1. CASE FindThread(t)
      <3>1. CASE Refuse(t)
        BY <1>1, <2>1, <3>1 DEF FindThread, Refuse, loops
      <3> DEFINE c == [step |-> "thread", job |-> call[t].job, id |-> call[t].id,
                       times |-> call[t].times, to |-> threads[call[t].id]]
      <3>2. CASE ~Refuse(t)
        <4>1. call' = [call EXCEPT ![t] = c] /\ state' = state
          BY <2>1, <3>2 DEF FindThread
        <4>2. c.job = k
          BY <1>1
        <4> HIDE DEF c
        <4> QED
          BY <2>1, <4>1, <4>2 DEF FindThread, loops
      <3> QED
        BY <3>1, <3>2
    <2>2. CASE GetMessageLoop(t)
      <3>1. CASE Refuse(t)
        BY <1>1, <2>2, <3>1 DEF GetMessageLoop, Refuse, loops
      <3>2. ASSUME NEW s, call' = [call EXCEPT ![t].step = s], state' = state
            PROVE  \E c : call' = [call EXCEPT ![t] = c] /\ (c = NoCall \/ c.job = k)
        <4> DEFINE c == [call[t] EXCEPT !.step = s]
        <4>1. call[t] \in Looking \cup Found
          BY <1>1, Held DEF Asks
        <4>2. c.job = k /\ call' = [call EXCEPT ![t] = c]
          BY <1>1, <3>2, <4>1 DEF Looking, Found
        <4> HIDE DEF c
        <4> QED
          BY <4>2
      <3> QED
        BY <2>2, <3>1, <3>2 DEF GetMessageLoop, loops
    <2>3. CASE PostThroughProxy(t) /\ UNCHANGED <<relay, queue>>
      BY <1>1, <2>3 DEF PostThroughProxy, Refuse
    <2> QED
      BY <2>1, <2>2, <2>3
  <1>3. ASSUME NEW j \in Awaits PROVE RelayHeld(j)' /\ RelayMade(j)'
    <2>1. \A p \in Threads : WaitStays(p, j) /\ Stays(p, j)
      BY <1>2, WaitKept, QueueStays
    <2>2. \A p \in Threads : Asks(p, j)' => Asks(p, j)
      BY <1>1, <1>2 DEF Asks, PostInv, CarriedOK
    <2>3. state'[j] = state[j] \/ (j = k /\ state'[j] \in {"refused", "asked"})
      BY <1>2 DEF PostInv, PlainOK, Jobs
    <2>4. j = k => state[j] \notin {"new", "lost"}
      BY <1>1, AsksNone DEF Relays
    <2>5. RelayHeld(j)'
      BY <1>2, <2>1, <2>3, <2>4, HeldKept DEF Relays
    <2>6. RelayMade(j)'
      BY <1>2, <2>2, <2>3, <2>4, MadeKept DEF Relays
    <2> QED
      BY <2>5, <2>6
  <1> QED
    BY <1>3 DEF Relays

\* PostTaskAndReply makes the relay and hands it to the loop it was looked up for.
LEMMA RelayPost ==
  ASSUME PostInv, Relays, \A p \in Threads : Lasting(p), NEW t \in Threads,
         PostThroughProxy(t)
  PROVE  Relays'
  <1>1. CASE UNCHANGED <<relay, queue>>
    BY <1>1, RelayLookup
  <1>2. CASE ~UNCHANGED <<relay, queue>>
    <2>1. PICK k, q : k = call[t].job /\ q = call[t].to
      OBVIOUS
    <2> DEFINE x == [kind |-> Kind(k), job |-> k, id |-> call[t].id, times |-> call[t].times]
    <2>2. call[t] \in Found /\ call[t] # NoCall
      BY Held DEF PostThroughProxy, Looking, NoCall
    <2>3. /\ LoopAlive(q) /\ call' = [call EXCEPT ![t] = NoCall]
          /\ state' = [state EXCEPT ![k] = "asked"] /\ UNCHANGED <<life, running>>
          /\ relay' = [r \in Awaits |->
                         IF r = k THEN [origin |-> t, task |-> TRUE] ELSE relay[r]]
          /\ IF k \in Repeats THEN UNCHANGED queue
                              ELSE queue' = [queue EXCEPT ![q] = Append(@, x)]
      BY <1>2, <2>1 DEF PostThroughProxy, Refuse
    <2>4. k \in Jobs /\ q \in Threads /\ Asks(t, k)
      BY <2>1, <2>2 DEF Found, Asks
    <2>5. x.job = k /\ x # StopTask /\ (k \in Awaits => x.kind = "run")
      BY DEF Kind, StopTask
    <2>6. t = Main \/ q \in {t, Main}
      BY <2>1, <2>2 DEF PostInv, ReachOK, CallReach
    <2>7. life[t] = "work"
      BY <2>2 DEF PostInv, AliveOK
    <2> HIDE DEF x
    <2>8. \A p \in Threads : /\ p = t => call'[p] = NoCall
                             /\ p # t => call'[p] = call[p]
                             /\ p # q \/ k \in Repeats => queue'[p] = queue[p]
      BY <2>3 DEF PostInv, CarriedOK
    <2>9. ASSUME NEW j \in Awaits PROVE RelayHeld(j)' /\ RelayMade(j)'
      <3>s. state'[j] = IF j = k THEN "asked" ELSE state[j]
        BY <2>3 DEF PostInv, PlainOK, Jobs
      <3>a. \A p \in Threads : Asks(p, j)' => Asks(p, j) /\ p # t
        BY <2>8 DEF Asks
      <3>1. CASE j # k
        <4>1. \A p \in Threads : WaitStays(p, j)
          <5>1. queue' = queue \/ queue' = [queue EXCEPT ![q] = Append(@, x)]
            BY <2>3
          <5>2. \A p \in Threads : queue'[p] = queue[p] \/ queue'[p] = Append(queue[p], x)
            BY <5>1 DEF PostInv, CarriedOK
          <5> QED
            BY <2>5, <3>1, <5>2, WaitKept
        <4>2. relay'[j] = relay[j]
          BY <2>3, <3>1
        <4> QED
          BY <2>3, <3>1, <3>a, <3>s, <4>1, <4>2, RelayAside DEF Relays
      <3>2. CASE j = k
        <4>1. /\ \A p \in Threads : ~Has(p, j)
              /\ \A p \in Threads \ {t} : ~Asks(p, j)
          BY <2>4, <3>2, AsksNone DEF Relays
        <4>2. j \notin Repeats /\ queue'[q] = Append(queue[q], x) /\ queue[q] \in Seq(Queued)
          BY <2>3, <2>4, <3>2, Held, ManagerAssumption DEF PostInv, CarriedOK
        <4>3. relay'[j] = [origin |-> t, task |-> TRUE]
          BY <2>3, <3>2
        <4>4. /\ x # StopTask /\ x.job = j =>
                   Waiting(q, j)' = Waiting(q, j) \cup {Len(queue[q]) + 1}
              /\ queue'[q][Len(queue[q]) + 1] = x
          BY ONLY <4>2, WaitingAppend
        <4>5. Waiting(q, j)' = {Len(queue[q]) + 1}
          BY <2>4, <2>5, <3>2, <4>1, <4>4 DEF Has
        <4>6. \A p \in Threads : ~Runs(p, j)'
          BY <2>3, <4>1 DEF Has, Runs
        <4>7. \A p \in Threads \ {q} : ~Has(p, j)'
          BY <2>8, <4>1, <4>6 DEF Has, Waiting
        <4>8. Has(q, j)' /\ Once(q, j)'
          BY <2>4, <4>5, <4>6 DEF Has, Once
        <4>9. Placed(q, j)'
          BY <2>4, <2>5, <2>6, <3>2, <4>3, <4>4, <4>5, <4>6 DEF Placed, RightPlace
        <4>10. RelayHeld(j)'
          BY <2>4, <3>2, <3>s, <4>3, <4>7, <4>8, <4>9, HeldBy, MainIsThread
        <4>11. RelayMade(j)'
          BY <2>3, <2>7, <3>2, <3>a, <3>s, <4>1, <4>3 DEF RelayMade
        <4> QED
          BY <4>10, <4>11
      <3> QED
        BY <3>1, <3>2
    <2> QED
      BY <2>9 DEF Relays
  <1> QED
    BY <1>1, <1>2

\* The task that t takes from its queue is not of j.
LEMMA ShiftStays ==
  ASSUME PostInv, NEW t \in Threads, NEW j \in Awaits, queue[t] # << >>,
         queue'[t] = Tail(queue[t]), Head(queue[t]) = StopTask \/ Head(queue[t]).job # j,
         running'[t] = running[t] \/ Aside(t, j), relay'[j] = relay[j]
  PROVE  Stays(t, j)
  <1>q. queue[t] \in Seq(Queued) /\ queue[t] # << >> /\ queue'[t] = Tail(queue[t])
    BY Held
  <1>1. /\ \A n \in Waiting(t, j)' :
              n \in Nat /\ n + 1 \in Waiting(t, j) /\ n + 1 # 1 /\ queue'[t][n] = queue[t][n + 1]
        /\ \A n \in Waiting(t, j) : n \in Nat /\ (n = 1 \/ n - 1 \in Waiting(t, j)')
        /\ 1 \in Waiting(t, j) <=> Head(queue[t]) # StopTask /\ Head(queue[t]).job = j
    BY ONLY <1>q, WaitingTail
  <1>2. 1 \notin Waiting(t, j)
    BY <1>1
  <1>3. Waiting(t, j)' = {} <=> Waiting(t, j) = {}
    BY <1>1, <1>2
  <1>4. Runs(t, j)' <=> Runs(t, j)
    BY DEF Aside, Runs
  <1>5. Has(t, j)' <=> Has(t, j)
    BY <1>3, <1>4 DEF Has
  <1>6. Once(t, j) => Once(t, j)'
    <2> SUFFICES ASSUME Once(t, j) PROVE Once(t, j)'
      OBVIOUS
    <2>1. ASSUME NEW m \in Waiting(t, j)', NEW n \in Waiting(t, j)' PROVE m = n
      <3>1. m \in Nat /\ n \in Nat /\ m + 1 = n + 1
        BY <1>1, <2>1 DEF Once
      <3> QED
        BY <3>1
    <2>2. Runs(t, j)' => Waiting(t, j)' = {}
      BY <1>3, <1>4 DEF Once
    <2> QED
      BY <2>1, <2>2 DEF Once
  <1>7. Placed(t, j) => Placed(t, j)'
    <2> SUFFICES ASSUME Placed(t, j) PROVE Placed(t, j)'
      OBVIOUS
    <2>1. \A n \in Waiting(t, j)' : RightPlace(queue'[t][n].kind, t, relay'[j].origin)
      BY <1>1 DEF Placed
    <2>2. Runs(t, j)' => /\ RightPlace(running'[t].kind, t, relay'[j].origin)
                         /\ running'[t].kind = "reply" => ~relay'[j].task
      BY <1>4 DEF Placed, Aside
    <2> QED
      BY <2>1, <2>2 DEF Placed, RightPlace
  <1> QED
    BY <1>5, <1>6, <1>7 DEF Stays

LEMMA RelayRun ==
  ASSUME PostInv, Relays, \A p \in Threads : Lasting(p), NEW t \in Threads, RunNext(t)
  PROVE  Relays'
  <1>1. PICK x : x = Head(queue[t])
    OBVIOUS
  <1> DEFINE r == [kind |-> x.kind, job |-> x.job]
  <1>2. /\ running[t] = Idle /\ queue[t] # << >> /\ queue' = [queue EXCEPT ![t] = Tail(@)]
        /\ UNCHANGED <<call, state>>
        /\ \/ x = StopTask /\ UNCHANGED <<running, relay>>
           \/ /\ x # StopTask /\ running' = [running EXCEPT ![t] = r]
              /\ relay' = [i \in Awaits |-> IF x.kind = "reply" /\ i = x.job
                             THEN [relay[i] EXCEPT !.task = FALSE] ELSE relay[i]]
    BY <1>1 DEF RunNext
  <1>3. queue[t] \in Seq(Queued) /\ x \in Queued
    BY <1>1, <1>2, Held, Rest
  <1>4. r.job = x.job /\ r.kind = x.kind /\ (x # StopTask => x.kind # "none")
    BY <1>3 DEF Queued, Single, Relayed
  <1>5. r # Idle \/ x = StopTask
    BY <1>4 DEF Idle
  <1> HIDE DEF r
  <1>6. /\ queue'[t] = Tail(queue[t])
        /\ \A p \in Threads \ {t} : queue'[p] = queue[p] /\ running'[p] = running[p]
        /\ running'[t] = Idle \/ (x # StopTask /\ running'[t] = r)
    BY <1>2 DEF PostInv, CarriedOK
  <1>7. ASSUME NEW j \in Awaits PROVE RelayHeld(j)' /\ RelayMade(j)'
    <2>1. relay'[j].origin = relay[j].origin /\ (relay'[j].task => relay[j].task)
      BY <1>2 DEF PostInv, PlainOK
    <2>2. \A p \in Threads \ {t} : WaitStays(p, j) /\ Stays(p, j)
      BY <1>6, <2>1, WaitKept, QueueStays
    <2>3. RelayMade(j)'
      BY <1>2, <2>1, MadeKept DEF Relays, Asks
    <2>4. RelayHeld(j)'
      <3>1. CASE x = StopTask \/ x.job # j
        <4>1. running'[t] = running[t] \/ Aside(t, j)
          BY <1>2, <1>4, <1>6, <3>1 DEF Aside, Runs
        <4>2. relay'[j] = relay[j]
          BY <1>2, <3>1
        <4>3. Stays(t, j)
          BY <1>1, <1>2, <1>6, <3>1, <4>1, <4>2, ShiftStays
        <4> QED
          BY <1>2, <2>1, <2>2, <4>3, HeldKept DEF Relays
      <3>2. CASE x # StopTask /\ x.job = j
        <4>1. /\ \A n \in Waiting(t, j)' : n \in Nat /\ n + 1 \in Waiting(t, j) /\ n + 1 # 1
              /\ 1 \in Waiting(t, j)
          BY ONLY <1>1, <1>2, <1>3, <1>6, <3>2, WaitingTail
        <4>2. /\ Has(t, j) /\ Once(t, j) /\ Placed(t, j)
              /\ relay[j].origin \in Threads /\ state[j] \notin {"new", "lost"}
              /\ \A p \in Threads \ {t} : ~Has(p, j)
          BY <4>1, HasAlone DEF Relays, Has
        <4>3. Waiting(t, j)' = {}
          BY <4>1, <4>2 DEF Once
        <4>4. Runs(t, j)' /\ running'[t] = r
          BY <1>2, <1>4, <1>5, <3>2 DEF Runs, PostInv, CarriedOK
        <4>5. Placed(t, j)'
          <5>1. queue[t][1] = x
            BY <1>1, <1>2, <1>3, Rest
          <5>2. RightPlace(x.kind, t, relay'[j].origin)
            BY <2>1, <4>1, <4>2, <5>1 DEF Placed, RightPlace
          <5>3. x.kind = "reply" => ~relay'[j].task
            BY <1>2, <3>2 DEF PostInv, PlainOK
          <5> QED
            BY <1>4, <4>3, <4>4, <5>2, <5>3 DEF Placed, RightPlace
        <4>6. Has(t, j)' /\ Once(t, j)'
          BY <4>3, <4>4 DEF Has, Once
        <4>7. \A p \in Threads \ {t} : ~Has(p, j)'
          BY <2>2, <4>2 DEF Stays
        <4>8. relay'[j].origin # Nobody /\ state'[j] # "lost"
          BY <1>2, <2>1, <4>2, MainIsThread
        <4> QED
          BY <4>5, <4>6, <4>7, <4>8, HeldBy
      <3> QED
        BY <3>1, <3>2
    <2> QED
      BY <2>3, <2>4
  <1> QED
    BY <1>7 DEF Relays

\* The task of an await has returned: its reply goes home, or is lost.
LEMMA RelayFinishRun ==
  ASSUME PostInv, Relays, \A p \in Threads : Lasting(p), NEW t \in Threads, FinishRun(t)
  PROVE  Relays'
  <1>1. PICK k \in Awaits : k = running[t].job
    BY Held DEF FinishRun, Executed, Repeated
  <1>2. PICK o : o = relay[k].origin
    OBVIOUS
  <1> DEFINE x == [kind |-> "reply", job |-> k, id |-> Nobody, times |-> 0]
  <1>3. /\ running' = [running EXCEPT ![t] = Idle] /\ UNCHANGED <<call, relay>>
        /\ \/ /\ LoopAlive(o) /\ queue' = [queue EXCEPT ![o] = Append(@, x)]
              /\ state' = [state EXCEPT ![k] = "answered"]
           \/ ~LoopAlive(o) /\ UNCHANGED queue /\ state' = [state EXCEPT ![k] = "lost"]
    BY <1>1, <1>2 DEF FinishRun, Ends
  <1>4. Runs(t, k) /\ Has(t, k)
    BY <1>1 DEF FinishRun, Runs, Has
  <1>5. /\ o \in Threads /\ state[k] \notin {"new", "lost"}
        /\ \A p \in Threads \ {t} : ~Has(p, k)
        /\ \A p \in Threads : ~Asks(p, k) /\ Waiting(p, k) = {}
        /\ \A p \in Threads : ~Runs(p, k) \/ p = t
    BY <1>2, <1>4, HasAlone DEF Relays, Has, Once
  <1>6. x.job = k /\ x # StopTask /\ x.kind = "reply"
    BY DEF StopTask
  <1> HIDE DEF x
  <1>7. \A p \in Threads : running'[p] = IF p = t THEN Idle ELSE running[p]
    BY <1>3 DEF PostInv, CarriedOK
  <1>8. \A j \in Awaits : ~Runs(t, j) \/ j = k
    BY <1>4 DEF Runs
  <1>9. ASSUME NEW j \in Awaits PROVE RelayHeld(j)' /\ RelayMade(j)'
    <2>1. CASE j # k
      <3>1. \A p \in Threads : WaitStays(p, j)
        <4>1. \A p \in Threads : queue'[p] = queue[p] \/ queue'[p] = Append(queue[p], x)
          BY <1>3 DEF PostInv, CarriedOK
        <4> QED
          BY <1>6, <2>1, <4>1, WaitKept
      <3>2. \A p \in Threads : running'[p] = running[p] \/ Aside(p, j)
        BY <1>7, <1>8, <2>1 DEF Aside, Runs
      <3>3. state'[j] = state[j]
        BY <1>3, <2>1 DEF PostInv, PlainOK, Jobs
      <3> QED
        BY <1>3, <3>1, <3>2, <3>3, RelayAside DEF Relays, Asks
    <2>2. CASE j = k
      <3>1. \A p \in Threads : ~Runs(p, j)' /\ ~Asks(p, j)'
        BY <1>3, <1>5, <1>7, <2>2 DEF Runs, Asks
      <3>2. life'[o] # "none" /\ (~LoopAlive(o) => ~LoopAlive(o)')
        BY <1>2, <1>5, MainIsThread DEF Relays, RelayMade, Lasting
      <3>3. CASE LoopAlive(o) /\ queue' = [queue EXCEPT ![o] = Append(@, x)]
                 /\ state' = [state EXCEPT ![k] = "answered"]
        <4>1. state'[j] = "answered"
          BY <2>2, <3>3 DEF PostInv, PlainOK, Jobs
        <4>2. queue[o] \in Seq(Queued) /\ queue'[o] = Append(queue[o], x)
          BY <1>5, <3>3, Held DEF PostInv, CarriedOK
        <4>3. /\ x # StopTask /\ x.job = j =>
                   Waiting(o, j)' = Waiting(o, j) \cup {Len(queue[o]) + 1}
              /\ queue'[o][Len(queue[o]) + 1] = x
          BY ONLY <4>2, WaitingAppend
        <4>4. Waiting(o, j)' = {Len(queue[o]) + 1}
          BY <1>5, <1>6, <2>2, <4>3
        <4>5. \A p \in Threads \ {o} : ~Has(p, j)'
          BY <1>5, <2>2, <3>1, <3>3 DEF Has, Waiting, PostInv, CarriedOK
        <4>6. Has(o, j)' /\ Once(o, j)'
          BY <1>5, <3>1, <4>4 DEF Has, Once
        <4>7. Placed(o, j)'
          BY <1>2, <1>3, <1>5, <1>6, <2>2, <3>1, <4>3, <4>4 DEF Placed, RightPlace
        <4>8. RelayHeld(j)'
          BY <1>2, <1>3, <1>5, <2>2, <4>1, <4>5, <4>6, <4>7, HeldBy, MainIsThread
        <4>9. RelayMade(j)'
          BY <1>2, <1>3, <2>2, <3>1, <3>2, <4>1 DEF RelayMade
        <4> QED
          BY <4>8, <4>9
      <3>4. CASE ~LoopAlive(o) /\ UNCHANGED queue /\ state' = [state EXCEPT ![k] = "lost"]
        <4>1. state'[j] = "lost"
          BY <2>2, <3>4 DEF PostInv, PlainOK, Jobs
        <4>2. \A p \in Threads : ~Has(p, j)'
          BY <1>5, <2>2, <3>1, <3>4 DEF Has, Waiting
        <4>3. RelayHeld(j)'
          BY <4>1, <4>2, HeldByNone
        <4>4. RelayMade(j)'
          BY <1>2, <1>3, <1>5, <2>2, <3>1, <3>2, <3>4, <4>1, MainIsThread DEF RelayMade
        <4> QED
          BY <4>3, <4>4
      <3> QED
        BY <1>3, <3>3, <3>4
    <2> QED
      BY <2>1, <2>2
  <1> QED
    BY <1>9 DEF Relays

\* The reply has run, and the relay deletes itself.
LEMMA RelayFinishReply ==
  ASSUME PostInv, Relays, \A p \in Threads : Lasting(p), NEW t \in Threads, FinishReply(t)
  PROVE  Relays'
  <1>1. PICK k \in Awaits : k = running[t].job
    BY Held DEF FinishReply, Executed, Repeated
  <1>2. /\ running' = [running EXCEPT ![t] = Idle] /\ UNCHANGED <<queue, call>>
        /\ state' = [state EXCEPT ![k] = "replied"]
        /\ relay' = [relay EXCEPT ![k] = [origin |-> Nobody, task |-> FALSE]]
    BY <1>1 DEF FinishReply, Ends, loops
  <1>3. Runs(t, k) /\ Has(t, k) /\ \A j \in Awaits : ~Runs(t, j) \/ j = k
    BY <1>1 DEF FinishReply, Runs, Has
  <1>4. /\ state[k] \notin {"new", "lost"}
        /\ \A p \in Threads : ~Asks(p, k) /\ Waiting(p, k) = {}
        /\ \A p \in Threads : ~Runs(p, k) \/ p = t
    BY <1>3, HasAlone DEF Relays, Has, Once
  <1>5. \A p \in Threads : running'[p] = IF p = t THEN Idle ELSE running[p]
    BY <1>2 DEF PostInv, CarriedOK
  <1>6. ASSUME NEW j \in Awaits PROVE RelayHeld(j)' /\ RelayMade(j)'
    <2>1. CASE j # k
      <3>1. \A p \in Threads : WaitStays(p, j)
        BY <1>2, WaitKept
      <3>2. \A p \in Threads : running'[p] = running[p] \/ Aside(p, j)
        BY <1>3, <1>5, <2>1 DEF Aside, Runs
      <3>3. state'[j] = state[j] /\ relay'[j] = relay[j]
        BY <1>2, <2>1 DEF PostInv, PlainOK, Jobs
      <3> QED
        BY <1>2, <3>1, <3>2, <3>3, RelayAside DEF Relays, Asks
    <2>2. CASE j = k
      <3>1. relay'[j].origin = Nobody /\ state'[j] = "replied"
        BY <1>2, <2>2 DEF PostInv, PlainOK, Jobs
      <3>2. \A p \in Threads : ~Runs(p, j)' /\ ~Asks(p, j)' /\ ~Has(p, j)'
        BY <1>2, <1>4, <1>5, <2>2 DEF Runs, Asks, Has, Waiting
      <3>3. RelayHeld(j)'
        BY <3>1, <3>2, HeldByNone
      <3>4. RelayMade(j)'
        BY <3>1, <3>2 DEF RelayMade
      <3> QED
        BY <3>3, <3>4
    <2> QED
      BY <2>1, <2>2
  <1> QED
    BY <1>6 DEF Relays

\* The loop of t is deleted, and with it the relays that wait there: they were
\* made by t, or t is the main thread, which outlives the workers.
LEMMA RelayDelete ==
  ASSUME PostInv, RelayInv, \A p \in Threads : Lasting(p), NEW t \in Threads, DeleteLoop(t)
  PROVE  Relays'
  <1> USE DEF RelayInv
  <1>1. CASE UNCHANGED <<queue, state>>
    BY <1>1, RelayLife DEF DeleteLoop, past, Relays
  <1>2. CASE ~UNCHANGED <<queue, state>>
    <2> DEFINE waiting == {queue[t][n] : n \in 1..Len(queue[t])} \cup delayed[t]
               gone == {x.job : x \in waiting \ {StopTask}}
    <2>1. /\ life[t] = "delete" /\ life' = [life EXCEPT ![t] = "clear"]
          /\ state' = [j \in Jobs |-> IF j \in gone THEN "lost" ELSE state[j]]
          /\ queue' = [queue EXCEPT ![t] = << >>] /\ UNCHANGED <<running, call, relay>>
      BY <1>2 DEF DeleteLoop, loops, past
    <2>2. ASSUME NEW j \in Awaits PROVE j \in gone <=> Waiting(t, j) # {}
      <3>1. \A x \in delayed[t] : x.job # j
        BY Held, ManagerAssumption DEF Repeated
      <3>2. (\E x \in waiting \ {StopTask} : x.job = j) <=>
              \E n \in 1..Len(queue[t]) : queue[t][n] # StopTask /\ queue[t][n].job = j
        BY <3>1
      <3> QED
        BY <3>2 DEF Waiting
    <2> HIDE DEF gone, waiting
    <2>3. queue'[t] = << >> /\ \A p \in Threads \ {t} : queue'[p] = queue[p]
      BY <2>1 DEF PostInv, CarriedOK
    <2>4. ASSUME NEW j \in Awaits PROVE RelayHeld(j)' /\ RelayMade(j)'
      <3>1. Waiting(t, j)' = {} /\ \A p \in Threads \ {t} : Waiting(p, j)' = Waiting(p, j)
        BY <2>3, EmptySeq DEF Waiting
      <3>2. CASE Waiting(t, j) = {}
        <4>1. state'[j] = state[j]
          BY <2>1, <2>2, <3>2 DEF Jobs
        <4>2. \A p \in Threads : WaitStays(p, j)
          BY <2>3, <3>1, <3>2 DEF WaitStays
        <4> QED
          BY <2>1, <4>1, <4>2, RelayAside DEF Relays, Asks
      <3>3. CASE Waiting(t, j) # {}
        <4>1. PICK o : o = relay[j].origin
          OBVIOUS
        <4>2. /\ o \in Threads /\ ~Runs(t, j)
              /\ \A p \in Threads \ {t} : ~Has(p, j)
              /\ \A p \in Threads : ~Asks(p, j)
          BY <3>3, <4>1, HasAlone DEF Has, Once
        <4>3. state'[j] = "lost"
          BY <2>1, <2>2, <3>3 DEF Jobs
        <4>4. \A p \in Threads : ~Has(p, j)' /\ ~Asks(p, j)'
          BY <2>1, <3>1, <4>2 DEF Has, Runs, Asks
        <4>5. life[o] # "none"
          BY <4>1, <4>2, MainIsThread DEF RelayMade
        <4>6. ~LoopAlive(o)'
          <5>1. t = Main
            <6>1. queue[t] # << >>
              BY <3>3, EmptySeq DEF Waiting
            <6> QED
              BY <2>1, <6>1 DEF LeftEmpty, Threads
          <5>2. CASE o = Main
            BY <2>1, <5>1, <5>2 DEF LoopAlive, PostInv, RegistryInv, RegistryTypeOK
          <5>3. CASE o # Main
            <6>1. life[o] = "gone"
              BY <2>1, <4>2, <4>5, <5>1, <5>3
              DEF PostInv, RegistryInv, HostInv, Hosting, Threads
            <6>2. life'[o] = "gone"
              BY <2>1, <5>1, <5>3, <6>1 DEF PostInv, RegistryInv, RegistryTypeOK
            <6> QED
              BY <6>2 DEF LoopAlive, HasPointer
          <5> QED
            BY <5>2, <5>3
        <4>7. RelayHeld(j)'
          BY <4>3, <4>4, HeldByNone
        <4>8. life'[o] # "none"
          BY <4>2, <4>5 DEF Lasting
        <4>9. RelayMade(j)'
          BY <2>1, <4>1, <4>2, <4>3, <4>4, <4>6, <4>8, MainIsThread DEF RelayMade
        <4> QED
          BY <4>7, <4>9
      <3> QED
        BY <3>2, <3>3
    <2> QED
      BY <2>4 DEF Relays
  <1> QED
    BY <1>1, <1>2

\* Nobody posts to a worker that has left its loop: the main thread has no
\* worker outside of its loop as long as it posts, another worker only answers.
LEMMA LeftStep ==
  ASSUME PostInv, RelayInv, [Next]_vars PROVE LeftEmpty'
  <1> USE MainIsThread
  <1>t. life \in [Threads -> Lives] /\ queue \in [Threads -> Seq(Queued)]
    BY DEF PostInv, RegistryInv, RegistryTypeOK, CarriedOK
  <1>a. ASSUME UNCHANGED queue,
               \A w \in Workers : life'[w] \in {"cleanup", "unregistering", "delete"} =>
                 life[w] \in {"cleanup", "unregistering", "delete"} \/ queue[w] = << >>
        PROVE  LeftEmpty'
    BY <1>a DEF RelayInv, LeftEmpty
  <1>b. ASSUME NEW t \in Threads, NEW s, life[t] \in Early, UNCHANGED life,
               queue' = queue \/ queue' = [queue EXCEPT ![t] = s]
        PROVE  LeftEmpty'
    BY <1>b, <1>t DEF RelayInv, LeftEmpty, Early
  <1>c. ASSUME NEW s, UNCHANGED life, queue' = [queue EXCEPT ![Main] = s] PROVE LeftEmpty'
    BY <1>c, <1>t DEF RelayInv, LeftEmpty
  <1>w. \A t \in Threads : Active(t) \/ call[t] # NoCall => life[t] = "work"
    BY Held DEF PostInv, AliveOK
  <1>m. life[Main] = "work" => \A w \in Workers : life[w] \in Early
    BY DEF PostInv, StopOK
  <1>1. CASE PreMessageLoop
    BY <1>1, <1>a, <1>t DEF PreMessageLoop, loops
  <1>2. CASE PostMessageLoop
    <2>1. CASE UNCHANGED queue
      BY <1>2, <1>a, <1>t, <2>1 DEF PostMessageLoop
    <2>2. CASE ~UNCHANGED queue
      <3>1. PICK w \in Workers : /\ life[w] = "work" /\ UNCHANGED life
                                 /\ queue' = [queue EXCEPT ![w] = Append(@, StopTask)]
        BY <1>2, <2>2 DEF PostMessageLoop
      <3>2. PICK s : queue' = [queue EXCEPT ![w] = s]
        BY <3>1
      <3>3. w \in Threads /\ life[w] \in Early
        BY <3>1 DEF Early
      <3> QED
        BY <1>b, <3>1, <3>2, <3>3
    <2> QED
      BY <2>1, <2>2
  <1>3. ASSUME NEW t \in Threads, Registers(t) PROVE LeftEmpty'
    <2>1. UNCHANGED queue
      BY <1>3 DEF Registers, loops
    <2>2. CASE RegisterThread(t)
      BY <1>a, <1>t, <2>1, <2>2 DEF RegisterThread
    <2>3. CASE UnregisterThread(t)
      BY <1>a, <1>t, <2>1, <2>3 DEF UnregisterThread
    <2> QED
      BY <1>3, <2>2, <2>3 DEF Registers
  <1>4. ASSUME NEW t \in Threads, LeaveLoop(t) PROVE LeftEmpty'
    BY <1>4, <1>a, <1>t DEF LeaveLoop, loops
  <1>5. ASSUME NEW t \in Threads, DeleteLoop(t) PROVE LeftEmpty'
    BY <1>5, <1>t DEF DeleteLoop, loops, RelayInv, LeftEmpty
  <1>6. ASSUME NEW t \in Threads, FindThread(t) \/ GetMessageLoop(t) PROVE LeftEmpty'
    BY <1>6, <1>a DEF FindThread, GetMessageLoop, loops
  <1>7. ASSUME NEW t \in Threads, PostThroughProxy(t) PROVE LeftEmpty'
    <2>1. call[t] \in Found /\ call[t] # NoCall
      BY <1>7, Held DEF PostThroughProxy, Looking, NoCall
    <2>2. PICK q \in Threads : q = call[t].to
      BY <2>1 DEF Found
    <2>3. life[t] = "work" /\ (t = Main \/ q \in {t, Main})
      BY <1>w, <2>1, <2>2 DEF PostInv, ReachOK, CallReach
    <2>4. UNCHANGED life /\ \E s : queue' = queue \/ queue' = [queue EXCEPT ![q] = s]
      BY <1>7, <2>2 DEF PostThroughProxy
    <2>5. q = Main \/ life[q] \in Early
      BY <1>m, <2>3 DEF Threads, Early
    <2> QED
      BY <1>a, <1>b, <1>c, <2>4, <2>5
  <1>8. ASSUME NEW t \in Threads, RunNext(t) \/ RunRepeatedly(t) PROVE LeftEmpty'
    <2>1. life[t] = "work" /\ UNCHANGED life
      BY <1>8 DEF RunNext, RunRepeatedly
    <2>2. \E s : queue' = queue \/ queue' = [queue EXCEPT ![t] = s]
      BY <1>8 DEF RunNext, RunRepeatedly
    <2> QED
      BY <1>b, <2>1, <2>2 DEF Early
  <1>9. ASSUME NEW t \in Threads, Finish(t) PROVE LeftEmpty'
    <2>1. CASE UNCHANGED <<life, queue>>
      BY <1>a, <2>1
    <2>2. CASE ~UNCHANGED <<life, queue>>
      <3>1. FinishRun(t) /\ UNCHANGED life
        BY <1>9, <2>2 DEF Finish, FinishPlain, FinishRun, FinishReply, FinishRepeat, loops
      <3>2. PICK k \in Awaits : k = running[t].job /\ Runs(t, k)
        BY <3>1, Held DEF FinishRun, Executed, Repeated, Runs
      <3>3. PICK o : o = relay[k].origin
        OBVIOUS
      <3>4. o \in Threads /\ (o = Main \/ t \in {o, Main})
        <4>1. o \in Threads /\ Placed(t, k)
          BY <3>2, <3>3, HasAlone DEF RelayInv, Has
        <4> QED
          BY <3>1, <3>2, <3>3, <4>1 DEF Placed, RightPlace, FinishRun
      <3>5. \E s : queue' = [queue EXCEPT ![o] = s]
        BY <2>2, <3>1, <3>2, <3>3 DEF FinishRun
      <3>6. life[t] = "work"
        BY <1>w, <3>1 DEF FinishRun
      <3>7. o = Main \/ life[o] \in Early
        BY <1>m, <3>4, <3>6 DEF Threads, Early
      <3> QED
        BY <1>b, <1>c, <3>1, <3>4, <3>5, <3>7
    <2> QED
      BY <2>1, <2>2
  <1>10. ASSUME NEW t \in Threads, NEW j \in Jobs, AskHere(t, j) PROVE LeftEmpty'
    <2>1. life[t] = "work" /\ UNCHANGED life
      BY <1>10, <1>w DEF AskHere
    <2>2. \E s : queue' = queue \/ queue' = [queue EXCEPT ![t] = s]
      BY <1>10 DEF AskHere
    <2> QED
      BY <1>b, <2>1, <2>2 DEF Early
  <1>11. ASSUME NEW t \in Threads, NEW j \in Jobs, NEW i \in Ids, Ask(t, j, i) PROVE LeftEmpty'
    BY <1>11, <1>a DEF Ask, loops
  <1>12. ASSUME NEW t \in Threads, NEW j \in Repeats, Cancel(t, j) PROVE LeftEmpty'
    BY <1>12, <1>a DEF Cancel, loops
  <1>13. CASE Quit \/ UNCHANGED vars
    BY <1>13, <1>a DEF Quit, vars, loops
  <1> QED
    BY <1>1, <1>2, <1>3, <1>4, <1>5, <1>6, <1>7, <1>8, <1>9, <1>10, <1>11, <1>12, <1>13
    DEF Next, Work, Choice, Step, Posts

LEMMA RelayStep == PostInv /\ RelayInv /\ [Next]_vars => RelayInv'
  <1> SUFFICES ASSUME PostInv, RelayInv, [Next]_vars PROVE RelayInv'
    OBVIOUS
  <1>l. \A p \in Threads : Lasting(p)
    BY LivesLast
  <1>r. Relays
    BY DEF RelayInv, Relays
  <1> SUFFICES Relays'
    BY LeftStep DEF RelayInv, Relays
  <1>a. ASSUME UNCHANGED <<queue, running, call, relay, state>> PROVE Relays'
    BY <1>a, <1>l, <1>r, RelayLife
  <1>1. CASE PreMessageLoop \/ Quit \/ UNCHANGED vars
    BY <1>1, <1>a DEF PreMessageLoop, Quit, vars, loops, past
  <1>2. CASE PostMessageLoop
    BY <1>2, <1>l, <1>r, RelayStop
  <1>3. ASSUME NEW t \in Threads, Registers(t) \/ LeaveLoop(t) PROVE Relays'
    BY <1>3, <1>a DEF Registers, LeaveLoop, loops, past
  <1>4. ASSUME NEW t \in Threads, DeleteLoop(t) PROVE Relays'
    BY <1>4, <1>l, RelayDelete
  <1>5. ASSUME NEW t \in Threads, Posts(t) PROVE Relays'
    BY <1>5, <1>l, <1>r, RelayLookup, RelayPost DEF Posts
  <1>6. ASSUME NEW t \in Threads, RunNext(t) \/ RunRepeatedly(t) PROVE Relays'
    BY <1>6, <1>l, <1>r, RelayRun, RelayNot
  <1>7. ASSUME NEW t \in Threads, Finish(t) PROVE Relays'
    BY <1>7, <1>l, <1>r, RelayNot, RelayFinishRun, RelayFinishReply DEF Finish
  <1>8. ASSUME NEW t \in Threads, NEW j \in Jobs, AskHere(t, j) PROVE Relays'
    BY <1>8, <1>l, <1>r, RelayAskHere
  <1>9. ASSUME NEW t \in Threads, NEW j \in Jobs, NEW i \in Ids, Ask(t, j, i) PROVE Relays'
    BY <1>9, <1>l, <1>r, RelayAsk
  <1>10. ASSUME NEW t \in Threads, NEW j \in Repeats, Cancel(t, j) PROVE Relays'
    BY <1>10, <1>a DEF Cancel, loops
  <1> QED
    BY <1>1, <1>2, <1>3, <1>4, <1>5, <1>6, <1>7, <1>8, <1>9, <1>10
    DEF Next, Work, Choice, Step

LEMMA RelayAlways == Spec => []RelayInv
  BY RelayInit, RelayStep, PostAlways, PTL DEF Spec

\* At every moment exactly one queue or one thread has the relay of an await that
\* was accepted and has not ended; the reply runs where the relay was made, when
\* the task is released; and a relay is lost only if that loop is gone.
THEOREM RelaysAreOwned == Spec => []RelayOwned
  <1>1. ASSUME PostInv, RelayInv, NEW j \in Awaits
        PROVE  LET o == relay[j].origin
                   waiting == UNION {{p} \X Waiting(p, j) : p \in Threads}
                   holders == {p \in Threads : Runs(p, j)}
               IN /\ Cardinality(waiting) + Cardinality(holders)
                       = (IF o = Nobody \/ state[j] = "lost" THEN 0 ELSE 1)
                  /\ \A x \in waiting : queue[x[1]][x[2]].kind = "reply" => x[1] = o
                  /\ \A p \in holders : running[p].kind = "reply" => p = o /\ ~relay[j].task
                  /\ state[j] = "lost" => ~LoopAlive(o)
    <2> DEFINE o == relay[j].origin
               waiting == UNION {{p} \X Waiting(p, j) : p \in Threads}
               holders == {p \in Threads : Runs(p, j)}
    <2>h. RelayHeld(j) /\ RelayMade(j)
      BY <1>1 DEF RelayInv
    <2>1. \A x : x \in waiting <=> \E p \in Threads : \E n \in Waiting(p, j) : x = <<p, n>>
      OBVIOUS
    <2>2. Cardinality(waiting) + Cardinality(holders)
            = (IF o = Nobody \/ state[j] = "lost" THEN 0 ELSE 1)
      <3> HIDE DEF waiting
      <3>1. CASE o = Nobody \/ state[j] = "lost"
        <4>1. \A p \in Threads : Waiting(p, j) = {} /\ ~Runs(p, j)
          BY <2>h, <3>1 DEF RelayHeld, Has
        <4>2. waiting = {} /\ holders = {}
          BY <2>1, <4>1
        <4>3. Cardinality(waiting) = 0 /\ Cardinality(holders) = 0
          BY <4>2, FS_EmptySet
        <4> QED
          BY <3>1, <4>3
      <3>2. CASE ~(o = Nobody \/ state[j] = "lost")
        <4>1. PICK p \in Threads : Has(p, j)
          BY <2>h, <3>2 DEF RelayHeld
        <4>2. Once(p, j) /\ \A q \in Threads \ {p} : Waiting(q, j) = {} /\ ~Runs(q, j)
          BY <2>h, <4>1 DEF RelayHeld, Has
        <4>3. CASE Runs(p, j)
          <5>1. waiting = {} /\ holders = {p}
            BY <2>1, <4>2, <4>3 DEF Once
          <5>2. Cardinality(waiting) = 0 /\ Cardinality(holders) = 1
            BY <5>1, FS_EmptySet, FS_Singleton
          <5> QED
            BY <3>2, <5>2
        <4>4. CASE ~Runs(p, j)
          <5>1. PICK n : n \in Waiting(p, j)
            BY <4>1, <4>4 DEF Has
          <5>2. waiting = {<<p, n>>} /\ holders = {}
            BY <2>1, <4>2, <4>4, <5>1 DEF Once
          <5>3. Cardinality(waiting) = 1 /\ Cardinality(holders) = 0
            BY <5>2, FS_EmptySet, FS_Singleton
          <5> QED
            BY <3>2, <5>3
        <4> QED
          BY <4>3, <4>4
      <3> QED
        BY <3>1, <3>2
    <2>3. \A x \in waiting : queue[x[1]][x[2]].kind = "reply" => x[1] = o
      <3> HIDE DEF waiting
      <3> SUFFICES ASSUME NEW x \in waiting, queue[x[1]][x[2]].kind = "reply" PROVE x[1] = o
        OBVIOUS
      <3>1. PICK p \in Threads : \E n \in Waiting(p, j) : x = <<p, n>>
        BY <2>1
      <3>2. Placed(p, j)
        BY <2>h DEF RelayHeld
      <3> QED
        BY <3>1, <3>2 DEF Placed, RightPlace
    <2>4. \A p \in holders : running[p].kind = "reply" => p = o /\ ~relay[j].task
      BY <2>h DEF RelayHeld, Placed, RightPlace
    <2>5. state[j] = "lost" => ~LoopAlive(o)
      BY <2>h DEF RelayMade
    <2> QED
      BY <2>2, <2>3, <2>4, <2>5
  <1>2. PostInv /\ RelayInv => RelayOwned
    BY <1>1 DEF RelayOwned
  <1> QED
    BY <1>2, PostAlways, RelayAlways, PTL
=============================================================================
