--------------------------- MODULE ThreadManager ---------------------------
(***************************************************************************)
(* The threads of a program built on nbase and what they send each other   *)
(* through ThreadManager: the main thread starts its workers before its    *)
(* loop and stops them after it (shared/threads.cpp, MainThread), every    *)
(* thread enters ThreadMap in Init and leaves it in Cleanup, and closures  *)
(* post tasks, tasks with a reply (Await, MessageLoopProxy's               *)
(* PostTaskAndReplyRelay) and repeated tasks to the thread of an           *)
(* identifier.  A post by identifier is a lookup with no lock followed by  *)
(* three dereferences, and each of them is a step here.                    *)
(*                                                                         *)
(* A loop is what MessageLoop and FrameworkThread promise: immediate tasks *)
(* in post order, delayed ones at any time; and what UIPump does for the   *)
(* main thread, which WM_QUIT ends at once.                                *)
(***************************************************************************)
EXTENDS Integers, Sequences, FiniteSets

CONSTANTS
  Main, Workers, \* the threads; Main owns the workers
  Nobody,
  Ids, Id,       \* identifiers, and the one each thread registers under
  Plain,         \* closures posted with PostTask
  Awaits,        \* pairs of closures given to Await
  Repeats,       \* weak callbacks given to PostRepeatedTask
  Times          \* the argument times of each of these

Threads == {Main} \cup Workers
Jobs == Plain \cup Awaits \cup Repeats
Forever == -1    \* TIMES_FOREVER

ASSUME ManagerAssumption ==
  /\ Main \notin Workers /\ Nobody \notin Threads \cup Ids
  /\ Id \in [Threads -> Ids]
  /\ \A w \in Workers : Id[w] # Id[Main]
  /\ Plain \cap Awaits = {} /\ (Plain \cup Awaits) \cap Repeats = {}
  /\ Times \in [Repeats -> Int] /\ \A j \in Repeats : Times[j] >= Forever

VARIABLES
  life,      \* where each thread is between its start and its end
  threads,   \* threads_ of ThreadMap
  changing,  \* the thread that is inserting into threads_ or erasing from it
  managed,   \* the threads whose TLS says they are managed
  joining,   \* the worker whose Stop the main thread is in
  queue,     \* immediate tasks waiting in each loop
  delayed,   \* delayed tasks waiting in each loop
  quit,      \* the threads whose loop was told to quit
  running,   \* the task each thread executes
  call,      \* the post by identifier each thread is in
  relay,     \* origin_loop_ of each await's relay, and whether it holds std_task_
  state,     \* history: how far each job has come
  runs,      \* history: how often each repeated callback was called
  cancelled  \* the repeated callbacks whose weak flag has expired

registry == <<threads, changing, managed>>
loops == <<queue, delayed, quit>>
past == <<relay, state, runs, cancelled>>
vars == <<life, registry, joining, loops, running, call, past>>

Idle == [kind |-> "none"]
NoCall == [step |-> "none"]
StopTask == [kind |-> "stop"]

\* message_loop_ is not NULL, and the loop it points to exists.
HasPointer(p) == life[p] \in {"init", "registering", "starting", "work", "cleanup",
                              "unregistering", "delete", "clear"}
LoopAlive(p) == HasPointer(p) /\ life[p] # "clear"

Init ==
  /\ life = [p \in Threads |-> IF p = Main THEN "init" ELSE "none"]
  /\ threads = [i \in Ids |-> Nobody] /\ changing = Nobody /\ managed = {}
  /\ joining = Nobody
  /\ queue = [p \in Threads |-> << >>] /\ delayed = [p \in Threads |-> {}] /\ quit = {}
  /\ running = [p \in Threads |-> Idle] /\ call = [p \in Threads |-> NoCall]
  /\ relay = [j \in Awaits |-> [origin |-> Nobody, task |-> FALSE]]
  /\ state = [j \in Jobs |-> "new"]
  /\ runs = [j \in Repeats |-> 0] /\ cancelled = {}

----------------------------------------------------------------------------
(* Starting, registering, unregistering and ending a thread *)

\* RegisterThread in Init, under lock_.  An identifier that another thread
\* has taken is refused, and the thread stays unmanaged.
RegisterThread(p) ==
  \/ /\ life[p] = "init" /\ changing = Nobody
     /\ life' = [life EXCEPT ![p] = "registering"]
     /\ changing' = p
     /\ UNCHANGED <<threads, managed>>
  \/ /\ life[p] = "registering"
     /\ life' = [life EXCEPT ![p] = IF p = Main THEN "starting" ELSE "work"]
     /\ changing' = Nobody
     /\ IF threads[Id[p]] \in {Nobody, p}
          THEN /\ threads' = [threads EXCEPT ![Id[p]] = p]
               /\ managed' = managed \cup {p}
          ELSE UNCHANGED <<threads, managed>>

\* Mutant: the test of tls->managed is dropped.
UnregisterAnyone(p) ==
  \/ /\ life[p] = "cleanup" /\ (p = Main => joining = Nobody)
     /\ changing = Nobody
     /\ p = Main => \A w \in Workers : life[w] = "gone"
     /\ life' = [life EXCEPT ![p] = "unregistering"]
     /\ changing' = p
     /\ UNCHANGED <<threads, managed>>
  \/ /\ life[p] = "unregistering"
     /\ life' = [life EXCEPT ![p] = "delete"]
     /\ threads' = [threads EXCEPT ![Id[p]] = Nobody]
     /\ managed' = managed \ {p} /\ changing' = Nobody

\* UnregisterThread in Cleanup; the main thread calls it after PostMessageLoop.
UnregisterThread(p) ==
  \/ /\ life[p] = "cleanup" /\ p \notin managed
     /\ p = Main => \A w \in Workers : life[w] = "gone"
     /\ life' = [life EXCEPT ![p] = "delete"]
     /\ UNCHANGED registry
  \/ /\ life[p] = "cleanup" /\ p \in managed /\ changing = Nobody
     /\ p = Main => \A w \in Workers : life[w] = "gone"
     /\ life' = [life EXCEPT ![p] = "unregistering"]
     /\ changing' = p
     /\ UNCHANGED <<threads, managed>>
  \/ /\ life[p] = "unregistering"
     /\ life' = [life EXCEPT ![p] = "delete"]
     /\ threads' = [threads EXCEPT ![Id[p]] = Nobody]
     /\ managed' = managed \ {p} /\ changing' = Nobody

Registers(p) ==
  /\ RegisterThread(p) \/ UnregisterThread(p)
  /\ UNCHANGED <<joining, loops, running, call, past>>

\* PreMessageLoop: the workers are started one by one, and Start returns only
\* when the worker has done its Init.
PreMessageLoop ==
  /\ life[Main] = "starting"
  /\ \A w \in Workers : life[w] \in {"none", "work"}
  /\ \/ \E w \in Workers : /\ life[w] = "none"
                           /\ life' = [life EXCEPT ![w] = "init"]
     \/ /\ \A w \in Workers : life[w] # "none"
        /\ life' = [life EXCEPT ![Main] = "work"]
  /\ UNCHANGED <<registry, joining, loops, running, call, past>>

\* The user closes the program: PostQuitMessage on the main thread.
Quit ==
  /\ life[Main] = "work" /\ running[Main] = Idle /\ call[Main] = NoCall
  /\ quit' = quit \cup {Main}
  /\ UNCHANGED <<life, registry, joining, queue, delayed, running, call, past>>

\* Run of the loop returns.  A worker's sees quit_received when it finds no
\* immediate task; the main thread's leaves on WM_QUIT, whatever is waiting.
LeaveLoop(p) ==
  /\ life[p] = "work" /\ p \in quit
  /\ running[p] = Idle /\ call[p] = NoCall
  /\ p = Main \/ queue[p] = << >>
  /\ life' = [life EXCEPT ![p] = "cleanup"]
  /\ UNCHANGED <<registry, joining, loops, running, call, past>>

\* Mutant: Stop does not wait for the thread.
PostMessageLoopNoJoin ==
  /\ life[Main] = "cleanup" /\ call[Main] = NoCall
  /\ \E w \in Workers :
       /\ life[w] # "gone" /\ life[w] # "none"
       /\ life' = [life EXCEPT ![w] = "gone"]
  /\ UNCHANGED <<registry, joining, loops, running, call, past>>

\* PostMessageLoop: each worker is told to stop, joined and deleted.
PostMessageLoop ==
  /\ life[Main] = "cleanup"
  /\ \/ \E w \in Workers :
          /\ joining = Nobody /\ life[w] = "work"
          /\ queue' = [queue EXCEPT ![w] = Append(@, StopTask)]
          /\ joining' = w
          /\ UNCHANGED life
     \/ \E w \in Workers :
          /\ joining = w /\ life[w] = "done"
          /\ life' = [life EXCEPT ![w] = "gone"]
          /\ joining' = Nobody
          /\ UNCHANGED queue
  /\ UNCHANGED <<registry, delayed, quit, running, call, past>>

\* ~MessageLoop destroys the waiting closures; a relay among them is only a
\* pointer there, so what it holds is leaked.  Then message_loop_ = NULL.
DeleteLoop(p) ==
  \/ /\ life[p] = "delete"
     /\ life' = [life EXCEPT ![p] = "clear"]
     /\ LET waiting == {queue[p][n] : n \in 1..Len(queue[p])} \cup delayed[p]
            gone == {x.job : x \in waiting \ {StopTask}}
        IN state' = [j \in Jobs |-> IF j \in gone THEN "lost" ELSE state[j]]
     /\ queue' = [queue EXCEPT ![p] = << >>] /\ delayed' = [delayed EXCEPT ![p] = {}]
     /\ UNCHANGED <<registry, joining, quit, running, call, relay, runs, cancelled>>
  \/ /\ life[p] = "clear"
     /\ life' = [life EXCEPT ![p] = "done"]
     /\ UNCHANGED <<registry, joining, loops, running, call, past>>

----------------------------------------------------------------------------
(* Posting by identifier *)

\* p runs code of the application: a closure, or on the main thread a handler
\* of the window system.
Active(p) ==
  /\ call[p] = NoCall
  /\ \/ p = Main /\ life[p] = "work" /\ running[p] = Idle
     \/ running[p] # Idle

\* PostTask, Await or PostRepeatedTask is called.  The main thread may post to
\* anyone, a worker to the main thread (shared/closure.cpp and its callers).
Ask(p, j, i) ==
  /\ Active(p) /\ state[j] = "new"
  /\ p = Main \/ i = Id[Main]
  /\ call' = [call EXCEPT ![p] = [step |-> "find", job |-> j, id |-> i,
                                  times |-> IF j \in Repeats THEN Times[j] ELSE 0]]
  /\ state' = [state EXCEPT ![j] = "asking"]
  /\ UNCHANGED <<life, registry, joining, loops, running, relay, runs, cancelled>>

\* The post comes to nothing; the relay, if it was made, is deleted here.  PostTask
\* and Await return false when GetMessageLoop finds no thread or no loop.  When the
\* proxy refuses, they ignore its result and return true.
Refuse(p) ==
  /\ call' = [call EXCEPT ![p] = NoCall]
  /\ state' = [state EXCEPT ![call[p].job] = "refused"]

\* QueryThreadInternal.  threads_ is read without lock_: while it is being
\* changed the search may miss any entry.
FindThread(p) ==
  /\ call[p].step = "find"
  /\ \/ /\ threads[call[p].id] # Nobody
        /\ call' = [call EXCEPT ![p] = [step |-> "thread", job |-> @.job, id |-> @.id,
                                        times |-> @.times, to |-> threads[@.id]]]
        /\ UNCHANGED state
     \/ /\ threads[call[p].id] = Nobody \/ changing # Nobody
        /\ Refuse(p)
  /\ UNCHANGED <<life, registry, joining, loops, running, relay, runs, cancelled>>

\* thread->message_loop(), then message_loop->message_loop_proxy().
GetMessageLoop(p) ==
  /\ \/ /\ call[p].step = "thread"
        /\ IF HasPointer(call[p].to)
             THEN call' = [call EXCEPT ![p].step = "loop"] /\ UNCHANGED state
             ELSE Refuse(p)
     \/ /\ call[p].step = "loop"
        /\ call' = [call EXCEPT ![p].step = "proxy"]
        /\ UNCHANGED state
  /\ UNCHANGED <<life, registry, joining, loops, running, relay, runs, cancelled>>

Kind(j) == IF j \in Awaits THEN "run" ELSE IF j \in Repeats THEN "repeat" ELSE "task"

\* PostTaskHelper, through the proxy and under its lock; PostTaskAndReply
\* makes the relay first.
PostThroughProxy(p) ==
  /\ call[p].step = "proxy"
  /\ LET j == call[p].job   q == call[p].to
         x == [kind |-> Kind(j), job |-> j, id |-> call[p].id, times |-> call[p].times]
     IN IF LoopAlive(q)
          THEN /\ call' = [call EXCEPT ![p] = NoCall]
               /\ state' = [state EXCEPT ![j] = "asked"]
               /\ relay' = [r \in Awaits |->
                              IF r = j THEN [origin |-> p, task |-> TRUE] ELSE relay[r]]
               /\ IF j \in Repeats
                    THEN delayed' = [delayed EXCEPT ![q] = @ \cup {x}] /\ UNCHANGED queue
                    ELSE queue' = [queue EXCEPT ![q] = Append(@, x)] /\ UNCHANGED delayed
          ELSE Refuse(p) /\ UNCHANGED <<relay, queue, delayed>>
  /\ UNCHANGED <<life, registry, joining, quit, running, runs, cancelled>>

----------------------------------------------------------------------------
(* Running tasks *)

\* The next immediate task: a closure, a relay's Run, or its reply, which
\* releases std_task_ before it is called.
RunNext(p) ==
  /\ life[p] = "work" /\ running[p] = Idle /\ call[p] = NoCall /\ queue[p] # << >>
  /\ LET x == Head(queue[p]) IN
       /\ queue' = [queue EXCEPT ![p] = Tail(@)]
       /\ IF x = StopTask
            THEN quit' = quit \cup {p} /\ UNCHANGED <<running, relay, state>>
            ELSE /\ running' = [running EXCEPT ![p] = [kind |-> x.kind, job |-> x.job]]
                 /\ relay' = [r \in Awaits |-> IF x.kind = "reply" /\ r = x.job
                                THEN [relay[r] EXCEPT !.task = FALSE] ELSE relay[r]]
                 /\ UNCHANGED <<quit, state>>
  /\ UNCHANGED <<life, registry, joining, delayed, call, runs, cancelled>>

Count(j, n) == IF Times[j] > 0 /\ n <= Times[j] THEN n + 1 ELSE n

\* Mutant: the weak flag is not tested.
RunRepeatedlyAnyway(p) ==
  /\ life[p] = "work" /\ running[p] = Idle /\ call[p] = NoCall
  /\ \E x \in delayed[p] :
       /\ delayed' = [delayed EXCEPT ![p] = @ \ {x}]
       /\ running' = [running EXCEPT ![p] = [kind |-> "repeat", job |-> x.job,
                        id |-> x.id, times |-> x.times]]
       /\ runs' = [runs EXCEPT ![x.job] = Count(x.job, @)]
       /\ UNCHANGED state
  /\ UNCHANGED <<life, registry, joining, queue, quit, call, relay, cancelled>>

\* RunRepeatedly and RunRepeatedly2 up to the body of task(), which an expired
\* weak flag prevents.
RunRepeatedly(p) ==
  /\ life[p] = "work" /\ running[p] = Idle /\ call[p] = NoCall
  /\ \E x \in delayed[p] :
       /\ delayed' = [delayed EXCEPT ![p] = @ \ {x}]
       /\ IF x.job \in cancelled
            THEN state' = [state EXCEPT ![x.job] = "ended"] /\ UNCHANGED <<running, runs>>
            ELSE /\ running' = [running EXCEPT ![p] = [kind |-> "repeat", job |-> x.job,
                                  id |-> x.id, times |-> x.times]]
                 /\ runs' = [runs EXCEPT ![x.job] = Count(x.job, @)]
                 /\ UNCHANGED state
  /\ UNCHANGED <<life, registry, joining, queue, quit, call, relay, cancelled>>

\* The posts of ThreadManager without an identifier, to MessageLoop::current().
AskHere(p, j) ==
  /\ Active(p) /\ state[j] = "new" /\ j \notin Awaits
  /\ state' = [state EXCEPT ![j] = "asked"]
  /\ LET x == [kind |-> Kind(j), job |-> j, id |-> Nobody,
               times |-> IF j \in Repeats THEN Times[j] ELSE 0]
     IN IF j \in Repeats
          THEN delayed' = [delayed EXCEPT ![p] = @ \cup {x}] /\ UNCHANGED queue
          ELSE queue' = [queue EXCEPT ![p] = Append(@, x)] /\ UNCHANGED delayed
  /\ UNCHANGED <<life, registry, joining, quit, running, call, relay, runs, cancelled>>

Runs(p, j) == running[p] # Idle /\ running[p].job = j
Asks(p, j) == call[p] # NoCall /\ call[p].job = j

\* WeakCallbackFlag::Cancel, or the end of the object that supports the
\* callback: on the thread that runs it, as the callers do.
Cancel(p, j) ==
  /\ Active(p) /\ state[j] # "new" /\ j \notin cancelled
  /\ \A q \in Threads \ {p} :
       /\ \A x \in delayed[q] : x.job # j
       /\ ~Runs(q, j) /\ ~Asks(q, j)
  /\ cancelled' = cancelled \cup {j}
  /\ UNCHANGED <<life, registry, joining, loops, running, call, relay, state, runs>>

Ends(p, j, how) ==
  /\ running' = [running EXCEPT ![p] = Idle]
  /\ state' = [state EXCEPT ![j] = how]

FinishPlain(p) ==
  /\ Active(p) /\ running[p] # Idle /\ running[p].kind = "task"
  /\ Ends(p, running[p].job, "ended")
  /\ UNCHANGED <<life, registry, joining, loops, call, relay, runs, cancelled>>

\* Mutant: the reply is posted to the loop the task ran on.
FinishRunHere(p) ==
  /\ Active(p) /\ running[p] # Idle /\ running[p].kind = "run"
  /\ queue' = [queue EXCEPT ![p] = Append(@,
       [kind |-> "reply", job |-> running[p].job, id |-> Nobody, times |-> 0])]
  /\ Ends(p, running[p].job, "answered")
  /\ UNCHANGED <<life, registry, joining, delayed, quit, call, relay, runs, cancelled>>

\* Mutant: the reply is never posted.
FinishRunSilently(p) ==
  /\ Active(p) /\ running[p] # Idle /\ running[p].kind = "run"
  /\ Ends(p, running[p].job, "answered")
  /\ UNCHANGED <<life, registry, joining, loops, call, relay, runs, cancelled>>

\* The end of PostTaskAndReplyRelay::Run: the reply goes to the loop the relay
\* was made on; if that is gone the relay is leaked.
FinishRun(p) ==
  /\ Active(p) /\ running[p] # Idle /\ running[p].kind = "run"
  /\ LET j == running[p].job   o == relay[j].origin
     IN IF LoopAlive(o)
          THEN /\ queue' = [queue EXCEPT ![o] = Append(@,
                    [kind |-> "reply", job |-> j, id |-> Nobody, times |-> 0])]
               /\ Ends(p, j, "answered")
          ELSE Ends(p, j, "lost") /\ UNCHANGED queue
  /\ UNCHANGED <<life, registry, joining, delayed, quit, call, relay, runs, cancelled>>

\* The end of RunReplyAndSelfDestruct: the relay deletes itself.
FinishReply(p) ==
  /\ Active(p) /\ running[p] # Idle /\ running[p].kind = "reply"
  /\ LET j == running[p].job
     IN /\ Ends(p, j, "replied")
        /\ relay' = [relay EXCEPT ![j] = [origin |-> Nobody, task |-> FALSE]]
  /\ UNCHANGED <<life, registry, joining, loops, call, runs, cancelled>>

\* What is left of times after a run.
Left(n) == IF n = Forever THEN Forever ELSE n - 1

\* The second half of RunRepeatedly and RunRepeatedly2: an expired callback or
\* the last time ends it; else it is posted again, to this loop or by the
\* identifier, which is looked up anew.
FinishRepeat(p) ==
  /\ Active(p) /\ running[p] # Idle /\ running[p].kind = "repeat"
  /\ LET r == running[p]   n == Left(r.times) IN
       IF r.job \in cancelled \/ n = 0
         THEN Ends(p, r.job, "ended") /\ UNCHANGED <<delayed, call>>
         ELSE IF r.id = Nobody
           THEN /\ delayed' = [delayed EXCEPT ![p] = @ \cup
                     {[kind |-> "repeat", job |-> r.job, id |-> Nobody, times |-> n]}]
                /\ Ends(p, r.job, "asked")
                /\ UNCHANGED call
           ELSE /\ call' = [call EXCEPT ![p] =
                     [step |-> "find", job |-> r.job, id |-> r.id, times |-> n]]
                /\ Ends(p, r.job, "asking")
                /\ UNCHANGED delayed
  /\ UNCHANGED <<life, registry, joining, queue, quit, relay, runs, cancelled>>

----------------------------------------------------------------------------
Posts(p) == FindThread(p) \/ GetMessageLoop(p) \/ PostThroughProxy(p)

Finish(p) == FinishPlain(p) \/ FinishRun(p) \/ FinishReply(p) \/ FinishRepeat(p)

\* What the code does once it was called.
Step(p) ==
  \/ Registers(p) \/ LeaveLoop(p) \/ DeleteLoop(p)
  \/ Posts(p) \/ RunNext(p) \/ RunRepeatedly(p) \/ Finish(p)

Work == PreMessageLoop \/ PostMessageLoop \/ \E p \in Threads : Step(p)

\* What the application may do.
Choice ==
  \/ Quit
  \/ \E p \in Threads :
       \/ \E j \in Jobs : AskHere(p, j) \/ \E i \in Ids : Ask(p, j, i)
       \/ \E j \in Repeats : Cancel(p, j)

Next == Work \/ Choice

Spec == Init /\ [][Next]_vars

\* As long as some thread can go on, one does.  Every thread is in fact
\* scheduled for itself; with finitely many repetitions this much is enough.
Fairness == WF_vars(Work)

FairSpec == Spec /\ Fairness

----------------------------------------------------------------------------
(* Properties *)

Items == [kind : {"task", "run", "reply", "repeat"}, job : Jobs, id : Ids \cup {Nobody},
          times : Int]

\* Every variable keeps its type; only a living loop has tasks, and only a
\* thread in its loop runs one.
TypeOK ==
  /\ life \in [Threads -> {"none", "init", "registering", "starting", "work", "cleanup",
                           "unregistering", "delete", "clear", "done", "gone"}]
  /\ threads \in [Ids -> Threads \cup {Nobody}] /\ changing \in Threads \cup {Nobody}
  /\ managed \subseteq Threads /\ joining \in Workers \cup {Nobody}
  /\ queue \in [Threads -> Seq(Items \cup {StopTask})]
  /\ delayed \in [Threads -> SUBSET Items] /\ quit \subseteq Threads
  /\ \A p \in Threads :
       /\ ~LoopAlive(p) => queue[p] = << >> /\ delayed[p] = {}
       /\ running[p] # Idle \/ call[p] # NoCall => life[p] = "work"
  /\ relay \in [Awaits -> [origin : Threads \cup {Nobody}, task : BOOLEAN]]
  /\ state \in [Jobs -> {"new", "asking", "asked", "answered", "replied", "refused",
                         "ended", "lost"}]
  /\ runs \in [Repeats -> Nat] /\ cancelled \subseteq Repeats

\* ThreadMap has exactly the managed threads, each under its own identifier:
\* one that was refused its identifier does not take away its owner's.
RegistryExact ==
  \A i \in Ids, p \in Threads : threads[i] = p <=> p \in managed /\ Id[p] = i

\* From its start to its end a worker can tell the main thread what it found:
\* that is in ThreadMap, and its loop takes posts.
UIReachable ==
  (\E w \in Workers : HasPointer(w)) => threads[Id[Main]] = Main /\ LoopAlive(Main)

\* The pointers a post carries from one step to the next, with no lock, are
\* still valid when it follows them.
LookupSafe ==
  \A p \in Threads :
    /\ call[p].step = "thread" => life[call[p].to] # "gone"
    /\ call[p].step = "loop" => LoopAlive(call[p].to)

Waiting(p, j) == {n \in 1..Len(queue[p]) : queue[p][n] # StopTask /\ queue[p][n].job = j}
\* A relay has no lock: at every moment exactly one queue or one thread has it,
\* only the thread that made it runs the reply, and std_task_ is released by then
\* (message_loop_proxy.h:76-79); it is leaked only when the loop it came from is
\* gone (message_loop_proxy.h:81-84).
RelayOwned ==
  \A j \in Awaits :
    LET o == relay[j].origin
        waiting == UNION {{p} \X Waiting(p, j) : p \in Threads}
        holders == {p \in Threads : Runs(p, j)}
    IN /\ Cardinality(waiting) + Cardinality(holders)
            = (IF o = Nobody \/ state[j] = "lost" THEN 0 ELSE 1)
       /\ \A x \in waiting : queue[x[1]][x[2]].kind = "reply" => x[1] = o
       /\ \A p \in holders : running[p].kind = "reply" => p = o /\ ~relay[j].task
       /\ state[j] = "lost" => ~LoopAlive(o)

\* A repeated callback is never called once its flag has expired, never more
\* than times, and never while an earlier call of it is still running.
RepeatDiscipline ==
  [][\A p \in Threads, j \in Repeats : ~Runs(p, j) /\ Runs(p, j)' =>
       /\ j \notin cancelled
       /\ Times[j] > 0 => runs[j] < Times[j]
       /\ \A q \in Threads \ {p} : ~Runs(q, j)]_vars

\* An accepted Await ends: the reply runs, or a loop it needed is destroyed.
AwaitEnds == \A j \in Awaits : state[j] = "asked" ~> state[j] \in {"replied", "lost"}

\* QueryThreadInternal is marked "no lock" (thread_manager.cpp:85): its caller
\* has to keep ThreadMap from changing meanwhile.
LookupExcludesChange ==
  [][\A p \in Threads : call[p].step = "find" /\ call[p]' # call[p] => changing = Nobody]_vars
=============================================================================
