---------------------------- MODULE TaskService ----------------------------
(***************************************************************************)
(* What a message loop promises to those who post tasks to it, with no     *)
(* queue, pump, clock or wake-up in sight (the class comments of           *)
(* MessageLoop and MessageLoopProxy).  A post is accepted or refused for   *)
(* good; an accepted task is started at most once, in post order when it   *)
(* is an ordinary one, never inside another task when it is non-nestable;  *)
(* nested tasks end before the task they interrupt; an accepted task that  *)
(* never ran is destroyed with the loop.                                   *)
(***************************************************************************)
EXTENDS Naturals

CONSTANTS Tasks, NoTask, MaxDepth,
          Ordinary,    \* the nestable tasks posted without a delay
          Nestable

VARIABLES
  status,    \* of each task
  rank,      \* position of each accepted post, 0 before it
  count,     \* number of accepted posts
  inside,    \* the task running at each depth
  height,    \* number of tasks on the stack
  open       \* TRUE until the loop is destroyed

svars == <<status, rank, count, inside, height, open>>

SInit ==
  /\ status = [t \in Tasks |-> "new"]
  /\ rank = [t \in Tasks |-> 0] /\ count = 0
  /\ inside = [h \in 1..MaxDepth |-> NoTask] /\ height = 0
  /\ open = TRUE

Accept(t) ==
  /\ open /\ status[t] = "new"
  /\ status' = [status EXCEPT ![t] = "accepted"]
  /\ count' = count + 1
  /\ rank' = [rank EXCEPT ![t] = count + 1]
  /\ UNCHANGED <<inside, height, open>>

Refuse(t) ==
  /\ ~open /\ status[t] = "new"
  /\ status' = [status EXCEPT ![t] = "refused"]
  /\ UNCHANGED <<rank, count, inside, height, open>>

\* t is started h - 1 tasks deep.
Start(t, h) ==
  /\ open /\ status[t] = "accepted"
  /\ h = height + 1
  /\ Nestable[t] \/ height = 0
  /\ t \in Ordinary =>
       ~ \E u \in Ordinary : status[u] = "accepted" /\ rank[u] < rank[t]
  /\ status' = [status EXCEPT ![t] = "started"]
  /\ inside' = [inside EXCEPT ![h] = t]
  /\ height' = h
  /\ UNCHANGED <<rank, count, open>>

Finish ==
  /\ height > 0
  /\ inside' = [inside EXCEPT ![height] = NoTask]
  /\ height' = height - 1
  /\ UNCHANGED <<status, rank, count, open>>

\* The destructor removes some waiting tasks, and at the end all of them.
Discard(closing) ==
  /\ open /\ height = 0
  /\ \E gone \in SUBSET {t \in Tasks : status[t] = "accepted"} :
       /\ closing => gone = {t \in Tasks : status[t] = "accepted"}
       /\ status' = [t \in Tasks |-> IF t \in gone THEN "dropped" ELSE status[t]]
  /\ open' = ~closing
  /\ UNCHANGED <<rank, count, inside, height>>

SNext ==
  \/ \E t \in Tasks : Accept(t) \/ Refuse(t) \/ \E h \in 1..MaxDepth : Start(t, h)
  \/ Finish
  \/ \E closing \in BOOLEAN : Discard(closing)

SSpec == SInit /\ [][SNext]_svars
============================================================================
