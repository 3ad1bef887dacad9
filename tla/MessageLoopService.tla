------------------------ MODULE MessageLoopService ------------------------
(* MessageLoop implements TaskService: the refinement mapping. *)
EXTENDS MessageLoop

Status(t) ==
  IF t \in dropped THEN "dropped"
  ELSE IF t \in started THEN "started"
  ELSE IF t \in refused THEN "refused"
  ELSE IF stamp[t] # 0 THEN "accepted" ELSE "new"

\* A level that is not inside a task has not started one of its own yet.
Height == IF depth > 0 /\ Top.pc # "Task" THEN depth - 1 ELSE depth

Service == INSTANCE TaskService WITH
  Ordinary <- {t \in Tasks : Nestable[t] /\ Immediate(t)},
  status <- [t \in Tasks |-> Status(t)],
  rank <- stamp,
  count <- posts,
  inside <- [d \in 1..MaxDepth |-> level[d].task],
  height <- Height,
  open <- (life # "gone")

\* The loop, its pump, its four queues and its destructor do nothing towards
\* those who post that TaskService does not allow.
ImplementsTaskService == Service!SSpec
============================================================================
