--------------------------- MODULE UIPumpService ---------------------------
(* UIPump implements TaskService too: the refinement mapping. *)
EXTENDS UIPump

\* How many of the first n frames of a stack are of a kind.
KindCount(s, kind, n) == Cardinality({i \in 1..n : s[i].kind = kind})

\* Frame i of a stack is the task that runs h tasks deep.
Holds(s, i, h) == s[i].kind = "task" /\ KindCount(s, "task", i) = h

Body(s, h) ==
  IF \E i \in 1..Len(s) : Holds(s, i, h)
    THEN s[CHOOSE i \in 1..Len(s) : Holds(s, i, h)].task
    ELSE NoTask

Bodies(s) == [h \in 1..(MaxModals + 1) |-> Body(s, h)]

Service == INSTANCE TaskService WITH
  MaxDepth <- MaxModals + 1,
  Nestable <- [t \in Tasks |-> TRUE],
  Ordinary <- {t \in Tasks : Delay[t] = 0},
  status <- [t \in Tasks |->
    IF t \in started THEN "started" ELSE IF stamp[t] # 0 THEN "accepted" ELSE "new"],
  rank <- stamp,
  count <- posts,
  inside <- Bodies(stack),
  height <- KindCount(stack, "task", Len(stack)),
  open <- TRUE

\* Windows messages, timers and modal loops change when tasks run, and nothing
\* of what is promised to those who post them.
ImplementsTaskService == Service!SSpec
============================================================================
