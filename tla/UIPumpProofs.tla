--------------------------- MODULE UIPumpProofs ---------------------------
(* Theorems about UIPump, for every value of its constants. *)
EXTENDS UIPumpService, TLAPS, SequenceTheorems, FiniteSetTheorems

(***************************************************************************)
(* The inductive invariant                                                 *)
(***************************************************************************)

\* A frame can only be at the places of its kind.
PlaceOK(f) ==
  /\ f.kind \in {"handler", "modal", "task"} => f.at = "Inside"
  /\ f.kind = "run" => f.at # "Inside"
  /\ f.kind = "work" => f.at \in {"Replace", "DoWork", "Worked"}
  /\ f.kind = "timer" => f.at \in {"Delayed", "AfterDelayed"}

\* One that waits for another has left "Replace"; DoRunLoop does so with
\* more_work_is_plausible set.
LeftOK(f) ==
  f.at # "Replace" /\ (f.kind = "run" => f.more /\ f.at \notin {"Wait", "WaitMessage"})

FrameOK(i) ==
  /\ PlaceOK(stack[i])
  /\ stack[i].kind = "task" => i > 1 /\ stack[i - 1].kind \in {"run", "work", "timer"}
  /\ i < Len(stack) => LeftOK(stack[i])

StackOK == \A i \in 1..Len(stack) : FrameOK(i)

\* A task has been posted before it is in a queue.
QueuesOK ==
  /\ \A i \in 1..Len(incoming) : stamp[incoming[i]] # 0
  /\ \A i \in 1..Len(work) : stamp[work[i]] # 0
  /\ \A t \in delayed : stamp[t] # 0

\* What DoRunLoop knows when it is not inside a message or a task: since DoWork
\* found nothing, a post has announced itself, and the time of the earliest
\* delayed task is noted.
RunOK ==
  In("run") =>
    /\ Top.at = "Worked" => Top.more
    /\ Top.at \in {"Wait", "WaitMessage"} => ~Top.more
    /\ Top.at \in {"Delayed", "AfterDelayed", "Wait", "WaitMessage"} => Top.more \/ Announced
    /\ Top.at \in {"AfterDelayed", "Wait"} =>
         Top.more \/ \A t \in delayed : wakeTime # 0 /\ wakeTime <= due[t]

\* Nested tasks are only forbidden while a task runs, and inside a modal loop
\* only while one runs inside it.
AllowedOK ==
  ~allowed =>
    /\ \E j \in 1..Len(stack) : stack[j].kind = "task"
    /\ \A i \in 1..Len(stack) :
         stack[i].fresh => \E j \in (i + 1)..Len(stack) : stack[j].kind = "task"

\* HandleWorkMessage before its ScheduleWork.
Covers(f) == f.kind = "work" /\ f.at \in {"DoWork", "Worked"}

\* Above a modal loop that owes nobody a kMsgHaveWork, only HandleWorkMessage
\* leaves tasks unannounced, and it will post one; a task of WM_TIMER opens no
\* modal loop there.
FreshOK ==
  \A i \in 1..Len(stack) : stack[i].fresh =>
    /\ stack[i].kind = "modal"
    /\ InRun => Announced \/ \E j \in (i + 1)..Len(stack) : Covers(stack[j])
    /\ \A j \in (i + 1)..(Len(stack) - 1) :
         stack[j].kind = "task" => stack[j - 1].kind # "timer"

PumpInv ==
  /\ TypeOK /\ OneWorkMessage
  /\ StackOK /\ QueuesOK /\ RunOK /\ AllowedOK /\ FreshOK

(***************************************************************************)
(* Frames and the four ways the stack changes                              *)
(***************************************************************************)

Places == {"Message", "Replace", "DoWork", "Worked", "Delayed", "AfterDelayed",
           "Wait", "WaitMessage", "Inside"}
Kinds == {"run", "task", "handler", "modal", "work", "timer"}

LEMMA NewFrameType ==
  ASSUME NEW k \in Kinds, NEW a \in Places, NEW t \in Tasks \cup {NoTask}
  PROVE  /\ NewFrame(k, a, t) \in Frame
         /\ NewFrame(k, a, t).kind = k /\ NewFrame(k, a, t).at = a
         /\ NewFrame(k, a, t).task = t /\ ~NewFrame(k, a, t).fresh
  BY DEF NewFrame, Frame, Kinds, Places

LEMMA FrameTurns ==
  ASSUME NEW f \in Frame, NEW a \in Places
  PROVE  LET g == [f EXCEPT !.at = a]
         IN /\ g \in Frame /\ g.kind = f.kind /\ g.at = a /\ g.task = f.task
            /\ g.more = f.more /\ g.fresh = f.fresh
  BY DEF Frame, Places

LEMMA FrameTurnsWith ==
  ASSUME NEW f \in Frame, NEW a \in Places, NEW m \in BOOLEAN
  PROVE  /\ [f EXCEPT !.at = a, !.more = m] \in Frame
         /\ [f EXCEPT !.at = a, !.more = m].kind = f.kind
         /\ [f EXCEPT !.at = a, !.more = m].at = a
         /\ [f EXCEPT !.at = a, !.more = m].task = f.task
         /\ [f EXCEPT !.at = a, !.more = m].more = m
         /\ [f EXCEPT !.at = a, !.more = m].fresh = f.fresh
  BY DEF Frame, Places

LEMMA FreshFrame ==
  ASSUME NEW f \in Frame, NEW b \in BOOLEAN
  PROVE  LET g == [f EXCEPT !.fresh = b]
         IN /\ g \in Frame /\ g.kind = f.kind /\ g.at = f.at /\ g.task = f.task
            /\ g.more = f.more /\ g.fresh = b
  BY DEF Frame

\* The shape of the stack, as TypeOK has it.
Shape ==
  /\ stack \in Seq(Frame)
  /\ \A i \in 2..Len(stack) : stack[i].kind # "run"
  /\ \A i \in 1..Len(stack) : stack[i].kind \in {"work", "timer", "task"} => InRun

Same(n) == \A i \in 1..n : stack'[i] = stack[i]

Changes(f) ==
  /\ stack # << >> /\ stack' \in Seq(Frame)
  /\ Len(stack') = Len(stack) /\ stack'[Len(stack)] = f /\ Same(Len(stack) - 1)

Pushes(f) ==
  /\ stack' \in Seq(Frame)
  /\ Len(stack') = Len(stack) + 1 /\ stack'[Len(stack) + 1] = f /\ Same(Len(stack))

PushesOn(f, g) ==
  /\ stack # << >> /\ stack' \in Seq(Frame)
  /\ Len(stack') = Len(stack) + 1
  /\ stack'[Len(stack)] = f /\ stack'[Len(stack) + 1] = g
  /\ Same(Len(stack) - 1)

Pops ==
  /\ stack # << >> /\ stack' \in Seq(Frame)
  /\ Len(stack') = Len(stack) - 1 /\ Same(Len(stack) - 1)

LEMMA StackLength ==
  ASSUME stack \in Seq(Frame)
  PROVE  /\ Len(stack) \in Nat
         /\ stack # << >> <=> Len(stack) > 0
         /\ \A i \in 1..Len(stack) : stack[i] \in Frame
         /\ stack # << >> => Top \in Frame
  <1>1. Len(stack) \in Nat /\ (stack # << >> <=> Len(stack) > 0)
    BY LenProperties, EmptySeq
  <1>2. \A i \in 1..Len(stack) : stack[i] \in Frame
    BY ElementOfSeq
  <1> QED
    BY <1>1, <1>2 DEF Top

LEMMA SetTopChanges ==
  ASSUME stack \in Seq(Frame), stack # << >>, NEW f \in Frame, SetTop(f)
  PROVE  Changes(f)
  BY StackLength, LenProperties DEF SetTop, Changes, Same

LEMMA EnterPushes ==
  ASSUME stack \in Seq(Frame), NEW f \in Frame, Enter(f)
  PROVE  Pushes(f)
  BY AppendProperties, StackLength DEF Enter, Pushes, Same

LEMMA EnterFromPushes ==
  ASSUME stack \in Seq(Frame), stack # << >>, NEW f \in Frame, NEW g \in Frame,
         EnterFrom(f, g)
  PROVE  PushesOn(f, g)
  <1> DEFINE s == [stack EXCEPT ![Len(stack)] = f]
  <1>1. /\ s \in Seq(Frame) /\ Len(s) = Len(stack) /\ s[Len(stack)] = f
        /\ \A i \in 1..(Len(stack) - 1) : s[i] = stack[i]
    BY StackLength, LenProperties
  <1>2. stack' = Append(s, g)
    BY DEF EnterFrom
  <1> HIDE DEF s
  <1>3. /\ stack' \in Seq(Frame) /\ Len(stack') = Len(s) + 1
        /\ stack'[Len(s) + 1] = g /\ \A i \in 1..Len(s) : stack'[i] = s[i]
    BY <1>1, <1>2, AppendProperties
  <1> QED
    BY <1>1, <1>3, StackLength DEF PushesOn, Same

LEMMA LeavePops ==
  ASSUME stack \in Seq(Frame), stack # << >>, Leave
  PROVE  Pops
  <1> DEFINE n == Len(stack) - 1
  <1>1. n \in Nat /\ \A i \in 1..n : stack[i] \in Frame
    BY StackLength
  <1>2. stack' = SubSeq(stack, 1, n)
    BY DEF Leave
  <1> HIDE DEF n
  <1>3. /\ SubSeq(stack, 1, n) \in Seq(Frame) /\ Len(SubSeq(stack, 1, n)) = n
        /\ \A i \in 1..n : SubSeq(stack, 1, n)[i] = stack[i]
    <2>1. 1 \in Int /\ n \in Int
      BY <1>1
    <2>2. /\ SubSeq(stack, 1, n) \in Seq(Frame)
          /\ Len(SubSeq(stack, 1, n)) = IF 1 <= n THEN n - 1 + 1 ELSE 0
          /\ \A i \in 1..(n - 1 + 1) : SubSeq(stack, 1, n)[i] = stack[1 + i - 1]
      BY <1>1, <2>1, SubSeqProperties
    <2> QED
      BY <1>1, <2>2
  <1> QED
    BY <1>1, <1>2, <1>3, StackLength DEF Pops, Same, n

(***************************************************************************)
(* What each of the four ways preserves                                    *)
(***************************************************************************)

LEMMA ChangeShape ==
  ASSUME Shape, NEW f \in Frame, Changes(f), f.kind = Top.kind
  PROVE  Shape' /\ (InRun' <=> InRun) /\ Top' = f /\ stack' # << >>
  <1>1. Len(stack) \in Nat \ {0} /\ stack' # << >> /\ Top' = f
    BY StackLength, EmptySeq DEF Shape, Changes, Top
  <1>2. \A i \in 1..Len(stack) : stack'[i].kind = stack[i].kind
    BY <1>1 DEF Changes, Same, Top
  <1>3. (InRun' <=> InRun)
    BY <1>1, <1>2 DEF InRun, Changes
  <1> QED
    BY <1>1, <1>2, <1>3 DEF Shape, Changes

LEMMA ChangeStack ==
  ASSUME Shape, StackOK, NEW f \in Frame, Changes(f), f.kind = Top.kind, PlaceOK(f)
  PROVE  StackOK'
  <1>1. Len(stack) \in Nat \ {0} /\ Len(stack') = Len(stack)
    BY StackLength DEF Shape, Changes
  <1>2. \A i \in 1..Len(stack) : stack'[i].kind = stack[i].kind
    BY <1>1 DEF Changes, Same, Top
  <1>3. \A i \in 1..(Len(stack) - 1) : stack'[i] = stack[i]
    BY DEF Changes, Same
  <1>4. stack'[Len(stack)] = f
    BY DEF Changes
  <1>5. ASSUME NEW i \in 1..Len(stack) PROVE FrameOK(i)'
    <2>1. PlaceOK(stack'[i])
      BY <1>1, <1>3, <1>4, <1>5 DEF StackOK, FrameOK
    <2>2. i < Len(stack) => LeftOK(stack'[i])
      BY <1>1, <1>3, <1>5 DEF StackOK, FrameOK
    <2>3. stack'[i].kind = "task" =>
            i > 1 /\ stack'[i - 1].kind \in {"run", "work", "timer"}
      BY <1>1, <1>2, <1>5 DEF StackOK, FrameOK
    <2> QED
      BY <1>1, <2>1, <2>2, <2>3 DEF FrameOK
  <1> QED
    BY <1>1, <1>5 DEF StackOK

LEMMA ChangeAllowed ==
  ASSUME Shape, AllowedOK, NEW f \in Frame, Changes(f), f.kind = Top.kind,
         f.fresh = Top.fresh, ~allowed' => ~allowed
  PROVE  AllowedOK'
  <1>1. Len(stack) \in Nat \ {0} /\ Len(stack') = Len(stack)
    BY StackLength DEF Shape, Changes
  <1>2. \A i \in 1..Len(stack) :
          stack'[i].kind = stack[i].kind /\ stack'[i].fresh = stack[i].fresh
    BY <1>1 DEF Changes, Same, Top
  <1>3. SUFFICES ASSUME ~allowed' PROVE
          /\ \E j \in 1..Len(stack) : stack'[j].kind = "task"
          /\ \A i \in 1..Len(stack) :
               stack'[i].fresh => \E j \in (i + 1)..Len(stack) : stack'[j].kind = "task"
    BY <1>1 DEF AllowedOK
  <1>4. /\ \E j \in 1..Len(stack) : stack[j].kind = "task"
        /\ \A i \in 1..Len(stack) :
             stack[i].fresh => \E j \in (i + 1)..Len(stack) : stack[j].kind = "task"
    BY <1>3 DEF AllowedOK
  <1>5. \A i \in 1..Len(stack) : (i + 1)..Len(stack) \subseteq 1..Len(stack)
    BY <1>1
  <1> QED
    BY <1>2, <1>4, <1>5

LEMMA ChangeFresh ==
  ASSUME Shape, FreshOK, NEW f \in Frame, Changes(f), f.kind = Top.kind,
         f.fresh = Top.fresh,
         InRun /\ (Announced \/ Covers(Top)) => Announced' \/ Covers(f)
  PROVE  FreshOK'
  <1>1. Len(stack) \in Nat \ {0} /\ Len(stack') = Len(stack)
    BY StackLength DEF Shape, Changes
  <1>2. \A i \in 1..Len(stack) :
          stack'[i].kind = stack[i].kind /\ stack'[i].fresh = stack[i].fresh
    BY <1>1 DEF Changes, Same, Top
  <1>3. /\ \A i \in 1..(Len(stack) - 1) : stack'[i] = stack[i]
        /\ stack'[Len(stack)] = f
    BY DEF Changes, Same
  <1>4. (InRun' <=> InRun)
    BY ChangeShape
  <1>5. ASSUME NEW i \in 1..Len(stack), stack'[i].fresh, InRun'
        PROVE  Announced' \/ \E j \in (i + 1)..Len(stack) : Covers(stack'[j])
    <2>1. stack[i].fresh /\ stack[i].kind = "modal"
          /\ (Announced \/ \E j \in (i + 1)..Len(stack) : Covers(stack[j]))
      BY <1>2, <1>4, <1>5 DEF FreshOK
    <2>2. CASE i = Len(stack)
      <3>1. Announced /\ Top.kind = "modal"
        BY <1>1, <2>1, <2>2 DEF Top
      <3> QED
        BY <1>4, <1>5, <3>1 DEF Covers
    <2>3. CASE i < Len(stack)
      BY <1>1, <1>3, <1>4, <1>5, <2>1, <2>3 DEF Top
    <2> QED
      BY <1>1, <2>2, <2>3
  <1>6. ASSUME NEW i \in 1..Len(stack), stack'[i].fresh
        PROVE  /\ stack'[i].kind = "modal"
               /\ \A j \in (i + 1)..(Len(stack) - 1) :
                    stack'[j].kind = "task" => stack'[j - 1].kind # "timer"
    <2>1. /\ stack[i].kind = "modal"
          /\ \A j \in (i + 1)..(Len(stack) - 1) :
               stack[j].kind = "task" => stack[j - 1].kind # "timer"
      BY <1>2, <1>6 DEF FreshOK
    <2>2. \A j \in (i + 1)..(Len(stack) - 1) : j \in 1..Len(stack) /\ j - 1 \in 1..Len(stack)
      BY <1>1
    <2> QED
      BY <1>2, <2>1, <2>2
  <1> QED
    BY <1>1, <1>5, <1>6 DEF FreshOK

LEMMA PushOnShape ==
  ASSUME Shape, NEW f \in Frame, NEW g \in Frame, PushesOn(f, g),
         f.kind = Top.kind, g.kind # "run", g.kind \in {"work", "timer", "task"} => InRun
  PROVE  Shape' /\ (InRun' <=> InRun) /\ Top' = g /\ stack' # << >>
  <1>1. /\ Len(stack) \in Nat \ {0} /\ Len(stack') = Len(stack) + 1
        /\ stack' # << >> /\ Top' = g
    BY StackLength, EmptySeq DEF Shape, PushesOn, Top
  <1>2. \A i \in 1..Len(stack) : stack'[i].kind = stack[i].kind
    BY <1>1 DEF PushesOn, Same, Top
  <1>3. (InRun' <=> InRun)
    BY <1>1, <1>2 DEF InRun
  <1> QED
    BY <1>1, <1>2, <1>3 DEF Shape, PushesOn

LEMMA PushOnStack ==
  ASSUME Shape, StackOK, NEW f \in Frame, NEW g \in Frame, PushesOn(f, g),
         f.kind = Top.kind, PlaceOK(f), LeftOK(f), PlaceOK(g),
         g.kind = "task" => f.kind \in {"run", "work", "timer"}
  PROVE  StackOK'
  <1>1. Len(stack) \in Nat \ {0} /\ Len(stack') = Len(stack) + 1
    BY StackLength DEF Shape, PushesOn
  <1>2. /\ \A i \in 1..(Len(stack) - 1) : stack'[i] = stack[i]
        /\ stack'[Len(stack)] = f /\ stack'[Len(stack) + 1] = g
        /\ \A i \in 1..Len(stack) : stack'[i].kind = stack[i].kind
    BY <1>1 DEF PushesOn, Same, Top
  <1>3. ASSUME NEW i \in 1..(Len(stack) + 1) PROVE FrameOK(i)'
    <2>1. PlaceOK(stack'[i])
      BY <1>1, <1>2, <1>3 DEF StackOK, FrameOK
    <2>2. i < Len(stack) + 1 => LeftOK(stack'[i])
      BY <1>1, <1>2, <1>3 DEF StackOK, FrameOK
    <2>3. stack'[i].kind = "task" =>
            i > 1 /\ stack'[i - 1].kind \in {"run", "work", "timer"}
      BY <1>1, <1>2, <1>3 DEF StackOK, FrameOK
    <2> QED
      BY <1>1, <2>1, <2>2, <2>3 DEF FrameOK
  <1> QED
    BY <1>1, <1>3 DEF StackOK

LEMMA PushOnAllowed ==
  ASSUME Shape, AllowedOK, NEW f \in Frame, NEW g \in Frame, PushesOn(f, g),
         f.kind = Top.kind, f.fresh = Top.fresh, ~g.fresh,
         ~allowed' => ~allowed \/ g.kind = "task"
  PROVE  AllowedOK'
  <1>1. Len(stack) \in Nat \ {0} /\ Len(stack') = Len(stack) + 1
    BY StackLength DEF Shape, PushesOn
  <1>2. /\ \A i \in 1..Len(stack) :
             stack'[i].kind = stack[i].kind /\ stack'[i].fresh = stack[i].fresh
        /\ stack'[Len(stack) + 1] = g
    BY <1>1 DEF PushesOn, Same, Top
  <1>3. CASE g.kind = "task"
    BY <1>1, <1>2, <1>3 DEF AllowedOK
  <1>4. ASSUME ~allowed', ~allowed
        PROVE  /\ \E j \in 1..Len(stack') : stack'[j].kind = "task"
               /\ \A i \in 1..Len(stack') : stack'[i].fresh =>
                    \E j \in (i + 1)..Len(stack') : stack'[j].kind = "task"
    <2>1. \E j \in 1..Len(stack') : stack'[j].kind = "task"
      BY <1>1, <1>2, <1>4 DEF AllowedOK
    <2>2. ASSUME NEW i \in 1..Len(stack'), stack'[i].fresh
          PROVE  \E j \in (i + 1)..Len(stack') : stack'[j].kind = "task"
      <3>1. i \in 1..Len(stack) /\ stack[i].fresh
        BY <1>1, <1>2, <2>2
      <3>2. PICK j \in (i + 1)..Len(stack) : stack[j].kind = "task"
        BY <1>4, <3>1 DEF AllowedOK
      <3> QED
        BY <1>1, <1>2, <3>1, <3>2
    <2> QED
      BY <2>1, <2>2
  <1> QED
    BY <1>3, <1>4 DEF AllowedOK

LEMMA PushOnFresh ==
  ASSUME Shape, FreshOK, NEW f \in Frame, NEW g \in Frame, PushesOn(f, g),
         f.kind = Top.kind, f.fresh = Top.fresh, ~g.fresh, f.kind # "task",
         g.kind # "run",
         InRun /\ (Announced \/ Covers(Top)) => Announced' \/ Covers(f) \/ Covers(g)
  PROVE  FreshOK'
  <1>1. Len(stack) \in Nat \ {0} /\ Len(stack') = Len(stack) + 1
    BY StackLength DEF Shape, PushesOn
  <1>2. /\ \A i \in 1..(Len(stack) - 1) : stack'[i] = stack[i]
        /\ stack'[Len(stack)] = f /\ stack'[Len(stack) + 1] = g
        /\ \A i \in 1..Len(stack) :
             stack'[i].kind = stack[i].kind /\ stack'[i].fresh = stack[i].fresh
    BY <1>1 DEF PushesOn, Same, Top
  <1>3. (InRun' <=> InRun)
    BY <1>1, <1>2, EmptySeq DEF InRun, PushesOn
  <1>4. ASSUME NEW i \in 1..Len(stack), stack'[i].fresh, InRun'
        PROVE  Announced' \/ \E j \in (i + 1)..(Len(stack) + 1) : Covers(stack'[j])
    <2>1. stack[i].fresh /\ stack[i].kind = "modal"
          /\ (Announced \/ \E j \in (i + 1)..Len(stack) : Covers(stack[j]))
      BY <1>2, <1>3, <1>4 DEF FreshOK
    <2>2. CASE i = Len(stack)
      <3>1. Announced /\ f.kind = "modal"
        BY <1>1, <1>2, <2>1, <2>2
      <3> QED
        BY <1>1, <1>2, <1>3, <1>4, <2>2, <3>1 DEF Covers
    <2>3. CASE i < Len(stack)
      BY <1>1, <1>2, <1>3, <1>4, <2>1, <2>3 DEF Top
    <2> QED
      BY <1>1, <2>2, <2>3
  <1>5. ASSUME NEW i \in 1..Len(stack), stack'[i].fresh
        PROVE  /\ stack'[i].kind = "modal"
               /\ \A j \in (i + 1)..Len(stack) :
                    stack'[j].kind = "task" => stack'[j - 1].kind # "timer"
    BY <1>1, <1>2, <1>5 DEF FreshOK
  <1> QED
    BY <1>1, <1>2, <1>4, <1>5 DEF FreshOK

LEMMA PushShape ==
  ASSUME Shape, NEW g \in Frame, Pushes(g),
         g.kind = "run" => stack = << >>,
         g.kind \in {"work", "timer", "task"} => InRun
  PROVE  /\ Shape' /\ Top' = g /\ stack' # << >>
         /\ IF stack = << >> THEN (InRun' <=> g.kind = "run") ELSE (InRun' <=> InRun)
  <1>1. /\ Len(stack) \in Nat /\ Len(stack') = Len(stack) + 1
        /\ stack' # << >> /\ Top' = g /\ (stack = << >> <=> Len(stack) = 0)
    BY StackLength, EmptySeq DEF Shape, Pushes, Top
  <1>2. /\ \A i \in 1..Len(stack) : stack'[i] = stack[i]
        /\ stack'[Len(stack) + 1] = g
    BY DEF Pushes, Same
  <1>3. CASE stack = << >>
    BY <1>1, <1>2, <1>3 DEF Shape, InRun, Pushes
  <1>4. CASE stack # << >>
    <2>1. (InRun' <=> InRun)
      BY <1>1, <1>2, <1>4 DEF InRun
    <2>2. \A i \in 2..Len(stack') : stack'[i].kind # "run"
      BY <1>1, <1>2, <1>4 DEF Shape
    <2>3. \A i \in 1..Len(stack') :
            stack'[i].kind \in {"work", "timer", "task"} => InRun'
      BY <1>1, <1>2, <1>4, <2>1 DEF Shape
    <2> QED
      BY <1>1, <1>4, <2>1, <2>2, <2>3 DEF Shape, Pushes
  <1> QED
    BY <1>3, <1>4

\* HandleWorkMessage or Run is entered.
LEMMA PushStack ==
  ASSUME Shape, StackOK, NEW g \in Frame, Pushes(g), PlaceOK(g), g.kind # "task",
         stack # << >> => LeftOK(Top)
  PROVE  StackOK'
  <1>1. /\ Len(stack) \in Nat /\ Len(stack') = Len(stack) + 1
        /\ (stack = << >> <=> Len(stack) = 0)
    BY StackLength DEF Shape, Pushes
  <1>2. /\ \A i \in 1..Len(stack) : stack'[i] = stack[i]
        /\ stack'[Len(stack) + 1] = g
    BY DEF Pushes, Same
  <1>3. ASSUME NEW i \in 1..(Len(stack) + 1) PROVE FrameOK(i)'
    <2>1. PlaceOK(stack'[i])
      BY <1>1, <1>2, <1>3 DEF StackOK, FrameOK
    <2>2. i < Len(stack) + 1 => LeftOK(stack'[i])
      BY <1>1, <1>2, <1>3 DEF StackOK, FrameOK, Top
    <2>3. stack'[i].kind = "task" =>
            i > 1 /\ stack'[i - 1].kind \in {"run", "work", "timer"}
      BY <1>1, <1>2, <1>3 DEF StackOK, FrameOK
    <2> QED
      BY <1>1, <2>1, <2>2, <2>3 DEF FrameOK
  <1> QED
    BY <1>1, <1>3 DEF StackOK

LEMMA PushAllowed ==
  ASSUME Shape, AllowedOK, NEW g \in Frame, Pushes(g), ~g.fresh,
         ~allowed' => ~allowed
  PROVE  AllowedOK'
  <1>1. Len(stack) \in Nat /\ Len(stack') = Len(stack) + 1
    BY StackLength DEF Shape, Pushes
  <1>2. /\ \A i \in 1..Len(stack) : stack'[i] = stack[i]
        /\ stack'[Len(stack) + 1] = g
    BY DEF Pushes, Same
  <1>3. ASSUME ~allowed', ~allowed
        PROVE  /\ \E j \in 1..Len(stack') : stack'[j].kind = "task"
               /\ \A i \in 1..Len(stack') : stack'[i].fresh =>
                    \E j \in (i + 1)..Len(stack') : stack'[j].kind = "task"
    <2>1. \E j \in 1..Len(stack') : stack'[j].kind = "task"
      BY <1>1, <1>2, <1>3 DEF AllowedOK
    <2>2. ASSUME NEW i \in 1..Len(stack'), stack'[i].fresh
          PROVE  \E j \in (i + 1)..Len(stack') : stack'[j].kind = "task"
      <3>1. i \in 1..Len(stack) /\ stack[i].fresh
        BY <1>1, <1>2, <2>2
      <3>2. PICK j \in (i + 1)..Len(stack) : stack[j].kind = "task"
        BY <1>3, <3>1 DEF AllowedOK
      <3> QED
        BY <1>1, <1>2, <3>1, <3>2
    <2> QED
      BY <2>1, <2>2
  <1> QED
    BY <1>3 DEF AllowedOK

LEMMA PushFresh ==
  ASSUME Shape, FreshOK, NEW g \in Frame, Pushes(g), ~g.fresh,
         (InRun' <=> InRun), stack # << >> => Top.kind # "task",
         InRun /\ Announced => Announced' \/ Covers(g)
  PROVE  FreshOK'
  <1>1. /\ Len(stack) \in Nat /\ Len(stack') = Len(stack) + 1
        /\ (stack = << >> <=> Len(stack) = 0)
    BY StackLength DEF Shape, Pushes
  <1>2. /\ \A i \in 1..Len(stack) : stack'[i] = stack[i]
        /\ stack'[Len(stack) + 1] = g
    BY DEF Pushes, Same
  <1>3. ASSUME NEW i \in 1..Len(stack), stack'[i].fresh, InRun'
        PROVE  Announced' \/ \E j \in (i + 1)..(Len(stack) + 1) : Covers(stack'[j])
    <2>1. Announced \/ \E j \in (i + 1)..Len(stack) : Covers(stack[j])
      BY <1>2, <1>3 DEF FreshOK
    <2> QED
      BY <1>1, <1>2, <1>3, <2>1
  <1>4. ASSUME NEW i \in 1..Len(stack), stack'[i].fresh
        PROVE  /\ stack'[i].kind = "modal"
               /\ \A j \in (i + 1)..Len(stack) :
                    stack'[j].kind = "task" => stack'[j - 1].kind # "timer"
    <2>1. /\ stack[i].kind = "modal"
          /\ \A j \in (i + 1)..(Len(stack) - 1) :
               stack[j].kind = "task" => stack[j - 1].kind # "timer"
      BY <1>2, <1>4 DEF FreshOK
    <2>2. \A j \in (i + 1)..Len(stack) : j \in 1..Len(stack) /\ j - 1 \in 1..Len(stack)
      BY <1>1
    <2>3. stack[Len(stack)].kind # "task"
      BY <1>1, <1>4 DEF Top
    <2> QED
      BY <1>1, <1>2, <2>1, <2>2, <2>3
  <1> QED
    BY <1>1, <1>2, <1>3, <1>4 DEF FreshOK

LEMMA PopShape ==
  ASSUME Shape, Pops
  PROVE  /\ Shape'
         /\ Len(stack) = 1 => stack' = << >> /\ ~InRun'
         /\ Len(stack) > 1 => /\ (InRun' <=> InRun) /\ stack' # << >>
                              /\ Top' = stack[Len(stack) - 1]
  <1>1. Len(stack) \in Nat \ {0} /\ Len(stack') = Len(stack) - 1
    BY StackLength DEF Shape, Pops
  <1>2. \A i \in 1..(Len(stack) - 1) : stack'[i] = stack[i]
    BY DEF Pops, Same
  <1>3. stack' = << >> <=> Len(stack) = 1
    <2>1. stack' \in Seq(Frame)
      BY DEF Pops
    <2>2. \A s \in Seq(Frame) : s = << >> <=> Len(s) = 0
      BY EmptySeq
    <2> QED
      BY <1>1, <2>1, <2>2
  <1>4. CASE Len(stack) = 1
    BY <1>1, <1>3, <1>4 DEF Shape, InRun, Pops
  <1>5. CASE Len(stack) > 1
    <2>1. (InRun' <=> InRun)
      BY <1>1, <1>2, <1>3, <1>5, StackLength DEF InRun, Shape
    <2> QED
      BY <1>1, <1>2, <1>3, <1>5, <2>1 DEF Shape, Pops, Top
  <1> QED
    BY <1>1, <1>4, <1>5

LEMMA PopStack ==
  ASSUME Shape, StackOK, Pops
  PROVE  StackOK'
  <1>1. Len(stack) \in Nat \ {0} /\ Len(stack') = Len(stack) - 1
    BY StackLength DEF Shape, Pops
  <1>2. \A i \in 1..(Len(stack) - 1) : stack'[i] = stack[i]
    BY DEF Pops, Same
  <1>3. ASSUME NEW i \in 1..(Len(stack) - 1) PROVE FrameOK(i)'
    <2>1. FrameOK(i)
      BY <1>1, <1>3 DEF StackOK
    <2>2. i > 1 => i - 1 \in 1..(Len(stack) - 1)
      BY <1>1, <1>3
    <2> QED
      BY <1>1, <1>2, <1>3, <2>1, <2>2 DEF FrameOK
  <1> QED
    BY <1>1, <1>3 DEF StackOK

LEMMA PopAllowed ==
  ASSUME Shape, AllowedOK, Pops, ~allowed' => ~allowed /\ Top.kind # "task"
  PROVE  AllowedOK'
  <1>1. Len(stack) \in Nat \ {0} /\ Len(stack') = Len(stack) - 1
    BY StackLength DEF Shape, Pops
  <1>2. \A i \in 1..(Len(stack) - 1) : stack'[i] = stack[i]
    BY DEF Pops, Same
  <1>3. ASSUME ~allowed'
        PROVE  /\ \E j \in 1..Len(stack') : stack'[j].kind = "task"
               /\ \A i \in 1..Len(stack') : stack'[i].fresh =>
                    \E j \in (i + 1)..Len(stack') : stack'[j].kind = "task"
    <2>1. \E j \in 1..Len(stack') : stack'[j].kind = "task"
      <3>1. PICK j \in 1..Len(stack) : stack[j].kind = "task"
        BY <1>3 DEF AllowedOK
      <3> QED
        BY <1>1, <1>2, <1>3, <3>1 DEF Top
    <2>2. ASSUME NEW i \in 1..Len(stack'), stack'[i].fresh
          PROVE  \E j \in (i + 1)..Len(stack') : stack'[j].kind = "task"
      <3>1. i \in 1..Len(stack) /\ stack[i].fresh
        BY <1>1, <1>2, <2>2
      <3>2. PICK j \in (i + 1)..Len(stack) : stack[j].kind = "task"
        BY <1>3, <3>1 DEF AllowedOK
      <3> QED
        BY <1>1, <1>2, <1>3, <2>2, <3>1, <3>2 DEF Top
    <2> QED
      BY <2>1, <2>2
  <1> QED
    BY <1>3 DEF AllowedOK

LEMMA PopFresh ==
  ASSUME Shape, FreshOK, Pops,
         \A i \in 1..(Len(stack) - 1) :
           stack[i].fresh /\ InRun /\ (Announced \/ Covers(Top)) =>
             Announced' \/ \E j \in (i + 1)..(Len(stack) - 1) : Covers(stack[j])
  PROVE  FreshOK'
  <1>1. Len(stack) \in Nat \ {0} /\ Len(stack') = Len(stack) - 1
    BY StackLength DEF Shape, Pops
  <1>2. \A i \in 1..(Len(stack) - 1) : stack'[i] = stack[i]
    BY DEF Pops, Same
  <1>3. ASSUME NEW i \in 1..(Len(stack) - 1), stack'[i].fresh, InRun'
        PROVE  Announced' \/ \E j \in (i + 1)..(Len(stack) - 1) : Covers(stack'[j])
    <2>1. InRun /\ stack[i].fresh
      BY <1>1, <1>2, <1>3, PopShape
    <2>2. Announced \/ \E j \in (i + 1)..Len(stack) : Covers(stack[j])
      BY <1>1, <1>3, <2>1 DEF FreshOK
    <2>3. CASE Announced \/ Covers(Top)
      BY <1>1, <1>2, <1>3, <2>1, <2>3
    <2>4. CASE ~Announced /\ ~Covers(Top)
      BY <1>1, <1>2, <1>3, <2>2, <2>4 DEF Top
    <2> QED
      BY <2>3, <2>4
  <1>4. ASSUME NEW i \in 1..(Len(stack) - 1), stack'[i].fresh
        PROVE  /\ stack'[i].kind = "modal"
               /\ \A j \in (i + 1)..(Len(stack) - 2) :
                    stack'[j].kind = "task" => stack'[j - 1].kind # "timer"
    <2>1. /\ stack[i].kind = "modal"
          /\ \A j \in (i + 1)..(Len(stack) - 1) :
               stack[j].kind = "task" => stack[j - 1].kind # "timer"
      BY <1>1, <1>2, <1>4 DEF FreshOK
    <2>2. \A j \in (i + 1)..(Len(stack) - 2) :
            /\ j \in 1..(Len(stack) - 1) /\ j - 1 \in 1..(Len(stack) - 1)
            /\ j \in (i + 1)..(Len(stack) - 1)
      BY <1>1
    <2> QED
      BY <1>1, <1>2, <2>1, <2>2
  <1> QED
    BY <1>1, <1>3, <1>4 DEF FreshOK

\* The stack is left alone.
LEMMA StayStack ==
  ASSUME UNCHANGED stack
  PROVE  /\ Shape => Shape'
         /\ InRun' <=> InRun
         /\ Top' = Top
         /\ \A k : In(k)' <=> In(k)
         /\ StackOK => StackOK'
  BY DEF Shape, InRun, Top, In, StackOK, FrameOK, LeftOK, PlaceOK

LEMMA StayAllowed ==
  ASSUME AllowedOK, UNCHANGED stack, ~allowed' => ~allowed
  PROVE  AllowedOK'
  BY DEF AllowedOK

LEMMA StayFresh ==
  ASSUME FreshOK, UNCHANGED stack, InRun /\ Announced => Announced'
  PROVE  FreshOK'
  BY StayStack DEF FreshOK, Covers

\* The same when a task comes to a frame that will find it.
LEMMA StayFreshCovered ==
  ASSUME Shape, FreshOK, UNCHANGED stack, stack # << >>, Covers(Top)
  PROVE  FreshOK'
  <1>1. Len(stack) \in Nat \ {0} /\ Covers(stack[Len(stack)])
    BY StackLength DEF Shape, Top
  <1>2. \A i \in 1..Len(stack) : stack[i].fresh => i # Len(stack)
    BY <1>1 DEF FreshOK, Covers
  <1> QED
    BY <1>1, <1>2 DEF FreshOK, Covers

(***************************************************************************)
(* The parts of the invariant                                              *)
(***************************************************************************)

Scalars ==
  /\ incoming \in Seq(Tasks) /\ work \in Seq(Tasks)
  /\ delayed \subseteq Tasks /\ zeroth \in Tasks \cup {NoTask}
  /\ due \in [Tasks -> Nat] /\ stamp \in [Tasks -> Nat] /\ posts \in Nat
  /\ started \subseteq Tasks
  /\ allowed \in BOOLEAN /\ have \in BOOLEAN /\ shouldQuit \in BOOLEAN
  /\ quitMsg \in BOOLEAN /\ over \in BOOLEAN
  /\ workMsgs \in Nat /\ appMsgs \in Nat /\ appLeft \in Nat
  /\ wakeTime \in Nat /\ timer \in Nat /\ now \in Nat
  /\ poster \in {"idle", "exchange", "message"}

QuitOK == shouldQuit => over \/ InRun

\* have_work_ stands for one message: in the queue, at a poster's hands, or
\* taken and not yet replaced.
Replacing == stack # << >> /\ Top.at = "Replace"

OneWork ==
  /\ have => \/ workMsgs = 1 /\ poster # "message" /\ ~Replacing
             \/ workMsgs = 0 /\ poster = "message" /\ ~Replacing
             \/ workMsgs = 0 /\ poster # "message" /\ Replacing
  /\ ~have => workMsgs = 0 /\ poster # "message" /\ ~Replacing

Parts ==
  /\ Scalars /\ Shape /\ QuitOK /\ OneWork
  /\ StackOK /\ QueuesOK /\ RunOK /\ AllowedOK /\ FreshOK

LEMMA PartsOfInv ==
  PumpInv <=> Parts
  <1>1. TypeOK <=> Scalars /\ Shape /\ QuitOK
    BY DEF TypeOK, Scalars, Shape, QuitOK
  <1>2. ASSUME Scalars PROVE OneWorkMessage <=> OneWork
    BY <1>2 DEF OneWorkMessage, OneWork, Scalars, Replacing
  <1> QED
    BY <1>1, <1>2 DEF PumpInv, Parts

\* Whatever needs a kMsgHaveWork sees to it that there is one.
LEMMA Announcing ==
  /\ have' => Announced'
  /\ poster' # "idle" => Announced'
  /\ work' = work /\ incoming' = incoming /\ (have => have')
       /\ (poster # "idle" => poster' # "idle" \/ have') => (Announced => Announced')
  BY DEF Announced

(***************************************************************************)
(* The actions that leave the stack alone                                  *)
(***************************************************************************)

LEMMA PushQueues ==
  ASSUME Scalars, QueuesOK, NEW t \in Tasks, Push(t), UNCHANGED <<work, delayed>>
  PROVE  /\ QueuesOK'
         /\ incoming' \in Seq(Tasks) /\ incoming' # << >>
         /\ due' \in [Tasks -> Nat] /\ stamp' \in [Tasks -> Nat] /\ posts' \in Nat
         /\ \A u \in delayed : due'[u] = due[u]
  <1>1. /\ due' \in [Tasks -> Nat] /\ stamp' \in [Tasks -> Nat] /\ posts' \in Nat
        /\ stamp'[t] = posts + 1 /\ \A u \in Tasks \ {t} : stamp'[u] = stamp[u]
        /\ \A u \in Tasks \ {t} : due'[u] = due[u]
    <2>1. Delay[t] \in Nat /\ now \in Nat /\ due \in [Tasks -> Nat]
          /\ stamp \in [Tasks -> Nat] /\ posts \in Nat
      BY PumpAssumption DEF Scalars, PumpAssumption
    <2> DEFINE v == IF Delay[t] = 0 THEN 0 ELSE now + Delay[t]
    <2>2. v \in Nat /\ due' = [due EXCEPT ![t] = v] /\ posts' = posts + 1
          /\ stamp' = [stamp EXCEPT ![t] = posts + 1]
      BY <2>1 DEF Push
    <2> HIDE DEF v
    <2> QED
      BY <2>1, <2>2
  <1>2. /\ incoming' \in Seq(Tasks) /\ Len(incoming') = Len(incoming) + 1
        /\ incoming'[Len(incoming) + 1] = t
        /\ \A i \in 1..Len(incoming) : incoming'[i] = incoming[i]
        /\ Len(incoming) \in Nat
    BY AppendProperties, LenProperties DEF Push, Scalars
  <1>3. incoming' # << >>
    BY <1>2, EmptySeq
  <1>4. \A u \in Tasks : stamp[u] # 0 => stamp'[u] # 0
    BY <1>1 DEF Scalars
  <1>5. \A i \in 1..Len(work) : work[i] \in Tasks
    BY ElementOfSeq DEF Scalars
  <1>6. \A i \in 1..Len(incoming) : incoming[i] \in Tasks
    BY ElementOfSeq DEF Scalars
  <1>7. \A u \in delayed : u # t /\ u \in Tasks
    BY DEF QueuesOK, Push, Scalars
  <1>8. /\ \A i \in 1..Len(incoming') : stamp'[incoming'[i]] # 0
        /\ \A i \in 1..Len(work') : stamp'[work'[i]] # 0
        /\ \A u \in delayed' : stamp'[u] # 0
    <2>1. \A i \in 1..Len(incoming') : stamp'[incoming'[i]] # 0
      <3>1. ASSUME NEW i \in 1..Len(incoming) PROVE stamp'[incoming'[i]] # 0
        BY <1>2, <1>4, <1>6 DEF QueuesOK
      <3>2. stamp'[incoming'[Len(incoming) + 1]] # 0
        BY <1>1, <1>2 DEF Scalars
      <3> QED
        BY <1>2, <3>1, <3>2
    <2>2. \A i \in 1..Len(work') : stamp'[work'[i]] # 0
      BY <1>4, <1>5 DEF QueuesOK
    <2>3. \A u \in delayed' : stamp'[u] # 0
      BY <1>4, <1>7 DEF QueuesOK
    <2> QED
      BY <2>1, <2>2, <2>3
  <1> QED
    BY <1>1, <1>2, <1>3, <1>7, <1>8 DEF QueuesOK

LEMMA QueuesStay ==
  ASSUME QueuesOK, UNCHANGED <<incoming, work, delayed, stamp>>
  PROVE  QueuesOK'
  BY DEF QueuesOK

\* RunOK when nothing of it changes but what announces tasks.
LEMMA StayRun ==
  ASSUME RunOK, UNCHANGED <<stack, delayed, wakeTime>>,
         \A t \in delayed : due'[t] = due[t],
         In("run") /\ Announced => Announced'
  PROVE  RunOK'
  BY StayStack DEF RunOK

LEMMA PostFromThreadStep ==
  ASSUME Parts, NEW t \in Tasks, PostFromThread(t)
  PROVE  Parts'
  <1> USE DEF Parts
  <1>1. UNCHANGED <<work, delayed, stack>> /\ Push(t)
    BY DEF PostFromThread
  <1>2. Announced => Announced'
    BY DEF PostFromThread, Announced
  <1>3. Scalars'
    BY PushQueues DEF PostFromThread, Scalars, messages, timing
  <1>4. QueuesOK'
    BY <1>1, PushQueues
  <1>5. OneWork'
    BY StayStack DEF PostFromThread, OneWork, Replacing, messages
  <1>6. RunOK'
    BY <1>1, <1>2, PushQueues, StayRun DEF PostFromThread, timing
  <1>7. AllowedOK' /\ FreshOK'
    BY <1>1, <1>2, StayAllowed, StayFresh DEF PostFromThread
  <1>8. Shape' /\ QuitOK' /\ StackOK'
    BY StayStack DEF PostFromThread, QuitOK
  <1> QED
    BY <1>3, <1>4, <1>5, <1>6, <1>7, <1>8

LEMMA PostFromLoopStep ==
  ASSUME Parts, NEW t \in Tasks, PostFromLoop(t)
  PROVE  Parts'
  <1> USE DEF Parts
  <1>1. UNCHANGED <<work, delayed, stack>> /\ Push(t)
    BY DEF PostFromLoop
  <1>2. Announced => Announced'
    BY DEF PostFromLoop, ScheduleWork, Announced
  <1>3. Scalars'
    <2>1. have' \in BOOLEAN /\ workMsgs' \in Nat
      <3>1. CASE incoming = << >>
        BY <3>1 DEF PostFromLoop, ScheduleWork, Scalars
      <3>2. CASE incoming # << >>
        <4>1. UNCHANGED <<have, workMsgs>>
          BY <3>2 DEF PostFromLoop
        <4> QED
          BY <4>1 DEF Scalars
      <3> QED
        BY <3>1, <3>2
    <2> QED
      BY <1>1, <2>1, PushQueues DEF PostFromLoop, Scalars, timing
  <1>4. QueuesOK'
    BY <1>1, PushQueues
  <1>5. OneWork'
    BY StayStack DEF PostFromLoop, ScheduleWork, OneWork, Replacing, Scalars
  <1>6. RunOK'
    BY <1>1, <1>2, PushQueues, StayRun DEF PostFromLoop, timing
  <1>7. AllowedOK' /\ FreshOK'
    BY <1>1, <1>2, StayAllowed, StayFresh DEF PostFromLoop
  <1>8. Shape' /\ QuitOK' /\ StackOK'
    BY StayStack DEF PostFromLoop, QuitOK
  <1> QED
    BY <1>3, <1>4, <1>5, <1>6, <1>7, <1>8

(***************************************************************************)
(* Taking tasks and running them                                           *)
(***************************************************************************)

LEMMA TopFacts ==
  ASSUME Shape, NEW K, NEW a, At(K, a)
  PROVE  /\ Top \in Frame /\ stack # << >> /\ Top.kind \in K /\ Top.at = a
         /\ Len(stack) \in Nat \ {0} /\ stack[Len(stack)] = Top
         /\ Top.kind = "run" => Len(stack) = 1
         /\ Top.kind \in {"work", "timer", "task"} => InRun
  <1>1. /\ stack # << >> /\ Top.kind \in K /\ Top.at = a
    BY DEF At
  <1>0. Len(stack) \in Nat \ {0}
    BY <1>1, StackLength DEF Shape
  <1>2. /\ Top \in Frame /\ Len(stack) \in Nat \ {0} /\ stack[Len(stack)] = Top
    BY <1>0, <1>1, StackLength DEF Shape, Top
  <1>3. ASSUME Len(stack) # 1 PROVE Top.kind # "run"
    <2>1. Len(stack) \in 2..Len(stack)
      <3> DEFINE n == Len(stack)
      <3>1. n \in Nat /\ n # 0 /\ n # 1
        BY <1>0, <1>3
      <3> HIDE DEF n
      <3>2. n \in 2..n
        BY <3>1
      <3> QED
        BY <3>2 DEF n
    <2> QED
      BY <1>2, <2>1 DEF Shape
  <1>4. Top.kind \in {"work", "timer", "task"} => InRun
    BY <1>2 DEF Shape
  <1> QED
    BY <1>1, <1>2, <1>3, <1>4

\* Only modal loops are fresh, and no modal loop is below DoRunLoop.
LEMMA NotFresh ==
  ASSUME Shape, FreshOK, stack # << >>, Top.kind # "modal"
  PROVE  Top.fresh = FALSE
  <1>1. Len(stack) \in 1..Len(stack) /\ Top \in Frame
    BY StackLength DEF Shape
  <1>2. ~Top.fresh /\ Top.fresh \in BOOLEAN
    BY <1>1 DEF FreshOK, Top, Frame
  <1> QED
    BY <1>2

LEMMA AllowedInRun ==
  ASSUME Shape, AllowedOK, In("run")
  PROVE  allowed
  <1>1. Len(stack) = 1 /\ stack[1].kind = "run"
    <2>1. Len(stack) \in Nat \ {0} /\ stack[Len(stack)].kind = "run"
      BY StackLength DEF Shape, In, Top
    <2>2. ASSUME Len(stack) # 1 PROVE FALSE
      <3>1. PICK n : n = Len(stack)
        OBVIOUS
      <3>2. n \in 2..Len(stack)
        BY <2>1, <2>2, <3>1
      <3>3. stack[n].kind # "run"
        BY <3>2 DEF Shape
      <3> QED
        BY <2>1, <3>1, <3>3
    <2> QED
      BY <2>1, <2>2
  <1> QED
    BY <1>1 DEF AllowedOK

LEMMA ReloadStep ==
  ASSUME Parts, ReloadWorkQueue
  PROVE  Parts'
  <1> USE DEF Parts
  <1>1. /\ UNCHANGED <<delayed, zeroth, due, stamp, posts, started, allowed, have,
                       shouldQuit, messages, timing, stack, over, poster>>
        /\ work' = incoming /\ incoming' = work /\ At({"run", "work"}, "DoWork")
    BY DEF ReloadWorkQueue, InDoWork
  <1>2. Scalars'
    BY <1>1 DEF Scalars, messages, timing
  <1>3. OneWork'
    BY <1>1 DEF OneWork, Replacing, Top, messages
  <1>4. QueuesOK'
    BY <1>1 DEF QueuesOK
  <1>5. AllowedOK'
    BY <1>1, StayAllowed
  <1>6. Announced' <=> Announced
    BY <1>1 DEF Announced
  <1>7. FreshOK'
    BY <1>1, <1>6, StayFresh
  <1>8. RunOK'
    BY <1>1, <1>6, StayRun DEF timing
  <1>9. Shape' /\ QuitOK' /\ StackOK'
    BY <1>1, StayStack DEF QuitOK
  <1> QED
    BY <1>2, <1>3, <1>4, <1>5, <1>7, <1>8, <1>9

\* What Head and Tail of work_queue_ are.
LEMMA TakeWork ==
  ASSUME Scalars, QueuesOK, work # << >>
  PROVE  /\ Head(work) \in Tasks /\ stamp[Head(work)] # 0
         /\ Tail(work) \in Seq(Tasks)
         /\ \A i \in 1..Len(Tail(work)) : stamp[Tail(work)[i]] # 0
  <1>1. /\ Head(work) \in Tasks /\ Head(work) = work[1]
        /\ Tail(work) \in Seq(Tasks) /\ Len(Tail(work)) = Len(work) - 1
        /\ \A i \in 1..Len(Tail(work)) : Tail(work)[i] = work[i + 1]
        /\ Len(work) \in Nat \ {0}
    BY HeadTailProperties, EmptySeq DEF Scalars
  <1> QED
    BY <1>1 DEF QueuesOK

LEMMA MovesDelayedStep ==
  ASSUME Parts, DoWorkMovesDelayed
  PROVE  Parts'
  <1> USE DEF Parts
  <1> DEFINE t == Head(work)
             zero == IF zeroth = NoTask THEN t ELSE zeroth
  <1>1. /\ UNCHANGED <<incoming, due, stamp, posts, started, allowed, have,
                       shouldQuit, messages, now, stack, over, poster>>
        /\ work' = Tail(work) /\ At({"run", "work"}, "DoWork") /\ work # << >>
        /\ delayed' = delayed \cup {t} /\ zeroth' = zero
    BY DEF DoWorkMovesDelayed, InDoWork
  <1>2. /\ t \in Tasks /\ stamp[t] # 0 /\ work' \in Seq(Tasks)
        /\ \A i \in 1..Len(work') : stamp[work'[i]] # 0
    BY <1>1, TakeWork
  <1>3. wakeTime' \in Nat /\ timer' \in Nat
    <2>1. CASE UNCHANGED <<wakeTime, timer>>
      BY <2>1 DEF Scalars
    <2>2. CASE wakeTime' = due[t] /\ timer' = TimerFor(due[t])
      BY <1>2, <2>2 DEF Scalars, TimerFor
    <2> QED
      BY <2>1, <2>2 DEF DoWorkMovesDelayed
  <1>4. zero \in Tasks
    BY <1>2 DEF Scalars
  <1> HIDE DEF t, zero
  <1>5. Scalars'
    BY <1>1, <1>2, <1>3, <1>4 DEF Scalars, messages
  <1>6. OneWork'
    BY <1>1 DEF OneWork, Replacing, Top, messages
  <1>7. QueuesOK'
    BY <1>1, <1>2 DEF QueuesOK
  <1>8. AllowedOK'
    BY <1>1, StayAllowed
  <1>9. FreshOK'
    <2>1. CASE Top.kind = "work"
      BY <1>1, <2>1, TopFacts, StayFreshCovered DEF Covers
    <2>2. CASE Top.kind = "run"
      <3>1. Len(stack) = 1 /\ ~stack[1].fresh
        BY <1>1, <2>2, TopFacts, NotFresh
      <3> QED
        BY <1>1, <3>1 DEF FreshOK
    <2> QED
      BY <1>1, <2>1, <2>2, TopFacts
  <1>10. RunOK'
    BY <1>1, TopFacts, StayStack DEF RunOK
  <1>11. Shape' /\ QuitOK' /\ StackOK'
    BY <1>1, StayStack DEF QuitOK
  <1> QED
    BY <1>5, <1>6, <1>7, <1>8, <1>9, <1>10, <1>11

\* A task is started from a loop that goes on at f.
LEMMA RunTaskStack ==
  ASSUME Parts, NEW t \in Tasks, NEW f \in Frame, RunTask(t, f), stack # << >>,
         Top.kind \in {"run", "work", "timer"}, InRun,
         f.kind = Top.kind, f.fresh = Top.fresh, PlaceOK(f), LeftOK(f),
         InRun /\ (Announced \/ Covers(Top)) => Announced' \/ Covers(f)
  PROVE  /\ Shape' /\ StackOK' /\ AllowedOK' /\ FreshOK' /\ RunOK'
         /\ InRun' /\ ~Replacing' /\ allowed' = FALSE /\ started' = started \cup {t}
  <1> USE DEF Parts
  <1> DEFINE g == NewFrame("task", "Inside", t)
  <1>1. /\ g \in Frame /\ g.kind = "task" /\ g.at = "Inside" /\ ~g.fresh
    <2>1. "task" \in Kinds /\ "Inside" \in Places /\ t \in Tasks \cup {NoTask}
      BY DEF Kinds, Places
    <2> QED
      BY <2>1, NewFrameType
  <1>2. /\ EnterFrom(f, g) /\ allowed' = FALSE /\ started' = started \cup {t}
    BY DEF RunTask
  <1> HIDE DEF g
  <1>3. PushesOn(f, g)
    BY <1>1, <1>2, EnterFromPushes DEF Shape
  <1>4. Shape' /\ (InRun' <=> InRun) /\ Top' = g /\ stack' # << >>
    BY <1>1, <1>3, PushOnShape
  <1>5. PlaceOK(g)
    BY <1>1 DEF PlaceOK
  <1>6. StackOK'
    BY <1>1, <1>3, <1>5, PushOnStack
  <1>7. AllowedOK'
    BY <1>1, <1>3, PushOnAllowed
  <1>8. FreshOK'
    BY <1>1, <1>3, PushOnFresh
  <1>9. RunOK' /\ ~Replacing'
    BY <1>1, <1>4 DEF RunOK, Replacing, In
  <1> QED
    BY <1>2, <1>4, <1>6, <1>7, <1>8, <1>9

\* A loop goes on at f.
LEMMA TopTurns ==
  ASSUME Parts, NEW f \in Frame, SetTop(f), stack # << >>,
         f.kind = Top.kind, f.fresh = Top.fresh, PlaceOK(f), ~allowed' => ~allowed,
         InRun /\ (Announced \/ Covers(Top)) => Announced' \/ Covers(f)
  PROVE  /\ Shape' /\ StackOK' /\ AllowedOK' /\ FreshOK'
         /\ InRun' <=> InRun
         /\ Top' = f /\ stack' # << >>
         /\ Replacing' <=> f.at = "Replace"
  <1> USE DEF Parts
  <1>1. Changes(f)
    BY SetTopChanges DEF Shape
  <1>2. Shape' /\ (InRun' <=> InRun) /\ Top' = f /\ stack' # << >>
    BY <1>1, ChangeShape
  <1>3. StackOK'
    BY <1>1, ChangeStack
  <1>4. AllowedOK'
    BY <1>1, ChangeAllowed
  <1>5. FreshOK'
    BY <1>1, ChangeFresh
  <1> QED
    BY <1>2, <1>3, <1>4, <1>5 DEF Replacing

\* DoRunLoop is left.
LEMMA RunLeaves ==
  ASSUME Parts, In("run"), Leave, ~allowed' => ~allowed
  PROVE  /\ Shape' /\ StackOK' /\ AllowedOK' /\ FreshOK' /\ RunOK'
         /\ ~Replacing' /\ ~InRun'
  <1> USE DEF Parts
  <1>1. Len(stack) = 1 /\ allowed /\ stack # << >>
    BY AllowedInRun, TopFacts DEF In, At
  <1>2. Shape' /\ stack' = << >> /\ ~InRun'
    BY <1>1, LeavePops, PopShape DEF Shape
  <1>3. Len(stack') = 0
    BY <1>2, EmptySeq
  <1> QED
    BY <1>1, <1>2, <1>3 DEF StackOK, AllowedOK, FreshOK, RunOK, Replacing, In

\* Any other frame is left.
LEMMA TopLeaves ==
  ASSUME Parts, Leave, stack # << >>, Top.kind # "run"
  PROVE  /\ Pops
         /\ Shape' /\ StackOK' /\ RunOK' /\ ~Replacing'
         /\ InRun' <=> InRun
  <1> USE DEF Parts
  <1>1. Pops
    BY LeavePops DEF Shape
  <1>2. /\ Shape'
        /\ Len(stack) = 1 => stack' = << >> /\ ~InRun'
        /\ Len(stack) > 1 => /\ InRun' <=> InRun
                             /\ stack' # << >> /\ Top' = stack[Len(stack) - 1]
    BY <1>1, PopShape
  <1>3. Len(stack) \in Nat \ {0}
    BY StackLength DEF Shape
  <1>4. InRun' <=> InRun
    <2>1. CASE Len(stack) = 1
      <3>1. ~InRun
        BY <2>1 DEF InRun, Top
      <3> QED
        BY <1>2, <2>1, <3>1
    <2>2. CASE Len(stack) > 1
      BY <1>2, <2>2
    <2>3. Len(stack) = 1 \/ Len(stack) > 1
      <3> DEFINE n == Len(stack)
      <3>1. n \in Nat \ {0}
        BY <1>3
      <3> HIDE DEF n
      <3>2. n = 1 \/ n > 1
        BY <3>1
      <3> QED
        BY <3>2 DEF n
    <2> QED
      BY <2>1, <2>2, <2>3
  <1>5. Len(stack) > 1 => LeftOK(Top')
    <2>1. Len(stack) > 1 => LeftOK(stack[Len(stack) - 1])
      BY <1>3 DEF StackOK, FrameOK
    <2> QED
      BY <1>2, <2>1
  <1>6. RunOK' /\ ~Replacing'
    <2>1. CASE Len(stack) = 1
      BY <1>2, <2>1 DEF RunOK, Replacing, In
    <2>2. CASE Len(stack) > 1
      BY <1>2, <1>5, <2>2 DEF RunOK, Replacing, In, LeftOK
    <2> QED
      BY <1>3, <2>1, <2>2
  <1>7. StackOK'
    BY <1>1, PopStack
  <1> QED
    BY <1>1, <1>2, <1>4, <1>6, <1>7

LEMMA TopLeavesAllowed ==
  ASSUME Parts, Leave, stack # << >>, ~allowed' => ~allowed /\ Top.kind # "task",
         InRun /\ (Announced \/ Covers(Top)) => Announced'
  PROVE  AllowedOK' /\ FreshOK'
  <1> USE DEF Parts
  <1>1. Pops
    BY LeavePops DEF Shape
  <1>2. AllowedOK'
    BY <1>1, PopAllowed
  <1>3. FreshOK'
    BY <1>1, PopFresh
  <1> QED
    BY <1>2, <1>3

\* Input comes, or nothing happens to the stack.
LEMMA NewInputStack ==
  ASSUME Parts, NewInput \/ UNCHANGED stack, UNCHANGED <<delayed, due, wakeTime>>,
         ~allowed' => ~allowed, Announced => Announced'
  PROVE  /\ Shape' /\ StackOK' /\ AllowedOK' /\ FreshOK' /\ RunOK'
         /\ InRun' <=> InRun
         /\ Replacing' <=> Replacing
  <1> USE DEF Parts
  <1>1. CASE UNCHANGED stack
    <2>1. RunOK' /\ AllowedOK' /\ FreshOK'
      BY <1>1, StayRun, StayAllowed, StayFresh
    <2>2. Shape' /\ StackOK' /\ (InRun' <=> InRun)
      BY <1>1, StayStack
    <2> QED
      BY <1>1, <2>1, <2>2 DEF Replacing, Top
  <1>2. ASSUME At({"run"}, "WaitMessage"), NewInput
        PROVE  /\ Shape' /\ StackOK' /\ AllowedOK' /\ FreshOK' /\ RunOK'
               /\ InRun' <=> InRun
               /\ Replacing' <=> Replacing
    <2> DEFINE f == [Top EXCEPT !.at = "Message"]
    <2>1. SetTop(f)
      BY <1>2 DEF NewInput
    <2>2. Top \in Frame /\ stack # << >> /\ Top.kind = "run" /\ Top.at = "WaitMessage"
      BY <1>2, TopFacts
    <2>3. f \in Frame /\ f.kind = Top.kind /\ f.at = "Message" /\ f.fresh = Top.fresh
      <3>1. "Message" \in Places
        BY DEF Places
      <3> QED
        BY <2>2, <3>1, FrameTurns
    <2> HIDE DEF f
    <2>4. PlaceOK(f)
      BY <2>2, <2>3 DEF PlaceOK
    <2>5. /\ Shape' /\ StackOK' /\ AllowedOK' /\ FreshOK'
          /\ InRun' <=> InRun
          /\ Top' = f /\ stack' # << >> /\ ~Replacing'
      BY <2>1, <2>2, <2>3, <2>4, TopTurns DEF Covers
    <2>6. RunOK'
      BY <2>3, <2>5 DEF RunOK
    <2> QED
      BY <2>2, <2>5, <2>6 DEF Replacing
  <1> QED
    BY <1>1, <1>2 DEF NewInput

\* Exchange, PostHaveWork, WindowMessage, AllowNesting, PostQuitMessage, Tick.
LEMMA MessageSteps ==
  ASSUME Parts, Exchange \/ PostHaveWork \/ WindowMessage \/ AllowNesting
                  \/ PostQuitMessage \/ Tick
  PROVE  Parts'
  <1> USE DEF Parts
  <1>1. /\ UNCHANGED <<incoming, work, delayed, zeroth, due, stamp, posts, started,
                       shouldQuit, over, wakeTime>>
        /\ ~allowed' => ~allowed
        /\ Announced => Announced'
    <2>1. UNCHANGED <<incoming, work, delayed, zeroth, due, stamp, posts, started,
                       shouldQuit, over, wakeTime>>
      BY DEF Exchange, PostHaveWork, WindowMessage, AllowNesting, PostQuitMessage, Tick,
             queues, timing
    <2>2. ~allowed' => ~allowed
      BY DEF Exchange, PostHaveWork, WindowMessage, AllowNesting, PostQuitMessage, Tick
    <2>3. have => have'
      BY DEF Exchange, PostHaveWork, WindowMessage, AllowNesting, PostQuitMessage, Tick,
             ScheduleWork
    <2>4. poster # "idle" => poster' # "idle" \/ have'
      BY DEF Exchange, PostHaveWork, WindowMessage, AllowNesting, PostQuitMessage, Tick,
             ScheduleWork, OneWork
    <2> QED
      BY <2>1, <2>2, <2>3, <2>4, Announcing
  <1>s. UNCHANGED stack \/ NewInput
    BY DEF Exchange, PostHaveWork, WindowMessage, AllowNesting, PostQuitMessage, Tick
  <1>n. /\ Shape' /\ StackOK' /\ AllowedOK' /\ FreshOK' /\ RunOK'
        /\ InRun' <=> InRun
        /\ Replacing' <=> Replacing
    BY <1>1, <1>s, NewInputStack
  <1>2. Scalars'
    <2>1. have' \in BOOLEAN /\ allowed' \in BOOLEAN
      BY DEF Exchange, PostHaveWork, WindowMessage, AllowNesting, PostQuitMessage, Tick,
             ScheduleWork, Scalars
    <2>2. workMsgs' \in Nat /\ poster' \in {"idle", "exchange", "message"}
      BY DEF Exchange, PostHaveWork, WindowMessage, AllowNesting, PostQuitMessage, Tick,
             ScheduleWork, Scalars, messages
    <2>3. appMsgs' \in Nat /\ appLeft' \in Nat
      BY DEF Exchange, PostHaveWork, WindowMessage, AllowNesting, PostQuitMessage, Tick,
             Scalars, messages
    <2>4. now' \in Nat /\ timer' \in Nat
      BY DEF Exchange, PostHaveWork, WindowMessage, AllowNesting, PostQuitMessage, Tick,
             Scalars, timing
    <2>5. quitMsg' \in BOOLEAN
      BY DEF Exchange, PostHaveWork, WindowMessage, AllowNesting, PostQuitMessage, Tick,
             Scalars, messages
    <2> QED
      BY <1>1, <2>1, <2>2, <2>3, <2>4, <2>5 DEF Scalars
  <1>3. OneWork'
    <2>1. Replacing' <=> Replacing
      BY <1>n
    <2>2. CASE Exchange
      BY <2>1, <2>2 DEF Exchange, ScheduleWork, OneWork, Scalars, messages, timing
    <2>3. CASE PostHaveWork
      BY <2>1, <2>3 DEF PostHaveWork, OneWork, Scalars
    <2>4. CASE WindowMessage \/ PostQuitMessage \/ Tick
      <3>1. UNCHANGED <<have, workMsgs, poster>>
        BY <2>4 DEF WindowMessage, PostQuitMessage, Tick, messages
      <3> QED
        BY <2>1, <3>1 DEF OneWork
    <2>5. CASE AllowNesting
      BY <2>1, <2>5 DEF AllowNesting, ScheduleWork, OneWork, Scalars
    <2> QED
      BY <2>2, <2>3, <2>4, <2>5
  <1>4. QueuesOK' /\ QuitOK'
    BY <1>1, <1>n, QueuesStay DEF QuitOK
  <1> QED
    BY <1>n, <1>2, <1>3, <1>4

\* DoRunLoop breaks off or goes on at f.
LEMMA GoOnStack ==
  ASSUME Parts, In("run"), NEW f \in Frame, GoOn(f), UNCHANGED <<allowed, shouldQuit>>,
         f.kind = Top.kind, f.fresh = Top.fresh, PlaceOK(f),
         InRun /\ Announced => Announced',
         Top' = f => RunOK'
  PROVE  /\ Shape' /\ StackOK' /\ AllowedOK' /\ FreshOK' /\ RunOK' /\ QuitOK'
         /\ Replacing' => f.at = "Replace"
         /\ over' \in BOOLEAN
  <1> USE DEF Parts
  <1>0. stack # << >> /\ Top.kind = "run"
    BY DEF In
  <1>1. CASE shouldQuit
    <2>1. Leave /\ over'
      BY <1>1 DEF GoOn
    <2> QED
      BY <1>1, <2>1, RunLeaves DEF GoOn, QuitOK
  <1>2. CASE ~shouldQuit
    <2>1. SetTop(f) /\ over' = over
      BY <1>2 DEF GoOn
    <2>2. /\ Shape' /\ StackOK' /\ AllowedOK' /\ FreshOK'
          /\ Top' = f /\ (Replacing' <=> f.at = "Replace")
      BY <1>0, <2>1, TopTurns DEF Covers
    <2>3. over' \in BOOLEAN
      BY <2>1 DEF Scalars
    <2> QED
      BY <1>2, <2>2, <2>3 DEF QuitOK
  <1> QED
    BY <1>1, <1>2

(***************************************************************************)
(* DoRunLoop and ProcessPumpReplacementMessage                             *)
(***************************************************************************)

LEMMA NextMessageNoneStep ==
  ASSUME Parts, NextMessageNone
  PROVE  Parts'
  <1> USE DEF Parts
  <1> DEFINE f == [Top EXCEPT !.at = "DoWork", !.more = FALSE]
  <1>1. /\ At({"run"}, "Message") /\ GoOn(f)
        /\ UNCHANGED <<queues, allowed, have, shouldQuit, messages, timing, poster>>
    BY DEF NextMessageNone
  <1>2. Top \in Frame /\ stack # << >> /\ Top.kind = "run" /\ In("run") /\ Top.at = "Message"
    BY <1>1, TopFacts DEF In
  <1>3. /\ f \in Frame /\ f.kind = Top.kind /\ f.at = "DoWork" /\ f.fresh = Top.fresh
    <2>1. "DoWork" \in Places /\ FALSE \in BOOLEAN
      BY DEF Places
    <2> QED
      BY ONLY <1>2, <2>1, FrameTurnsWith
  <1> HIDE DEF f
  <1>4. PlaceOK(f)
    BY <1>2, <1>3 DEF PlaceOK
  <1>5. Announced => Announced'
    BY <1>1, Announcing DEF queues
  <1>6. Top' = f => RunOK'
    BY <1>3 DEF RunOK, In
  <1>7. /\ Shape' /\ StackOK' /\ AllowedOK' /\ FreshOK' /\ RunOK' /\ QuitOK'
        /\ ~Replacing' /\ over' \in BOOLEAN
    BY <1>1, <1>2, <1>3, <1>4, <1>5, <1>6, GoOnStack
  <1>8. Scalars'
    BY <1>1, <1>7 DEF Scalars, queues, messages, timing
  <1>9. OneWork'
    BY <1>1, <1>2, <1>7 DEF OneWork, messages, Replacing
  <1>10. QueuesOK'
    BY <1>1, QueuesStay DEF queues
  <1> QED
    BY <1>7, <1>8, <1>9, <1>10

LEMMA NextMessageWorkStep ==
  ASSUME Parts, NextMessageWork
  PROVE  Parts'
  <1> USE DEF Parts
  <1> DEFINE f == [Top EXCEPT !.at = "Replace"]
  <1>1. /\ At({"run"}, "Message") /\ SetTop(f)
        /\ UNCHANGED <<queues, allowed, have, shouldQuit, appMsgs, appLeft, quitMsg, timing,
                       over, poster>>
        /\ workMsgs > 0 /\ workMsgs' = workMsgs - 1
    BY DEF NextMessageWork, Peek
  <1>2. Top \in Frame /\ stack # << >> /\ Top.kind = "run" /\ Top.at = "Message"
    BY <1>1, TopFacts
  <1>3. /\ f \in Frame /\ f.kind = Top.kind /\ f.at = "Replace" /\ f.fresh = Top.fresh
    <2>1. "Replace" \in Places
      BY DEF Places
    <2> QED
      BY <1>2, <2>1, FrameTurns
  <1> HIDE DEF f
  <1>4. PlaceOK(f)
    BY <1>2, <1>3 DEF PlaceOK
  <1>5. Announced => Announced'
    BY <1>1, Announcing DEF queues
  <1>6. /\ Shape' /\ StackOK' /\ AllowedOK' /\ FreshOK'
        /\ (InRun' <=> InRun) /\ Top' = f /\ Replacing'
    BY <1>1, <1>2, <1>3, <1>4, <1>5, TopTurns DEF Covers
  <1>7. RunOK'
    BY <1>3, <1>6 DEF RunOK, In
  <1>8. QuitOK'
    BY <1>1, <1>6 DEF QuitOK
  <1>9. Scalars'
    BY <1>1 DEF Scalars, queues, timing
  <1>10. OneWork'
    BY <1>1, <1>2, <1>6 DEF OneWork, Replacing, Scalars
  <1>11. QueuesOK'
    BY <1>1, QueuesStay DEF queues
  <1> QED
    BY <1>6, <1>7, <1>8, <1>9, <1>10, <1>11

LEMMA ReplaceNothingStep ==
  ASSUME Parts, ReplaceNothing
  PROVE  Parts'
  <1> USE DEF Parts
  <1> DEFINE f == [Top EXCEPT !.at = "DoWork", !.more = FALSE]
  <1>1. /\ At({"run", "work"}, "Replace") /\ SetTop(f) /\ have' = FALSE
        /\ UNCHANGED <<queues, allowed, shouldQuit, messages, timing, over, poster>>
    BY DEF ReplaceNothing
  <1>2. /\ Top \in Frame /\ stack # << >> /\ Top.kind \in {"run", "work"}
        /\ Top.at = "Replace" /\ (Top.kind = "run" => Len(stack) = 1)
    BY <1>1, TopFacts
  <1>3. /\ f \in Frame /\ f.kind = Top.kind /\ f.at = "DoWork" /\ f.fresh = Top.fresh
    <2>1. "DoWork" \in Places /\ FALSE \in BOOLEAN
      BY DEF Places
    <2> QED
      BY ONLY <1>2, <2>1, FrameTurnsWith
  <1> HIDE DEF f
  <1>4. PlaceOK(f)
    BY <1>2, <1>3 DEF PlaceOK
  <1>5. ASSUME Top.kind = "work"
        PROVE  /\ Shape' /\ StackOK' /\ AllowedOK' /\ FreshOK'
               /\ (InRun' <=> InRun) /\ Top' = f /\ ~Replacing'
    <2>1. Covers(f)
      BY <1>3, <1>5 DEF Covers
    <2>2. /\ Shape' /\ StackOK' /\ AllowedOK' /\ FreshOK'
          /\ (InRun' <=> InRun) /\ Top' = f /\ ~Replacing'
      BY <1>1, <1>2, <1>3, <1>4, <2>1, TopTurns
    <2> QED
      BY <2>2
  <1>6. ASSUME Top.kind = "run"
        PROVE  /\ Shape' /\ StackOK' /\ AllowedOK' /\ FreshOK'
               /\ (InRun' <=> InRun) /\ Top' = f /\ ~Replacing'
    <2>1. Changes(f)
      BY <1>1, <1>2, <1>3, SetTopChanges DEF Shape
    <2>2. Shape' /\ (InRun' <=> InRun) /\ Top' = f /\ ~Replacing'
      BY <1>2, <1>3, <2>1, ChangeShape DEF Replacing
    <2>3. StackOK' /\ AllowedOK'
      BY <1>1, <1>2, <1>3, <1>4, <2>1, ChangeStack, ChangeAllowed
    <2>4. FreshOK'
      <3>1. Len(stack') = 1 /\ stack'[1] = f /\ ~f.fresh
        BY <1>2, <1>3, <1>6, <2>1, NotFresh DEF Changes
      <3> QED
        BY <3>1 DEF FreshOK
    <2> QED
      BY <2>2, <2>3, <2>4
  <1>7. /\ Shape' /\ StackOK' /\ AllowedOK' /\ FreshOK'
        /\ (InRun' <=> InRun) /\ Top' = f /\ ~Replacing'
    <2>1. Top.kind = "work" \/ Top.kind = "run"
      BY <1>2
    <2> QED
      BY <1>5, <1>6, <2>1
  <1>8. RunOK'
    BY <1>3, <1>7 DEF RunOK, In
  <1>9. QuitOK'
    BY <1>1, <1>7 DEF QuitOK
  <1>10. Scalars'
    BY <1>1 DEF Scalars, queues, messages, timing
  <1>11. OneWork'
    BY <1>1, <1>2, <1>7 DEF OneWork, Replacing, Scalars, messages
  <1>12. QueuesOK'
    BY <1>1, QueuesStay DEF queues
  <1> QED
    BY <1>7, <1>8, <1>9, <1>10, <1>11, <1>12

\* DoRunLoop is left on WM_QUIT, its own or one that a handler has met.
LEMMA QuitStep ==
  ASSUME Parts, NextMessageQuit \/ QuitAfterMessage
  PROVE  Parts'
  <1> USE DEF Parts
  <1>0. /\ At({"run"}, "Message") \/ At({"run"}, "DoWork")
        /\ Leave /\ over' = TRUE /\ shouldQuit' = TRUE
        /\ UNCHANGED <<queues, allowed, have, messages, timing, poster>>
    BY DEF NextMessageQuit, QuitAfterMessage
  <1>1. /\ Leave /\ over' = TRUE /\ shouldQuit' = TRUE
        /\ UNCHANGED <<queues, allowed, have, messages, timing, poster>>
    BY <1>0
  <1>2. In("run") /\ Top.at # "Replace"
    BY <1>0, TopFacts DEF In
  <1>3. /\ Shape' /\ StackOK' /\ AllowedOK' /\ FreshOK' /\ RunOK' /\ ~Replacing'
    BY <1>1, <1>2, RunLeaves
  <1>4. Scalars' /\ QuitOK'
    BY <1>1 DEF Scalars, QuitOK, queues, messages, timing
  <1>5. OneWork'
    BY <1>1, <1>2, <1>3 DEF OneWork, Replacing, messages
  <1>6. QueuesOK'
    BY <1>1, QueuesStay DEF queues
  <1> QED
    BY <1>3, <1>4, <1>5, <1>6

\* WM_QUIT as the replacement of a kMsgHaveWork.
LEMMA ReplaceWithQuitStep ==
  ASSUME Parts, ReplaceWithQuit
  PROVE  Parts'
  <1> USE DEF Parts
  <1>1. /\ At({"run", "work"}, "Replace") /\ ResetAndSchedule /\ shouldQuit' = TRUE
        /\ UNCHANGED <<queues, allowed, appMsgs, appLeft, quitMsg, timing>>
    BY DEF ReplaceWithQuit
  <1>2. /\ Top \in Frame /\ stack # << >> /\ Top.kind \in {"run", "work"}
        /\ Top.at = "Replace" /\ InRun
    <2>1. Top.kind = "run" => InRun
      BY <1>1, TopFacts DEF InRun
    <2> QED
      BY <1>1, <2>1, TopFacts
  <1>3. have' = TRUE /\ workMsgs' \in Nat /\ poster' \in {"idle", "exchange", "message"}
        /\ QueuesOK' /\ Announced'
    <2>1. have' = TRUE /\ workMsgs' \in Nat /\ poster' \in {"idle", "exchange", "message"}
      BY <1>1 DEF ResetAndSchedule, Scalars
    <2> QED
      BY <1>1, <2>1, QueuesStay, Announcing DEF queues
  <1>4. CASE Top.kind = "run"
    <2>1. Leave /\ over' = TRUE /\ In("run")
      BY <1>2, <1>4 DEF ReplaceWithQuit, In
    <2>2. /\ Shape' /\ StackOK' /\ AllowedOK' /\ FreshOK' /\ RunOK' /\ ~Replacing'
      BY <1>1, <2>1, RunLeaves
    <2>3. Scalars' /\ QuitOK'
      BY <1>1, <1>3, <2>1 DEF Scalars, QuitOK, queues, timing
    <2>4. OneWork'
      BY <1>1, <1>2, <2>2 DEF OneWork, Replacing, ResetAndSchedule
    <2> QED
      BY <1>3, <2>2, <2>3, <2>4
  <1>5. CASE Top.kind = "work"
    <2> DEFINE f == [Top EXCEPT !.at = "DoWork"]
    <2>1. SetTop(f) /\ UNCHANGED over
      BY <1>5 DEF ReplaceWithQuit
    <2>2. /\ f \in Frame /\ f.kind = Top.kind /\ f.at = "DoWork" /\ f.fresh = Top.fresh
      <3>1. "DoWork" \in Places
        BY DEF Places
      <3> QED
        BY <1>2, <3>1, FrameTurns
    <2> HIDE DEF f
    <2>3. PlaceOK(f)
      BY <1>5, <2>2 DEF PlaceOK
    <2>4. /\ Shape' /\ StackOK' /\ AllowedOK' /\ FreshOK'
          /\ (InRun' <=> InRun) /\ Top' = f /\ ~Replacing'
      BY <1>1, <1>2, <1>3, <2>1, <2>2, <2>3, TopTurns
    <2>5. RunOK'
      BY <1>5, <2>2, <2>4 DEF RunOK, In
    <2>6. Scalars' /\ QuitOK'
      <3>1. QuitOK'
        BY <1>2, <2>4 DEF QuitOK
      <3> QED
        BY <1>1, <1>3, <2>1, <3>1 DEF Scalars, queues, timing
    <2>7. OneWork'
      BY <1>1, <1>2, <2>4 DEF OneWork, Replacing, ResetAndSchedule
    <2> QED
      BY <1>3, <2>4, <2>5, <2>6, <2>7
  <1> QED
    BY <1>2, <1>4, <1>5

(***************************************************************************)
(* Dispatching a message of the application or WM_TIMER                    *)
(***************************************************************************)

LEMMA DispatchStack ==
  ASSUME Parts, NEW m \in {"app", "timer"}, NEW f \in Frame, Peek(m), Dispatch(m, f),
         UNCHANGED <<allowed, queues>>, stack # << >>,
         f.kind = Top.kind, f.fresh = Top.fresh, PlaceOK(f), LeftOK(f),
         f.kind \in {"run", "work", "modal"},
         InRun /\ (Announced \/ Covers(Top)) => Announced' \/ Covers(f),
         f.kind \in {"run", "work"} => InRun
  PROVE  /\ Shape' /\ StackOK' /\ AllowedOK' /\ FreshOK' /\ RunOK'
         /\ (InRun' <=> InRun) /\ ~Replacing'
         /\ appMsgs' \in Nat /\ timer' \in Nat
  <1> USE DEF Parts
  <1>1. appMsgs' \in Nat /\ timer' \in Nat
    <2>1. CASE m = "app"
      <3>1. appMsgs > 0 /\ appMsgs' = appMsgs - 1 /\ timer' = timer
        BY <2>1 DEF Dispatch, Peek
      <3> QED
        BY <3>1 DEF Scalars
    <2>2. CASE m = "timer"
      <3>1. timer' = 0 /\ appMsgs' = appMsgs
        BY <2>2 DEF Dispatch
      <3> QED
        BY <3>1 DEF Scalars
    <2> QED
      BY <2>1, <2>2
  <1>2. ASSUME NEW g \in Frame, EnterFrom(f, g), g.kind \in {"handler", "timer"},
               g.kind = "timer" => InRun, PlaceOK(g), ~g.fresh, g.at # "Replace"
        PROVE  /\ Shape' /\ StackOK' /\ AllowedOK' /\ FreshOK' /\ RunOK'
               /\ (InRun' <=> InRun) /\ ~Replacing'
    <2>1. PushesOn(f, g)
      BY <1>2, EnterFromPushes DEF Shape
    <2>2. Shape' /\ (InRun' <=> InRun) /\ Top' = g /\ stack' # << >>
      BY <1>2, <2>1, PushOnShape
    <2>3. StackOK'
      BY <1>2, <2>1, PushOnStack
    <2>4. AllowedOK'
      BY <1>2, <2>1, PushOnAllowed
    <2>5. FreshOK'
      BY <1>2, <2>1, PushOnFresh
    <2>6. RunOK' /\ ~Replacing'
      BY <1>2, <2>2 DEF RunOK, Replacing, In
    <2> QED
      BY <2>2, <2>3, <2>4, <2>5, <2>6
  <1>3. CASE m = "app"
    <2> DEFINE g == NewFrame("handler", "Inside", NoTask)
    <2>1. EnterFrom(f, g)
      BY <1>3 DEF Dispatch
    <2>2. g \in Frame /\ g.kind = "handler" /\ g.at = "Inside" /\ ~g.fresh
      <3>1. "handler" \in Kinds /\ "Inside" \in Places /\ NoTask \in Tasks \cup {NoTask}
        BY DEF Kinds, Places
      <3> QED
        BY <3>1, NewFrameType
    <2> HIDE DEF g
    <2>3. PlaceOK(g)
      BY <2>2 DEF PlaceOK
    <2> QED
      BY <1>1, <1>2, <2>1, <2>2, <2>3
  <1>4. CASE m = "timer" /\ InRun
    <2> DEFINE g == NewFrame("timer", "Delayed", NoTask)
    <2>1. EnterFrom(f, g)
      BY <1>4 DEF Dispatch
    <2>2. g \in Frame /\ g.kind = "timer" /\ g.at = "Delayed" /\ ~g.fresh
      <3>1. "timer" \in Kinds /\ "Delayed" \in Places /\ NoTask \in Tasks \cup {NoTask}
        BY DEF Kinds, Places
      <3> QED
        BY <3>1, NewFrameType
    <2> HIDE DEF g
    <2>3. PlaceOK(g)
      BY <2>2 DEF PlaceOK
    <2> QED
      BY <1>1, <1>2, <1>4, <2>1, <2>2, <2>3
  <1>5. CASE m = "timer" /\ ~InRun
    <2>1. SetTop(f) /\ f.kind = "modal"
      BY <1>5 DEF Dispatch
    <2>2. /\ Shape' /\ StackOK' /\ AllowedOK' /\ FreshOK' /\ (InRun' <=> InRun)
          /\ Top' = f /\ (Replacing' <=> f.at = "Replace")
      BY <2>1, TopTurns
    <2> QED
      BY <1>1, <2>1, <2>2 DEF RunOK, In, LeftOK
  <1> QED
    BY <1>3, <1>4, <1>5

LEMMA NextMessageOtherStep ==
  ASSUME Parts, NEW m \in {"app", "timer"}, NextMessageOther(m)
  PROVE  Parts'
  <1> USE DEF Parts
  <1> DEFINE f == [Top EXCEPT !.at = "DoWork", !.more = TRUE]
  <1>1. /\ At({"run"}, "Message") /\ Peek(m) /\ Dispatch(m, f)
        /\ UNCHANGED <<queues, allowed, have, shouldQuit, workMsgs, appLeft, quitMsg,
                       wakeTime, now, over, poster>>
    BY DEF NextMessageOther
  <1>2. /\ Top \in Frame /\ stack # << >> /\ Top.kind = "run" /\ Top.at = "Message"
        /\ Len(stack) = 1
    BY <1>1, TopFacts
  <1>3. /\ f \in Frame /\ f.kind = Top.kind /\ f.at = "DoWork" /\ f.fresh = Top.fresh
        /\ f.more = TRUE
    <2>1. "DoWork" \in Places /\ TRUE \in BOOLEAN
      BY DEF Places
    <2> QED
      BY ONLY <1>2, <2>1, FrameTurnsWith
  <1> HIDE DEF f
  <1>4. PlaceOK(f) /\ LeftOK(f) /\ InRun
    BY <1>2, <1>3 DEF PlaceOK, LeftOK, InRun, Top
  <1>5. Announced => Announced'
    BY <1>1, Announcing DEF queues
  <1>6. /\ Shape' /\ StackOK' /\ AllowedOK' /\ FreshOK' /\ RunOK'
        /\ (InRun' <=> InRun) /\ ~Replacing'
        /\ appMsgs' \in Nat /\ timer' \in Nat
    BY <1>1, <1>2, <1>3, <1>4, <1>5, DispatchStack DEF Covers
  <1>7. QuitOK'
    BY <1>1, <1>6 DEF QuitOK
  <1>8. Scalars'
    BY <1>1, <1>6 DEF Scalars, queues
  <1>9. OneWork'
    BY <1>1, <1>2, <1>6 DEF OneWork, Replacing
  <1>10. QueuesOK'
    BY <1>1, QueuesStay DEF queues
  <1> QED
    BY <1>6, <1>7, <1>8, <1>9, <1>10

LEMMA ReplaceWithStep ==
  ASSUME Parts, NEW m \in {"app", "timer"}, ReplaceWith(m)
  PROVE  Parts'
  <1> USE DEF Parts
  <1> DEFINE f == [Top EXCEPT !.at = "DoWork", !.more = TRUE]
  <1>1. /\ At({"run", "work"}, "Replace") /\ Peek(m) /\ Dispatch(m, f) /\ ResetAndSchedule
        /\ UNCHANGED <<queues, allowed, shouldQuit, appLeft, quitMsg, wakeTime, now, over>>
    BY DEF ReplaceWith
  <1>2. /\ Top \in Frame /\ stack # << >> /\ Top.kind \in {"run", "work"}
        /\ Top.at = "Replace" /\ InRun
    <2>1. Top.kind = "run" => InRun
      BY <1>1, TopFacts DEF InRun
    <2> QED
      BY <1>1, <2>1, TopFacts
  <1>3. /\ f \in Frame /\ f.kind = Top.kind /\ f.at = "DoWork" /\ f.fresh = Top.fresh
        /\ f.more = TRUE
    <2>1. "DoWork" \in Places /\ TRUE \in BOOLEAN
      BY DEF Places
    <2> QED
      BY ONLY <1>2, <2>1, FrameTurnsWith
  <1> HIDE DEF f
  <1>4. PlaceOK(f) /\ LeftOK(f)
    BY <1>2, <1>3 DEF PlaceOK, LeftOK
  <1>5. have' = TRUE /\ workMsgs' \in Nat /\ poster' \in {"idle", "exchange", "message"}
        /\ Announced'
    <2>1. have' = TRUE /\ workMsgs' \in Nat /\ poster' \in {"idle", "exchange", "message"}
      BY <1>1 DEF ResetAndSchedule, Scalars
    <2> QED
      BY <2>1, Announcing
  <1>6. /\ Shape' /\ StackOK' /\ AllowedOK' /\ FreshOK' /\ RunOK'
        /\ (InRun' <=> InRun) /\ ~Replacing'
        /\ appMsgs' \in Nat /\ timer' \in Nat
    BY <1>1, <1>2, <1>3, <1>4, <1>5, DispatchStack
  <1>7. QuitOK'
    BY <1>1, <1>6 DEF QuitOK
  <1>8. Scalars'
    BY <1>1, <1>5, <1>6 DEF Scalars, queues
  <1>9. OneWork'
    BY <1>1, <1>2, <1>6 DEF OneWork, Replacing, ResetAndSchedule
  <1>10. QueuesOK'
    BY <1>1, QueuesStay DEF queues
  <1> QED
    BY <1>6, <1>7, <1>8, <1>9, <1>10

LEMMA ModalGetsOtherStep ==
  ASSUME Parts, NEW m \in {"app", "timer"}, ModalGetsOther(m)
  PROVE  Parts'
  <1> USE DEF Parts
  <1>1. /\ In("modal") /\ Peek(m) /\ Dispatch(m, Top)
        /\ UNCHANGED <<queues, allowed, have, shouldQuit, workMsgs, appLeft, quitMsg,
                       wakeTime, now, over, poster>>
    BY DEF ModalGetsOther
  <1>2. Top \in Frame /\ stack # << >> /\ Top.kind = "modal" /\ PlaceOK(Top)
    <2>1. Len(stack) \in 1..Len(stack) /\ Top \in Frame /\ stack # << >>
      BY <1>1, StackLength DEF Shape, In
    <2> QED
      BY <1>1, <2>1 DEF In, StackOK, FrameOK, Top
  <1>3. LeftOK(Top) /\ Top.at = "Inside"
    BY <1>2 DEF PlaceOK, LeftOK
  <1>4. Announced => Announced'
    BY <1>1, Announcing DEF queues
  <1>5. /\ Shape' /\ StackOK' /\ AllowedOK' /\ FreshOK' /\ RunOK'
        /\ (InRun' <=> InRun) /\ ~Replacing'
        /\ appMsgs' \in Nat /\ timer' \in Nat
    <2> DEFINE f == Top
    <2>1. /\ f \in Frame /\ f.kind = Top.kind /\ f.fresh = Top.fresh /\ f.kind = "modal"
          /\ PlaceOK(f) /\ LeftOK(f) /\ Dispatch(m, f)
      BY <1>1, <1>2, <1>3
    <2> HIDE DEF f
    <2> QED
      BY <1>1, <1>2, <1>4, <2>1, DispatchStack DEF Covers
  <1>6. QuitOK'
    BY <1>1, <1>5 DEF QuitOK
  <1>7. Scalars'
    BY <1>1, <1>5 DEF Scalars, queues
  <1>8. OneWork'
    BY <1>1, <1>3, <1>5 DEF OneWork, Replacing
  <1>9. QueuesOK'
    BY <1>1, QueuesStay DEF queues
  <1> QED
    BY <1>5, <1>6, <1>7, <1>8, <1>9

(***************************************************************************)
(* DoWork and DoDelayedWork                                                *)
(***************************************************************************)

\* While nested tasks are forbidden, a fresh modal loop has HandleWorkMessage
\* above it with the task that forbids them, below the innermost frame.
LEMMA ForbiddenCovered ==
  ASSUME Parts, ~allowed, stack # << >>, Top.kind # "task",
         NEW i \in 1..(Len(stack) - 1), stack[i].fresh
  PROVE  \E j \in (i + 1)..(Len(stack) - 1) : Covers(stack[j])
  <1> USE DEF Parts
  <1>1. Len(stack) \in Nat \ {0} /\ stack[Len(stack)] = Top
    BY StackLength DEF Shape, Top
  <1>2. PICK k \in (i + 1)..Len(stack) : stack[k].kind = "task"
    BY <1>1 DEF AllowedOK
  <1>3. k \in (i + 1)..(Len(stack) - 1) /\ k - 1 \in 1..(Len(stack) - 1) /\ k - 1 >= i
    BY <1>1, <1>2
  <1>4. stack[k - 1].kind \in {"run", "work", "timer"} /\ stack[k - 1].kind # "timer"
    BY <1>1, <1>2, <1>3 DEF StackOK, FrameOK, FreshOK
  <1>5. stack[i].kind = "modal"
    BY <1>1 DEF FreshOK
  <1>6. k - 1 \in (i + 1)..(Len(stack) - 1)
    BY <1>1, <1>3, <1>4, <1>5
  <1>7. stack[k - 1].kind = "work"
    BY <1>1, <1>4, <1>6 DEF Shape
  <1>8. stack[k - 1].at \in {"DoWork", "Worked"}
    BY <1>1, <1>3, <1>7 DEF StackOK, FrameOK, PlaceOK, LeftOK
  <1> QED
    BY <1>6, <1>7, <1>8 DEF Covers

LEMMA DoWorkFindsNothingStep ==
  ASSUME Parts, DoWorkFindsNothing
  PROVE  Parts'
  <1> USE DEF Parts
  <1>1. /\ At({"run", "work"}, "DoWork")
        /\ ~allowed \/ (work = << >> /\ incoming = << >>)
        /\ UNCHANGED <<queues, allowed, have, shouldQuit, messages, timing, poster>>
    BY DEF DoWorkFindsNothing, InDoWork
  <1>2. /\ Top \in Frame /\ stack # << >> /\ Top.kind \in {"run", "work"}
        /\ Top.at = "DoWork"
    BY <1>1, TopFacts
  <1>3. QueuesOK' /\ (Announced' <=> Announced)
    BY <1>1, QueuesStay DEF queues, Announced
  <1>4. ASSUME Top.kind = "run"
        PROVE  /\ Shape' /\ StackOK' /\ AllowedOK' /\ FreshOK' /\ RunOK' /\ QuitOK'
               /\ ~Replacing' /\ over' \in BOOLEAN
    <2> DEFINE f == [Top EXCEPT !.at = "Delayed"]
    <2>1. GoOn(f) /\ In("run")
      BY <1>2, <1>4 DEF DoWorkFindsNothing, In
    <2>2. /\ f \in Frame /\ f.kind = Top.kind /\ f.at = "Delayed" /\ f.fresh = Top.fresh
      <3>1. "Delayed" \in Places
        BY DEF Places
      <3> QED
        BY <1>2, <3>1, FrameTurns
    <2> HIDE DEF f
    <2>3. PlaceOK(f)
      BY <1>4, <2>2 DEF PlaceOK
    <2>4. Announced'
      <3>1. work = << >> /\ incoming = << >>
        BY <1>1, <2>1, AllowedInRun
      <3> QED
        BY <1>3, <3>1 DEF Announced
    <2>5. Top' = f => RunOK'
      BY <2>2, <2>4 DEF RunOK
    <2> QED
      BY <1>1, <2>1, <2>2, <2>3, <2>4, <2>5, GoOnStack
  <1>5. ASSUME Top.kind = "work"
        PROVE  /\ Shape' /\ StackOK' /\ AllowedOK' /\ FreshOK' /\ RunOK' /\ QuitOK'
               /\ ~Replacing' /\ over' \in BOOLEAN
    <2>1. Leave /\ over' = over
      BY <1>5 DEF DoWorkFindsNothing
    <2>2. Pops /\ Shape' /\ StackOK' /\ RunOK' /\ ~Replacing' /\ (InRun' <=> InRun)
      BY <1>2, <1>5, <2>1, TopLeaves
    <2>3. AllowedOK'
      BY <1>1, <1>5, <2>2, PopAllowed
    <2>4. FreshOK'
      <3>1. ASSUME allowed PROVE Announced'
        BY <1>1, <1>3, <3>1 DEF Announced
      <3>2. ASSUME ~allowed, NEW i \in 1..(Len(stack) - 1), stack[i].fresh
            PROVE  \E j \in (i + 1)..(Len(stack) - 1) : Covers(stack[j])
        BY <1>2, <1>5, <3>2, ForbiddenCovered
      <3> QED
        BY <2>2, <3>1, <3>2, PopFresh
    <2>5. QuitOK' /\ over' \in BOOLEAN
      BY <1>1, <2>1, <2>2 DEF QuitOK, Scalars
    <2> QED
      BY <2>2, <2>3, <2>4, <2>5
  <1>6. /\ Shape' /\ StackOK' /\ AllowedOK' /\ FreshOK' /\ RunOK' /\ QuitOK'
        /\ ~Replacing' /\ over' \in BOOLEAN
    BY <1>2, <1>4, <1>5
  <1>7. Scalars'
    BY <1>1, <1>6 DEF Scalars, queues, messages, timing
  <1>8. OneWork'
    BY <1>1, <1>2, <1>6 DEF OneWork, Replacing, messages
  <1> QED
    BY <1>3, <1>6, <1>7, <1>8

LEMMA DoWorkRunsTaskStep ==
  ASSUME Parts, DoWorkRunsTask
  PROVE  Parts'
  <1> USE DEF Parts
  <1> DEFINE f == [Top EXCEPT !.at = "Worked", !.more = TRUE]
  <1>1. /\ At({"run", "work"}, "DoWork") /\ work # << >> /\ work' = Tail(work)
        /\ RunTask(Head(work), f)
        /\ UNCHANGED <<incoming, delayed, zeroth, due, stamp, posts, have, shouldQuit,
                       messages, timing, over, poster>>
    BY DEF DoWorkRunsTask, InDoWork
  <1>2. /\ Top \in Frame /\ stack # << >> /\ Top.kind \in {"run", "work"}
        /\ Top.at = "DoWork" /\ InRun
    <2>1. Top.kind = "run" => InRun
      BY <1>1, TopFacts DEF InRun
    <2> QED
      BY <1>1, <2>1, TopFacts
  <1>3. /\ f \in Frame /\ f.kind = Top.kind /\ f.at = "Worked" /\ f.fresh = Top.fresh
        /\ f.more = TRUE
    <2>1. "Worked" \in Places /\ TRUE \in BOOLEAN
      BY DEF Places
    <2> QED
      BY ONLY <1>2, <2>1, FrameTurnsWith
  <1> HIDE DEF f
  <1>4. PlaceOK(f) /\ LeftOK(f)
    BY <1>2, <1>3 DEF PlaceOK, LeftOK
  <1>5. /\ Head(work) \in Tasks /\ work' \in Seq(Tasks)
        /\ \A i \in 1..Len(work') : stamp[work'[i]] # 0
    BY <1>1, TakeWork
  <1>6. ASSUME Announced, Top.kind = "run" PROVE Announced'
    <2>1. have \/ poster # "idle"
      BY <1>1, <1>6 DEF Announced
    <2> QED
      BY <1>1, <2>1 DEF Announced
  <1>7. Top.kind = "work" => Covers(f)
    BY <1>3 DEF Covers
  <1>8. /\ Shape' /\ StackOK' /\ AllowedOK' /\ FreshOK' /\ RunOK'
        /\ InRun' /\ ~Replacing' /\ allowed' = FALSE
        /\ started' = started \cup {Head(work)}
    <2>1. Announced \/ Covers(Top) => Announced' \/ Covers(f)
      BY <1>2, <1>6, <1>7 DEF Covers
    <2> QED
      BY <1>1, <1>2, <1>3, <1>4, <1>5, <2>1, RunTaskStack
  <1>9. Scalars' /\ QuitOK'
    BY <1>1, <1>5, <1>8 DEF Scalars, QuitOK, messages, timing
  <1>10. OneWork'
    BY <1>1, <1>2, <1>8 DEF OneWork, Replacing, messages
  <1>11. QueuesOK'
    BY <1>1, <1>5 DEF QueuesOK
  <1> QED
    BY <1>8, <1>9, <1>10, <1>11

LEMMA AfterWorkStep ==
  ASSUME Parts, AfterWork
  PROVE  Parts'
  <1> USE DEF Parts
  <1>1. /\ At({"run", "work"}, "Worked")
        /\ UNCHANGED <<queues, allowed, shouldQuit, appMsgs, appLeft, quitMsg, timing,
                       poster>>
    BY DEF AfterWork
  <1>2. /\ Top \in Frame /\ stack # << >> /\ Top.kind \in {"run", "work"}
        /\ Top.at = "Worked"
    BY <1>1, TopFacts
  <1>3. QueuesOK'
    BY <1>1, QueuesStay DEF queues
  <1>4. ASSUME Top.kind = "run"
        PROVE  /\ Shape' /\ StackOK' /\ AllowedOK' /\ FreshOK' /\ RunOK' /\ QuitOK'
               /\ ~Replacing' /\ over' \in BOOLEAN
               /\ UNCHANGED <<have, workMsgs>>
    <2> DEFINE f == [Top EXCEPT !.at = "Delayed"]
    <2>1. GoOn(f) /\ In("run") /\ UNCHANGED <<have, workMsgs>>
      BY <1>2, <1>4 DEF AfterWork, In
    <2>2. /\ f \in Frame /\ f.kind = Top.kind /\ f.at = "Delayed" /\ f.fresh = Top.fresh
          /\ f.more = Top.more
      <3>1. "Delayed" \in Places
        BY DEF Places
      <3> QED
        BY <1>2, <3>1, FrameTurns
    <2> HIDE DEF f
    <2>3. PlaceOK(f)
      BY <1>4, <2>2 DEF PlaceOK
    <2>4. Announced => Announced'
      BY <1>1, <2>1, Announcing DEF queues
    <2>5. f.more
      BY <1>2, <2>1, <2>2 DEF RunOK
    <2>6. Top' = f => RunOK'
      BY <2>2, <2>5 DEF RunOK
    <2> QED
      BY <1>1, <2>1, <2>2, <2>3, <2>4, <2>6, GoOnStack
  <1>5. ASSUME Top.kind = "work"
        PROVE  /\ Shape' /\ StackOK' /\ AllowedOK' /\ FreshOK' /\ RunOK' /\ QuitOK'
               /\ ~Replacing' /\ over' \in BOOLEAN /\ ScheduleWork
    <2>1. Leave /\ over' = over /\ ScheduleWork
      BY <1>5 DEF AfterWork
    <2>2. Pops /\ Shape' /\ StackOK' /\ RunOK' /\ ~Replacing' /\ (InRun' <=> InRun)
      BY <1>2, <1>5, <2>1, TopLeaves
    <2>3. Announced'
      BY <2>1, Announcing DEF ScheduleWork
    <2>4. AllowedOK' /\ FreshOK'
      BY <1>1, <1>2, <1>5, <2>1, <2>3, TopLeavesAllowed
    <2>5. QuitOK' /\ over' \in BOOLEAN
      BY <1>1, <2>1, <2>2 DEF QuitOK, Scalars
    <2> QED
      BY <2>1, <2>2, <2>4, <2>5
  <1>6. /\ Shape' /\ StackOK' /\ AllowedOK' /\ FreshOK' /\ RunOK' /\ QuitOK'
        /\ ~Replacing' /\ over' \in BOOLEAN
        /\ UNCHANGED <<have, workMsgs>> \/ ScheduleWork
    BY <1>2, <1>4, <1>5
  <1>7. have' \in BOOLEAN /\ workMsgs' \in Nat /\ OneWork'
    <2>1. CASE UNCHANGED <<have, workMsgs>>
      BY <1>1, <1>2, <1>6, <2>1 DEF OneWork, Replacing, Scalars
    <2>2. CASE ScheduleWork
      <3>1. have' \in BOOLEAN /\ workMsgs' \in Nat
        BY <2>2 DEF ScheduleWork, Scalars
      <3>2. OneWork'
        BY <1>1, <1>2, <1>6, <2>2 DEF ScheduleWork, OneWork, Replacing
      <3> QED
        BY <3>1, <3>2
    <2> QED
      BY <1>6, <2>1, <2>2
  <1>8. Scalars'
    BY <1>1, <1>6, <1>7 DEF Scalars, queues, timing
  <1> QED
    BY <1>3, <1>6, <1>7, <1>8

\* What is common to the steps of DoDelayedWork that only go on, and to the
\* return of WaitForWork.
LEMMA TurnStep ==
  ASSUME Parts, NEW f \in Frame, SetTop(f), stack # << >>, Top.at # "Replace",
         f.kind = Top.kind, f.fresh = Top.fresh, PlaceOK(f), f.at # "Replace",
         Top.kind \in {"run", "timer"}, wakeTime' \in Nat, Top' = f => RunOK',
         UNCHANGED <<queues, allowed, have, shouldQuit, messages, timer, now, over, poster>>
  PROVE  Parts'
  <1> USE DEF Parts
  <1>1. Announced => Announced'
    BY Announcing DEF queues
  <1>2. /\ Shape' /\ StackOK' /\ AllowedOK' /\ FreshOK'
        /\ (InRun' <=> InRun) /\ Top' = f /\ ~Replacing'
    BY <1>1, TopTurns DEF Covers
  <1>3. QuitOK'
    BY <1>2 DEF QuitOK
  <1>4. Scalars'
    BY DEF Scalars, queues, messages
  <1>5. OneWork'
    BY <1>2 DEF OneWork, Replacing, messages
  <1>6. QueuesOK'
    BY QueuesStay DEF queues
  <1> QED
    BY <1>2, <1>3, <1>4, <1>5, <1>6

LEMMA DoDelayedWorkFindsNothingStep ==
  ASSUME Parts, DoDelayedWorkFindsNothing
  PROVE  Parts'
  <1> USE DEF Parts
  <1> DEFINE f == [Top EXCEPT !.at = "AfterDelayed"]
  <1>1. /\ At({"run", "timer"}, "Delayed")
        /\ ~allowed \/ delayed = {}
        /\ wakeTime' = 0 /\ SetTop(f)
        /\ UNCHANGED <<queues, allowed, have, shouldQuit, messages, timer, now, over, poster>>
    BY DEF DoDelayedWorkFindsNothing
  <1>2. /\ Top \in Frame /\ stack # << >> /\ Top.kind \in {"run", "timer"}
        /\ Top.at = "Delayed"
    BY <1>1, TopFacts
  <1>3. /\ f \in Frame /\ f.kind = Top.kind /\ f.at = "AfterDelayed" /\ f.fresh = Top.fresh
        /\ f.more = Top.more
    <2>1. "AfterDelayed" \in Places
      BY DEF Places
    <2> QED
      BY <1>2, <2>1, FrameTurns
  <1> HIDE DEF f
  <1>4. PlaceOK(f)
    BY <1>2, <1>3 DEF PlaceOK
  <1>5. ASSUME Top' = f PROVE RunOK'
    <2>1. CASE Top.kind = "run"
      <3>1. In("run")
        BY <1>2, <2>1 DEF In
      <3>2. delayed' = {}
        BY <1>1, <3>1, AllowedInRun DEF queues
      <3>3. Top.more \/ Announced
        BY <1>2, <3>1 DEF RunOK
      <3>4. f.more \/ Announced'
        BY <1>1, <1>3, <3>3, Announcing DEF queues
      <3> QED
        BY <1>3, <1>5, <3>2, <3>4 DEF RunOK
    <2>2. CASE Top.kind # "run"
      BY <1>3, <1>5, <2>2 DEF RunOK, In
    <2> QED
      BY <2>1, <2>2
  <1> QED
    BY <1>1, <1>2, <1>3, <1>4, <1>5, TurnStep

LEMMA DoDelayedWorkIsEarlyStep ==
  ASSUME Parts, NEW t \in Tasks, DoDelayedWorkIsEarly(t)
  PROVE  Parts'
  <1> USE DEF Parts
  <1> DEFINE f == [Top EXCEPT !.at = "AfterDelayed"]
  <1>1. /\ At({"run", "timer"}, "Delayed") /\ IsTop(t, delayed, zeroth) /\ due[t] > now
        /\ wakeTime' = due[t] /\ SetTop(f)
        /\ UNCHANGED <<queues, allowed, have, shouldQuit, messages, timer, now, over, poster>>
    BY DEF DoDelayedWorkIsEarly
  <1>2. /\ Top \in Frame /\ stack # << >> /\ Top.kind \in {"run", "timer"}
        /\ Top.at = "Delayed"
    BY <1>1, TopFacts
  <1>3. /\ f \in Frame /\ f.kind = Top.kind /\ f.at = "AfterDelayed" /\ f.fresh = Top.fresh
        /\ f.more = Top.more
    <2>1. "AfterDelayed" \in Places
      BY DEF Places
    <2> QED
      BY <1>2, <2>1, FrameTurns
  <1> HIDE DEF f
  <1>4. PlaceOK(f)
    BY <1>2, <1>3 DEF PlaceOK
  <1>5. wakeTime' \in Nat /\ wakeTime' # 0 /\ \A u \in delayed : wakeTime' <= due[u]
    BY <1>1 DEF IsTop, Scalars
  <1>6. ASSUME Top' = f PROVE RunOK'
    <2>1. CASE Top.kind = "run"
      <3>1. In("run")
        BY <1>2, <2>1 DEF In
      <3>2. Top.more \/ Announced
        BY <1>2, <3>1 DEF RunOK
      <3>3. f.more \/ Announced'
        BY <1>1, <1>3, <3>2, Announcing DEF queues
      <3>4. delayed' = delayed /\ due' = due
        BY <1>1 DEF queues
      <3> QED
        BY <1>3, <1>5, <1>6, <3>3, <3>4 DEF RunOK
    <2>2. CASE Top.kind # "run"
      BY <1>3, <1>6, <2>2 DEF RunOK, In
    <2> QED
      BY <2>1, <2>2
  <1> QED
    BY <1>1, <1>2, <1>3, <1>4, <1>5, <1>6, TurnStep

LEMMA WaitForWorkStep ==
  ASSUME Parts, WaitForWork \/ MouseInput
  PROVE  Parts'
  <1> USE DEF Parts
  <1>0. PICK a \in {"Message", "WaitMessage"} : SetTop([Top EXCEPT !.at = a])
    BY DEF WaitForWork, MouseInput
  <1> DEFINE f == [Top EXCEPT !.at = a]
  <1>1. /\ At({"run"}, "Wait") /\ SetTop(f)
        /\ UNCHANGED <<queues, allowed, have, shouldQuit, messages, timing, over, poster>>
    BY <1>0 DEF WaitForWork, MouseInput
  <1>2. Top \in Frame /\ stack # << >> /\ Top.kind = "run" /\ Top.at = "Wait"
    BY <1>1, TopFacts
  <1>3. /\ f \in Frame /\ f.kind = Top.kind /\ f.at = a /\ f.fresh = Top.fresh
        /\ f.more = Top.more
    <2>1. a \in Places
      BY DEF Places
    <2> QED
      BY <1>2, <2>1, FrameTurns
  <1> HIDE DEF f
  <1>4. PlaceOK(f)
    BY <1>2, <1>3 DEF PlaceOK
  <1>5. ASSUME Top' = f PROVE RunOK'
    <2>1. ~Top.more /\ Announced
      BY <1>2 DEF RunOK, In
    <2>2. Announced'
      BY <1>1, <2>1, Announcing DEF queues
    <2> QED
      BY <1>3, <1>5, <2>1, <2>2 DEF RunOK
  <1>6. wakeTime' \in Nat
    BY <1>1 DEF timing, Scalars
  <1> QED
    BY <1>1, <1>2, <1>3, <1>4, <1>5, <1>6, TurnStep DEF timing

LEMMA WaitMessageReturnsStep ==
  ASSUME Parts, WaitMessageReturns
  PROVE  Parts'
  <1> USE DEF Parts
  <1>1. /\ NewInput
        /\ UNCHANGED <<queues, allowed, have, shouldQuit, messages, timing, over, poster>>
    BY DEF WaitMessageReturns
  <1>2. Announced => Announced'
    BY <1>1, Announcing DEF queues
  <1>3. /\ Shape' /\ StackOK' /\ AllowedOK' /\ FreshOK' /\ RunOK'
        /\ InRun' <=> InRun
        /\ Replacing' <=> Replacing
    BY <1>1, <1>2, NewInputStack DEF queues, timing
  <1>4. Scalars' /\ QuitOK'
    BY <1>1, <1>3 DEF Scalars, QuitOK, queues, messages, timing
  <1>5. OneWork' /\ QueuesOK'
    BY <1>1, <1>3, QueuesStay DEF OneWork, queues, messages
  <1> QED
    BY <1>3, <1>4, <1>5

LEMMA DoDelayedWorkTakesStep ==
  ASSUME Parts, NEW t \in Tasks, DoDelayedWorkTakes(t)
  PROVE  Parts'
  <1> USE DEF Parts
  <1> DEFINE f == [Top EXCEPT !.at = "AfterDelayed", !.more = TRUE]
  <1>1. /\ At({"run", "timer"}, "Delayed") /\ delayed' = delayed \ {t}
        /\ RunTask(t, f)
        /\ UNCHANGED <<incoming, work, zeroth, due, stamp, posts, have, shouldQuit, messages,
                       timer, now, over, poster>>
    BY DEF DoDelayedWorkTakes
  <1>2. /\ Top \in Frame /\ stack # << >> /\ Top.kind \in {"run", "timer"}
        /\ Top.at = "Delayed" /\ InRun
    <2>1. Top.kind = "run" => InRun
      BY <1>1, TopFacts DEF InRun
    <2> QED
      BY <1>1, <2>1, TopFacts
  <1>3. /\ f \in Frame /\ f.kind = Top.kind /\ f.at = "AfterDelayed" /\ f.fresh = Top.fresh
        /\ f.more = TRUE
    <2>1. "AfterDelayed" \in Places /\ TRUE \in BOOLEAN
      BY DEF Places
    <2> QED
      BY ONLY <1>2, <2>1, FrameTurnsWith
  <1> HIDE DEF f
  <1>4. PlaceOK(f) /\ LeftOK(f)
    BY <1>2, <1>3 DEF PlaceOK, LeftOK
  <1>5. Announced => Announced'
    BY <1>1, Announcing
  <1>6. /\ Shape' /\ StackOK' /\ AllowedOK' /\ FreshOK' /\ RunOK'
        /\ InRun' /\ ~Replacing' /\ allowed' = FALSE /\ started' = started \cup {t}
    BY <1>1, <1>2, <1>3, <1>4, <1>5, RunTaskStack DEF Covers
  <1>7. wakeTime' \in Nat
    <2>1. CASE UNCHANGED wakeTime
      BY <2>1 DEF Scalars
    <2>2. CASE \E u \in delayed' : IsTop(u, delayed', zeroth) /\ wakeTime' = due[u]
      BY <1>1, <2>2 DEF Scalars
    <2> QED
      BY <2>1, <2>2 DEF DoDelayedWorkTakes
  <1>8. Scalars' /\ QuitOK'
    BY <1>1, <1>6, <1>7 DEF Scalars, QuitOK, messages
  <1>9. OneWork'
    BY <1>1, <1>2, <1>6 DEF OneWork, Replacing, messages
  <1>10. QueuesOK'
    BY <1>1 DEF QueuesOK
  <1> QED
    BY <1>6, <1>8, <1>9, <1>10

LEMMA AfterDelayedInRunStep ==
  ASSUME Parts, AfterDelayedInRun
  PROVE  Parts'
  <1> USE DEF Parts
  <1> DEFINE a == IF Top.more THEN "Message" ELSE "Wait"
             f == [Top EXCEPT !.at = a]
  <1>1. /\ At({"run"}, "AfterDelayed") /\ GoOn(f)
        /\ timer' = IF Top.more /\ wakeTime = 0 THEN 0 ELSE timer
        /\ UNCHANGED <<queues, allowed, have, shouldQuit, messages, wakeTime, now, poster>>
    BY DEF AfterDelayedInRun
  <1>2. Top \in Frame /\ stack # << >> /\ Top.kind = "run" /\ In("run")
        /\ Top.at = "AfterDelayed"
    BY <1>1, TopFacts DEF In
  <1>3. a \in {"Message", "Wait"} /\ a \in Places /\ (a = "Wait" <=> ~Top.more)
    BY DEF Places
  <1>4. f \in Frame /\ f.kind = Top.kind /\ f.at = a /\ f.fresh = Top.fresh
        /\ f.more = Top.more
    BY <1>2, <1>3, FrameTurns
  <1> HIDE DEF a, f
  <1>5. PlaceOK(f)
    BY <1>2, <1>3, <1>4 DEF PlaceOK
  <1>6. Announced => Announced'
    BY <1>1, Announcing DEF queues
  <1>7. ASSUME Top' = f PROVE RunOK'
    <2>1. CASE a = "Message"
      BY <1>4, <1>7, <2>1 DEF RunOK
    <2>2. CASE a = "Wait"
      <3>1. ~Top.more /\ Announced /\ \A t \in delayed : wakeTime # 0 /\ wakeTime <= due[t]
        BY <1>2, <1>3, <2>2 DEF RunOK
      <3>2. ~f.more /\ Announced' /\ delayed' = delayed /\ due' = due /\ wakeTime' = wakeTime
        BY <1>1, <1>4, <1>6, <3>1 DEF queues
      <3> QED
        BY <1>4, <1>7, <2>2, <3>1, <3>2 DEF RunOK
    <2> QED
      BY <1>3, <2>1, <2>2
  <1>8. /\ Shape' /\ StackOK' /\ AllowedOK' /\ FreshOK' /\ RunOK' /\ QuitOK'
        /\ ~Replacing' /\ over' \in BOOLEAN
    BY <1>1, <1>2, <1>3, <1>4, <1>5, <1>6, <1>7, GoOnStack
  <1>9. Scalars'
    <2>1. timer' \in Nat
      BY <1>1 DEF Scalars
    <2> QED
      BY <1>1, <1>8, <2>1 DEF Scalars, queues, messages
  <1>10. OneWork'
    BY <1>1, <1>2, <1>8 DEF OneWork, messages, Replacing
  <1>11. QueuesOK'
    BY <1>1, QueuesStay DEF queues
  <1> QED
    BY <1>8, <1>9, <1>10, <1>11

LEMMA AfterDelayedInTimerStep ==
  ASSUME Parts, AfterDelayedInTimer
  PROVE  Parts'
  <1> USE DEF Parts
  <1>1. /\ At({"timer"}, "AfterDelayed") /\ Leave
        /\ timer' = IF wakeTime # 0 THEN TimerFor(wakeTime) ELSE timer
        /\ UNCHANGED <<queues, allowed, have, shouldQuit, messages, wakeTime, now, over, poster>>
    BY DEF AfterDelayedInTimer
  <1>2. stack # << >> /\ Top.kind = "timer" /\ Top.at = "AfterDelayed"
    BY <1>1, TopFacts
  <1>3. Shape' /\ StackOK' /\ RunOK' /\ ~Replacing' /\ (InRun' <=> InRun)
    BY <1>1, <1>2, TopLeaves
  <1>4. Announced => Announced'
    BY <1>1, Announcing DEF queues
  <1>5. AllowedOK' /\ FreshOK'
    BY <1>1, <1>2, <1>4, TopLeavesAllowed DEF Covers
  <1>6. Scalars' /\ QuitOK'
    <2>1. timer' \in Nat
      BY <1>1 DEF Scalars, TimerFor
    <2>2. QuitOK'
      BY <1>1, <1>3 DEF QuitOK
    <2> QED
      BY <1>1, <2>1, <2>2 DEF Scalars, queues, messages
  <1>7. OneWork'
    BY <1>1, <1>2, <1>3 DEF OneWork, messages, Replacing
  <1>8. QueuesOK'
    BY <1>1, QueuesStay DEF queues
  <1> QED
    BY <1>3, <1>5, <1>6, <1>7, <1>8

(***************************************************************************)
(* Modal loops, closures and window procedures                             *)
(***************************************************************************)

LEMMA RunStep ==
  ASSUME Parts, Run
  PROVE  Parts'
  <1> USE DEF Parts
  <1> DEFINE g == NewFrame("run", "Message", NoTask)
  <1>1. /\ stack = << >> /\ ~over /\ Enter(g)
        /\ UNCHANGED <<queues, allowed, have, shouldQuit, messages, timing, over, poster>>
    BY DEF Run
  <1>2. g \in Frame /\ g.kind = "run" /\ g.at = "Message" /\ ~g.fresh
    <2>1. "run" \in Kinds /\ "Message" \in Places /\ NoTask \in Tasks \cup {NoTask}
      BY DEF Kinds, Places
    <2> QED
      BY <2>1, NewFrameType
  <1> HIDE DEF g
  <1>3. Pushes(g)
    BY <1>1, <1>2, EnterPushes DEF Shape
  <1>4. Shape' /\ Top' = g /\ stack' # << >> /\ InRun'
    BY <1>1, <1>2, <1>3, PushShape
  <1>5. StackOK'
    <2>1. PlaceOK(g)
      BY <1>2 DEF PlaceOK
    <2> QED
      BY <1>1, <1>2, <1>3, <2>1, PushStack
  <1>6. AllowedOK'
    BY <1>1, <1>2, <1>3, PushAllowed
  <1>7. FreshOK'
    <2>1. Len(stack') = 1 /\ stack'[1] = g
      BY <1>1, <1>3, EmptySeq DEF Pushes
    <2> QED
      BY <1>2, <2>1 DEF FreshOK
  <1>8. RunOK' /\ ~Replacing' /\ QuitOK'
    BY <1>1, <1>2, <1>4 DEF RunOK, Replacing, QuitOK
  <1>9. Scalars'
    BY <1>1 DEF Scalars, queues, messages, timing
  <1>10. OneWork'
    BY <1>1, <1>8 DEF OneWork, messages, Replacing
  <1>11. QueuesOK'
    BY <1>1, QueuesStay DEF queues
  <1> QED
    BY <1>4, <1>5, <1>6, <1>7, <1>8, <1>9, <1>10, <1>11

\* A modal loop, a closure or a window procedure is at its only place.
LEMMA TopInside ==
  ASSUME Parts, NEW k \in {"modal", "task", "handler"}, In(k)
  PROVE  /\ Top \in Frame /\ stack # << >> /\ Top.kind = k
         /\ LeftOK(Top) /\ ~Replacing
         /\ Len(stack) \in Nat \ {0} /\ stack[Len(stack)] = Top
         /\ k = "task" => InRun
  <1> USE DEF Parts
  <1>1. Len(stack) \in Nat \ {0} /\ Top \in Frame /\ stack # << >> /\ stack[Len(stack)] = Top
    BY StackLength DEF Shape, In, Top
  <1>2. PlaceOK(Top) /\ Top.kind = k
    BY <1>1 DEF In, StackOK, FrameOK
  <1>3. k = "task" => InRun
    BY <1>1, <1>2 DEF Shape
  <1> QED
    BY <1>1, <1>2, <1>3 DEF PlaceOK, LeftOK, Replacing

LEMMA ModalGetsWorkStep ==
  ASSUME Parts, ModalGetsWork
  PROVE  Parts'
  <1> USE DEF Parts
  <1>1. /\ In("modal") /\ workMsgs > 0 /\ workMsgs' = workMsgs - 1
        /\ UNCHANGED <<queues, allowed, shouldQuit, appMsgs, appLeft, quitMsg, timing, over,
                       poster>>
    BY DEF ModalGetsWork, Peek
  <1>2. Top \in Frame /\ stack # << >> /\ Top.kind = "modal" /\ LeftOK(Top) /\ ~Replacing
    BY <1>1, TopInside
  <1>3. have /\ workMsgs = 1 /\ poster # "message"
    BY <1>1 DEF OneWork, Scalars
  <1>4. QueuesOK'
    BY <1>1, QueuesStay DEF queues
  <1>5. CASE InRun
    <2> DEFINE g == NewFrame("work", "Replace", NoTask)
    <2>1. Enter(g) /\ have' = have
      BY <1>5 DEF ModalGetsWork
    <2>2. g \in Frame /\ g.kind = "work" /\ g.at = "Replace" /\ ~g.fresh
      <3>1. "work" \in Kinds /\ "Replace" \in Places /\ NoTask \in Tasks \cup {NoTask}
        BY DEF Kinds, Places
      <3> QED
        BY <3>1, NewFrameType
    <2> HIDE DEF g
    <2>3. Pushes(g)
      BY <2>1, <2>2, EnterPushes DEF Shape
    <2>4. Shape' /\ Top' = g /\ stack' # << >> /\ (InRun' <=> InRun)
      BY <1>2, <1>5, <2>2, <2>3, PushShape
    <2>5. StackOK'
      <3>1. PlaceOK(g)
        BY <2>2 DEF PlaceOK
      <3> QED
        BY <1>2, <2>2, <2>3, <3>1, PushStack
    <2>6. AllowedOK'
      BY <1>1, <2>2, <2>3, PushAllowed
    <2>7. Announced'
      BY <1>3, <2>1 DEF Announced
    <2>8. FreshOK'
      BY <1>2, <2>2, <2>3, <2>4, <2>7, PushFresh
    <2>9. RunOK' /\ Replacing' /\ QuitOK'
      BY <1>1, <2>2, <2>4 DEF RunOK, Replacing, QuitOK, In
    <2>10. Scalars' /\ OneWork'
      <3>1. workMsgs' = 0 /\ have' /\ have' \in BOOLEAN
        BY <1>1, <1>3, <2>1
      <3>2. Scalars'
        BY <1>1, <3>1 DEF Scalars, queues, timing
      <3>3. OneWork'
        BY <1>1, <1>3, <2>9, <3>1 DEF OneWork
      <3> QED
        BY <3>2, <3>3
    <2> QED
      BY <1>4, <2>4, <2>5, <2>6, <2>8, <2>9, <2>10
  <1>6. CASE ~InRun
    <2>1. UNCHANGED stack /\ have' = FALSE
      BY <1>6 DEF ModalGetsWork
    <2>2. /\ Shape' /\ ~InRun' /\ StackOK' /\ ~In("run")' /\ AllowedOK'
      BY <1>1, <1>2, <1>6, <2>1, StayStack, StayAllowed DEF In
    <2>3. FreshOK'
      BY <1>6, <2>1, StayFresh
    <2>4. RunOK'
      BY <2>2 DEF RunOK
    <2>5. ~Replacing'
      BY <1>2, <2>1 DEF Replacing, Top
    <2>6. QuitOK'
      BY <1>1, <1>6 DEF QuitOK
    <2>7. Scalars' /\ OneWork'
      <3>0. have' \in BOOLEAN
        BY <2>1
      <3>1. workMsgs' = 0 /\ have' \in BOOLEAN
        BY <1>1, <1>3, <3>0
      <3>2. Scalars'
        BY <1>1, <2>1, <3>1 DEF Scalars, queues, timing
      <3>3. OneWork'
        BY <1>1, <1>3, <2>1, <2>5, <3>1 DEF OneWork
      <3> QED
        BY <3>2, <3>3
    <2> QED
      BY <1>4, <2>2, <2>3, <2>4, <2>6, <2>7
  <1> QED
    BY <1>5, <1>6

LEMMA EndModalStep ==
  ASSUME Parts, EndModal
  PROVE  Parts'
  <1> USE DEF Parts
  <1>1. /\ In("modal") /\ Leave
        /\ UNCHANGED <<queues, allowed, have, shouldQuit, messages, timing, over, poster>>
    BY DEF EndModal
  <1>2. stack # << >> /\ Top.kind = "modal" /\ ~Replacing
    BY <1>1, TopInside
  <1>3. Shape' /\ StackOK' /\ RunOK' /\ ~Replacing' /\ (InRun' <=> InRun)
    BY <1>1, <1>2, TopLeaves
  <1>4. Announced => Announced'
    BY <1>1, Announcing DEF queues
  <1>5. AllowedOK' /\ FreshOK'
    BY <1>1, <1>2, <1>4, TopLeavesAllowed DEF Covers
  <1>6. Scalars'
    BY <1>1 DEF Scalars, queues, messages, timing
  <1>7. QuitOK'
    BY <1>1, <1>3 DEF QuitOK
  <1>8. OneWork'
    BY <1>1, <1>2, <1>3 DEF OneWork, messages
  <1>9. QueuesOK'
    BY <1>1, QueuesStay DEF queues
  <1> QED
    BY <1>3, <1>5, <1>6, <1>7, <1>8, <1>9

LEMMA FinishStep ==
  ASSUME Parts, Finish
  PROVE  Parts'
  <1> USE DEF Parts
  <1>1. /\ In("task") \/ In("handler")
        /\ Leave /\ allowed' = (allowed \/ In("task"))
        /\ UNCHANGED <<queues, have, shouldQuit, messages, timing, over, poster>>
    BY DEF Finish
  <1>2. stack # << >> /\ Top.kind \in {"task", "handler"} /\ ~Replacing
    BY <1>1, TopInside
  <1>3. Shape' /\ StackOK' /\ RunOK' /\ ~Replacing' /\ (InRun' <=> InRun)
    BY <1>1, <1>2, TopLeaves
  <1>4. Announced => Announced'
    BY <1>1, Announcing DEF queues
  <1>5. ~allowed' => ~allowed /\ Top.kind # "task"
    BY <1>1, <1>2 DEF In
  <1>6. AllowedOK' /\ FreshOK'
    BY <1>1, <1>2, <1>4, <1>5, TopLeavesAllowed DEF Covers
  <1>7. Scalars'
    <2>1. allowed' \in BOOLEAN
      BY <1>1
    <2> QED
      BY <1>1, <2>1 DEF Scalars, queues, messages, timing
  <1>8. QuitOK'
    BY <1>1, <1>3 DEF QuitOK
  <1>9. OneWork'
    BY <1>1, <1>2, <1>3 DEF OneWork, messages
  <1>10. QueuesOK'
    BY <1>1, QueuesStay DEF queues
  <1> QED
    BY <1>3, <1>6, <1>7, <1>8, <1>9, <1>10

LEMMA OpenModalStep ==
  ASSUME Parts, OpenModal
  PROVE  Parts'
  <1> USE DEF Parts
  <1> DEFINE n == Len(stack)
             s == [i \in 1..n |-> [stack[i] EXCEPT !.fresh = @ /\ ~RunByTimer]]
             b == allowed /\ Announced
             m == NewFrame("modal", "Inside", NoTask)
             g == [m EXCEPT !.fresh = b]
  <1>1. /\ stack' = Append(s, g)
        /\ stack = << >> \/ In("handler") \/ In("task")
        /\ UNCHANGED <<queues, allowed, have, shouldQuit, messages, timing, over, poster>>
    BY DEF OpenModal
  <1>2. g \in Frame /\ g.kind = "modal" /\ g.at = "Inside" /\ (g.fresh <=> b)
    <2>1. "modal" \in Kinds /\ "Inside" \in Places /\ NoTask \in Tasks \cup {NoTask}
      BY DEF Kinds, Places
    <2>2. m \in Frame /\ m.kind = "modal" /\ m.at = "Inside"
      BY <2>1, NewFrameType
    <2>3. b \in BOOLEAN
      BY DEF Scalars
    <2> HIDE DEF m, b
    <2> QED
      BY <2>2, <2>3, FreshFrame
  <1>3. n \in Nat /\ (stack = << >> <=> n = 0) /\ \A i \in 1..n : stack[i] \in Frame
    BY StackLength DEF Shape
  <1>4. \A i \in 1..n :
          /\ s[i] \in Frame /\ s[i].kind = stack[i].kind /\ s[i].at = stack[i].at
          /\ s[i].more = stack[i].more
          /\ s[i].fresh <=> stack[i].fresh /\ ~RunByTimer
    BY <1>3 DEF Frame
  <1>5. s \in Seq(Frame) /\ Len(s) = n
    BY <1>3, <1>4
  <1> HIDE DEF s, g, b, m
  <1>6. /\ stack' \in Seq(Frame) /\ Len(stack') = n + 1 /\ stack'[n + 1] = g
        /\ \A i \in 1..n : stack'[i] = s[i]
    BY <1>1, <1>2, <1>5, AppendProperties
  <1>7. /\ \A i \in 1..n : /\ stack'[i].kind = stack[i].kind /\ stack'[i].at = stack[i].at
                           /\ stack'[i].more = stack[i].more
                           /\ stack'[i].fresh <=> stack[i].fresh /\ ~RunByTimer
        /\ stack'[n + 1] = g
    BY <1>4, <1>6
  <1>8. Top' = g /\ stack' # << >>
    BY <1>3, <1>6, EmptySeq DEF Top
  <1>9. InRun' <=> InRun
    <2>1. CASE stack = << >>
      BY <1>2, <1>3, <1>6, <2>1 DEF InRun
    <2>2. CASE stack # << >>
      BY <1>3, <1>7, <1>8, <2>2 DEF InRun
    <2> QED
      BY <2>1, <2>2
  <1>10. Shape'
    <2>1. \A i \in 2..(n + 1) : stack'[i].kind # "run"
      BY <1>2, <1>3, <1>7 DEF Shape
    <2>2. \A i \in 1..(n + 1) : stack'[i].kind \in {"work", "timer", "task"} => InRun'
      BY <1>2, <1>3, <1>7, <1>9 DEF Shape
    <2> QED
      BY <1>6, <2>1, <2>2 DEF Shape
  <1>11. stack # << >> => /\ LeftOK(Top) /\ Top = stack[n]
    <2>1. CASE In("handler") \/ In("task")
      BY <2>1, TopInside
    <2> QED
      BY <1>1, <2>1
  <1>12. StackOK'
    <2>1. ASSUME NEW i \in 1..n PROVE FrameOK(i)'
      <3>1. FrameOK(i) /\ (i > 1 => i - 1 \in 1..n)
        BY <1>3 DEF StackOK
      <3>2. LeftOK(stack[i])
        BY <1>3, <1>11, <3>1 DEF FrameOK
      <3> QED
        BY <1>3, <1>6, <1>7, <3>1, <3>2 DEF FrameOK, PlaceOK, LeftOK
    <2>2. ASSUME NEW i \in 1..(n + 1), i = n + 1 PROVE FrameOK(i)'
      BY <1>2, <1>3, <1>6, <2>2 DEF FrameOK, PlaceOK
    <2> QED
      BY <1>3, <1>6, <2>1, <2>2 DEF StackOK
  <1>13. Announced' <=> Announced
    BY <1>1 DEF Announced, queues
  <1>14. AllowedOK'
    <2>1. ASSUME ~allowed
          PROVE  /\ \E j \in 1..(n + 1) : stack'[j].kind = "task"
                 /\ \A i \in 1..(n + 1) : stack'[i].fresh =>
                      \E j \in (i + 1)..(n + 1) : stack'[j].kind = "task"
      <3>1. \E j \in 1..(n + 1) : stack'[j].kind = "task"
        BY <1>3, <1>7, <2>1 DEF AllowedOK
      <3>2. ASSUME NEW i \in 1..(n + 1), stack'[i].fresh
            PROVE  \E j \in (i + 1)..(n + 1) : stack'[j].kind = "task"
        <4>1. i \in 1..n /\ stack[i].fresh
          BY <1>2, <1>3, <1>7, <2>1, <3>2 DEF b
        <4>2. PICK j \in (i + 1)..n : stack[j].kind = "task"
          BY <2>1, <4>1 DEF AllowedOK
        <4> QED
          BY <1>3, <1>7, <4>1, <4>2
      <3> QED
        BY <3>1, <3>2
    <2> QED
      BY <1>1, <1>6, <2>1 DEF AllowedOK
  <1>15. FreshOK'
    <2>1. ASSUME NEW i \in 1..n, stack'[i].fresh
          PROVE  /\ stack'[i].kind = "modal"
                 /\ InRun' => Announced' \/ \E j \in (i + 1)..(n + 1) : Covers(stack'[j])
                 /\ \A j \in (i + 1)..n :
                      stack'[j].kind = "task" => stack'[j - 1].kind # "timer"
      <3>1. stack[i].fresh /\ ~RunByTimer
        BY <1>7, <2>1
      <3>2. stack[i].kind = "modal"
        BY <3>1 DEF FreshOK
      <3>3. ASSUME InRun'
            PROVE  Announced' \/ \E j \in (i + 1)..(n + 1) : Covers(stack'[j])
        <4>1. Announced \/ \E j \in (i + 1)..n : Covers(stack[j])
          BY <1>9, <3>1, <3>3 DEF FreshOK
        <4> QED
          BY <1>3, <1>7, <1>13, <4>1 DEF Covers
      <3>4. ASSUME NEW j \in (i + 1)..n, stack'[j].kind = "task"
            PROVE  stack'[j - 1].kind # "timer"
        <4>1. j \in 1..n /\ j - 1 \in 1..n /\ stack[j].kind = "task"
          BY <1>3, <1>7, <3>4
        <4>2. stack[j - 1].kind # "timer"
          <5>1. CASE j < n
            BY <1>3, <3>1, <4>1, <5>1 DEF FreshOK
          <5>2. CASE j = n
            <6>1. stack # << >> /\ Top = stack[n]
              BY <1>3, <1>11, <4>1
            <6> QED
              BY <1>3, <3>1, <4>1, <5>2, <6>1 DEF RunByTimer, In
          <5> QED
            BY <1>3, <4>1, <5>1, <5>2
        <4> QED
          BY <1>7, <4>1, <4>2
      <3> QED
        BY <1>7, <3>2, <3>3, <3>4
    <2>2. ASSUME g.fresh
          PROVE  /\ g.kind = "modal" /\ Announced'
      BY <1>2, <1>13, <2>2 DEF b
    <2> QED
      BY <1>3, <1>6, <2>1, <2>2 DEF FreshOK
  <1>16. RunOK' /\ ~Replacing'
    BY <1>2, <1>8 DEF RunOK, Replacing, In
  <1>17. ~Replacing
    <2>1. CASE stack = << >>
      BY <2>1 DEF Replacing
    <2>2. CASE stack # << >>
      BY <1>11, <2>2 DEF Replacing, LeftOK
    <2> QED
      BY <2>1, <2>2
  <1>18. Scalars' /\ OneWork'
    <2>1. Scalars'
      BY <1>1 DEF Scalars, queues, messages, timing
    <2>2. OneWork'
      BY <1>1, <1>16, <1>17 DEF OneWork, messages
    <2> QED
      BY <2>1, <2>2
  <1>19. QuitOK'
    BY <1>1, <1>9 DEF QuitOK
  <1>20. QueuesOK'
    BY <1>1, QueuesStay DEF queues
  <1> QED
    BY <1>10, <1>12, <1>14, <1>15, <1>16, <1>18, <1>19, <1>20

(***************************************************************************)
(* The theorems                                                            *)
(***************************************************************************)

LEMMA InitParts == Init => Parts
  <1> SUFFICES ASSUME Init PROVE Parts
    OBVIOUS
  <1>1. Len(stack) = 0 /\ Len(incoming) = 0 /\ Len(work) = 0 /\ stack \in Seq(Frame)
        /\ incoming \in Seq(Tasks) /\ work \in Seq(Tasks)
    BY EmptySeq DEF Init
  <1>2. Scalars
    BY <1>1, PumpAssumption DEF Init, Scalars, PumpAssumption
  <1>3. Shape /\ QuitOK /\ StackOK
    BY <1>1 DEF Init, Shape, QuitOK, StackOK
  <1>4. OneWork /\ RunOK
    BY DEF Init, OneWork, Replacing, RunOK, In
  <1>5. QueuesOK /\ AllowedOK /\ FreshOK
    BY <1>1 DEF Init, QueuesOK, AllowedOK, FreshOK
  <1> QED
    BY <1>2, <1>3, <1>4, <1>5 DEF Parts

LEMMA StepParts == Parts /\ [Next]_vars => Parts'
  <1> SUFFICES ASSUME Parts, [Next]_vars PROVE Parts'
    OBVIOUS
  <1>1. ASSUME NEW t \in Tasks, PostFromThread(t) \/ PostFromLoop(t) PROVE Parts'
    BY <1>1, PostFromThreadStep, PostFromLoopStep
  <1>2. CASE Exchange \/ PostHaveWork \/ WindowMessage \/ AllowNesting
             \/ PostQuitMessage \/ Tick
    BY <1>2, MessageSteps
  <1>w. CASE MouseInput \/ WaitMessageReturns
    BY <1>w, WaitForWorkStep, WaitMessageReturnsStep
  <1>3. CASE Run \/ OpenModal \/ EndModal \/ Finish
    BY <1>3, RunStep, OpenModalStep, EndModalStep, FinishStep
  <1>4. CASE PumpStep
    <2>1. CASE NextMessageNone \/ NextMessageWork \/ NextMessageQuit \/ QuitAfterMessage
      BY <2>1, NextMessageNoneStep, NextMessageWorkStep, QuitStep
    <2>2. CASE ReplaceNothing \/ ReplaceWithQuit
      BY <2>2, ReplaceNothingStep, ReplaceWithQuitStep
    <2>3. CASE DoWorkFindsNothing \/ ReloadWorkQueue \/ DoWorkMovesDelayed
               \/ DoWorkRunsTask \/ AfterWork
      BY <2>3, DoWorkFindsNothingStep, ReloadStep, MovesDelayedStep, DoWorkRunsTaskStep,
         AfterWorkStep
    <2>4. CASE DoDelayedWorkFindsNothing
      BY <2>4, DoDelayedWorkFindsNothingStep
    <2>5. ASSUME NEW t \in Tasks, DoDelayedWorkIsEarly(t) \/ DoDelayedWorkTakes(t)
          PROVE  Parts'
      BY <2>5, DoDelayedWorkIsEarlyStep, DoDelayedWorkTakesStep
    <2>6. CASE AfterDelayedInRun \/ AfterDelayedInTimer \/ WaitForWork
      BY <2>6, AfterDelayedInRunStep, AfterDelayedInTimerStep, WaitForWorkStep
    <2>7. CASE ModalGetsWork
      BY <2>7, ModalGetsWorkStep
    <2>8. ASSUME NEW m \in {"app", "timer"},
                 NextMessageOther(m) \/ ReplaceWith(m) \/ ModalGetsOther(m)
          PROVE  Parts'
      BY <2>8, NextMessageOtherStep, ReplaceWithStep, ModalGetsOtherStep
    <2> QED
      BY <1>4, <2>1, <2>2, <2>3, <2>4, <2>5, <2>6, <2>7, <2>8 DEF PumpStep
  <1>5. CASE UNCHANGED vars
    <2>1. UNCHANGED <<stack, over, have, poster, workMsgs, allowed, shouldQuit>>
          /\ UNCHANGED <<queues, messages, timing>>
      BY <1>5 DEF vars, queues, messages, timing
    <2>2. Shape' /\ StackOK' /\ QuitOK'
      BY <2>1, StayStack DEF Parts, QuitOK
    <2>3. AllowedOK' /\ FreshOK' /\ RunOK' /\ QueuesOK'
      <3>1. Announced' <=> Announced
        BY <2>1 DEF Announced, queues
      <3>2. RunOK'
        BY <2>1, <3>1, StayRun DEF Parts, queues, timing
      <3> QED
        BY <2>1, <3>1, <3>2, StayAllowed, StayFresh, QueuesStay DEF Parts, queues
    <2>4. Scalars'
      BY <2>1 DEF Parts, Scalars, queues, messages, timing
    <2>5. OneWork'
      BY <2>1 DEF Parts, OneWork, Replacing, Top, messages
    <2> QED
      BY <2>2, <2>3, <2>4, <2>5 DEF Parts
  <1> QED
    BY <1>1, <1>2, <1>w, <1>3, <1>4, <1>5 DEF Next

LEMMA PartsAlways == Spec => []Parts
  BY InitParts, StepParts, PTL DEF Spec

\* Type correctness: Run is at the bottom of the stack or not at all, and
\* HandleWorkMessage, HandleTimerMessage and tasks only run inside it.
THEOREM PumpTypes == Spec => []TypeOK
  <1>1. Parts => TypeOK
    BY PartsOfInv DEF PumpInv
  <1> QED
    BY <1>1, PartsAlways, PTL

\* For any number of tasks, modal loops and messages, have_work_ is set exactly
\* when one kMsgHaveWork is queued, about to be posted, or taken and not yet
\* replaced.
THEOREM OneMessage == Spec => []OneWorkMessage
  <1>1. Parts => OneWorkMessage
    BY PartsOfInv DEF PumpInv
  <1> QED
    BY <1>1, PartsAlways, PTL

\* Neither DoRunLoop nor a modal loop that owes nobody a kMsgHaveWork sleeps on
\* an immediate task, however the loops nest, nor does DoRunLoop wait with a
\* time-out past the earliest delayed task.  WaitMessage is excepted, which has
\* no time-out.
THEOREM PumpAwake == Spec => []NoSleepOnWork
  <1>1. Parts => NoSleepOnWork
    <2> SUFFICES ASSUME Parts PROVE RunLoopAwake /\ ModalLoopAwake
      BY DEF NoSleepOnWork
    <2> USE DEF Parts
    <2>1. ASSUME Waiting, ~Replacing, Announced
          PROVE  work = << >> /\ incoming = << >>
      <3>1. workMsgs = 0 /\ poster = "idle"
        BY <2>1 DEF Waiting, PeekNothing, Peek, Scalars
      <3>2. ~have
        BY <2>1, <3>1 DEF OneWork
      <3> QED
        BY <2>1, <3>1, <3>2 DEF Announced
    <2>2. RunLoopAwake
      <3> SUFFICES ASSUME In("run"), Top.at \in {"Wait", "WaitMessage"}, Waiting
                   PROVE  /\ work = << >> /\ incoming = << >>
                          /\ Top.at = "Wait" =>
                               \A t \in delayed : wakeTime # 0 /\ wakeTime <= due[t]
        BY DEF RunLoopAwake
      <3>1. ~Replacing
        BY DEF Replacing
      <3>2. /\ Announced
            /\ Top.at = "Wait" =>
                 \A t \in delayed : wakeTime # 0 /\ wakeTime <= due[t]
        BY DEF RunOK
      <3> QED
        BY <2>1, <3>1, <3>2
    <2>3. ModalLoopAwake
      <3> SUFFICES ASSUME In("modal"), Top.fresh, InRun, Waiting
                   PROVE  work = << >> /\ incoming = << >>
        BY DEF ModalLoopAwake
      <3>1. ~Replacing /\ Len(stack) \in Nat \ {0} /\ stack[Len(stack)] = Top
        BY TopInside
      <3>2. Announced
        BY <3>1 DEF FreshOK
      <3> QED
        BY <2>1, <3>1, <3>2
    <2> QED
      BY <2>2, <2>3
  <1> QED
    BY <1>1, PartsAlways, PTL

(***************************************************************************)
(* The pump implements TaskService                                         *)
(***************************************************************************)

\* Counting the frames of a kind: one more frame, the same kinds, fewer frames.
LEMMA CountStep ==
  ASSUME NEW s, NEW k, NEW n \in Nat
  PROVE  /\ KindCount(s, k, n) \in Nat
         /\ KindCount(s, k, 0) = 0
         /\ KindCount(s, k, n + 1) = KindCount(s, k, n) + (IF s[n + 1].kind = k THEN 1 ELSE 0)
  <1> DEFINE Of(m) == {i \in 1..m : s[i].kind = k}
  <1>1. IsFiniteSet(Of(n)) /\ Cardinality(Of(n)) \in Nat
    <2>1. IsFiniteSet(1..n)
      BY FS_Interval
    <2>2. Of(n) \in SUBSET (1..n)
      OBVIOUS
    <2> HIDE DEF Of
    <2>3. IsFiniteSet(Of(n))
      BY <2>1, <2>2, FS_Subset
    <2> QED
      BY <2>3, FS_CardinalityType
  <1>2. Of(0) = {}
    OBVIOUS
  <1>3. Cardinality(Of(0)) = 0
    BY <1>2, FS_EmptySet
  <1>4. Cardinality(Of(n + 1)) = Cardinality(Of(n)) + (IF s[n + 1].kind = k THEN 1 ELSE 0)
    <2>1. CASE s[n + 1].kind = k
      <3>1. Of(n + 1) = Of(n) \cup {n + 1} /\ n + 1 \notin Of(n)
        BY <2>1
      <3> HIDE DEF Of
      <3> QED
        BY <1>1, <2>1, <3>1, FS_AddElement
    <2>2. CASE s[n + 1].kind # k
      <3>1. Of(n + 1) = Of(n)
        BY <2>2
      <3> HIDE DEF Of
      <3> QED
        BY <1>1, <2>2, <3>1
    <2> QED
      BY <2>1, <2>2
  <1> HIDE DEF Of
  <1> QED
    BY <1>1, <1>3, <1>4 DEF KindCount, Of

LEMMA CountSame ==
  ASSUME NEW s, NEW r, NEW k, NEW n \in Nat, \A i \in 1..n : s[i].kind = r[i].kind
  PROVE  KindCount(s, k, n) = KindCount(r, k, n)
  <1>1. {i \in 1..n : s[i].kind = k} = {i \in 1..n : r[i].kind = k}
    OBVIOUS
  <1> QED
    BY <1>1 DEF KindCount

LEMMA CountGrows ==
  ASSUME NEW s, NEW k, NEW n \in Nat, NEW m \in Nat, m <= n
  PROVE  KindCount(s, k, m) <= KindCount(s, k, n)
  <1> DEFINE Of(l) == {i \in 1..l : s[i].kind = k}
  <1>1. IsFiniteSet(1..n) /\ Of(n) \in SUBSET (1..n) /\ Of(m) \in SUBSET Of(n)
    BY FS_Interval
  <1> HIDE DEF Of
  <1>2. IsFiniteSet(Of(n))
    BY <1>1, FS_Subset
  <1>3. Cardinality(Of(m)) <= Cardinality(Of(n))
    BY <1>1, <1>2, FS_Subset
  <1> QED
    BY <1>3 DEF KindCount, Of

\* Two frames that hold the same task deep are one.
LEMMA HoldsOnce ==
  ASSUME NEW s, Len(s) \in Nat, NEW i \in 1..Len(s), NEW j \in 1..Len(s), NEW h,
         Holds(s, i, h), Holds(s, j, h)
  PROVE  i = j
  <1>1. ASSUME NEW m \in 1..Len(s), NEW n \in 1..Len(s), m < n,
               Holds(s, m, h), Holds(s, n, h)
        PROVE  FALSE
    <2>1. /\ n - 1 \in Nat /\ m \in Nat /\ m <= n - 1 /\ n - 1 + 1 = n
      BY <1>1
    <2>2. /\ KindCount(s, "task", n) = KindCount(s, "task", n - 1) + 1
          /\ KindCount(s, "task", n - 1) \in Nat
      <3>1. /\ KindCount(s, "task", n - 1 + 1)
                 = KindCount(s, "task", n - 1) + (IF s[n - 1 + 1].kind = "task" THEN 1 ELSE 0)
            /\ KindCount(s, "task", n - 1) \in Nat
        BY <2>1, CountStep
      <3> QED
        BY <1>1, <2>1, <3>1 DEF Holds
    <2>3. KindCount(s, "task", m) <= KindCount(s, "task", n - 1)
      BY <2>1, CountGrows
    <2>4. KindCount(s, "task", m) = h /\ KindCount(s, "task", n) = h
      BY <1>1 DEF Holds
    <2> QED
      BY <2>2, <2>3, <2>4
  <1>2. i \in Nat /\ j \in Nat
    OBVIOUS
  <1>3. CASE i < j
    BY <1>1, <1>3
  <1>4. CASE j < i
    BY <1>1, <1>4
  <1> QED
    BY <1>2, <1>3, <1>4

LEMMA BodyOf ==
  ASSUME NEW s, Len(s) \in Nat, NEW h
  PROVE  /\ \A i \in 1..Len(s) : Holds(s, i, h) => Body(s, h) = s[i].task
         /\ (\A i \in 1..Len(s) : ~Holds(s, i, h)) => Body(s, h) = NoTask
  <1>1. ASSUME NEW i \in 1..Len(s), Holds(s, i, h) PROVE Body(s, h) = s[i].task
    <2> DEFINE c == CHOOSE j \in 1..Len(s) : Holds(s, j, h)
    <2>1. c \in 1..Len(s) /\ Holds(s, c, h)
      BY <1>1
    <2>2. Body(s, h) = s[c].task
      BY <1>1 DEF Body
    <2> HIDE DEF c
    <2>3. c = i
      BY <1>1, <2>1, HoldsOnce
    <2> QED
      BY <2>2, <2>3
  <1> QED
    BY <1>1 DEF Body

\* Nothing runs deeper than there are tasks.
LEMMA NoBodyAbove ==
  ASSUME NEW s, Len(s) \in Nat, NEW h \in Nat, h > KindCount(s, "task", Len(s))
  PROVE  Body(s, h) = NoTask
  <1>1. ASSUME NEW i \in 1..Len(s), Holds(s, i, h) PROVE FALSE
    <2>1. KindCount(s, "task", i) <= KindCount(s, "task", Len(s))
      BY CountGrows
    <2>2. KindCount(s, "task", Len(s)) \in Nat
      BY CountStep
    <2> QED
      BY <1>1, <2>1, <2>2 DEF Holds
  <1> QED
    BY <1>1, BodyOf

\* The frames of s and r up to n are of the same kinds and tasks.
Alike(s, r, n) == \A i \in 1..n : s[i].kind = r[i].kind /\ s[i].task = r[i].task

LEMMA AlikeHolds ==
  ASSUME NEW s, NEW r, NEW n \in Nat, Alike(s, r, n), NEW h, NEW i \in 1..n
  PROVE  Holds(s, i, h) <=> Holds(r, i, h)
  <1>1. KindCount(s, "task", i) = KindCount(r, "task", i)
    BY CountSame DEF Alike
  <1> QED
    BY <1>1 DEF Holds, Alike

LEMMA SameBodies ==
  ASSUME NEW s, NEW r, Len(s) \in Nat, Len(r) = Len(s), Alike(s, r, Len(s))
  PROVE  /\ Bodies(r) = Bodies(s)
         /\ \A k : KindCount(r, k, Len(r)) = KindCount(s, k, Len(s))
  <1>1. ASSUME NEW h \in 1..(MaxModals + 1) PROVE Body(r, h) = Body(s, h)
    <2>1. \A i \in 1..Len(s) : Holds(s, i, h) <=> Holds(r, i, h)
      BY AlikeHolds
    <2>2. CASE \E i \in 1..Len(s) : Holds(s, i, h)
      BY <2>1, <2>2, BodyOf DEF Alike
    <2>3. CASE \A i \in 1..Len(s) : ~Holds(s, i, h)
      BY <2>1, <2>3, BodyOf
    <2> QED
      BY <2>2, <2>3
  <1>2. Bodies(r) = Bodies(s)
    BY <1>1 DEF Bodies
  <1>3. \A k : KindCount(r, k, Len(r)) = KindCount(s, k, Len(s))
    BY CountSame DEF Alike
  <1> QED
    BY <1>2, <1>3

\* r is s with one more frame.
Longer(s, r) == Len(s) \in Nat /\ Len(r) = Len(s) + 1 /\ Alike(s, r, Len(s))

LEMMA LongerCounts ==
  ASSUME NEW s, NEW r, Longer(s, r), NEW k
  PROVE  /\ KindCount(s, k, Len(s)) \in Nat
         /\ KindCount(r, k, Len(r))
              = KindCount(s, k, Len(s)) + (IF r[Len(r)].kind = k THEN 1 ELSE 0)
  <1>1. PICK n \in Nat : n = Len(s) /\ Len(r) = n + 1 /\ Alike(s, r, n)
    BY DEF Longer
  <1>2. KindCount(r, k, n) = KindCount(s, k, n)
    BY <1>1, CountSame DEF Alike
  <1>3. KindCount(s, k, n) \in Nat
    BY CountStep
  <1>4. KindCount(r, k, n + 1) = KindCount(r, k, n) + (IF r[n + 1].kind = k THEN 1 ELSE 0)
    BY CountStep
  <1> QED
    BY <1>1, <1>2, <1>3, <1>4

LEMMA LongerBodies ==
  ASSUME NEW s, NEW r, Longer(s, r)
  PROVE  /\ r[Len(r)].kind # "task" => Bodies(r) = Bodies(s)
         /\ r[Len(r)].kind = "task" =>
              LET h == KindCount(s, "task", Len(s)) + 1
              IN /\ Bodies(r) = [Bodies(s) EXCEPT ![h] = r[Len(r)].task]
                 /\ Bodies(s) = [Bodies(r) EXCEPT ![h] = NoTask]
  <1> DEFINE n == Len(s)
             c == KindCount(s, "task", n)
  <1>1. n \in Nat /\ Len(r) = n + 1 /\ Alike(s, r, n)
    BY DEF Longer
  <1>2. /\ c \in Nat
        /\ KindCount(r, "task", n + 1) = c + (IF r[n + 1].kind = "task" THEN 1 ELSE 0)
    BY <1>1, LongerCounts
  <1>3. \A h, i : i \in 1..n => (Holds(s, i, h) <=> Holds(r, i, h))
    BY <1>1, AlikeHolds
  <1> HIDE DEF n, c
  <1>4. \A h : Holds(r, n + 1, h) <=> r[n + 1].kind = "task" /\ h = c + 1
    BY <1>2 DEF Holds
  <1>5. ASSUME NEW h \in 1..(MaxModals + 1), ~Holds(r, n + 1, h)
        PROVE  Body(r, h) = Body(s, h)
    <2>1. CASE \E i \in 1..n : Holds(s, i, h)
      <3>1. PICK i \in 1..n : Holds(s, i, h)
        BY <2>1
      <3>2. Body(s, h) = s[i].task
        BY <1>1, <3>1, BodyOf DEF n
      <3>3. i \in 1..Len(r) /\ Len(r) \in Nat /\ Holds(r, i, h)
        BY <1>1, <1>3, <3>1
      <3>4. Body(r, h) = r[i].task
        BY <3>3, BodyOf
      <3> QED
        BY <1>1, <3>2, <3>4 DEF Alike
    <2>2. CASE \A i \in 1..n : ~Holds(s, i, h)
      <3>1. Body(s, h) = NoTask
        BY <1>1, <2>2, BodyOf DEF n
      <3>2. Len(r) \in Nat /\ \A i \in 1..Len(r) : ~Holds(r, i, h)
        BY <1>1, <1>3, <1>5, <2>2
      <3>3. Body(r, h) = NoTask
        BY <3>2, BodyOf
      <3> QED
        BY <3>1, <3>3
    <2> QED
      BY <2>1, <2>2
  <1>6. r[Len(r)].kind # "task" => Bodies(r) = Bodies(s)
    BY <1>1, <1>4, <1>5 DEF Bodies
  <1>7. ASSUME r[Len(r)].kind = "task"
        PROVE  /\ Bodies(r) = [Bodies(s) EXCEPT ![c + 1] = r[Len(r)].task]
               /\ Bodies(s) = [Bodies(r) EXCEPT ![c + 1] = NoTask]
    <2>1. Body(r, c + 1) = r[Len(r)].task
      <3>1. Len(r) \in Nat /\ n + 1 \in 1..Len(r) /\ Holds(r, n + 1, c + 1)
        BY <1>1, <1>4, <1>7
      <3> QED
        BY <1>1, <3>1, BodyOf
    <2>2. Body(s, c + 1) = NoTask
      BY <1>1, <1>2, NoBodyAbove DEF n, c
    <2>3. \A h \in 1..(MaxModals + 1) : h # c + 1 => Body(r, h) = Body(s, h)
      BY <1>4, <1>5
    <2> QED
      BY <2>1, <2>2, <2>3 DEF Bodies
  <1> QED
    BY <1>6, <1>7 DEF n, c

\* Above a task there are only modal loops: not more tasks than modal loops, but
\* for the innermost.
Nested(s) ==
  \A n \in 1..Len(s) :
    KindCount(s, "task", n)
      <= KindCount(s, "modal", n) + (IF s[n].kind = "task" THEN 1 ELSE 0)

NestOK == Nested(stack) /\ KindCount(stack, "modal", Len(stack)) <= MaxModals

LEMMA NestedAlike ==
  ASSUME NEW s, NEW r, NEW n \in Nat, Alike(s, r, n), NEW m \in 1..n
  PROVE  /\ KindCount(r, "task", m) = KindCount(s, "task", m)
         /\ KindCount(r, "modal", m) = KindCount(s, "modal", m)
         /\ r[m].kind = s[m].kind
  BY CountSame DEF Alike

LEMMA NestedSame ==
  ASSUME NEW s, NEW r, Len(s) \in Nat, Len(r) = Len(s), Alike(s, r, Len(s)), Nested(s)
  PROVE  Nested(r)
  BY NestedAlike DEF Nested

LEMMA NestedShorter ==
  ASSUME NEW s, NEW r, Longer(s, r), Nested(r)
  PROVE  Nested(s)
  <1>1. PICK n \in Nat : n = Len(s) /\ Len(r) = n + 1 /\ Alike(s, r, n)
    BY DEF Longer
  <1> QED
    BY <1>1, NestedAlike DEF Nested

LEMMA NestedLonger ==
  ASSUME NEW s, NEW r, Longer(s, r), Nested(s),
         r[Len(r)].kind = "modal" \/ Len(s) = 0 \/ s[Len(s)].kind # "task"
  PROVE  Nested(r)
  <1>1. PICK n \in Nat : n = Len(s) /\ Len(r) = n + 1 /\ Alike(s, r, n)
    BY DEF Longer
  <1> DEFINE c == KindCount(s, "task", n)
             d == KindCount(s, "modal", n)
  <1>2. c \in Nat /\ d \in Nat
    BY CountStep
  <1>3. c <= d + 1 /\ (n = 0 \/ s[n].kind # "task" => c <= d)
    <2>1. CASE n = 0
      BY <1>2, <2>1, CountStep
    <2>2. CASE n # 0
      <3>1. c <= d + (IF s[n].kind = "task" THEN 1 ELSE 0)
        BY <1>1, <2>2 DEF Nested
      <3> HIDE DEF c, d
      <3> QED
        BY <1>2, <2>2, <3>1
    <2> QED
      BY <2>1, <2>2
  <1>4. /\ KindCount(r, "task", n + 1) = c + (IF r[n + 1].kind = "task" THEN 1 ELSE 0)
        /\ KindCount(r, "modal", n + 1) = d + (IF r[n + 1].kind = "modal" THEN 1 ELSE 0)
    <2>1. KindCount(r, "task", n) = c /\ KindCount(r, "modal", n) = d
      BY <1>1, CountSame DEF Alike
    <2> HIDE DEF c, d
    <2> QED
      BY <2>1, CountStep
  <1> HIDE DEF c, d
  <1>5. ASSUME NEW m \in 1..n
        PROVE  KindCount(r, "task", m)
                 <= KindCount(r, "modal", m) + (IF r[m].kind = "task" THEN 1 ELSE 0)
    BY <1>1, <1>5, NestedAlike DEF Nested
  <1>6. KindCount(r, "task", n + 1)
          <= KindCount(r, "modal", n + 1) + (IF r[n + 1].kind = "task" THEN 1 ELSE 0)
    <2>1. CASE r[n + 1].kind = "modal"
      BY <1>2, <1>3, <1>4, <2>1
    <2>2. CASE r[n + 1].kind # "modal"
      BY <1>1, <1>2, <1>3, <1>4, <2>2
    <2> QED
      BY <2>1, <2>2
  <1> QED
    BY <1>1, <1>5, <1>6 DEF Nested

(* How a step moves the frames *)

Keeps == Len(stack') = Len(stack) /\ Alike(stack, stack', Len(stack))
Grows(k, t) ==
  /\ Longer(stack, stack')
  /\ stack'[Len(stack')].kind = k /\ stack'[Len(stack')].task = t
Shrinks == stack # << >> /\ Longer(stack', stack)

\* A frame that its loop goes on at.
Turned(f) == f \in Frame /\ f.kind = Top.kind /\ f.task = Top.task

LEMMA TurnedTop ==
  ASSUME Shape, stack # << >>, NEW a \in Places, NEW m \in BOOLEAN
  PROVE  /\ Turned(Top) /\ Turned([Top EXCEPT !.at = a])
         /\ Turned([Top EXCEPT !.at = a, !.more = m])
  <1>0. a \in Places /\ m \in BOOLEAN
    OBVIOUS
  <1>1. Top \in Frame
    BY StackLength DEF Shape
  <1>2. /\ [Top EXCEPT !.at = a] \in Frame
        /\ [Top EXCEPT !.at = a].kind = Top.kind /\ [Top EXCEPT !.at = a].task = Top.task
    BY ONLY <1>0, <1>1, FrameTurns
  <1>3. /\ [Top EXCEPT !.at = a, !.more = m] \in Frame
        /\ [Top EXCEPT !.at = a, !.more = m].kind = Top.kind
        /\ [Top EXCEPT !.at = a, !.more = m].task = Top.task
    BY <1>0, <1>1 DEF Frame, Places
  <1> QED
    BY <1>1, <1>2, <1>3 DEF Turned

LEMMA TopMoves ==
  ASSUME Shape, stack # << >>, NEW f, Turned(f)
  PROVE  /\ SetTop(f) => Keeps
         /\ Leave => Shrinks
         /\ GoOn(f) => Keeps \/ Shrinks
         /\ \A g \in Frame : EnterFrom(f, g) => Grows(g.kind, g.task)
  <1>1. PICK n : n = Len(stack)
    OBVIOUS
  <1>2. n \in Nat \ {0} /\ Top = stack[n] /\ f \in Frame
    BY <1>1, StackLength DEF Shape, Top, Turned
  <1>3. SetTop(f) => Keeps
    <2> SUFFICES ASSUME SetTop(f) PROVE Keeps
      OBVIOUS
    <2>1. Changes(f)
      BY <1>2, SetTopChanges DEF Shape
    <2> QED
      BY <1>1, <1>2, <2>1 DEF Changes, Same, Keeps, Alike, Turned
  <1>4. Leave => Shrinks
    <2> SUFFICES ASSUME Leave PROVE Shrinks
      OBVIOUS
    <2>1. Pops
      BY LeavePops DEF Shape
    <2> QED
      BY <1>1, <1>2, <2>1 DEF Pops, Same, Shrinks, Longer, Alike
  <1>5. ASSUME NEW g \in Frame, EnterFrom(f, g) PROVE Grows(g.kind, g.task)
    <2>1. PushesOn(f, g)
      BY <1>2, <1>5, EnterFromPushes DEF Shape
    <2> QED
      BY <1>1, <1>2, <2>1 DEF PushesOn, Same, Grows, Longer, Alike, Turned
  <1> QED
    BY <1>3, <1>4, <1>5 DEF GoOn

LEMMA TopEntered ==
  ASSUME Shape, NEW g \in Frame, Enter(g)
  PROVE  Grows(g.kind, g.task)
  <1>1. Pushes(g) /\ Len(stack) \in Nat
    BY EnterPushes, StackLength DEF Shape
  <1> QED
    BY <1>1 DEF Pushes, Same, Grows, Longer, Alike

\* A task is taken out of a queue.
Taken(t) == (DoWorkRunsTask /\ t = Head(work)) \/ DoDelayedWorkTakes(t)

Silent == Keeps \/ Shrinks
       \/ \E k \in Kinds \ {"task"}, t \in Tasks \cup {NoTask} :
            /\ Grows(k, t)
            /\ k = "modal" => KindCount(stack, "modal", Len(stack)) < MaxModals
            /\ k # "modal" => stack = << >> \/ Top.kind # "task"

LEMMA NewFrames ==
  /\ \A t \in Tasks : /\ NewFrame("task", "Inside", t) \in Frame
                      /\ NewFrame("task", "Inside", t).kind = "task"
                      /\ NewFrame("task", "Inside", t).task = t
  /\ \A k \in Kinds, a \in Places :
       /\ NewFrame(k, a, NoTask) \in Frame
       /\ NewFrame(k, a, NoTask).kind = k
       /\ NewFrame(k, a, NoTask).task = NoTask
  <1>1. ASSUME NEW k \in Kinds, NEW a \in Places, NEW t \in Tasks \cup {NoTask}
        PROVE  /\ NewFrame(k, a, t) \in Frame
               /\ NewFrame(k, a, t).kind = k /\ NewFrame(k, a, t).task = t
    BY NewFrameType
  <1>2. "task" \in Kinds /\ "Inside" \in Places
    BY DEF Kinds, Places
  <1> QED
    BY <1>1, <1>2

LEMMA DispatchMoves ==
  ASSUME Shape, NEW m \in {"app", "timer"}, NEW f, Turned(f), Dispatch(m, f),
         stack # << >>, Top.kind # "task"
  PROVE  Silent
  <1>1. CASE m = "app"
    <2>1. EnterFrom(f, NewFrame("handler", "Inside", NoTask))
      BY <1>1 DEF Dispatch
    <2>2. "handler" \in Kinds \ {"task"} /\ "Inside" \in Places
      BY DEF Kinds, Places
    <2>3. Grows("handler", NoTask)
      BY <2>1, <2>2, NewFrames, TopMoves
    <2> QED
      BY <2>2, <2>3 DEF Silent
  <1>2. CASE m = "timer" /\ InRun
    <2>1. EnterFrom(f, NewFrame("timer", "Delayed", NoTask))
      BY <1>2 DEF Dispatch
    <2>2. "timer" \in Kinds \ {"task"} /\ "Delayed" \in Places
      BY DEF Kinds, Places
    <2>3. Grows("timer", NoTask)
      BY <2>1, <2>2, NewFrames, TopMoves
    <2> QED
      BY <2>2, <2>3 DEF Silent
  <1>3. CASE m = "timer" /\ ~InRun
    <2>1. SetTop(f)
      BY <1>3 DEF Dispatch
    <2> QED
      BY <2>1, TopMoves DEF Silent
  <1> QED
    BY <1>1, <1>2, <1>3

LEMMA RunTaskMoves ==
  ASSUME Shape, stack # << >>, NEW f, Turned(f), NEW t \in Tasks, RunTask(t, f)
  PROVE  Grows("task", t) /\ started' = started \cup {t}
  <1>1. EnterFrom(f, NewFrame("task", "Inside", t)) /\ started' = started \cup {t}
    BY DEF RunTask
  <1> QED
    BY <1>1, NewFrames, TopMoves

LEMMA PumpMoves ==
  ASSUME Parts, PumpStep
  PROVE  \/ Silent /\ UNCHANGED started
         \/ \E t \in Tasks : /\ Taken(t) /\ Grows("task", t) /\ started' = started \cup {t}
                             /\ stack # << >> /\ Top.kind # "task"
  <1> SUFFICES ASSUME \A t \in Tasks : ~(/\ Taken(t) /\ Grows("task", t)
                                         /\ started' = started \cup {t}
                                         /\ stack # << >> /\ Top.kind # "task")
               PROVE  Silent /\ UNCHANGED started
    OBVIOUS
  <1> USE DEF Parts
  <1>a. {"Message", "Replace", "DoWork", "Worked", "Delayed", "AfterDelayed", "Wait"}
          \subseteq Places
    BY DEF Places
  <1>s. (Keeps => Silent) /\ (Shrinks => Silent)
    BY DEF Silent
  <1>u. ASSUME UNCHANGED stack PROVE Keeps
    BY <1>u DEF Keeps, Alike
  <1>1. CASE NextMessageNone \/ NextMessageWork \/ NextMessageQuit \/ ReplaceNothing
             \/ ReplaceWithQuit \/ QuitAfterMessage
    <2>1. started' = started
      BY <1>1 DEF NextMessageNone, NextMessageWork, NextMessageQuit, ReplaceNothing,
                  ReplaceWithQuit, QuitAfterMessage, queues
    <2>2. stack # << >>
      BY <1>1 DEF NextMessageNone, NextMessageWork, NextMessageQuit, ReplaceNothing,
                  ReplaceWithQuit, QuitAfterMessage, At
    <2>3. \/ GoOn([Top EXCEPT !.at = "DoWork", !.more = FALSE])
          \/ SetTop([Top EXCEPT !.at = "Replace"]) \/ Leave
          \/ SetTop([Top EXCEPT !.at = "DoWork", !.more = FALSE])
          \/ SetTop([Top EXCEPT !.at = "DoWork"])
      BY <1>1 DEF NextMessageNone, NextMessageWork, NextMessageQuit, ReplaceNothing,
                  ReplaceWithQuit, QuitAfterMessage
    <2>4. /\ Turned([Top EXCEPT !.at = "DoWork", !.more = FALSE])
          /\ Turned([Top EXCEPT !.at = "Replace"]) /\ Turned([Top EXCEPT !.at = "DoWork"])
      BY <1>a, <2>2, TurnedTop
    <2> QED
      BY <1>s, <2>1, <2>2, <2>3, <2>4, TopMoves
  <1>2. CASE DoWorkFindsNothing \/ AfterWork
    <2>1. started' = started /\ stack # << >>
      BY <1>2 DEF DoWorkFindsNothing, AfterWork, InDoWork, queues, At
    <2>2. GoOn([Top EXCEPT !.at = "Delayed"]) \/ Leave
      BY <1>2 DEF DoWorkFindsNothing, AfterWork
    <2>3. Turned([Top EXCEPT !.at = "Delayed"])
      BY <1>a, <2>1, TurnedTop
    <2> QED
      BY <1>s, <2>1, <2>2, <2>3, TopMoves
  <1>3. CASE ReloadWorkQueue \/ DoWorkMovesDelayed
    BY <1>3, <1>s, <1>u DEF ReloadWorkQueue, DoWorkMovesDelayed
  <1>4. CASE DoWorkRunsTask
    <2>1. PICK t : t = Head(work)
      OBVIOUS
    <2>2. t \in Tasks
      BY <1>4, <2>1, TakeWork DEF DoWorkRunsTask
    <2>3. stack # << >> /\ Top.kind # "task"
      BY <1>4 DEF DoWorkRunsTask, InDoWork, At
    <2>4. Turned([Top EXCEPT !.at = "Worked", !.more = TRUE])
      BY <1>a, <2>3, TurnedTop
    <2>5. RunTask(t, [Top EXCEPT !.at = "Worked", !.more = TRUE])
      BY <1>4, <2>1 DEF DoWorkRunsTask
    <2>6. Grows("task", t) /\ started' = started \cup {t}
      BY <2>2, <2>3, <2>4, <2>5, RunTaskMoves
    <2> QED
      BY <1>4, <2>1, <2>2, <2>3, <2>6 DEF Taken
  <1>5. ASSUME NEW t \in Tasks, DoDelayedWorkTakes(t) PROVE FALSE
    <2>1. stack # << >> /\ Top.kind # "task"
      BY <1>5 DEF DoDelayedWorkTakes, At
    <2>2. Turned([Top EXCEPT !.at = "AfterDelayed", !.more = TRUE])
      BY <1>a, <2>1, TurnedTop
    <2>3. RunTask(t, [Top EXCEPT !.at = "AfterDelayed", !.more = TRUE])
      BY <1>5 DEF DoDelayedWorkTakes
    <2>4. Grows("task", t) /\ started' = started \cup {t}
      BY <2>1, <2>2, <2>3, RunTaskMoves
    <2> QED
      BY <1>5, <2>1, <2>4 DEF Taken
  <1>6. CASE DoDelayedWorkFindsNothing \/ \E t \in Tasks : DoDelayedWorkIsEarly(t)
    <2>1. /\ started' = started /\ stack # << >>
          /\ SetTop([Top EXCEPT !.at = "AfterDelayed"])
      BY <1>6 DEF DoDelayedWorkFindsNothing, DoDelayedWorkIsEarly, queues, At
    <2>2. Turned([Top EXCEPT !.at = "AfterDelayed"])
      BY <1>a, <2>1, TurnedTop
    <2> QED
      BY <1>s, <2>1, <2>2, TopMoves
  <1>7. CASE AfterDelayedInRun \/ AfterDelayedInTimer \/ WaitForWork
    <2>1. started' = started /\ stack # << >>
      BY <1>7 DEF AfterDelayedInRun, AfterDelayedInTimer, WaitForWork, queues, At
    <2>2. \/ \E a \in {"Message", "Wait"} : GoOn([Top EXCEPT !.at = a])
          \/ Leave \/ SetTop([Top EXCEPT !.at = "Message"])
      BY <1>7 DEF AfterDelayedInRun, AfterDelayedInTimer, WaitForWork
    <2>3. \A a \in {"Message", "Wait"} : Turned([Top EXCEPT !.at = a])
      BY <1>a, <2>1, TurnedTop
    <2> QED
      BY <1>s, <2>1, <2>2, <2>3, TopMoves
  <1>8. CASE ModalGetsWork
    <2>1. started' = started /\ stack # << >> /\ Top.kind = "modal"
      BY <1>8 DEF ModalGetsWork, queues, In
    <2>2. CASE InRun
      <3>1. Enter(NewFrame("work", "Replace", NoTask))
        BY <1>8, <2>2 DEF ModalGetsWork
      <3>2. "work" \in Kinds \ {"task"} /\ "Replace" \in Places
        BY DEF Kinds, Places
      <3>3. Grows("work", NoTask)
        BY <3>1, <3>2, NewFrames, TopEntered
      <3> QED
        BY <2>1, <3>2, <3>3 DEF Silent
    <2>3. CASE ~InRun
      BY <1>8, <1>s, <1>u, <2>1, <2>3 DEF ModalGetsWork
    <2> QED
      BY <2>2, <2>3
  <1>9. ASSUME NEW m \in {"app", "timer"},
               NextMessageOther(m) \/ ReplaceWith(m) \/ ModalGetsOther(m)
        PROVE  Silent /\ UNCHANGED started
    <2>1. started' = started /\ stack # << >> /\ Top.kind # "task"
      BY <1>9 DEF NextMessageOther, ReplaceWith, ModalGetsOther, queues, At, In
    <2>2. \/ Dispatch(m, [Top EXCEPT !.at = "DoWork", !.more = TRUE])
          \/ Dispatch(m, Top)
      BY <1>9 DEF NextMessageOther, ReplaceWith, ModalGetsOther
    <2>3. Turned([Top EXCEPT !.at = "DoWork", !.more = TRUE]) /\ Turned(Top)
      BY <1>a, <2>1, TurnedTop
    <2> QED
      BY <2>1, <2>2, <2>3, DispatchMoves
  <1> QED
    BY <1>1, <1>2, <1>3, <1>4, <1>5, <1>6, <1>7, <1>8, <1>9 DEF PumpStep

LEMMA OpenModalMoves ==
  ASSUME Parts, OpenModal
  PROVE  Silent /\ UNCHANGED started
  <1> USE DEF Parts
  <1>1. PICK n \in Nat : n = Len(stack)
    BY StackLength DEF Shape
  <1> DEFINE s == [i \in 1..n |-> [stack[i] EXCEPT !.fresh = @ /\ ~RunByTimer]]
             g == [NewFrame("modal", "Inside", NoTask) EXCEPT !.fresh = allowed /\ Announced]
  <1>2. stack' = Append(s, g) /\ started' = started
    BY <1>1 DEF OpenModal, queues
  <1>3. \A i \in 1..n : /\ s[i] \in Frame
                        /\ s[i].kind = stack[i].kind /\ s[i].task = stack[i].task
    <2>1. RunByTimer \in BOOLEAN
      BY DEF RunByTimer, In
    <2> SUFFICES ASSUME NEW i \in 1..n
                 PROVE  /\ s[i] \in Frame
                        /\ s[i].kind = stack[i].kind /\ s[i].task = stack[i].task
      OBVIOUS
    <2>2. stack[i] \in Frame
      BY <1>1, StackLength DEF Shape
    <2> QED
      BY <2>1, <2>2 DEF Frame
  <1>4. g.kind = "modal" /\ g.task = NoTask /\ g \in Frame
    <2>1. (allowed /\ Announced) \in BOOLEAN
      BY DEF Scalars
    <2> QED
      BY <2>1 DEF NewFrame, Frame
  <1>5. s \in Seq(Frame) /\ Len(s) = n
    <2>1. s \in [1..n -> Frame]
      BY <1>3
    <2> HIDE DEF s
    <2> QED
      BY <2>1
  <1> HIDE DEF s, g
  <1>6. /\ Len(stack') = n + 1 /\ stack'[n + 1] = g
        /\ \A i \in 1..n : stack'[i] = s[i]
    BY <1>2, <1>4, <1>5, AppendProperties
  <1>7. Grows("modal", NoTask)
    BY <1>1, <1>3, <1>4, <1>6 DEF Grows, Longer, Alike
  <1>8. KindCount(stack, "modal", Len(stack)) < MaxModals
    BY DEF OpenModal, KindCount
  <1>9. "modal" \in Kinds \ {"task"}
    BY DEF Kinds
  <1> QED
    BY <1>2, <1>7, <1>8, <1>9 DEF Silent

\* Every step starts a task, lets one end, or shows nothing of its frames.
LEMMA FrameKinds ==
  ASSUME Parts, [Next]_vars
  PROVE  \/ Silent /\ UNCHANGED started
         \/ \E t \in Tasks : /\ Taken(t) /\ Grows("task", t) /\ started' = started \cup {t}
                             /\ stack # << >> /\ Top.kind # "task"
  <1>u. ASSUME UNCHANGED stack PROVE Silent
    BY <1>u DEF Silent, Keeps, Alike
  <1>1. CASE PumpStep
    BY <1>1, PumpMoves
  <1>2. CASE OpenModal
    BY <1>2, OpenModalMoves
  <1>3. CASE EndModal \/ Finish
    <2>1. Leave /\ stack # << >> /\ started' = started
      BY <1>3 DEF EndModal, Finish, In, queues
    <2>2. Turned(Top)
      BY <2>1, StackLength DEF Turned, Parts, Shape
    <2> QED
      BY <2>1, <2>2, TopMoves DEF Silent, Parts
  <1>4. CASE Run
    <2>1. /\ Enter(NewFrame("run", "Message", NoTask)) /\ stack = << >>
          /\ started' = started
      BY <1>4 DEF Run, queues
    <2>2. "run" \in Kinds \ {"task"} /\ "Message" \in Places
      BY DEF Kinds, Places
    <2>3. Grows("run", NoTask)
      BY <2>1, <2>2, NewFrames, TopEntered DEF Parts
    <2> QED
      BY <2>1, <2>2, <2>3 DEF Silent
  <1>5. CASE Exchange \/ PostHaveWork \/ WindowMessage \/ MouseInput \/ WaitMessageReturns
             \/ AllowNesting \/ PostQuitMessage \/ Tick
             \/ \E t \in Tasks : PostFromThread(t) \/ PostFromLoop(t)
    <2>1. /\ started' = started
          /\ UNCHANGED stack \/ NewInput \/ MouseInput
      BY <1>5 DEF Exchange, PostHaveWork, WindowMessage, MouseInput, WaitMessageReturns,
                  AllowNesting, PostQuitMessage, Tick, PostFromThread, PostFromLoop, queues
    <2>2. \/ UNCHANGED stack
          \/ /\ stack # << >>
             /\ \E a \in {"Message", "WaitMessage"} : SetTop([Top EXCEPT !.at = a])
      BY <2>1 DEF NewInput, MouseInput, At
    <2>3. ASSUME stack # << >>, NEW a \in {"Message", "WaitMessage"},
                 SetTop([Top EXCEPT !.at = a])
          PROVE  Silent
      <3>1. a \in Places /\ TRUE \in BOOLEAN
        BY DEF Places
      <3>2. Turned([Top EXCEPT !.at = a])
        BY <2>3, <3>1, TurnedTop DEF Parts
      <3> QED
        BY <2>3, <3>2, TopMoves DEF Silent, Parts
    <2> QED
      BY <1>u, <2>1, <2>2, <2>3
  <1>6. CASE UNCHANGED vars
    BY <1>6, <1>u DEF vars
  <1> QED
    BY <1>1, <1>2, <1>3, <1>4, <1>5, <1>6 DEF Next

LEMMA NestStep ==
  ASSUME Parts, NestOK, [Next]_vars
  PROVE  NestOK'
  <1>0. MaxModals \in Nat
    BY PumpAssumption DEF PumpAssumption
  <1>1. PICK s, r : s = stack /\ r = stack'
    OBVIOUS
  <1>2. Len(s) \in Nat /\ Nested(s) /\ KindCount(s, "modal", Len(s)) <= MaxModals
    BY <1>1, StackLength DEF Parts, Shape, NestOK
  <1>3. SUFFICES Nested(r) /\ KindCount(r, "modal", Len(r)) <= MaxModals
    BY <1>1 DEF NestOK
  <1>4. CASE Keeps
    <2>1. Len(r) = Len(s) /\ Alike(s, r, Len(s))
      BY <1>1, <1>4 DEF Keeps
    <2> QED
      BY <1>2, <2>1, NestedSame, SameBodies
  <1>5. CASE Shrinks
    <2>1. Longer(r, s)
      BY <1>1, <1>5 DEF Shrinks
    <2>2. Nested(r)
      BY <1>2, <2>1, NestedShorter
    <2>3. /\ KindCount(r, "modal", Len(r)) \in Nat
          /\ KindCount(s, "modal", Len(s))
               = KindCount(r, "modal", Len(r)) + (IF s[Len(s)].kind = "modal" THEN 1 ELSE 0)
      BY <2>1, LongerCounts
    <2> QED
      BY <1>0, <1>2, <2>2, <2>3
  <1>6. ASSUME NEW k, NEW t, Grows(k, t),
               k = "modal" => KindCount(stack, "modal", Len(stack)) < MaxModals,
               k # "modal" => stack = << >> \/ Top.kind # "task"
        PROVE  Nested(r) /\ KindCount(r, "modal", Len(r)) <= MaxModals
    <2>1. Longer(s, r) /\ r[Len(r)].kind = k
      BY <1>1, <1>6 DEF Grows
    <2>2. k = "modal" \/ Len(s) = 0 \/ s[Len(s)].kind # "task"
      BY <1>1, <1>6, EmptySeq DEF Top
    <2>3. Nested(r)
      BY <1>2, <2>1, <2>2, NestedLonger
    <2>4. /\ KindCount(s, "modal", Len(s)) \in Nat
          /\ KindCount(r, "modal", Len(r))
               = KindCount(s, "modal", Len(s)) + (IF k = "modal" THEN 1 ELSE 0)
      BY <2>1, LongerCounts
    <2> QED
      BY <1>0, <1>1, <1>2, <1>6, <2>3, <2>4
  <1> QED
    BY <1>4, <1>5, <1>6, FrameKinds DEF Silent

LEMMA NestInit == Init => NestOK
  <1> SUFFICES ASSUME Init PROVE NestOK
    OBVIOUS
  <1>1. Len(stack) = 0
    BY EmptySeq DEF Init
  <1>2. KindCount(stack, "modal", 0) = 0
    BY CountStep
  <1> QED
    BY <1>1, <1>2, PumpAssumption DEF NestOK, Nested, PumpAssumption

\* The posts in a queue are in the order in which they were accepted.
Rising(s) == \A i, j \in 1..Len(s) : i < j => stamp[s[i]] < stamp[s[j]]

\* The work queue holds older posts than the incoming one.
OrderOK ==
  /\ Rising(incoming) /\ Rising(work)
  /\ \A i \in 1..Len(work), j \in 1..Len(incoming) : stamp[work[i]] < stamp[incoming[j]]
  /\ \A t \in Tasks : stamp[t] <= posts

\* An accepted task waits in one of the queues or has been started.
PlacesOK ==
  /\ \A i \in 1..Len(incoming) : incoming[i] \notin started \cup delayed
  /\ \A i \in 1..Len(work) : work[i] \notin started \cup delayed
  /\ \A t \in delayed : t \notin started /\ Delay[t] # 0
  /\ \A t \in started : stamp[t] # 0
  /\ \A t \in Tasks : stamp[t] # 0 =>
       \/ t \in started \cup delayed
       \/ \E i \in 1..Len(incoming) : incoming[i] = t
       \/ \E i \in 1..Len(work) : work[i] = t

WaitOK == OrderOK /\ PlacesOK

(* How a step moves the tasks *)

Reloads ==
  /\ work = << >> /\ work' = incoming /\ incoming' = work
  /\ UNCHANGED <<delayed, started, stamp, posts>>
TakesWork ==
  /\ work # << >> /\ work' = Tail(work)
  /\ \/ /\ Delay[Head(work)] # 0
        /\ delayed' = delayed \cup {Head(work)} /\ started' = started
     \/ delayed' = delayed /\ started' = started \cup {Head(work)}
  /\ UNCHANGED <<incoming, stamp, posts>>
TakesDelayed(t) ==
  /\ t \in delayed /\ delayed' = delayed \ {t} /\ started' = started \cup {t}
  /\ UNCHANGED <<incoming, work, stamp, posts>>
Posts(t) == Push(t) /\ UNCHANGED <<work, delayed, started, stack>>

LEMMA QueueKinds ==
  ASSUME Parts, [Next]_vars
  PROVE  \/ UNCHANGED <<incoming, work, delayed, started, stamp, posts>>
         \/ Reloads \/ TakesWork
         \/ \E t \in Tasks : Posts(t) \/ TakesDelayed(t)
  <1> USE DEF queues
  <1>1. CASE PumpStep
    <2>1. CASE NextMessageNone \/ NextMessageWork \/ NextMessageQuit \/ ReplaceNothing
               \/ ReplaceWithQuit \/ QuitAfterMessage \/ DoWorkFindsNothing \/ AfterWork
               \/ ModalGetsWork
      BY <2>1 DEF NextMessageNone, NextMessageWork, NextMessageQuit, ReplaceNothing,
                  ReplaceWithQuit, QuitAfterMessage, DoWorkFindsNothing, AfterWork,
                  ModalGetsWork
    <2>2. CASE DoDelayedWorkFindsNothing \/ AfterDelayedInRun \/ AfterDelayedInTimer
               \/ WaitForWork
      BY <2>2 DEF DoDelayedWorkFindsNothing, AfterDelayedInRun, AfterDelayedInTimer,
                  WaitForWork
    <2>3. CASE ReloadWorkQueue
      BY <2>3 DEF ReloadWorkQueue, Reloads
    <2>4. CASE DoWorkMovesDelayed
      BY <2>4 DEF DoWorkMovesDelayed, TakesWork
    <2>5. CASE DoWorkRunsTask
      BY <2>5 DEF DoWorkRunsTask, RunTask, TakesWork
    <2>6. ASSUME NEW t \in Tasks, DoDelayedWorkTakes(t) PROVE TakesDelayed(t)
      BY <2>6 DEF DoDelayedWorkTakes, RunTask, TakesDelayed, IsTop
    <2>7. ASSUME NEW t \in Tasks, DoDelayedWorkIsEarly(t)
          PROVE  UNCHANGED <<incoming, work, delayed, started, stamp, posts>>
      BY <2>7 DEF DoDelayedWorkIsEarly
    <2>8. ASSUME NEW m \in {"app", "timer"},
                 NextMessageOther(m) \/ ReplaceWith(m) \/ ModalGetsOther(m)
          PROVE  UNCHANGED <<incoming, work, delayed, started, stamp, posts>>
      BY <2>8 DEF NextMessageOther, ReplaceWith, ModalGetsOther
    <2> QED
      BY <1>1, <2>1, <2>2, <2>3, <2>4, <2>5, <2>6, <2>7, <2>8 DEF PumpStep
  <1>2. ASSUME NEW t \in Tasks, PostFromThread(t) \/ PostFromLoop(t) PROVE Posts(t)
    BY <1>2 DEF PostFromThread, PostFromLoop, Posts
  <1>3. CASE Exchange \/ PostHaveWork \/ WindowMessage \/ MouseInput \/ WaitMessageReturns
             \/ Run \/ OpenModal \/ EndModal \/ AllowNesting \/ PostQuitMessage \/ Finish
             \/ Tick
    BY <1>3 DEF Exchange, PostHaveWork, WindowMessage, MouseInput, WaitMessageReturns, Run,
                OpenModal, EndModal, AllowNesting, PostQuitMessage, Finish, Tick
  <1>4. CASE UNCHANGED vars
    BY <1>4 DEF vars
  <1> QED
    BY <1>1, <1>2, <1>3, <1>4 DEF Next

LEMMA WaitInit == Init => WaitOK
  <1> SUFFICES ASSUME Init PROVE WaitOK
    OBVIOUS
  <1>1. Len(incoming) = 0 /\ Len(work) = 0
    BY EmptySeq DEF Init
  <1> QED
    BY <1>1 DEF Init, WaitOK, OrderOK, PlacesOK, Rising

LEMMA WaitStep ==
  ASSUME Parts, WaitOK, [Next]_vars
  PROVE  WaitOK'
  <1>t. /\ incoming \in Seq(Tasks) /\ work \in Seq(Tasks) /\ delayed \subseteq Tasks
        /\ stamp \in [Tasks -> Nat] /\ posts \in Nat /\ started \subseteq Tasks
        /\ Len(incoming) \in Nat /\ Len(work) \in Nat
        /\ \A i \in 1..Len(incoming) : incoming[i] \in Tasks /\ stamp[incoming[i]] # 0
        /\ \A i \in 1..Len(work) : work[i] \in Tasks /\ stamp[work[i]] # 0
        /\ \A t \in delayed : stamp[t] # 0
    BY LenProperties, ElementOfSeq DEF Parts, Scalars, QueuesOK
  <1>1. CASE UNCHANGED <<incoming, work, delayed, started, stamp, posts>>
    BY <1>1 DEF WaitOK, OrderOK, PlacesOK, Rising
  <1>2. CASE Reloads
    <2>1. Len(work) = 0
      BY <1>2, EmptySeq DEF Reloads
    <2>2. OrderOK'
      BY <1>2, <2>1 DEF Reloads, WaitOK, OrderOK, Rising
    <2>3. PlacesOK'
      BY <1>2, <2>1 DEF Reloads, WaitOK, PlacesOK
    <2> QED
      BY <2>2, <2>3 DEF WaitOK
  <1>3. CASE TakesWork
    <2>1. PICK n, w, t : n = Len(work) /\ w = Tail(work) /\ t = Head(work)
      OBVIOUS
    <2>2. /\ n \in Nat \ {0} /\ t \in Tasks /\ t = work[1] /\ Len(w) = n - 1
          /\ \A i \in 1..(n - 1) : w[i] = work[i + 1]
      BY <1>3, <1>t, <2>1, HeadTailProperties, EmptySeq DEF TakesWork
    <2>3. /\ work' = w /\ UNCHANGED <<incoming, stamp, posts>>
          /\ \/ Delay[t] # 0 /\ delayed' = delayed \cup {t} /\ started' = started
             \/ delayed' = delayed /\ started' = started \cup {t}
      BY <1>3, <2>1 DEF TakesWork
    <2>4. /\ \A i \in 1..(n - 1) : i \in 1..n /\ i + 1 \in 1..n /\ 1 < i + 1
          /\ 1 \in 1..n
      BY <2>2
    <2>5. OrderOK'
      <3>1. Rising(w)'
        <4>1. Rising(work)
          BY DEF WaitOK, OrderOK
        <4> QED
          BY <2>1, <2>2, <2>3, <2>4, <4>1 DEF Rising
      <3>2. Rising(incoming)'
        BY <2>3 DEF WaitOK, OrderOK, Rising
      <3> QED
        BY <2>1, <2>2, <2>3, <2>4, <3>1, <3>2 DEF WaitOK, OrderOK, Rising
    <2>6. ASSUME NEW i \in 1..(n - 1) PROVE w[i] # t
      <3>1. stamp[work[1]] < stamp[work[i + 1]]
        BY <2>1, <2>4 DEF WaitOK, OrderOK, Rising
      <3>2. stamp[t] \in Nat
        BY <1>t, <2>2
      <3> QED
        BY <2>2, <3>1, <3>2
    <2>7. \A i \in 1..Len(incoming) : incoming[i] # t
      BY <1>t, <2>1, <2>2, <2>4 DEF WaitOK, OrderOK
    <2>8. t \notin started /\ t \notin delayed /\ stamp[t] # 0
      BY <1>t, <2>1, <2>2, <2>4 DEF WaitOK, PlacesOK
    <2>9. PlacesOK'
      <3>1. \A i \in 1..Len(incoming') : incoming'[i] \notin started' \cup delayed'
        BY <2>3, <2>7 DEF WaitOK, PlacesOK
      <3>2. \A i \in 1..Len(work') : work'[i] \notin started' \cup delayed'
        BY <2>1, <2>2, <2>3, <2>4, <2>6 DEF WaitOK, PlacesOK
      <3>3. /\ \A u \in delayed' : u \notin started' /\ Delay[u] # 0
            /\ \A u \in started' : stamp'[u] # 0
        BY <2>3, <2>8 DEF WaitOK, PlacesOK
      <3>4. ASSUME NEW u \in Tasks, stamp'[u] # 0
            PROVE  \/ u \in started' \cup delayed'
                   \/ \E i \in 1..Len(incoming') : incoming'[i] = u
                   \/ \E i \in 1..Len(work') : work'[i] = u
        <4>1. CASE u \in started \cup delayed \/ u = t
          BY <2>3, <4>1
        <4>2. CASE \E i \in 1..Len(incoming) : incoming[i] = u
          BY <2>3, <4>2
        <4>3. ASSUME NEW i \in 1..n, work[i] = u, u # t
              PROVE  \E j \in 1..Len(work') : work'[j] = u
          <5>1. i # 1 /\ i - 1 \in 1..(n - 1)
            BY <2>2, <4>3
          <5>2. w[i - 1] = u
            BY <2>2, <4>3, <5>1
          <5> QED
            BY <2>2, <2>3, <5>1, <5>2
        <4> QED
          BY <2>1, <2>3, <3>4, <4>1, <4>2, <4>3 DEF WaitOK, PlacesOK
      <3> QED
        BY <3>1, <3>2, <3>3, <3>4 DEF PlacesOK
    <2> QED
      BY <2>5, <2>9 DEF WaitOK
  <1>4. ASSUME NEW t \in Tasks, TakesDelayed(t) PROVE WaitOK'
    <2>1. /\ t \in delayed /\ delayed' = delayed \ {t} /\ started' = started \cup {t}
          /\ UNCHANGED <<incoming, work, stamp, posts>>
      BY <1>4 DEF TakesDelayed
    <2>2. OrderOK'
      BY <2>1 DEF WaitOK, OrderOK, Rising
    <2>3. PlacesOK'
      BY <1>t, <2>1 DEF WaitOK, PlacesOK
    <2> QED
      BY <2>2, <2>3 DEF WaitOK
  <1>5. ASSUME NEW t \in Tasks, Posts(t) PROVE WaitOK'
    <2>1. PICK n, s : n = Len(incoming) /\ s = Append(incoming, t)
      OBVIOUS
    <2>2. /\ n \in Nat /\ Len(s) = n + 1 /\ s[n + 1] = t
          /\ \A i \in 1..n : s[i] = incoming[i]
      BY <1>t, <2>1, AppendProperties
    <2>3. /\ incoming' = s /\ stamp[t] = 0 /\ posts' = posts + 1
          /\ stamp'[t] = posts + 1 /\ \A u \in Tasks \ {t} : stamp'[u] = stamp[u]
          /\ UNCHANGED <<work, delayed, started>>
      BY <1>5, <1>t, <2>1 DEF Posts, Push
    <2>4. /\ \A i \in 1..n : incoming[i] \in Tasks \ {t}
          /\ \A i \in 1..Len(work) : work[i] \in Tasks \ {t}
          /\ t \notin delayed /\ t \notin started
      BY <1>t, <2>1, <2>3 DEF WaitOK, PlacesOK
    <2>5. \A u \in Tasks : stamp[u] \in Nat /\ stamp[u] <= posts
      BY <1>t DEF WaitOK, OrderOK
    <2>6. OrderOK'
      <3>1. ASSUME NEW i \in 1..(n + 1), NEW j \in 1..(n + 1), i < j
            PROVE  stamp'[s[i]] < stamp'[s[j]]
        <4>1. i \in 1..n /\ s[i] = incoming[i] /\ s[i] \in Tasks \ {t}
          BY <2>2, <2>4, <3>1
        <4>2. CASE j = n + 1
          BY <1>t, <2>2, <2>3, <2>5, <4>1, <4>2
        <4>3. CASE j # n + 1
          <5>1. j \in 1..n /\ s[j] = incoming[j] /\ s[j] \in Tasks \ {t}
            BY <2>2, <2>4, <4>3
          <5>2. stamp[incoming[i]] < stamp[incoming[j]]
            BY <2>1, <3>1, <4>1, <5>1 DEF WaitOK, OrderOK, Rising
          <5> QED
            BY <2>3, <4>1, <5>1, <5>2
        <4> QED
          BY <4>2, <4>3
      <3>2. \A i, j \in 1..Len(work) : i < j => stamp'[work[i]] < stamp'[work[j]]
        BY <2>3, <2>4 DEF WaitOK, OrderOK, Rising
      <3>3. ASSUME NEW i \in 1..Len(work), NEW j \in 1..(n + 1)
            PROVE  stamp'[work[i]] < stamp'[s[j]]
        <4>1. work[i] \in Tasks \ {t} /\ stamp'[work[i]] = stamp[work[i]]
          BY <2>3, <2>4
        <4>2. CASE j = n + 1
          BY <1>t, <2>2, <2>3, <2>5, <4>1, <4>2
        <4>3. CASE j # n + 1
          <5>1. j \in 1..n /\ s[j] = incoming[j] /\ s[j] \in Tasks \ {t}
            BY <2>2, <2>4, <4>3
          <5>2. stamp[work[i]] < stamp[incoming[j]]
            BY <2>1, <5>1 DEF WaitOK, OrderOK
          <5> QED
            BY <2>3, <4>1, <5>1, <5>2
        <4> QED
          BY <4>2, <4>3
      <3>4. \A u \in Tasks : stamp'[u] <= posts'
        BY <1>t, <2>3, <2>5
      <3> QED
        BY <2>2, <2>3, <3>1, <3>2, <3>3, <3>4 DEF OrderOK, Rising
    <2>7. PlacesOK'
      <3>1. \A i \in 1..(n + 1) : s[i] \notin started \cup delayed
        <4>1. \A i \in 1..n : s[i] \notin started \cup delayed
          BY <2>1, <2>2 DEF WaitOK, PlacesOK
        <4> QED
          BY <2>2, <2>4, <4>1
      <3>2. ASSUME NEW u \in Tasks, stamp'[u] # 0
            PROVE  \/ u \in started \cup delayed
                   \/ \E i \in 1..(n + 1) : s[i] = u
                   \/ \E i \in 1..Len(work) : work[i] = u
        <4>1. CASE u = t
          BY <2>2, <4>1
        <4>2. CASE u # t
          <5>1. stamp[u] # 0
            BY <2>3, <3>2, <4>2
          <5>2. CASE \E i \in 1..n : incoming[i] = u
            BY <2>2, <5>2
          <5> QED
            BY <2>1, <5>1, <5>2 DEF WaitOK, PlacesOK
        <4> QED
          BY <4>1, <4>2
      <3>3. \A u \in started : stamp'[u] # 0
        BY <1>t, <2>3, <2>4 DEF WaitOK, PlacesOK
      <3> QED
        BY <2>2, <2>3, <3>1, <3>2, <3>3 DEF WaitOK, PlacesOK
    <2> QED
      BY <2>6, <2>7 DEF WaitOK
  <1> QED
    BY <1>1, <1>2, <1>3, <1>4, <1>5, QueueKinds

Status(t) == IF t \in started THEN "started" ELSE IF stamp[t] # 0 THEN "accepted" ELSE "new"

\* A task is taken after every ordinary one posted before it.
LEMMA TakenInOrder ==
  ASSUME Parts, WaitOK, NEW t \in Tasks, Taken(t)
  PROVE  /\ stamp[t] # 0 /\ t \notin started
         /\ Delay[t] = 0 =>
              \A u \in Tasks : Delay[u] = 0 /\ u \notin started /\ stamp[u] # 0
                                 => ~(stamp[u] < stamp[t])
  <1>t. /\ incoming \in Seq(Tasks) /\ work \in Seq(Tasks) /\ stamp \in [Tasks -> Nat]
        /\ Len(work) \in Nat
        /\ \A i \in 1..Len(work) : work[i] \in Tasks /\ stamp[work[i]] # 0
        /\ \A u \in delayed : stamp[u] # 0
    BY LenProperties, ElementOfSeq DEF Parts, Scalars, QueuesOK
  <1>1. CASE DoWorkRunsTask /\ t = Head(work)
    <2>1. PICK n : n = Len(work)
      OBVIOUS
    <2>2. n \in Nat \ {0} /\ t = work[1] /\ 1 \in 1..n
      BY <1>1, <1>t, <2>1, HeadTailProperties, EmptySeq DEF DoWorkRunsTask
    <2>3. stamp[t] # 0 /\ t \notin started
      BY <1>t, <2>1, <2>2 DEF WaitOK, PlacesOK
    <2>4. ASSUME NEW u \in Tasks, Delay[u] = 0, u \notin started, stamp[u] # 0
          PROVE  ~(stamp[u] < stamp[t])
      <3>1. stamp[u] \in Nat /\ stamp[t] \in Nat
        BY <1>t
      <3>2. \/ \E i \in 1..Len(incoming) : incoming[i] = u
            \/ \E i \in 1..n : work[i] = u
        BY <2>1, <2>4 DEF WaitOK, PlacesOK
      <3>3. ASSUME NEW i \in 1..n, work[i] = u PROVE ~(stamp[u] < stamp[t])
        <4>1. i = 1 \/ 1 < i
          BY <2>2
        <4>2. 1 < i => stamp[work[1]] < stamp[work[i]]
          BY <2>1, <2>2 DEF WaitOK, OrderOK, Rising
        <4> QED
          BY <2>2, <3>1, <3>3, <4>1, <4>2
      <3>4. ASSUME NEW i \in 1..Len(incoming), incoming[i] = u
            PROVE  ~(stamp[u] < stamp[t])
        <4>1. stamp[work[1]] < stamp[incoming[i]]
          BY <2>1, <2>2 DEF WaitOK, OrderOK
        <4> QED
          BY <2>2, <3>1, <3>4, <4>1
      <3> QED
        BY <3>2, <3>3, <3>4
    <2> QED
      BY <2>3, <2>4
  <1>2. CASE DoDelayedWorkTakes(t)
    <2>1. t \in delayed
      BY <1>2 DEF DoDelayedWorkTakes, IsTop
    <2> QED
      BY <1>t, <2>1 DEF WaitOK, PlacesOK
  <1> QED
    BY <1>1, <1>2 DEF Taken

\* A started task leaves the answers to all posts as they are, and a post the
\* frames.
LEMMA PostKinds ==
  ASSUME Parts, WaitOK, [Next]_vars
  PROVE  \/ UNCHANGED <<stamp, posts>>
         \/ \E t \in Tasks : Posts(t)
  BY QueueKinds DEF Reloads, TakesWork, TakesDelayed

\* Every step of the pump is a step of the service or none.
LEMMA UIServiceStep ==
  ASSUME Parts, WaitOK, NestOK, [Next]_vars
  PROVE  [Service!SNext]_(Service!svars)
  <1> DEFINE S == [t \in Tasks |-> Status(t)]
  <1>t. /\ stamp \in [Tasks -> Nat] /\ posts \in Nat /\ started \subseteq Tasks
        /\ stack \in Seq(Frame) /\ Len(stack) \in Nat /\ MaxModals \in Nat
    BY StackLength, PumpAssumption DEF Parts, Scalars, Shape, PumpAssumption
  <1>1. PICK s, r : s = stack /\ r = stack'
    OBVIOUS
  <1>2. PICK c, d : c = KindCount(s, "task", Len(s)) /\ d = KindCount(r, "task", Len(r))
    OBVIOUS
  <1>3. /\ Service!svars = <<S, stamp, posts, Bodies(s), c, TRUE>>
        /\ Service!svars' = <<S', stamp', posts', Bodies(r), d, TRUE>>
    BY <1>1, <1>2 DEF Service!svars, Status
  <1>4. CASE UNCHANGED <<stamp, posts>>
    <2>1. CASE Silent /\ UNCHANGED started
      <3>1. S' = S
        BY <1>4, <2>1 DEF Status
      <3>2. CASE Bodies(r) = Bodies(s) /\ d = c
        BY <1>3, <1>4, <3>1, <3>2
      <3>3. CASE Keeps
        <4>1. Bodies(r) = Bodies(s) /\ d = c
          BY <1>1, <1>2, <1>t, <3>3, SameBodies DEF Keeps
        <4> QED
          BY <3>2, <4>1
      <3>4. ASSUME NEW k \in Kinds \ {"task"}, NEW t, Grows(k, t)
            PROVE  Bodies(r) = Bodies(s) /\ d = c
        <4>1. Longer(s, r) /\ r[Len(r)].kind # "task"
          BY <1>1, <3>4 DEF Grows
        <4>2. Bodies(r) = Bodies(s)
          BY <4>1, LongerBodies
        <4>3. c \in Nat /\ d = c
          BY <1>2, <4>1, LongerCounts
        <4> QED
          BY <4>2, <4>3
      <3>5. CASE Shrinks
        <4>1. Longer(r, s)
          BY <1>1, <3>5 DEF Shrinks
        <4>2. d \in Nat /\ c = d + (IF s[Len(s)].kind = "task" THEN 1 ELSE 0)
          BY <1>2, <4>1, LongerCounts
        <4>3. CASE s[Len(s)].kind # "task"
          <5>1. Bodies(r) = Bodies(s) /\ d = c
            BY <4>1, <4>2, <4>3, LongerBodies
          <5> QED
            BY <3>2, <5>1
        <4>4. CASE s[Len(s)].kind = "task"
          <5>1. Bodies(r) = [Bodies(s) EXCEPT ![c] = NoTask] /\ c > 0 /\ d = c - 1
            BY <1>2, <4>1, <4>2, <4>4, LongerBodies
          <5> HIDE DEF S
          <5>2. Service!Finish
            BY <1>1, <1>2, <1>4, <3>1, <5>1 DEF Service!Finish, S, Status
          <5> QED
            BY <5>2 DEF Service!SNext
        <4> QED
          BY <4>3, <4>4
      <3> QED
        BY <2>1, <3>2, <3>3, <3>4, <3>5 DEF Silent
    <2>2. ASSUME NEW t \in Tasks, Taken(t), Grows("task", t), started' = started \cup {t},
                 stack # << >>, Top.kind # "task"
          PROVE  Service!SNext
      <3>1. Longer(s, r) /\ r[Len(r)].kind = "task" /\ r[Len(r)].task = t
        BY <1>1, <2>2 DEF Grows
      <3>2. c \in Nat /\ d = c + 1 /\ Bodies(r) = [Bodies(s) EXCEPT ![c + 1] = t]
        BY <1>2, <3>1, LongerCounts, LongerBodies
      <3>3. c <= MaxModals
        <4>1. Len(s) \in 1..Len(s) /\ s[Len(s)].kind # "task"
          BY <1>1, <2>2, StackLength DEF Parts, Shape, Top
        <4>2. PICK m : m = KindCount(s, "modal", Len(s))
          OBVIOUS
        <4>3. c <= m + 0 /\ m <= MaxModals
          BY <1>1, <1>2, <4>1, <4>2 DEF NestOK, Nested
        <4>4. m \in Nat
          BY <1>1, <1>t, <4>2, CountStep
        <4> QED
          BY <1>t, <3>2, <4>3, <4>4
      <3>4. /\ stamp[t] # 0 /\ t \notin started
            /\ Delay[t] = 0 =>
                 \A u \in Tasks : Delay[u] = 0 /\ u \notin started /\ stamp[u] # 0
                                    => ~(stamp[u] < stamp[t])
        BY <2>2, TakenInOrder
      <3>5. S' = [S EXCEPT ![t] = "started"] /\ S[t] = "accepted"
        BY <1>4, <2>2, <3>4 DEF Status
      <3>6. \A u \in Tasks : S[u] = "accepted" => u \notin started /\ stamp[u] # 0
        BY DEF Status
      <3> HIDE DEF S
      <3>7. PICK h \in 1..(MaxModals + 1) : h = c + 1
        BY <1>t, <3>2, <3>3
      <3>8. Service!Start(t, h)
        BY <1>1, <1>2, <1>4, <3>2, <3>4, <3>5, <3>6, <3>7 DEF Service!Start, S, Status
      <3> QED
        BY <3>8 DEF Service!SNext
    <2> QED
      BY <2>1, <2>2, FrameKinds
  <1>5. ASSUME NEW t \in Tasks, Posts(t) PROVE Service!SNext
    <2>1. r = s /\ d = c /\ Bodies(r) = Bodies(s)
      BY <1>1, <1>2, <1>5 DEF Posts
    <2>2. /\ stamp[t] = 0 /\ posts' = posts + 1 /\ stamp' = [stamp EXCEPT ![t] = posts + 1]
          /\ started' = started
      BY <1>5 DEF Posts, Push
    <2>3. t \notin started
      BY <2>2 DEF WaitOK, PlacesOK
    <2>4. S' = [S EXCEPT ![t] = "accepted"] /\ S[t] = "new"
      <3>1. stamp'[t] # 0 /\ \A u \in Tasks : u # t => stamp'[u] = stamp[u]
        BY <1>t, <2>2
      <3>2. \A u \in Tasks : (Status(u))' = IF u = t THEN "accepted" ELSE Status(u)
        BY <2>2, <2>3, <3>1 DEF Status
      <3>3. Status(t) = "new"
        BY <2>2, <2>3 DEF Status
      <3> QED
        BY <3>2, <3>3
    <2> HIDE DEF S
    <2>5. Service!Accept(t)
      BY <1>1, <1>2, <2>1, <2>2, <2>4 DEF Service!Accept, S, Status
    <2> QED
      BY <2>5 DEF Service!SNext
  <1> QED
    BY <1>4, <1>5, PostKinds

\* To those who post, the UI loop is the TaskService too: whatever messages,
\* timers and modal loops do, a task starts at most once and ordinary ones in the
\* order of their posts, and nested tasks end before the one they interrupt.
THEOREM PumpImplementsService == Spec => ImplementsTaskService
  <1> DEFINE Inv == Parts /\ WaitOK /\ NestOK
  <1>1. Init => Inv
    BY InitParts, WaitInit, NestInit
  <1>2. Inv /\ [Next]_vars => Inv'
    BY StepParts, WaitStep, NestStep
  <1>3. Init => Service!SInit
    <2> SUFFICES ASSUME Init PROVE Service!SInit
      OBVIOUS
    <2>1. Len(stack) = 0
      BY EmptySeq DEF Init
    <2>2. KindCount(stack, "task", Len(stack)) = 0
      BY <2>1, CountStep
    <2>3. \A h \in 1..(MaxModals + 1) : Body(stack, h) = NoTask
      BY <2>1 DEF Body
    <2> QED
      BY <2>2, <2>3 DEF Init, Service!SInit, Bodies
  <1>4. Inv /\ [Next]_vars => [Service!SNext]_(Service!svars)
    BY UIServiceStep
  <1> HIDE DEF Inv
  <1> QED
    BY <1>1, <1>2, <1>3, <1>4, PTL DEF Spec, ImplementsTaskService, Service!SSpec
=============================================================================
