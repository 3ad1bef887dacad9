------------------------ MODULE WaitableEventProofs ------------------------
(***************************************************************************)
(* For any threads, events and arrays: two WaitMultiples never wait for a  *)
(* lock of each other, a signal never fires a waiter that is gone, and the *)
(* wait lists do for signals and waits what EventService promises.         *)
(***************************************************************************)
EXTENDS WaitableEventService, TLAPS, SequenceTheorems, WellFoundedInduction

(***************************************************************************)
(* Least numbers and RemoveFirst                                           *)
(***************************************************************************)

LEMMA LeastNumber ==
  ASSUME NEW S \in SUBSET Nat, S # {} PROVE \E x \in S : \A y \in S : x <= y
  <1>1. \E x \in S : \A y \in S : ~(<<y, x>> \in OpToRel(<, Nat))
    BY NatLessThanWellFounded, WFMin
  <1>2. PICK x \in S : \A y \in S : ~(<<y, x>> \in OpToRel(<, Nat))
    BY <1>1
  <1>3. \A y \in S : ~(y < x)
    BY <1>2 DEF OpToRel
  <1> QED
    BY <1>3

\* RemoveFirst takes out the entry at one place k, if x is there at all.
LEMMA RemoveFirstAt ==
  ASSUME NEW S, NEW s \in Seq(S), NEW x, \E i \in 1..Len(s) : s[i] = x
  PROVE  \E k \in 1..Len(s) :
           /\ s[k] = x
           /\ RemoveFirst(s, x) \in Seq(S) /\ Len(RemoveFirst(s, x)) = Len(s) - 1
           /\ \A j \in 1..(Len(s) - 1) :
                RemoveFirst(s, x)[j] = IF j < k THEN s[j] ELSE s[j + 1]
  <1> DEFINE I == {j \in 1..Len(s) : s[j] = x}
             k == CHOOSE m \in I : \A n \in I : m <= n
  <1>1. Len(s) \in Nat /\ I # {} /\ I \in SUBSET Nat
    BY LenProperties
  <1>2. k \in I
    BY <1>1, LeastNumber
  <1>3. RemoveFirst(s, x) = SubSeq(s, 1, k - 1) \o SubSeq(s, k + 1, Len(s))
    BY <1>1 DEF RemoveFirst, RemoveAt, SelectInSeq, Min
  <1> HIDE DEF k
  <1>4. k \in 1..Len(s) /\ s[k] = x
    BY <1>2
  <1> DEFINE a == SubSeq(s, 1, k - 1)
             b == SubSeq(s, k + 1, Len(s))
  <1>5. a \in Seq(S) /\ Len(a) = k - 1 /\ \A j \in 1..(k - 1) : a[j] = s[j]
    BY <1>1, <1>4, SubSeqProperties, ElementOfSeq
  <1>6. b \in Seq(S) /\ Len(b) = Len(s) - k /\ \A j \in 1..(Len(s) - k) : b[j] = s[k + j]
    BY <1>1, <1>4, SubSeqProperties, ElementOfSeq
  <1> HIDE DEF a, b
  <1>7. /\ a \o b \in Seq(S) /\ Len(a \o b) = Len(a) + Len(b)
        /\ \A j \in 1..(Len(a) + Len(b)) :
             (a \o b)[j] = IF j <= Len(a) THEN a[j] ELSE b[j - Len(a)]
    BY <1>5, <1>6, ConcatProperties
  <1>8. Len(a) + Len(b) = Len(s) - 1
    BY <1>1, <1>4, <1>5, <1>6
  <1>9. ASSUME NEW j \in 1..(Len(s) - 1)
        PROVE  (a \o b)[j] = IF j < k THEN s[j] ELSE s[j + 1]
    <2>1. CASE j < k
      <3>1. j \in 1..(k - 1) /\ j <= Len(a)
        BY <1>1, <1>4, <1>5, <2>1
      <3> QED
        BY <1>5, <1>7, <1>8, <2>1, <3>1
    <2>2. CASE ~(j < k)
      <3>1. /\ j - (k - 1) \in 1..(Len(s) - k) /\ ~(j <= Len(a)) /\ Len(a) = k - 1
            /\ k + (j - (k - 1)) = j + 1
        BY <1>1, <1>4, <1>5, <2>2
      <3> QED
        BY <1>6, <1>7, <1>8, <2>2, <3>1
    <2> QED
      BY <2>1, <2>2
  <1> QED
    BY <1>3, <1>4, <1>7, <1>8, <1>9 DEF a, b

LEMMA RemoveFirstType ==
  ASSUME NEW S, NEW s \in Seq(S), NEW x
  PROVE  /\ RemoveFirst(s, x) \in Seq(S)
         /\ \A i \in 1..Len(s) : s[i] # x =>
              \E j \in 1..Len(RemoveFirst(s, x)) : RemoveFirst(s, x)[j] = s[i]
  <1>1. CASE \E i \in 1..Len(s) : s[i] = x
    <2>1. PICK k \in 1..Len(s) :
            /\ s[k] = x
            /\ RemoveFirst(s, x) \in Seq(S) /\ Len(RemoveFirst(s, x)) = Len(s) - 1
            /\ \A j \in 1..(Len(s) - 1) :
                 RemoveFirst(s, x)[j] = IF j < k THEN s[j] ELSE s[j + 1]
      BY <1>1, RemoveFirstAt
    <2>2. ASSUME NEW i \in 1..Len(s), s[i] # x
          PROVE  \E j \in 1..Len(RemoveFirst(s, x)) : RemoveFirst(s, x)[j] = s[i]
      <3>1. CASE i < k
        BY <2>1, <3>1, LenProperties
      <3>2. CASE i > k
        <4>1. i - 1 \in 1..(Len(s) - 1) /\ ~(i - 1 < k) /\ i - 1 + 1 = i
          BY <3>2, LenProperties
        <4> QED
          BY <2>1, <4>1
      <3> QED
        BY <2>1, <2>2, <3>1, <3>2, LenProperties
    <2> QED
      BY <2>1, <2>2
  <1>2. CASE ~\E i \in 1..Len(s) : s[i] = x
    <2>1. RemoveFirst(s, x) = s
      BY <1>2 DEF RemoveFirst
    <2> QED
      BY <2>1
  <1> QED
    BY <1>1, <1>2

\* Without repetitions in s, x is gone, and the others keep places of their own.
LEMMA RemoveFirstOnly ==
  ASSUME NEW S, NEW s \in Seq(S), NEW x
  PROVE  (\A i, j \in 1..Len(s) : s[i] = s[j] => i = j) =>
           \E to \in [1..Len(s) -> 1..Len(s)] :
             /\ Len(RemoveFirst(s, x)) \in 0..Len(s)
             /\ \A j \in 1..Len(RemoveFirst(s, x)) :
                  RemoveFirst(s, x)[j] = s[to[j]] /\ s[to[j]] # x
             /\ \A i, j \in 1..Len(RemoveFirst(s, x)) : to[i] = to[j] => i = j
  <1> DEFINE n == Len(s)
             inj == \A i, j \in 1..Len(s) : s[i] = s[j] => i = j
  <1> SUFFICES ASSUME inj
               PROVE  \E to \in [1..n -> 1..n] :
                        /\ Len(RemoveFirst(s, x)) \in 0..n
                        /\ \A j \in 1..Len(RemoveFirst(s, x)) :
                             RemoveFirst(s, x)[j] = s[to[j]] /\ s[to[j]] # x
                        /\ \A i, j \in 1..Len(RemoveFirst(s, x)) : to[i] = to[j] => i = j
    OBVIOUS
  <1> HIDE DEF inj
  <1>0. n \in Nat
    BY LenProperties
  <1>1. CASE \E i \in 1..Len(s) : s[i] = x
    <2>1. PICK k \in 1..Len(s) :
            /\ s[k] = x
            /\ RemoveFirst(s, x) \in Seq(S) /\ Len(RemoveFirst(s, x)) = Len(s) - 1
            /\ \A j \in 1..(Len(s) - 1) :
                 RemoveFirst(s, x)[j] = IF j < k THEN s[j] ELSE s[j + 1]
      BY <1>1, RemoveFirstAt
    <2> DEFINE to == [j \in 1..n |-> IF j < k THEN j ELSE IF j < n THEN j + 1 ELSE 1]
    <2>2. to \in [1..n -> 1..n]
      BY <1>0
    <2>3. \A j \in 1..(n - 1) : j \in 1..n /\ to[j] \in 1..n
             /\ to[j] = (IF j < k THEN j ELSE j + 1) /\ to[j] # k
      BY <1>0
    <2>4. \A i, j \in 1..(n - 1) : to[i] = to[j] => i = j
      BY <1>0
    <2> HIDE DEF to
    <2>5. \A j \in 1..(n - 1) : RemoveFirst(s, x)[j] = s[to[j]] /\ s[to[j]] # x
      BY <2>1, <2>3 DEF inj
    <2>6. Len(RemoveFirst(s, x)) = n - 1 /\ n - 1 \in 0..n
      BY <1>0, <2>1
    <2> HIDE DEF n
    <2>7. /\ Len(RemoveFirst(s, x)) \in 0..n
          /\ \A j \in 1..Len(RemoveFirst(s, x)) :
               RemoveFirst(s, x)[j] = s[to[j]] /\ s[to[j]] # x
          /\ \A i, j \in 1..Len(RemoveFirst(s, x)) : to[i] = to[j] => i = j
      BY <2>4, <2>5, <2>6
    <2> QED
      BY <2>2, <2>7
  <1>2. CASE ~\E i \in 1..Len(s) : s[i] = x
    <2> DEFINE to == [j \in 1..n |-> j]
    <2>1. RemoveFirst(s, x) = s
      BY <1>2 DEF RemoveFirst
    <2>2. to \in [1..n -> 1..n] /\ \A j \in 1..n : to[j] = j
      BY <1>0
    <2> HIDE DEF to
    <2> QED
      BY <1>0, <1>2, <2>1, <2>2
  <1> QED
    BY <1>1, <1>2

(***************************************************************************)
(* The invariant                                                           *)
(***************************************************************************)

VarsOK ==
  /\ signaled \subseteq Events
  /\ lock \in [Events -> Threads \cup {None}]
  /\ waiters \in [Events -> Seq(Threads)]
  /\ pc \in [Threads -> {"idle", "locking", "leaving"} \cup Signaling \cup InWait]
  /\ frame \in [Threads -> Frame]
  /\ calls \in 0..MaxCalls

\* A thread that signals holds the lock of its event; SignalOne is at the first
\* waiter, which is there when it pops it.
SignalOK(t) ==
  /\ pc[t] \in Signaling =>
       \E e \in Events : frame[t].array = <<e>> /\ lock[e] = t
  /\ pc[t] \in {"rejected", "woken"} =>
       frame[t].cursor = 1 /\ waiters[frame[t].array[1]] # << >>
  /\ pc[t] = "signaling" /\ frame[t].array[1] \notin Manual => frame[t].cursor = 1

\* A thread in WaitMultiple has locked the lowest addresses of its array, and
\* not yet all of them.
LockingOK(t) ==
  /\ pc[t] = "locking" =>
       /\ ToLock(t) # {}
       /\ \A e \in Events, f \in ToLock(t) : lock[e] = t => e < f
  /\ pc[t] = "locking" => ~frame[t].fired
  /\ ~frame[t].fired => frame[t].by = None

HoldsOK(t) ==
  \A e \in Events : lock[e] = t => pc[t] \in Signaling \cup {"locking"} /\ e \in Waited(t)

LocksOK == \A t \in Threads : HoldsOK(t) /\ SignalOK(t) /\ LockingOK(t)

\* The waiter of w in the list of e is alive: w waits, and will take it out
\* unless e has released it, or is about to take it out.
Fresh(e, w) ==
  \/ /\ pc[w] \in InWait /\ e \in Waited(w)
     /\ Len(frame[w].array) # 1 => frame[w].by # e
  \/ pc[w] = "leaving" /\ \E j \in 1..Len(frame[w].todo) : frame[w].todo[j] = e

\* The waiters a signal may still fire are alive, each of another thread.
ListOK(e) ==
  \A i \in Entries(e) :
    /\ Fresh(e, waiters[e][i])
    /\ \A j \in Entries(e) : waiters[e][j] = waiters[e][i] => i = j

LiveOK == \A e \in Events : ListOK(e)

EventInv == VarsOK /\ LocksOK /\ LiveOK

LEMMA NewFrameType ==
  ASSUME NEW a \in Seq(Events), NEW finite \in BOOLEAN
  PROVE  /\ NewFrame(a, finite) \in Frame
         /\ NewFrame(a, finite).array = a /\ NewFrame(a, finite).cursor = 1
         /\ NewFrame(a, finite).fired = FALSE /\ NewFrame(a, finite).by = None
         /\ NewFrame(a, finite).todo = << >>
  BY EmptySeq DEF NewFrame, Frame

LEMMA NoFrameType ==
  NoFrame \in Frame /\ NoFrame.fired = FALSE /\ NoFrame.by = None
  BY EmptySeq, NewFrameType DEF NoFrame

LEMMA EventInit == Init => EventInv
  <1> SUFFICES ASSUME Init PROVE EventInv
    OBVIOUS
  <1> USE EventsAssumption DEF Init, EventsAssumption
  <1>1. VarsOK
    <2>1. << >> \in Seq(Threads) /\ 0 \in 0..MaxCalls
      BY EmptySeq, MaxCallsAssumption DEF MaxCallsAssumption
    <2> QED
      BY <2>1, NoFrameType DEF VarsOK
  <1>2. LocksOK
    BY NoFrameType DEF LocksOK, HoldsOK, SignalOK, LockingOK, Signaling
  <1>3. LiveOK
    BY EmptySeq DEF LiveOK, ListOK, Entries
  <1> QED
    BY <1>1, <1>2, <1>3 DEF EventInv

(***************************************************************************)
(* Steps of a thread that neither signals nor locks                        *)
(***************************************************************************)

Passive == {"idle", "leaving"} \cup InWait

\* A thread keeps its locks, and what is true of them, while others step.
LEMMA LocksKept ==
  ASSUME VarsOK, LocksOK, NEW u \in Threads, pc'[u] = pc[u], frame'[u] = frame[u],
         \A e \in Events : lock'[e] = u <=> lock[e] = u,
         \A e \in Events : lock[e] = u => waiters'[e] = waiters[e]
  PROVE  (HoldsOK(u) /\ SignalOK(u) /\ LockingOK(u))'
  <1>1. HoldsOK(u) /\ SignalOK(u) /\ LockingOK(u)
    BY DEF LocksOK
  <1>2. HoldsOK(u)' /\ LockingOK(u)'
    <2>1. Waited(u)' = Waited(u) /\ ToLock(u)' = ToLock(u)
      <3>1. Waited(u)' = Waited(u)
        BY DEF Waited
      <3>2. Waited(u) \subseteq Events
        BY ElementOfSeq DEF VarsOK, Frame, Waited
      <3> QED
        BY <3>1, <3>2 DEF ToLock
    <2>2. HoldsOK(u)'
      BY <1>1, <2>1 DEF HoldsOK
    <2>3. LockingOK(u)'
      BY <1>1, <2>1 DEF LockingOK
    <2> QED
      BY <2>2, <2>3
  <1>3. SignalOK(u)'
    <2>1. CASE pc[u] \in Signaling
      <3>1. PICK e \in Events : frame[u].array = <<e>> /\ lock[e] = u
        BY <1>1, <2>1 DEF SignalOK
      <3> QED
        BY <1>1, <3>1 DEF SignalOK
    <2>2. CASE pc[u] \notin Signaling
      BY <2>2 DEF SignalOK, Signaling
    <2> QED
      BY <2>1, <2>2
  <1> QED
    BY <1>2, <1>3

\* A list is as good as before if it changes only in that a signal goes on.
LEMMA ListKept ==
  ASSUME VarsOK, LiveOK, NEW e \in Events, waiters'[e] = waiters[e],
         Done(e) \in Int, Done(e)' \in Int, Done(e) <= Done(e)',
         \A i \in Entries(e)' : Fresh(e, waiters[e][i]) => Fresh(e, waiters[e][i])'
  PROVE  ListOK(e)'
  <1>1. \A i \in Entries(e)' : i \in Entries(e)
    BY DEF Entries, VarsOK
  <1> SUFFICES ASSUME NEW i \in Entries(e)'
               PROVE  /\ Fresh(e, waiters[e][i])'
                      /\ \A j \in Entries(e)' : waiters'[e][j] = waiters'[e][i] => i = j
    BY DEF ListOK
  <1> QED
    BY <1>1 DEF LiveOK, ListOK

LEMMA DoneType == ASSUME VarsOK, NEW e \in Events PROVE Done(e) \in Nat
  BY EventsAssumption DEF Done, VarsOK, Frame, EventsAssumption

\* Who is in a list that matters.
LEMMA EntryType ==
  ASSUME VarsOK, NEW e \in Events, NEW i \in Entries(e) PROVE waiters[e][i] \in Threads
  BY ElementOfSeq DEF VarsOK, Entries

LEMMA PassiveStep ==
  ASSUME VarsOK, LocksOK, LiveOK, NEW t \in Threads, NEW p \in Passive, NEW g \in Frame,
         pc[t] \in Passive,
         pc' = [pc EXCEPT ![t] = p], frame' = [frame EXCEPT ![t] = g],
         UNCHANGED <<lock, waiters>>,
         ~g.fired => g.by = None,
         \A e \in Events : Fresh(e, t) => Fresh(e, t)'
  PROVE  LocksOK' /\ LiveOK'
  <1>1. /\ \A u \in Threads \ {t} : pc'[u] = pc[u] /\ frame'[u] = frame[u]
        /\ pc'[t] = p /\ frame'[t] = g
    BY DEF VarsOK
  <1>2. p \notin Signaling \cup {"locking"} /\ pc[t] \notin Signaling \cup {"locking"}
    BY DEF Passive, Signaling, InWait
  <1>3. \A e \in Events : lock[e] # t
    BY <1>2 DEF LocksOK, HoldsOK
  <1>4. ASSUME NEW u \in Threads PROVE (HoldsOK(u) /\ SignalOK(u) /\ LockingOK(u))'
    <2>1. CASE u = t
      BY <1>1, <1>2, <1>3, <2>1 DEF HoldsOK, SignalOK, LockingOK, Signaling
    <2>2. CASE u # t
      BY <1>1, <2>2, LocksKept
    <2> QED
      BY <2>1, <2>2
  <1>5. ASSUME NEW e \in Events PROVE ListOK(e)'
    <2>1. Done(e)' = Done(e) /\ Done(e) \in Nat
      BY <1>1, <1>3, DoneType DEF Done, VarsOK
    <2>2. \A w \in Threads : Fresh(e, w) => Fresh(e, w)'
      BY <1>1 DEF Fresh, Waited
    <2>3. Entries(e)' = Entries(e)
      BY <2>1 DEF Entries
    <2> QED
      BY <2>1, <2>2, <2>3, EntryType, ListKept
  <1> QED
    BY <1>4, <1>5 DEF LocksOK, LiveOK

\* Reset, IsSignaled, a Signal or a Wait that finds the event signaled: nothing
\* but signaled_ changes.
LEMMA SignaledStep ==
  ASSUME EventInv, UNCHANGED <<lock, waiters, pc, frame>> PROVE LocksOK' /\ LiveOK'
  <1>1. LocksOK'
    BY LocksKept DEF EventInv, LocksOK
  <1>2. \A e \in Events : Done(e)' = Done(e) /\ Entries(e)' = Entries(e)
    BY DEF Done, Entries
  <1>3. \A e \in Events, w \in Threads : Fresh(e, w) => Fresh(e, w)'
    BY DEF Fresh, Waited
  <1>4. ASSUME NEW e \in Events PROVE ListOK(e)'
    <2>1. Done(e) \in Int /\ Done(e)' = Done(e) /\ waiters'[e] = waiters[e]
      BY <1>2, DoneType DEF EventInv
    <2>2. \A i \in Entries(e)' : Fresh(e, waiters[e][i]) => Fresh(e, waiters[e][i])'
      BY <1>2, <1>3, EntryType DEF EventInv
    <2> QED
      BY <2>1, <2>2, ListKept DEF EventInv
  <1> QED
    BY <1>1, <1>4 DEF LiveOK

LEMMA ElapseStep == ASSUME EventInv, NEW t \in Threads, Elapse(t) PROVE EventInv'
  <1> DEFINE g == [frame[t] EXCEPT !.late = TRUE]
  <1>1. /\ g \in Frame /\ g.fired = frame[t].fired /\ g.by = frame[t].by
        /\ g.array = frame[t].array /\ g.todo = frame[t].todo
    BY DEF EventInv, VarsOK, Frame
  <1>2. /\ pc[t] \in InWait /\ frame' = [frame EXCEPT ![t] = g]
        /\ UNCHANGED <<signaled, lock, waiters, calls>>
    BY DEF Elapse, kernels
  <1> HIDE DEF g
  <1>3. PICK p \in InWait : pc' = [pc EXCEPT ![t] = p]
    BY <1>2 DEF Elapse, Goto, Broadcast, InWait
  <1>4. VarsOK'
    BY <1>1, <1>2, <1>3 DEF EventInv, VarsOK
  <1>5. \A e \in Events : Fresh(e, t) => Fresh(e, t)'
    BY <1>1, <1>2, <1>3 DEF EventInv, VarsOK, Fresh, Waited, InWait
  <1>6. ~g.fired => g.by = None
    BY <1>1 DEF EventInv, LocksOK, LockingOK
  <1> QED
    BY <1>1, <1>2, <1>3, <1>4, <1>5, <1>6, PassiveStep DEF EventInv, Passive

LEMMA WakeUpStep == ASSUME EventInv, NEW t \in Threads, WakeUp(t) PROVE EventInv'
  <1>1. /\ pc[t] \in InWait /\ pc' = [pc EXCEPT ![t] = "awake"] /\ "awake" \in InWait
        /\ frame' = [frame EXCEPT ![t] = frame[t]]
        /\ UNCHANGED <<signaled, lock, waiters, calls, frame>>
    BY DEF WakeUp, kernels, Goto, InWait, EventInv, VarsOK
  <1>2. VarsOK'
    BY <1>1 DEF EventInv, VarsOK
  <1>3. \A e \in Events : Fresh(e, t) => Fresh(e, t)'
    BY <1>1 DEF EventInv, VarsOK, Fresh, Waited, InWait
  <1>4. frame[t] \in Frame /\ (~frame[t].fired => frame[t].by = None)
    BY DEF EventInv, VarsOK, LocksOK, LockingOK
  <1> QED
    BY <1>1, <1>2, <1>3, <1>4, PassiveStep DEF EventInv, Passive

\* The waiter a wait leaves behind is in no list but those it will visit.
LEMMA TestStep == ASSUME EventInv, NEW t \in Threads, Test(t) PROVE EventInv'
  <1> DEFINE f == frame[t]
  <1>1. /\ f \in Frame /\ pc[t] \in InWait /\ UNCHANGED <<signaled, lock, waiters, calls>>
        /\ ~f.fired => f.by = None
    BY DEF Test, kernels, InWait, EventInv, VarsOK, LocksOK, LockingOK
  <1>2. CASE f.fired \/ f.late
    <2> DEFINE ret == IF f.fired THEN f.by ELSE None
               g == [f EXCEPT !.ret = ret, !.fired = TRUE, !.todo = Remaining(f)]
    <2>1. Remaining(f) \in Seq(Events)
      BY <1>1, RemoveFirstType DEF Remaining, Frame
    <2>2. \A e \in Events : Fresh(e, t) =>
             \E j \in 1..Len(Remaining(f)) : Remaining(f)[j] = e
      <3> SUFFICES ASSUME NEW e \in Events, Fresh(e, t)
                   PROVE  \E j \in 1..Len(Remaining(f)) : Remaining(f)[j] = e
        OBVIOUS
      <3>1. (\E i \in 1..Len(f.array) : f.array[i] = e) /\ (Len(f.array) # 1 => f.by # e)
        BY <1>1 DEF Fresh, Waited, InWait
      <3>2. f.array \in Seq(Events)
        BY <1>1 DEF Frame
      <3> QED
        BY <3>1, <3>2, RemoveFirstType DEF Remaining
    <2>3. pc' = [pc EXCEPT ![t] = "leaving"] /\ frame' = [frame EXCEPT ![t] = g]
      BY <1>2 DEF Test, Begin, Goto, Disable
    <2>4. g \in Frame /\ g.fired = TRUE /\ g.todo = Remaining(f)
      BY <1>1, <2>1 DEF Frame
    <2> HIDE DEF f, g, ret
    <2>5. VarsOK'
      BY <1>1, <2>3, <2>4 DEF EventInv, VarsOK
    <2>6. \A e \in Events : Fresh(e, t) => Fresh(e, t)'
      <3>1. pc'[t] = "leaving" /\ frame'[t].todo = Remaining(f)
        BY <2>3, <2>4 DEF EventInv, VarsOK
      <3> QED
        BY <2>2, <3>1 DEF Fresh
    <2> QED
      BY <1>1, <2>3, <2>4, <2>5, <2>6, PassiveStep DEF EventInv, Passive
  <1>3. CASE ~(f.fired \/ f.late)
    <2>1. /\ pc' = [pc EXCEPT ![t] = "asleep"] /\ "asleep" \in InWait
          /\ frame' = [frame EXCEPT ![t] = frame[t]] /\ frame' = frame
      BY <1>3 DEF Test, Goto, InWait, EventInv, VarsOK
    <2>2. VarsOK'
      BY <1>1, <2>1 DEF EventInv, VarsOK
    <2>3. \A e \in Events : Fresh(e, t) => Fresh(e, t)'
      BY <1>1, <2>1 DEF EventInv, VarsOK, Fresh, Waited, InWait
    <2> QED
      BY <1>1, <2>1, <2>2, <2>3, PassiveStep DEF EventInv, Passive
  <1> QED
    BY <1>2, <1>3

LEMMA ReturnStep == ASSUME EventInv, NEW t \in Threads, Return(t) PROVE EventInv'
  <1>1. /\ pc[t] = "leaving" /\ frame[t].todo = << >>
        /\ pc' = [pc EXCEPT ![t] = "idle"] /\ frame' = [frame EXCEPT ![t] = NoFrame]
        /\ UNCHANGED <<signaled, lock, waiters, calls>>
    BY DEF Return, End, Begin, Goto, kernels
  <1>2. VarsOK'
    BY <1>1, NoFrameType DEF EventInv, VarsOK
  <1>3. \A e \in Events : ~Fresh(e, t)
    BY <1>1, EmptySeq DEF Fresh, InWait
  <1> QED
    BY <1>1, <1>2, <1>3, NoFrameType, PassiveStep DEF EventInv, Passive

(***************************************************************************)
(* Steps that begin a call                                                 *)
(***************************************************************************)

\* A thread that calls nothing is in no list that matters, and holds no lock.
LEMMA IdleThread ==
  ASSUME EventInv, NEW t \in Threads, pc[t] = "idle"
  PROVE  (\A e \in Events : ~Fresh(e, t)) /\ (\A e \in Events : lock[e] # t)
  BY DEF EventInv, LocksOK, HoldsOK, Fresh, InWait, Signaling

LEMMA SignalStep ==
  ASSUME EventInv, NEW t \in Threads, NEW e \in Events, Signal(t, e) PROVE EventInv'
  <1>1. pc[t] = "idle" /\ lock[e] = None /\ UNCHANGED <<signaled, waiters>>
        /\ calls' \in 0..MaxCalls
    BY MaxCallsAssumption DEF Signal, Call, EventInv, VarsOK, MaxCallsAssumption
  <1>2. CASE e \in signaled
    <2>1. UNCHANGED <<lock, pc, frame>>
      BY <1>2 DEF Signal
    <2> QED
      BY <1>1, <2>1, SignaledStep DEF EventInv, VarsOK
  <1>3. CASE e \notin signaled
    <2> DEFINE g == NewFrame(<<e>>, FALSE)
    <2>0. <<e>> \in Seq(Events) /\ Len(<<e>>) = 1 /\ <<e>>[1] = e
      OBVIOUS
    <2>1. g \in Frame /\ g.array = <<e>> /\ g.cursor = 1 /\ g.fired = FALSE /\ g.by = None
      BY <2>0, NewFrameType
    <2>2. /\ lock' = [lock EXCEPT ![e] = t]
          /\ pc' = [pc EXCEPT ![t] = "signaling"] /\ frame' = [frame EXCEPT ![t] = g]
      BY <1>3 DEF Signal, Begin, Goto
    <2> HIDE DEF g
    <2>3. VarsOK'
      BY <1>1, <2>1, <2>2 DEF EventInv, VarsOK, Signaling
    <2>4. /\ pc'[t] = "signaling" /\ frame'[t] = g /\ lock'[e] = t
          /\ \A u \in Threads \ {t} : pc'[u] = pc[u] /\ frame'[u] = frame[u]
          /\ \A d \in Events \ {e} : lock'[d] = lock[d]
      BY <2>2 DEF EventInv, VarsOK
    <2>5. t # None /\ \A d \in Events : lock[d] # t /\ ~Fresh(d, t)
      BY <1>1, IdleThread, EventsAssumption DEF EventsAssumption
    <2>6. ASSUME NEW u \in Threads PROVE (HoldsOK(u) /\ SignalOK(u) /\ LockingOK(u))'
      <3>1. CASE u = t
        <4>1. e \in Waited(t)'
          <5>1. frame'[t].array = <<e>>
            BY <2>1, <2>4
          <5> QED
            BY <2>0, <5>1 DEF Waited
        <4>2. \A d \in Events : lock'[d] = t => d = e
          BY <2>4, <2>5
        <4> QED
          BY <2>0, <2>1, <2>4, <3>1, <4>1, <4>2 DEF HoldsOK, SignalOK, LockingOK, Signaling
      <3>2. CASE u # t
        <4>1. u # None /\ \A d \in Events : lock'[d] = u <=> lock[d] = u
          BY <1>1, <2>4, <3>2, EventsAssumption DEF EventsAssumption
        <4> QED
          BY <1>1, <2>4, <3>2, <4>1, LocksKept DEF EventInv
      <3> QED
        BY <3>1, <3>2
    <2>7. ASSUME NEW d \in Events PROVE ListOK(d)'
      <3>1. Done(d)' = Done(d) /\ Done(d) \in Nat
        <4>1. CASE d = e
          BY <1>1, <2>1, <2>4, <2>5, <4>1 DEF Done
        <4>2. CASE d # e
          BY <2>4, <2>5, <4>2, DoneType DEF Done, EventInv, VarsOK
        <4> QED
          BY <4>1, <4>2
      <3>2. Entries(d)' = Entries(d)
        BY <1>1, <3>1 DEF Entries
      <3>3. \A w \in Threads : Fresh(d, w) => Fresh(d, w)'
        BY <2>4, <2>5 DEF Fresh, Waited
      <3> QED
        BY <1>1, <3>1, <3>2, <3>3, EntryType, ListKept DEF EventInv
    <2> QED
      BY <2>3, <2>6, <2>7 DEF EventInv, LocksOK, LiveOK
  <1> QED
    BY <1>2, <1>3

LEMMA WaitMultipleStep ==
  ASSUME EventInv, NEW t \in Threads, NEW a \in Arrays, WaitMultiple(t, a) PROVE EventInv'
  <1> DEFINE g == NewFrame(a, FALSE)
  <1>1. pc[t] = "idle" /\ UNCHANGED <<signaled, lock, waiters>> /\ calls' \in 0..MaxCalls
    BY MaxCallsAssumption DEF WaitMultiple, Call, kernels, EventInv, VarsOK, MaxCallsAssumption
  <1>2. a \in Seq(Events) /\ Len(a) > 1
    BY ArraysAssumption DEF ArraysAssumption
  <1>3. g \in Frame /\ g.array = a /\ g.fired = FALSE /\ g.by = None
    BY <1>2, NewFrameType
  <1>4. pc' = [pc EXCEPT ![t] = "locking"] /\ frame' = [frame EXCEPT ![t] = g]
    BY DEF WaitMultiple, Begin, Goto
  <1> HIDE DEF g
  <1>5. VarsOK'
    BY <1>1, <1>3, <1>4 DEF EventInv, VarsOK
  <1>6. /\ pc'[t] = "locking" /\ frame'[t] = g
        /\ \A u \in Threads \ {t} : pc'[u] = pc[u] /\ frame'[u] = frame[u]
    BY <1>4 DEF EventInv, VarsOK
  <1>7. \A d \in Events : lock[d] # t /\ ~Fresh(d, t)
    BY <1>1, IdleThread
  <1>8. ASSUME NEW u \in Threads PROVE (HoldsOK(u) /\ SignalOK(u) /\ LockingOK(u))'
    <2>1. CASE u = t
      <3>1. a[1] \in Events /\ a[1] \in Waited(t)' /\ a[1] \in ToLock(t)'
        BY <1>1, <1>2, <1>3, <1>6, <1>7, ElementOfSeq DEF Waited, ToLock
      <3> QED
        BY <1>1, <1>3, <1>6, <1>7, <2>1, <3>1 DEF HoldsOK, SignalOK, LockingOK, Signaling
    <2>2. CASE u # t
      BY <1>1, <1>6, <2>2, LocksKept DEF EventInv
    <2> QED
      BY <2>1, <2>2
  <1>9. ASSUME NEW d \in Events PROVE ListOK(d)'
    <2>1. Done(d)' = Done(d) /\ Done(d) \in Nat
      BY <1>1, <1>6, <1>7, DoneType DEF Done, EventInv, VarsOK
    <2>2. Entries(d)' = Entries(d)
      BY <1>1, <2>1 DEF Entries
    <2>3. \A w \in Threads : Fresh(d, w) => Fresh(d, w)'
      BY <1>6, <1>7 DEF Fresh, Waited
    <2> QED
      BY <1>1, <2>1, <2>2, <2>3, EntryType, ListKept DEF EventInv
  <1> QED
    BY <1>5, <1>8, <1>9 DEF EventInv, LocksOK, LiveOK

\* A new entry at the end of a list no signal is busy with.
LEMMA ListAppended ==
  ASSUME VarsOK, LiveOK, NEW e \in Events, NEW t \in Threads, ~Fresh(e, t),
         waiters'[e] = Append(waiters[e], t), Done(e) = 0, Done(e)' = 0,
         \A w \in Threads : Fresh(e, w) => Fresh(e, w)', Fresh(e, t)'
  PROVE  ListOK(e)'
  <1> DEFINE n == Len(waiters[e])
  <1>1. /\ n \in Nat /\ Len(waiters'[e]) = n + 1 /\ waiters'[e][n + 1] = t
        /\ \A i \in 1..n : waiters'[e][i] = waiters[e][i]
    BY AppendProperties, LenProperties DEF VarsOK
  <1>2. Entries(e) = 1..n /\ Entries(e)' = 1..(n + 1)
    BY <1>1 DEF Entries
  <1>3. \A i \in 1..n : waiters[e][i] \in Threads /\ Fresh(e, waiters[e][i])
    BY <1>2, EntryType DEF LiveOK, ListOK
  <1> HIDE DEF n
  <1>4. \A i \in 1..(n + 1) : i = n + 1 \/ i \in 1..n
    BY <1>1
  <1>5. \A i, j \in 1..n : waiters[e][i] = waiters[e][j] => i = j
    BY <1>2 DEF LiveOK, ListOK
  <1>6. \A i \in 1..n : waiters[e][i] # t
    BY <1>3
  <1>7. ASSUME NEW i \in 1..(n + 1) PROVE Fresh(e, waiters[e][i])'
    <2>1. CASE i \in 1..n
      <3>1. waiters'[e][i] = waiters[e][i]
        BY <1>1, <2>1
      <3>2. Fresh(e, waiters[e][i]) /\ waiters[e][i] \in Threads
        BY <1>3, <2>1
      <3>3. PICK w \in Threads : w = waiters[e][i]
        BY <3>2
      <3>4. Fresh(e, w)'
        BY <3>2, <3>3
      <3> QED
        BY <3>1, <3>3, <3>4 DEF Fresh, Waited
    <2>2. CASE i = n + 1
      BY <1>1, <2>2
    <2> QED
      BY <1>4, <2>1, <2>2
  <1> QED
    BY <1>1, <1>2, <1>4, <1>5, <1>6, <1>7 DEF ListOK

LEMMA WaitStep ==
  ASSUME EventInv, NEW t \in Threads, NEW e \in Events, NEW finite \in BOOLEAN,
         Wait(t, e, finite)
  PROVE  EventInv'
  <1>1. pc[t] = "idle" /\ lock[e] = None /\ UNCHANGED lock /\ calls' \in 0..MaxCalls
    BY MaxCallsAssumption DEF Wait, Call, EventInv, VarsOK, MaxCallsAssumption
  <1>2. CASE e \in signaled
    <2>1. UNCHANGED <<waiters, pc, frame>> /\ signaled' \subseteq Events
      BY <1>2 DEF Wait, Consume, EventInv, VarsOK
    <2> QED
      BY <1>1, <2>1, SignaledStep DEF EventInv, VarsOK
  <1>3. CASE e \notin signaled
    <2> DEFINE g == NewFrame(<<e>>, finite)
    <2>0. <<e>> \in Seq(Events) /\ Len(<<e>>) = 1 /\ <<e>>[1] = e
      OBVIOUS
    <2>1. g \in Frame /\ g.array = <<e>> /\ g.fired = FALSE /\ g.by = None
      BY <2>0, NewFrameType
    <2>2. /\ UNCHANGED signaled /\ pc' = [pc EXCEPT ![t] = "enqueued"]
          /\ frame' = [frame EXCEPT ![t] = g]
          /\ waiters' = [d \in Events |-> IF d \in {e} THEN Append(waiters[d], t)
                                          ELSE waiters[d]]
      BY <1>3 DEF Wait, Begin, Goto, Enqueue
    <2> HIDE DEF g
    <2>3. /\ pc'[t] = "enqueued" /\ frame'[t] = g /\ waiters'[e] = Append(waiters[e], t)
          /\ \A u \in Threads \ {t} : pc'[u] = pc[u] /\ frame'[u] = frame[u]
          /\ \A d \in Events \ {e} : waiters'[d] = waiters[d]
      BY <2>2 DEF EventInv, VarsOK
    <2>4. VarsOK'
      <3>1. waiters' \in [Events -> Seq(Threads)]
        BY <2>2, AppendProperties DEF EventInv, VarsOK
      <3> QED
        BY <1>1, <2>1, <2>2, <3>1 DEF EventInv, VarsOK, InWait
    <2>5. \A d \in Events : lock[d] # t /\ ~Fresh(d, t)
      BY <1>1, IdleThread
    <2>6. ASSUME NEW u \in Threads PROVE (HoldsOK(u) /\ SignalOK(u) /\ LockingOK(u))'
      <3>1. CASE u = t
        BY <1>1, <2>1, <2>3, <2>5, <3>1 DEF HoldsOK, SignalOK, LockingOK, Signaling
      <3>2. CASE u # t
        BY <1>1, <2>3, <3>2, LocksKept, EventsAssumption DEF EventInv, EventsAssumption
      <3> QED
        BY <3>1, <3>2
    <2>7. \A d \in Events, w \in Threads : Fresh(d, w) => Fresh(d, w)'
      BY <2>3, <2>5 DEF Fresh, Waited
    <2>8. ASSUME NEW d \in Events PROVE Done(d)' = Done(d) /\ Done(d) \in Nat
      BY <1>1, <2>3, <2>5, DoneType DEF Done, EventInv, VarsOK
    <2>9. ListOK(e)'
      <3>1. Fresh(e, t)'
        <4>1. frame'[t].array = <<e>>
          BY <2>1, <2>3
        <4> QED
          BY <2>0, <2>3, <4>1 DEF Fresh, Waited, InWait
      <3>2. Done(e) = 0
        BY <1>1 DEF Done
      <3> QED
        BY <2>3, <2>5, <2>7, <2>8, <3>1, <3>2, ListAppended DEF EventInv
    <2>10. ASSUME NEW d \in Events \ {e} PROVE ListOK(d)'
      <3>1. Entries(d)' = Entries(d)
        BY <2>3, <2>8 DEF Entries
      <3> QED
        BY <2>3, <2>7, <2>8, <3>1, EntryType, ListKept DEF EventInv
    <2> QED
      BY <2>4, <2>6, <2>9, <2>10 DEF EventInv, LocksOK, LiveOK
  <1> QED
    BY <1>2, <1>3

(***************************************************************************)
(* Steps of a thread that leaves a wait, signals or locks                  *)
(***************************************************************************)

\* A list from which t takes itself has it nowhere any more.
LEMMA ListRemoved ==
  ASSUME VarsOK, LiveOK, NEW e \in Events, NEW t \in Threads,
         waiters'[e] = RemoveFirst(waiters[e], t), Done(e) = 0, Done(e)' = 0,
         \A w \in Threads \ {t} : Fresh(e, w) => Fresh(e, w)'
  PROVE  ListOK(e)'
  <1> DEFINE n == Len(waiters[e])
  <1>1. waiters[e] \in Seq(Threads) /\ n \in Nat /\ Entries(e) = 1..n
    BY LenProperties DEF VarsOK, Entries
  <1>2. /\ \A i \in 1..n : waiters[e][i] \in Threads /\ Fresh(e, waiters[e][i])
        /\ \A i, j \in 1..n : waiters[e][i] = waiters[e][j] => i = j
    BY <1>1, EntryType DEF LiveOK, ListOK
  <1>3. PICK to \in [1..n -> 1..n] :
          /\ Len(waiters'[e]) \in 0..n
          /\ \A j \in 1..Len(waiters'[e]) :
               waiters'[e][j] = waiters[e][to[j]] /\ waiters[e][to[j]] # t
          /\ \A i, j \in 1..Len(waiters'[e]) : to[i] = to[j] => i = j
    <2>1. PICK s \in Seq(Threads) : s = waiters[e]
      BY <1>1
    <2>2. \A i, j \in 1..Len(s) : s[i] = s[j] => i = j
      BY <1>2, <2>1
    <2>3. PICK to \in [1..Len(s) -> 1..Len(s)] :
            /\ Len(RemoveFirst(s, t)) \in 0..Len(s)
            /\ \A j \in 1..Len(RemoveFirst(s, t)) :
                 RemoveFirst(s, t)[j] = s[to[j]] /\ s[to[j]] # t
            /\ \A i, j \in 1..Len(RemoveFirst(s, t)) : to[i] = to[j] => i = j
      BY <2>2, RemoveFirstOnly
    <2> QED
      BY <2>1, <2>3
  <1>4. \A j \in Entries(e)' : j \in 1..Len(waiters'[e]) /\ to[j] \in 1..n
    BY <1>1, <1>3 DEF Entries
  <1> HIDE DEF n
  <1>5. ASSUME NEW j \in Entries(e)' PROVE Fresh(e, waiters[e][j])'
    <2>1. /\ waiters'[e][j] = waiters[e][to[j]] /\ waiters[e][to[j]] # t
          /\ waiters[e][to[j]] \in Threads /\ Fresh(e, waiters[e][to[j]])
      BY <1>2, <1>3, <1>4
    <2>2. PICK w \in Threads \ {t} : w = waiters[e][to[j]]
      BY <2>1
    <2>3. Fresh(e, w)'
      BY <2>1, <2>2
    <2> QED
      BY <2>1, <2>2, <2>3 DEF Fresh, Waited
  <1>6. ASSUME NEW i \in Entries(e)', NEW j \in Entries(e)', waiters'[e][i] = waiters'[e][j]
        PROVE  i = j
    BY <1>2, <1>3, <1>4, <1>6
  <1> QED
    BY <1>5, <1>6 DEF ListOK

LEMMA DequeueStep == ASSUME EventInv, NEW t \in Threads, Dequeue(t) PROVE EventInv'
  <1>1. /\ pc[t] = "leaving" /\ frame[t].todo # << >> /\ UNCHANGED <<signaled, lock, pc, calls>>
        /\ frame[t] \in Frame /\ frame[t].todo \in Seq(Events)
    BY DEF Dequeue, EventInv, VarsOK, Frame
  <1>2. PICK e \in Events, s \in Seq(Events) :
          /\ e = Head(frame[t].todo) /\ s = Tail(frame[t].todo)
          /\ \A j \in 1..Len(frame[t].todo) :
               frame[t].todo[j] = e \/ \E i \in 1..Len(s) : s[i] = frame[t].todo[j]
    <2> DEFINE q == frame[t].todo
    <2>1. /\ Head(q) \in Events /\ Tail(q) \in Seq(Events)
          /\ Len(Tail(q)) = Len(q) - 1 /\ Len(q) \in Nat \ {0}
          /\ \A i \in 1..Len(Tail(q)) : Tail(q)[i] = q[i + 1]
          /\ Head(q) = q[1]
      BY <1>1, HeadTailProperties, EmptySeq, LenProperties
    <2> HIDE DEF q
    <2>2. ASSUME NEW j \in 1..Len(q), j # 1
          PROVE  j - 1 \in 1..Len(Tail(q)) /\ Tail(q)[j - 1] = q[j]
      BY <2>1, <2>2
    <2>3. \A j \in 1..Len(q) : q[j] = Head(q) \/ \E i \in 1..Len(Tail(q)) : Tail(q)[i] = q[j]
      BY <2>1, <2>2
    <2> QED
      BY <2>1, <2>3 DEF q
  <1>3. PICK g \in Frame :
          /\ frame' = [frame EXCEPT ![t] = g]
          /\ g.todo = s /\ g.array = frame[t].array /\ g.fired = frame[t].fired
          /\ g.by = frame[t].by
    <2> DEFINE h == [frame[t] EXCEPT !.todo = s]
    <2>1. /\ h \in Frame /\ h.todo = s /\ h.array = frame[t].array
          /\ h.fired = frame[t].fired /\ h.by = frame[t].by
      BY <1>1 DEF Frame
    <2>2. frame' = [frame EXCEPT ![t] = h]
      BY <1>2 DEF Dequeue
    <2> HIDE DEF h
    <2> QED
      BY <2>1, <2>2
  <1>4. lock[e] = None /\ waiters' = [waiters EXCEPT ![e] = RemoveFirst(waiters[e], t)]
    BY <1>2 DEF Dequeue
  <1>5. /\ frame'[t] = g /\ \A u \in Threads \ {t} : frame'[u] = frame[u]
        /\ waiters'[e] = RemoveFirst(waiters[e], t)
        /\ \A d \in Events \ {e} : waiters'[d] = waiters[d]
    BY <1>3, <1>4 DEF EventInv, VarsOK
  <1>6. VarsOK'
    <2>1. RemoveFirst(waiters[e], t) \in Seq(Threads)
      BY RemoveFirstType DEF EventInv, VarsOK
    <2> QED
      BY <1>1, <1>3, <1>4, <2>1 DEF EventInv, VarsOK
  <1>7. \A d \in Events : lock[d] # t
    BY <1>1 DEF EventInv, LocksOK, HoldsOK, Signaling
  <1>8. ASSUME NEW u \in Threads PROVE (HoldsOK(u) /\ SignalOK(u) /\ LockingOK(u))'
    <2>1. CASE u = t
      <3>1. ~frame[t].fired => frame[t].by = None
        BY DEF EventInv, LocksOK, LockingOK
      <3> QED
        BY <1>1, <1>3, <1>5, <1>7, <2>1, <3>1 DEF HoldsOK, SignalOK, LockingOK, Signaling
    <2>2. CASE u # t
      <3>1. u # None
        BY EventsAssumption DEF EventsAssumption
      <3>2. \A d \in Events : lock[d] = u => waiters'[d] = waiters[d]
        BY <1>4, <1>5, <3>1
      <3> QED
        BY <1>1, <1>5, <2>2, <3>2, LocksKept DEF EventInv
    <2> QED
      BY <2>1, <2>2
  <1>9. ASSUME NEW d \in Events PROVE Done(d)' = Done(d) /\ Done(d) \in Nat
    BY <1>1, <1>5, <1>7, DoneType DEF Done, EventInv, VarsOK
  <1>10. ListOK(e)'
    <2>1. \A w \in Threads \ {t} : Fresh(e, w) => Fresh(e, w)'
      BY <1>1, <1>5 DEF Fresh, Waited
    <2>2. Done(e) = 0
      BY <1>4 DEF Done
    <2> QED
      BY <1>5, <1>9, <2>1, <2>2, ListRemoved DEF EventInv
  <1>11. ASSUME NEW d \in Events \ {e} PROVE ListOK(d)'
    <2>1. Entries(d)' = Entries(d)
      BY <1>5, <1>9 DEF Entries
    <2>2. Fresh(d, t) => Fresh(d, t)'
      <3> SUFFICES ASSUME Fresh(d, t) PROVE Fresh(d, t)'
        OBVIOUS
      <3>1. PICK j \in 1..Len(frame[t].todo) : frame[t].todo[j] = d
        BY <1>1 DEF Fresh, InWait
      <3>2. PICK i \in 1..Len(s) : s[i] = d
        BY <1>2, <3>1
      <3> QED
        BY <1>1, <1>3, <1>5, <3>2 DEF Fresh
    <2>3. \A w \in Threads : Fresh(d, w) => Fresh(d, w)'
      BY <1>1, <1>5, <2>2 DEF Fresh, Waited
    <2> QED
      BY <1>5, <1>9, <2>1, <2>3, EntryType, ListKept DEF EventInv
  <1> QED
    BY <1>6, <1>8, <1>10, <1>11 DEF EventInv, LocksOK, LiveOK

\* What a thread that signals is about.
LEMMA Signals ==
  ASSUME EventInv, NEW t \in Threads, pc[t] \in Signaling
  PROVE  \E e \in Events :
           /\ frame[t].array = <<e>> /\ frame[t].array[1] = e /\ lock[e] = t
           /\ \A d \in Events : lock[d] = t => d = e
  <1>1. PICK e \in Events : frame[t].array = <<e>> /\ lock[e] = t
    BY DEF EventInv, LocksOK, SignalOK
  <1>2. Len(<<e>>) = 1 /\ <<e>>[1] = e
    OBVIOUS
  <1>3. Waited(t) = {e}
    BY <1>1, <1>2 DEF Waited
  <1> QED
    BY <1>1, <1>2, <1>3 DEF EventInv, LocksOK, HoldsOK

\* A thread that has signaled returns: its lock is free, and it is in no list.
LEMMA EndSignalStep == ASSUME EventInv, NEW t \in Threads, EndSignal(t) PROVE EventInv'
  <1>1. PICK e \in Events :
          /\ frame[t].array = <<e>> /\ frame[t].array[1] = e /\ lock[e] = t
          /\ \A d \in Events : lock[d] = t => d = e
    BY Signals DEF EndSignal, Signaling
  <1>2. /\ pc[t] = "signaling" /\ waiters' = [waiters EXCEPT ![e] = << >>]
        /\ signaled' = signaled \cup {e} /\ lock' = [lock EXCEPT ![e] = None]
        /\ pc' = [pc EXCEPT ![t] = "idle"] /\ frame' = [frame EXCEPT ![t] = NoFrame]
        /\ calls' = calls
    BY <1>1 DEF EndSignal, End, Begin, Goto
  <1>3. /\ pc'[t] = "idle" /\ frame'[t] = NoFrame /\ lock'[e] = None /\ waiters'[e] = << >>
        /\ \A u \in Threads \ {t} : pc'[u] = pc[u] /\ frame'[u] = frame[u]
        /\ \A d \in Events \ {e} : lock'[d] = lock[d] /\ waiters'[d] = waiters[d]
    BY <1>2 DEF EventInv, VarsOK
  <1>4. VarsOK'
    BY <1>2, EmptySeq, NoFrameType DEF EventInv, VarsOK
  <1>5. ASSUME NEW u \in Threads PROVE (HoldsOK(u) /\ SignalOK(u) /\ LockingOK(u))'
    <2>0. u # None
      BY EventsAssumption DEF EventsAssumption
    <2>1. CASE u = t
      BY <1>1, <1>3, <2>0, <2>1, NoFrameType
         DEF HoldsOK, SignalOK, LockingOK, Signaling
    <2>2. CASE u # t
      BY <1>1, <1>3, <2>0, <2>2, LocksKept DEF EventInv
    <2> QED
      BY <2>1, <2>2
  <1>6. ListOK(e)'
    BY <1>3, EmptySeq DEF ListOK, Entries
  <1>7. ASSUME NEW d \in Events \ {e} PROVE ListOK(d)'
    <2>1. Done(d)' = Done(d) /\ Done(d) \in Nat
      BY <1>1, <1>3, DoneType DEF Done, EventInv, VarsOK
    <2>2. Entries(d)' = Entries(d)
      BY <1>3, <2>1 DEF Entries
    <2>3. \A w \in Threads : Fresh(d, w) => Fresh(d, w)'
      BY <1>2, <1>3 DEF Fresh, Waited, InWait
    <2> QED
      BY <1>3, <2>1, <2>2, <2>3, EntryType, ListKept DEF EventInv
  <1> QED
    BY <1>4, <1>5, <1>6, <1>7 DEF EventInv, LocksOK, LiveOK

\* A list a signal has popped its first waiter from.
LEMMA ListPopped ==
  ASSUME VarsOK, LiveOK, NEW e \in Events,
         waiters[e] # << >>, waiters'[e] = Tail(waiters[e]), Done(e) = 1, Done(e)' = 0,
         \A w \in Threads : Fresh(e, w) => Fresh(e, w)'
  PROVE  ListOK(e)'
  <1> DEFINE n == Len(waiters[e])
  <1>1. /\ n \in Nat \ {0} /\ Len(waiters'[e]) = n - 1
        /\ \A i \in 1..(n - 1) : waiters'[e][i] = waiters[e][i + 1]
    BY HeadTailProperties, EmptySeq, LenProperties DEF VarsOK
  <1>2. /\ \A i \in Entries(e) : waiters[e][i] \in Threads /\ Fresh(e, waiters[e][i])
        /\ \A i, j \in Entries(e) : waiters[e][i] = waiters[e][j] => i = j
        /\ \A i \in 1..(n - 1) : i + 1 \in Entries(e)
    BY <1>1, EntryType DEF LiveOK, ListOK, Entries
  <1>3. Entries(e)' = 1..(n - 1)
    BY <1>1 DEF Entries
  <1> HIDE DEF n
  <1>4. ASSUME NEW i \in 1..(n - 1) PROVE Fresh(e, waiters[e][i])'
    <2>1. PICK w \in Threads : w = waiters[e][i + 1] /\ Fresh(e, w)
      BY <1>2
    <2>2. Fresh(e, w)' /\ waiters'[e][i] = w
      BY <1>1, <2>1
    <2> QED
      BY <2>2 DEF Fresh, Waited
  <1>5. ASSUME NEW i \in 1..(n - 1), NEW j \in 1..(n - 1), waiters'[e][i] = waiters'[e][j]
        PROVE  i = j
    <2>1. i + 1 = j + 1
      BY <1>1, <1>2, <1>5
    <2> QED
      BY <1>1, <2>1
  <1> QED
    BY <1>3, <1>4, <1>5 DEF ListOK

LEMMA PopFrontStep == ASSUME EventInv, NEW t \in Threads, PopFront(t) PROVE EventInv'
  <1>1. PICK e \in Events :
          /\ frame[t].array = <<e>> /\ frame[t].array[1] = e /\ lock[e] = t
          /\ \A d \in Events : lock[d] = t => d = e
    BY Signals DEF PopFront, Signaling
  <1>2. /\ pc[t] \in {"rejected", "woken"} /\ UNCHANGED <<signaled, calls>>
        /\ waiters' = [waiters EXCEPT ![e] = Tail(waiters[e])]
        /\ waiters[e] # << >> /\ frame[t].cursor = 1
        /\ t # None
    BY <1>1, EventsAssumption
       DEF PopFront, EventInv, LocksOK, SignalOK, EventsAssumption
  <1>3. /\ waiters'[e] = Tail(waiters[e])
        /\ \A d \in Events \ {e} : waiters'[d] = waiters[d]
    BY <1>2 DEF EventInv, VarsOK
  <1>4. PICK p \in {"signaling", "idle"}, g \in Frame :
          /\ pc' = [pc EXCEPT ![t] = p] /\ frame' = [frame EXCEPT ![t] = g]
          /\ p = "signaling" => g = frame[t] /\ lock' = lock
          /\ p = "idle" => lock' = [lock EXCEPT ![e] = None]
          /\ ~g.fired => g.by = None
    <2>1. CASE pc[t] = "rejected"
      <3>1. /\ frame[t] \in Frame /\ frame' = [frame EXCEPT ![t] = frame[t]]
            /\ lock' = lock /\ pc' = [pc EXCEPT ![t] = "signaling"]
        BY <2>1 DEF PopFront, Goto, EventInv, VarsOK
      <3>2. ~frame[t].fired => frame[t].by = None
        BY DEF EventInv, LocksOK, LockingOK
      <3> QED
        BY <3>1, <3>2
    <2>2. CASE pc[t] = "woken"
      <3>1. /\ frame' = [frame EXCEPT ![t] = NoFrame] /\ pc' = [pc EXCEPT ![t] = "idle"]
            /\ lock' = [lock EXCEPT ![e] = None]
        BY <1>1, <2>2 DEF PopFront, End, Begin, Goto
      <3> QED
        BY <3>1, NoFrameType
    <2> QED
      BY <1>2, <2>1, <2>2
  <1>5. /\ pc'[t] = p /\ frame'[t] = g
        /\ \A u \in Threads \ {t} : pc'[u] = pc[u] /\ frame'[u] = frame[u]
        /\ \A d \in Events \ {e} : lock'[d] = lock[d]
        /\ lock'[e] = IF p = "idle" THEN None ELSE t
    BY <1>1, <1>4 DEF EventInv, VarsOK
  <1>6. VarsOK'
    <2>1. Tail(waiters[e]) \in Seq(Threads)
      BY <1>2, HeadTailProperties DEF EventInv, VarsOK
    <2>2. waiters' \in [Events -> Seq(Threads)]
      BY <1>2, <2>1 DEF EventInv, VarsOK
    <2>3. lock' \in [Events -> Threads \cup {None}]
      BY <1>4 DEF EventInv, VarsOK
    <2>4. p \in {"idle"} \cup Signaling
      BY DEF Signaling
    <2>5. /\ pc' \in [Threads -> {"idle", "locking", "leaving"} \cup Signaling \cup InWait]
          /\ frame' \in [Threads -> Frame]
      BY <1>4, <2>4 DEF EventInv, VarsOK
    <2> QED
      BY <1>2, <2>2, <2>3, <2>5 DEF EventInv, VarsOK
  <1>7. ASSUME NEW u \in Threads PROVE (HoldsOK(u) /\ SignalOK(u) /\ LockingOK(u))'
    <2>0. u # None
      BY EventsAssumption DEF EventsAssumption
    <2>1. CASE u = t /\ p = "idle"
      BY <1>1, <1>2, <1>4, <1>5, <2>1 DEF HoldsOK, SignalOK, LockingOK, Signaling
    <2>2. CASE u = t /\ p = "signaling"
      <3>1. /\ pc'[t] = "signaling" /\ frame'[t] = frame[t] /\ lock'[e] = t
            /\ \A d \in Events : lock'[d] = t => d = e
        BY <1>1, <1>4, <1>5, <2>2
      <3>2. e \in Waited(t) /\ Waited(t)' = Waited(t)
        BY <1>1, <3>1 DEF Waited, EventInv, LocksOK, HoldsOK
      <3>3. ~frame[t].fired => frame[t].by = None
        BY DEF EventInv, LocksOK, LockingOK
      <3>4. HoldsOK(t)'
        BY <3>1, <3>2 DEF HoldsOK, Signaling
      <3> QED
        BY <1>1, <1>2, <2>2, <3>1, <3>3, <3>4 DEF SignalOK, LockingOK
    <2>3. CASE u # t
      BY <1>1, <1>3, <1>5, <2>0, <2>3, LocksKept DEF EventInv
    <2> QED
      BY <2>1, <2>2, <2>3
  <1>8. ASSUME NEW d \in Events, NEW w \in Threads, Fresh(d, w) PROVE Fresh(d, w)'
    <2>1. w # t
      BY <1>2, <1>8 DEF Fresh, InWait
    <2> QED
      BY <1>5, <1>8, <2>1 DEF Fresh, Waited
  <1>9. ListOK(e)'
    <2>1. Done(e) = 1
      BY <1>1, <1>2 DEF Done
    <2>2. Done(e)' = 0
      BY <1>2, <1>4, <1>5 DEF Done
    <2> QED
      BY <1>2, <1>3, <1>8, <2>1, <2>2, ListPopped DEF EventInv
  <1>10. ASSUME NEW d \in Events \ {e} PROVE ListOK(d)'
    <2>1. Done(d)' = Done(d) /\ Done(d) \in Nat
      BY <1>1, <1>5, DoneType DEF Done, EventInv, VarsOK
    <2>2. Entries(d)' = Entries(d)
      BY <1>3, <2>1 DEF Entries
    <2> QED
      BY <1>3, <1>8, <2>1, <2>2, EntryType, ListKept DEF EventInv
  <1> QED
    BY <1>6, <1>7, <1>9, <1>10 DEF EventInv, LocksOK, LiveOK

\* The waiter a signal fires is fresh, so it is another thread, which waits; the
\* rest of the list does not hold it.
LEMMA FireStep == ASSUME EventInv, NEW t \in Threads, Fire(t) PROVE EventInv'
  <1>1. PICK e \in Events :
          /\ frame[t].array = <<e>> /\ frame[t].array[1] = e /\ lock[e] = t
          /\ \A d \in Events : lock[d] = t => d = e
    BY Signals DEF Fire, Signaling
  <1>2. /\ pc[t] = "signaling" /\ UNCHANGED <<signaled, lock, waiters, calls>>
        /\ frame[t] \in Frame /\ frame[t].cursor \in Nat \ {0}
        /\ t # None /\ lock[e] # None
        /\ e \notin Manual => frame[t].cursor = 1
    <2>1. pc[t] = "signaling" /\ UNCHANGED <<signaled, lock, waiters, calls>>
      BY DEF Fire, kernels
    <2>2. frame[t] \in Frame /\ frame[t].cursor \in Nat \ {0}
      BY DEF EventInv, VarsOK, Frame
    <2>3. e \notin Manual => frame[t].cursor = 1
      BY <1>1, <2>1 DEF EventInv, LocksOK, SignalOK
    <2>4. t # None
      BY EventsAssumption DEF EventsAssumption
    <2> QED
      BY <1>1, <2>1, <2>2, <2>3, <2>4
  <1>3. Done(e) = frame[t].cursor - 1
    BY <1>1, <1>2 DEF Done
  <1>4. PICK c \in Nat \ {0} : c = frame[t].cursor
    BY <1>2
  <1>5. c \in Entries(e) /\ waiters[e] # << >>
    <2>1. c <= Len(waiters[e])
      BY <1>1, <1>4 DEF Fire
    <2>2. Len(waiters[e]) \in Nat
      BY LenProperties DEF EventInv, VarsOK
    <2>3. waiters[e] # << >>
      <3>1. Len(<< >>) = 0
        OBVIOUS
      <3> QED
        BY <2>1, <2>2, <3>1
    <2>4. c \in 1..Len(waiters[e]) /\ c > Done(e)
      BY <1>3, <1>4, <2>1, <2>2
    <2> QED
      BY <2>3, <2>4 DEF Entries
  <1>6. PICK w \in Threads :
          w = waiters[e][c] /\ Fresh(e, w) /\ \A i \in Entries(e) : waiters[e][i] = w => i = c
    BY <1>5, EntryType DEF EventInv, LiveOK, ListOK
  <1>7. w # t /\ pc[w] \in {"leaving"} \cup InWait /\ frame[w] \in Frame
    BY <1>2, <1>6 DEF Fresh, InWait, EventInv, VarsOK
  <1>8. PICK p \in {"leaving"} \cup InWait, q \in {"signaling", "rejected", "woken"} :
          /\ pc' = [pc EXCEPT ![w] = p, ![t] = q]
          /\ pc[w] \in InWait => p \in InWait
          /\ pc[w] = "leaving" => p = "leaving"
          /\ e \in Manual => q = "signaling"
          /\ e \notin Manual => q \in {"rejected", "woken"}
    <2> DEFINE p == IF frame[w].fired THEN pc[w] ELSE Broadcast(w)
               q == IF e \in Manual THEN pc[t]
                    ELSE IF frame[w].fired THEN "rejected" ELSE "woken"
    <2>1. pc' = [pc EXCEPT ![w] = p, ![t] = q]
      BY <1>1, <1>4, <1>6, <1>7 DEF Fire
    <2>2. /\ p \in {"leaving"} \cup InWait
          /\ pc[w] \in InWait => p \in InWait
          /\ pc[w] = "leaving" => p = "leaving"
      BY <1>7 DEF Broadcast, InWait
    <2>3. /\ q \in {"signaling", "rejected", "woken"}
          /\ e \in Manual => q = "signaling"
          /\ e \notin Manual => q \in {"rejected", "woken"}
      BY <1>2
    <2> HIDE DEF p, q
    <2> QED
      BY <2>1, <2>2, <2>3
  <1>9. PICK g \in Frame, h \in Frame :
          /\ frame' = [frame EXCEPT ![w] = g, ![t] = h]
          /\ g.fired = TRUE /\ g.array = frame[w].array /\ g.todo = frame[w].todo
          /\ g.by \in {e, frame[w].by}
          /\ h.array = frame[t].array /\ h.fired = frame[t].fired /\ h.by = frame[t].by
          /\ h.cursor = IF e \in Manual THEN c + 1 ELSE c
    <2> DEFINE by == IF frame[w].fired THEN frame[w].by ELSE e
               cursor == IF e \in Manual THEN c + 1 ELSE c
               g == [frame[w] EXCEPT !.by = by, !.fired = TRUE]
               h == [frame[t] EXCEPT !.cursor = cursor]
    <2>1. by \in Events \cup {None} /\ by \in {e, frame[w].by} /\ cursor \in Nat \ {0}
      BY <1>7 DEF Frame
    <2>2. frame' = [frame EXCEPT ![w] = g, ![t] = h]
      BY <1>1, <1>2, <1>4, <1>6, <1>7 DEF Fire
    <2> HIDE DEF by, cursor
    <2>3. /\ g \in Frame /\ g.fired = TRUE /\ g.array = frame[w].array
          /\ g.todo = frame[w].todo /\ g.by = by
      BY <1>7, <2>1 DEF Frame
    <2>4. /\ h \in Frame /\ h.array = frame[t].array /\ h.fired = frame[t].fired
          /\ h.by = frame[t].by /\ h.cursor = cursor
      BY <1>2, <2>1 DEF Frame
    <2> HIDE DEF g, h
    <2> QED
      BY <2>1, <2>2, <2>3, <2>4 DEF cursor
  <1>10. /\ pc'[w] = p /\ pc'[t] = q /\ frame'[w] = g /\ frame'[t] = h
         /\ \A u \in Threads \ {t, w} : pc'[u] = pc[u] /\ frame'[u] = frame[u]
    BY <1>7, <1>8, <1>9 DEF EventInv, VarsOK
  <1>11. VarsOK'
    <2>1. frame' \in [Threads -> Frame]
      BY <1>9 DEF EventInv, VarsOK
    <2>2. pc' \in [Threads -> {"idle", "locking", "leaving"} \cup Signaling \cup InWait]
      BY <1>8 DEF EventInv, VarsOK, Signaling
    <2> QED
      BY <1>2, <2>1, <2>2 DEF EventInv, VarsOK
  <1>12. \A d \in Events : lock[d] # w
    BY <1>7 DEF EventInv, LocksOK, HoldsOK, Signaling, InWait
  <1>13. ASSUME NEW u \in Threads PROVE (HoldsOK(u) /\ SignalOK(u) /\ LockingOK(u))'
    <2>1. CASE u = w
      BY <1>2, <1>8, <1>9, <1>10, <1>12, <2>1
         DEF HoldsOK, SignalOK, LockingOK, Signaling, InWait
    <2>2. CASE u = t
      <3>1. e \in Waited(t) /\ Waited(t)' = Waited(t)
        BY <1>1, <1>9, <1>10 DEF Waited, EventInv, LocksOK, HoldsOK
      <3>2. ~frame[t].fired => frame[t].by = None
        BY DEF EventInv, LocksOK, LockingOK
      <3>3. HoldsOK(t)'
        BY <1>1, <1>2, <1>8, <1>10, <3>1 DEF HoldsOK, Signaling
      <3>4. LockingOK(t)'
        BY <1>8, <1>9, <1>10, <3>2 DEF LockingOK
      <3>5. SignalOK(t)'
        <4>1. /\ frame'[t].array = <<e>> /\ frame'[t].array[1] = e /\ lock'[e] = t
              /\ waiters'[e] # << >> /\ pc'[t] = q
          BY <1>1, <1>2, <1>5, <1>9, <1>10
        <4>2. e \notin Manual => frame'[t].cursor = 1
          BY <1>2, <1>4, <1>9, <1>10
        <4>3. q \in {"rejected", "woken"} => e \notin Manual
          BY <1>8
        <4> QED
          BY <4>1, <4>2, <4>3 DEF SignalOK
      <3> QED
        BY <2>2, <3>3, <3>4, <3>5
    <2>3. CASE u \notin {t, w}
      BY <1>2, <1>10, <2>3, LocksKept DEF EventInv
    <2> QED
      BY <2>1, <2>2, <2>3
  <1>14. ASSUME NEW d \in Events, NEW u \in Threads, u # w, Fresh(d, u) PROVE Fresh(d, u)'
    <2>1. u # t
      BY <1>2, <1>14 DEF Fresh, InWait
    <2> QED
      BY <1>10, <1>14, <2>1 DEF Fresh, Waited
  <1>15. ListOK(e)'
    <2>1. Done(e)' = c
      BY <1>1, <1>2, <1>4, <1>8, <1>9, <1>10 DEF Done
    <2>2. \A i \in Entries(e)' : i \in Entries(e) /\ i # c
      BY <1>2, <1>3, <1>4, <2>1 DEF Entries, EventInv, VarsOK
    <2>3. ASSUME NEW i \in Entries(e)', Fresh(e, waiters[e][i])
          PROVE  Fresh(e, waiters[e][i])'
      <3>1. PICK u \in Threads : u = waiters[e][i] /\ u # w
        BY <1>6, <2>2, EntryType DEF EventInv
      <3>2. Fresh(e, u)'
        BY <1>14, <2>3, <3>1
      <3>3. waiters'[e][i] = u
        BY <1>2, <3>1
      <3> QED
        BY <3>2, <3>3 DEF Fresh, Waited
    <2>4. waiters'[e] = waiters[e] /\ Done(e) <= Done(e)' /\ Done(e) \in Int /\ Done(e)' \in Int
      BY <1>2, <1>3, <1>4, <2>1
    <2> QED
      BY <2>3, <2>4, ListKept DEF EventInv
  <1>16. ASSUME NEW d \in Events \ {e} PROVE ListOK(d)'
    <2>1. Done(d)' = Done(d) /\ Done(d) \in Nat
      BY <1>1, <1>2, <1>10, <1>12, DoneType DEF Done, EventInv, VarsOK
    <2>2. Entries(d)' = Entries(d)
      BY <1>2, <2>1 DEF Entries
    <2>3. Fresh(d, w) => Fresh(d, w)'
      <3> SUFFICES ASSUME Fresh(d, w) PROVE Fresh(d, w)'
        OBVIOUS
      <3>1. Waited(w)' = Waited(w) /\ frame'[w].todo = frame[w].todo
        BY <1>9, <1>10 DEF Waited
      <3>2. CASE pc[w] \in InWait
        <4>1. d \in Waited(w) /\ (Len(frame[w].array) # 1 => frame[w].by # d)
          BY <3>2 DEF Fresh, InWait
        <4>2. Len(g.array) # 1 => g.by # d
          BY <1>9, <4>1
        <4> QED
          BY <1>8, <1>10, <3>1, <3>2, <4>1, <4>2 DEF Fresh
      <3>3. CASE pc[w] = "leaving"
        BY <1>8, <1>10, <3>1, <3>3 DEF Fresh, InWait
      <3> QED
        BY <1>7, <3>2, <3>3
    <2>4. \A u \in Threads : Fresh(d, u) => Fresh(d, u)'
      BY <1>14, <2>3
    <2> QED
      BY <1>2, <2>1, <2>2, <2>4, EntryType, ListKept DEF EventInv
  <1> QED
    BY <1>11, <1>13, <1>15, <1>16 DEF EventInv, LocksOK, LiveOK

\* A thread in WaitMultiple lets go of all its locks: nothing else is disturbed.
LEMMA Unlocked ==
  ASSUME EventInv, NEW t \in Threads, pc[t] = "locking",
         NEW p \in {"idle", "enqueued"}, NEW g \in Frame, g.fired = FALSE, g.by = None,
         pc' = [pc EXCEPT ![t] = p], frame' = [frame EXCEPT ![t] = g], UnlockAll(t),
         \A e \in Events : lock[e] \notin {None, t} => waiters'[e] = waiters[e]
  PROVE  /\ pc'[t] = p /\ frame'[t] = g
         /\ LocksOK'
         /\ \A d \in Events : Done(d)' = Done(d) /\ Done(d) \in Nat
         /\ \A d \in Events : lock[d] \in {None, t} => Done(d) = 0
         /\ \A d \in Events, w \in Threads : Fresh(d, w) => w # t /\ Fresh(d, w)'
         /\ lock' \in [Events -> Threads \cup {None}]
         /\ pc' \in [Threads -> {"idle", "locking", "leaving"} \cup Signaling \cup InWait]
         /\ frame' \in [Threads -> Frame]
  <1>0. t # None
    BY EventsAssumption DEF EventsAssumption
  <1>1. /\ pc'[t] = p /\ frame'[t] = g
        /\ \A u \in Threads \ {t} : pc'[u] = pc[u] /\ frame'[u] = frame[u]
        /\ \A d \in Events : lock'[d] = IF lock[d] = t THEN None ELSE lock[d]
    BY DEF EventInv, VarsOK, UnlockAll
  <1>2. ASSUME NEW u \in Threads PROVE (HoldsOK(u) /\ SignalOK(u) /\ LockingOK(u))'
    <2>0. u # None
      BY EventsAssumption DEF EventsAssumption
    <2>1. CASE u = t
      BY <1>0, <1>1, <2>1 DEF HoldsOK, SignalOK, LockingOK, Signaling
    <2>2. CASE u # t
      <3>1. \A d \in Events : lock'[d] = u <=> lock[d] = u
        BY <1>1, <2>0, <2>2
      <3> QED
        BY <1>1, <2>0, <2>2, <3>1, LocksKept DEF EventInv
    <2> QED
      BY <2>1, <2>2
  <1>3. ASSUME NEW d \in Events
        PROVE  /\ Done(d)' = Done(d) /\ Done(d) \in Nat
               /\ lock[d] \in {None, t} => Done(d) = 0
    BY <1>0, <1>1, DoneType DEF Done, EventInv, VarsOK
  <1>4. ASSUME NEW d \in Events, NEW w \in Threads, Fresh(d, w)
        PROVE  w # t /\ Fresh(d, w)'
    <2>1. w # t
      BY <1>4 DEF Fresh, InWait
    <2> QED
      BY <1>1, <1>4, <2>1 DEF Fresh, Waited
  <1>5. /\ lock' \in [Events -> Threads \cup {None}]
        /\ pc' \in [Threads -> {"idle", "locking", "leaving"} \cup Signaling \cup InWait]
        /\ frame' \in [Threads -> Frame]
    BY DEF EventInv, VarsOK, UnlockAll, InWait
  <1> QED
    BY <1>1, <1>2, <1>3, <1>4, <1>5 DEF LocksOK

LEMMA LockNextStep == ASSUME EventInv, NEW t \in Threads, LockNext(t) PROVE EventInv'
  <1>1. /\ pc[t] = "locking" /\ t # None /\ Waited(t) \subseteq Events
        /\ ToLock(t) # {} /\ ToLock(t) \subseteq Waited(t)
        /\ \A d \in Events, f \in ToLock(t) : lock[d] = t => d < f
        /\ frame[t] \in Frame /\ frame[t].fired = FALSE /\ frame[t].by = None
    <2>1. frame[t] \in Frame /\ frame[t].array \in Seq(Events) /\ frame[t].fired \in BOOLEAN
      BY DEF EventInv, VarsOK, Frame
    <2> QED
      BY <2>1, EventsAssumption, ElementOfSeq
         DEF LockNext, EventsAssumption, EventInv, LocksOK, LockingOK, Waited, ToLock
  <1>2. PICK e \in ToLock(t) : e = NextToLock(t) /\ \A f \in ToLock(t) : e <= f
    <2>1. ToLock(t) \in SUBSET Nat
      BY <1>1, EventsAssumption DEF EventsAssumption
    <2> QED
      BY <1>1, <2>1, LeastNumber DEF NextToLock
  <1>3. e \in Events /\ lock[e] = None /\ calls' = calls
    BY <1>1, <1>2 DEF LockNext
  <1>4. CASE e \in signaled
    <2>1. /\ signaled' \subseteq Events /\ UnlockAll(t) /\ UNCHANGED waiters
          /\ pc' = [pc EXCEPT ![t] = "idle"] /\ frame' = [frame EXCEPT ![t] = NoFrame]
      BY <1>2, <1>4 DEF LockNext, Consume, End, Begin, Goto, EventInv, VarsOK
    <2>2. /\ LocksOK'
          /\ \A d \in Events : Done(d)' = Done(d) /\ Done(d) \in Nat
          /\ \A d \in Events, w \in Threads : Fresh(d, w) => Fresh(d, w)'
          /\ lock' \in [Events -> Threads \cup {None}]
          /\ pc' \in [Threads -> {"idle", "locking", "leaving"} \cup Signaling \cup InWait]
          /\ frame' \in [Threads -> Frame]
      BY <1>1, <2>1, NoFrameType, Unlocked
    <2>3. VarsOK'
      BY <1>3, <2>1, <2>2 DEF EventInv, VarsOK
    <2>4. ASSUME NEW d \in Events PROVE ListOK(d)'
      <3>1. Entries(d)' = Entries(d)
        BY <2>1, <2>2 DEF Entries
      <3> QED
        BY <2>1, <2>2, <3>1, EntryType, ListKept DEF EventInv
    <2> QED
      BY <2>2, <2>3, <2>4 DEF EventInv, LiveOK
  <1>5. CASE e \notin signaled /\ ToLock(t) # {e}
    <2>1. lock' = [lock EXCEPT ![e] = t] /\ UNCHANGED <<signaled, waiters, pc, frame>>
      BY <1>2, <1>5 DEF LockNext
    <2>2. lock'[e] = t /\ \A d \in Events \ {e} : lock'[d] = lock[d]
      BY <1>3, <2>1 DEF EventInv, VarsOK
    <2>3. VarsOK'
      BY <1>3, <2>1 DEF EventInv, VarsOK
    <2>4. ASSUME NEW u \in Threads PROVE (HoldsOK(u) /\ SignalOK(u) /\ LockingOK(u))'
      <3>0. u # None
        BY EventsAssumption DEF EventsAssumption
      <3>1. CASE u = t
        <4>1. Waited(t)' = Waited(t) /\ ToLock(t)' = ToLock(t) \ {e}
          BY <1>1, <2>1, <2>2 DEF Waited, ToLock
        <4>2. HoldsOK(t)'
          BY <1>1, <1>2, <2>1, <2>2, <4>1 DEF HoldsOK, EventInv, LocksOK
        <4>3. SignalOK(t)'
          BY <1>1, <2>1 DEF SignalOK, Signaling
        <4>4. \A d \in Events, f \in ToLock(t) \ {e} : lock'[d] = t => d < f
          <5>1. \A f \in ToLock(t) \ {e} : e < f
            BY <1>1, <1>2, <1>3, EventsAssumption DEF EventsAssumption
          <5> QED
            BY <1>1, <2>2, <5>1
        <4>5. LockingOK(t)'
          BY <1>1, <1>2, <1>5, <2>1, <4>1, <4>4 DEF LockingOK
        <4> QED
          BY <3>1, <4>2, <4>3, <4>5
      <3>2. CASE u # t
        <4>1. \A d \in Events : lock'[d] = u <=> lock[d] = u
          BY <1>3, <2>2, <3>0, <3>2
        <4> QED
          BY <2>1, <3>2, <4>1, LocksKept DEF EventInv
      <3> QED
        BY <3>1, <3>2
    <2>5. ASSUME NEW d \in Events PROVE ListOK(d)'
      <3>1. Done(d)' = Done(d) /\ Done(d) \in Nat
        BY <1>1, <1>3, <2>1, <2>2, DoneType DEF Done, EventInv
      <3>2. Entries(d)' = Entries(d)
        BY <2>1, <3>1 DEF Entries
      <3>3. \A w \in Threads : Fresh(d, w) => Fresh(d, w)'
        BY <2>1 DEF Fresh, Waited
      <3> QED
        BY <2>1, <3>1, <3>2, <3>3, EntryType, ListKept DEF EventInv
    <2> QED
      BY <2>3, <2>4, <2>5 DEF EventInv, LocksOK, LiveOK
  <1>6. CASE e \notin signaled /\ ToLock(t) = {e}
    <2>1. /\ UNCHANGED signaled /\ UnlockAll(t) /\ pc' = [pc EXCEPT ![t] = "enqueued"]
          /\ frame' = [frame EXCEPT ![t] = frame[t]]
          /\ waiters' = [d \in Events |-> IF d \in Waited(t) THEN Append(waiters[d], t)
                                          ELSE waiters[d]]
      BY <1>1, <1>2, <1>6 DEF LockNext, Enqueue, Goto, EventInv, VarsOK
    <2>2. \A d \in Events : d \in Waited(t) <=> lock[d] = t \/ d = e
      BY <1>1, <1>2, <1>6 DEF ToLock, EventInv, LocksOK, HoldsOK
    <2>3. /\ pc'[t] = "enqueued" /\ frame'[t] = frame[t]
          /\ LocksOK'
          /\ \A d \in Events : Done(d)' = Done(d) /\ Done(d) \in Nat
          /\ \A d \in Events : lock[d] \in {None, t} => Done(d) = 0
          /\ \A d \in Events, w \in Threads : Fresh(d, w) => w # t /\ Fresh(d, w)'
          /\ lock' \in [Events -> Threads \cup {None}]
          /\ pc' \in [Threads -> {"idle", "locking", "leaving"} \cup Signaling \cup InWait]
          /\ frame' \in [Threads -> Frame]
      <3>1. \A d \in Events : lock[d] \notin {None, t} => waiters'[d] = waiters[d]
        BY <1>3, <2>1, <2>2
      <3> QED
        BY <1>1, <2>1, <3>1, Unlocked
    <2>4. VarsOK'
      <3>1. waiters' \in [Events -> Seq(Threads)]
        BY <2>1, AppendProperties DEF EventInv, VarsOK
      <3> QED
        BY <1>3, <2>1, <2>3, <3>1 DEF EventInv, VarsOK
    <2>5. ASSUME NEW d \in Events, d \in Waited(t) PROVE ListOK(d)'
      <3>1. waiters'[d] = Append(waiters[d], t) /\ Done(d) = 0 /\ Done(d)' = 0
        BY <1>3, <2>1, <2>2, <2>3, <2>5
      <3>2. Fresh(d, t)'
        <4>1. d # None /\ d \in Waited(t)'
          BY <2>3, <2>5, EventsAssumption DEF EventsAssumption, Waited
        <4> QED
          BY <1>1, <2>3, <4>1 DEF Fresh, InWait
      <3> QED
        BY <2>3, <3>1, <3>2, ListAppended DEF EventInv
    <2>6. ASSUME NEW d \in Events, d \notin Waited(t) PROVE ListOK(d)'
      <3>1. waiters'[d] = waiters[d] /\ Entries(d)' = Entries(d)
        BY <2>1, <2>3, <2>6 DEF Entries
      <3> QED
        BY <2>3, <3>1, EntryType, ListKept DEF EventInv
    <2> QED
      BY <2>3, <2>4, <2>5, <2>6 DEF EventInv, LiveOK
  <1> QED
    BY <1>4, <1>5, <1>6

(***************************************************************************)
(* The theorems                                                            *)
(***************************************************************************)

LEMMA EventStep == EventInv /\ [Next]_vars => EventInv'
  <1> SUFFICES ASSUME EventInv, [Next]_vars PROVE EventInv'
    OBVIOUS
  <1>1. CASE UNCHANGED vars
    BY <1>1, SignaledStep DEF vars, EventInv, VarsOK
  <1>2. ASSUME NEW t \in Threads, NEW e \in Events, Reset(t, e) \/ IsSignaled(t, e)
        PROVE  EventInv'
    <2>1. /\ UNCHANGED <<lock, waiters, pc, frame>> /\ signaled' \subseteq Events
          /\ calls' \in 0..MaxCalls
      BY <1>2, MaxCallsAssumption
         DEF Reset, IsSignaled, Consume, Call, EventInv, VarsOK, MaxCallsAssumption
    <2> QED
      BY <2>1, SignaledStep DEF EventInv, VarsOK
  <1>3. ASSUME NEW t \in Threads, Step(t) PROVE EventInv'
    BY <1>3, FireStep, PopFrontStep, EndSignalStep, TestStep, DequeueStep, ReturnStep,
       LockNextStep DEF Step
  <1> QED
    BY <1>1, <1>2, <1>3, SignalStep, WaitStep, WaitMultipleStep, ElapseStep, WakeUpStep
       DEF Next

LEMMA EventAlways == Spec => []EventInv
  BY EventInit, EventStep, PTL DEF Spec

\* Every variable keeps its type, and a lock is held across steps only by the
\* thread that signals its event or is about to wait for several.
THEOREM EventTypes == Spec => []TypeOK
  <1>1. EventInv => TypeOK
    <2> SUFFICES ASSUME EventInv PROVE TypeOK
      OBVIOUS
    <2>1. ASSUME NEW e \in Events, NEW t \in Threads
          PROVE  /\ lock[e] = t => pc[t] \in Signaling \cup {"locking"} /\ e \in Waited(t)
                 /\ pc[t] \in Signaling /\ frame[t].array = <<e>> => lock[e] = t
      <3>1. lock[e] = t => pc[t] \in Signaling \cup {"locking"} /\ e \in Waited(t)
        BY DEF EventInv, LocksOK, HoldsOK
      <3>2. pc[t] \in Signaling /\ frame[t].array = <<e>> => lock[e] = t
        <4>1. <<e>>[1] = e
          OBVIOUS
        <4> QED
          BY <4>1, Signals
      <3> QED
        BY <3>1, <3>2
    <2> QED
      BY <2>1 DEF EventInv, VarsOK, TypeOK
  <1> QED
    BY <1>1, EventAlways, PTL

\* WaitMultiple locks by address: of two threads that are still locking, one
\* holds only addresses below the one it waits for, and so does the other, so
\* they do not wait for each other.
THEOREM LocksOrdered == Spec => []NoCircularWait
  <1>1. EventInv => NoCircularWait
    <2> SUFFICES ASSUME EventInv, NEW t \in Threads, NEW u \in Threads,
                        pc[t] = "locking", pc[u] = "locking",
                        lock[NextToLock(t)] = u, lock[NextToLock(u)] = t
                 PROVE  FALSE
      BY DEF NoCircularWait
    <2>0. ASSUME NEW v \in Threads PROVE Waited(v) \subseteq Events
      <3>1. frame[v].array \in Seq(Events)
        BY DEF EventInv, VarsOK, Frame
      <3> QED
        BY <3>1, ElementOfSeq DEF Waited
    <2>1. ASSUME NEW v \in Threads, pc[v] = "locking" PROVE NextToLock(v) \in ToLock(v)
      <3>1. ToLock(v) # {} /\ ToLock(v) \subseteq Events
        BY <2>0, <2>1 DEF EventInv, LocksOK, LockingOK, ToLock
      <3>2. ToLock(v) \in SUBSET Nat
        BY <3>1, EventsAssumption DEF EventsAssumption
      <3> QED
        BY <3>1, <3>2, LeastNumber DEF NextToLock
    <2>2. PICK a \in ToLock(t) : a = NextToLock(t)
      BY <2>1
    <2>3. PICK b \in ToLock(u) : b = NextToLock(u)
      BY <2>1
    <2>4. a \in Nat /\ b \in Nat /\ a \in Events /\ b \in Events
      BY <2>0, EventsAssumption DEF ToLock, EventsAssumption
    <2>5. a < b
      BY <2>2, <2>3, <2>4 DEF EventInv, LocksOK, LockingOK
    <2>6. b < a
      BY <2>2, <2>3, <2>4 DEF EventInv, LocksOK, LockingOK
    <2> QED
      BY <2>4, <2>5, <2>6
  <1> QED
    BY <1>1, EventAlways, PTL

\* A signal never fires the SyncWaiter of a thread that has returned.
THEOREM WaitersAlive == Spec => []NoDeadWaiter
  <1>1. EventInv => NoDeadWaiter
    BY DEF EventInv, LiveOK, ListOK, NoDeadWaiter, Fresh
  <1> QED
    BY <1>1, EventAlways, PTL

(***************************************************************************)
(* The order of the entries, as the service sees it                        *)
(***************************************************************************)

LEMMA InOrder ==
  ASSUME NEW s, NEW I \in SUBSET Int, NEW p
  PROVE  p \in Order(s, I) <=> \E i, j \in I : i <= j /\ p = <<s[i], s[j]>>
  <1>1. ASSUME p \in Order(s, I) PROVE \E i, j \in I : i <= j /\ p = <<s[i], s[j]>>
    <2>1. PICK q \in I \X I : q[1] <= q[2] /\ p = <<s[q[1]], s[q[2]]>>
      BY <1>1 DEF Order
    <2> QED
      BY <2>1
  <1>2. ASSUME NEW i \in I, NEW j \in I, i <= j, p = <<s[i], s[j]>> PROVE p \in Order(s, I)
    <2>1. <<i, j>> \in {q \in I \X I : q[1] <= q[2]}
      BY <1>2
    <2> QED
      BY <1>2, <2>1 DEF Order
  <1> QED
    BY <1>1, <1>2

\* The places of I in s but those where t is.
Thinned(s, I, J, t) == \A i \in Int : i \in J <=> i \in I /\ s[i] # t

\* One leaves: the others keep their order.
LEMMA OrderWithout ==
  ASSUME NEW s, NEW I \in SUBSET Int, NEW J \in SUBSET Int, NEW t,
         Thinned(s, I, J, t)
  PROVE  \A p : p \in Order(s, J) <=> p \in Order(s, I) /\ t # p[1] /\ t # p[2]
  <1>1. ASSUME NEW p, p \in Order(s, J) PROVE p \in Order(s, I) /\ t # p[1] /\ t # p[2]
    <2>1. PICK i \in J, j \in J : i <= j /\ p = <<s[i], s[j]>>
      BY <1>1, InOrder
    <2>2. i \in I /\ j \in I /\ t # p[1] /\ t # p[2]
      BY <2>1 DEF Thinned
    <2> QED
      BY <2>1, <2>2, InOrder
  <1>2. ASSUME NEW p, p \in Order(s, I), t # p[1], t # p[2] PROVE p \in Order(s, J)
    <2>1. PICK i \in I, j \in I : i <= j /\ p = <<s[i], s[j]>>
      BY <1>2, InOrder
    <2>2. i \in J /\ j \in J
      BY <1>2, <2>1 DEF Thinned
    <2> QED
      BY <2>1, <2>2, InOrder
  <1> QED
    BY <1>1, <1>2

\* What r has at the places of J is what s has at those of I, in the same order.
Rearranged(s, r, I, J, from) ==
  /\ \A i \in I : \E j \in J : from[j] = i
  /\ \A i, j \in J : i <= j <=> from[i] <= from[j]
  /\ \A j \in J : r[j] = s[from[j]]

LEMMA OrderMoved ==
  ASSUME NEW s, NEW r, NEW I \in SUBSET Int, NEW J \in SUBSET Int, NEW from \in [J -> I],
         Rearranged(s, r, I, J, from)
  PROVE  Order(r, J) = Order(s, I)
  <1>1. ASSUME NEW p, p \in Order(r, J) PROVE p \in Order(s, I)
    <2>1. PICK i \in J, j \in J : i <= j /\ p = <<r[i], r[j]>>
      BY <1>1, InOrder
    <2>2. /\ from[i] \in I /\ from[j] \in I /\ from[i] <= from[j]
          /\ p = <<s[from[i]], s[from[j]]>>
      BY <2>1 DEF Rearranged
    <2> QED
      BY <2>2, InOrder
  <1>2. ASSUME NEW p, p \in Order(s, I) PROVE p \in Order(r, J)
    <2>1. PICK k \in I, l \in I : k <= l /\ p = <<s[k], s[l]>>
      BY <1>2, InOrder
    <2>2. PICK i \in J : from[i] = k
      BY DEF Rearranged
    <2>3. PICK j \in J : from[j] = l
      BY DEF Rearranged
    <2>4. i <= j /\ p = <<r[i], r[j]>>
      BY <2>1, <2>2, <2>3 DEF Rearranged
    <2> QED
      BY <2>4, InOrder
  <1> QED
    BY <1>1, <1>2

\* r has t behind the first n of s.
Lengthened(s, r, I, J, n, t) ==
  /\ n \in Nat /\ I \subseteq 1..n /\ J = I \cup {n + 1}
  /\ \A i \in 1..n : r[i] = s[i]
  /\ r[n + 1] = t

\* One comes, and stands behind all the others.
LEMMA OrderAppended ==
  ASSUME NEW s, NEW r, NEW I \in SUBSET Int, NEW J \in SUBSET Int, NEW n, NEW t,
         Lengthened(s, r, I, J, n, t)
  PROVE  \A p : p \in Order(r, J) <=>
                 \/ p \in Order(s, I)
                 \/ p = <<t, t>> \/ \E i \in I : p = <<s[i], t>>
  <1>0. /\ n \in Nat /\ \A i \in J : i \in I \/ i = n + 1
        /\ n + 1 \in J /\ \A i \in I : i \in J /\ i \in 1..n
        /\ \A i \in 1..n : r[i] = s[i]
        /\ r[n + 1] = t
    BY DEF Lengthened
  <1>1. ASSUME NEW p, p \in Order(r, J)
        PROVE  p \in Order(s, I) \/ p = <<t, t>> \/ \E i \in I : p = <<s[i], t>>
    <2>1. PICK i \in J, j \in J : i <= j /\ p = <<r[i], r[j]>>
      BY <1>1, InOrder
    <2>2. CASE j \in I
      <3>1. i \in I
        BY <1>0, <2>1, <2>2
      <3>2. p = <<s[i], s[j]>>
        BY <1>0, <2>1, <2>2, <3>1
      <3> QED
        BY <2>1, <2>2, <3>1, <3>2, InOrder
    <2>3. CASE j = n + 1 /\ i \in I
      BY <1>0, <2>1, <2>3
    <2>4. CASE j = n + 1 /\ i = n + 1
      BY <1>0, <2>1, <2>4
    <2> QED
      BY <1>0, <2>2, <2>3, <2>4
  <1>2. ASSUME NEW p, p \in Order(s, I) PROVE p \in Order(r, J)
    <2>1. PICK i \in I, j \in I : i <= j /\ p = <<s[i], s[j]>>
      BY <1>2, InOrder
    <2>2. i \in J /\ j \in J /\ p = <<r[i], r[j]>>
      BY <1>0, <2>1
    <2> QED
      BY <2>1, <2>2, InOrder
  <1>3. <<t, t>> \in Order(r, J)
    <2>1. n + 1 \in J /\ n + 1 <= n + 1 /\ <<t, t>> = <<r[n + 1], r[n + 1]>>
      BY <1>0
    <2> QED
      BY <2>1, InOrder
  <1>4. ASSUME NEW i \in I PROVE <<s[i], t>> \in Order(r, J)
    <2>1. i \in J /\ n + 1 \in J /\ i <= n + 1 /\ <<s[i], t>> = <<r[i], r[n + 1]>>
      BY <1>0
    <2> QED
      BY <2>1, InOrder
  <1> QED
    BY <1>1, <1>2, <1>3, <1>4

\* Who waits, for the service: those with an entry.
LEMMA InQueue ==
  ASSUME NEW s, NEW I \in SUBSET Int, NEW t
  PROVE  <<t, t>> \in Order(s, I) <=> \E i \in I : s[i] = t
  <1>1. ASSUME <<t, t>> \in Order(s, I) PROVE \E i \in I : s[i] = t
    BY <1>1, InOrder
  <1>2. ASSUME NEW i \in I, s[i] = t PROVE <<t, t>> \in Order(s, I)
    <2>1. i <= i /\ <<t, t>> = <<s[i], s[i]>>
      BY <1>2
    <2> QED
      BY <2>1, InOrder
  <1> QED
    BY <1>1, <1>2

(***************************************************************************)
(* The calls, and what a step of a thread is to the service                *)
(***************************************************************************)

\* What the locals of a call are at each place: a result only on leaving, with
\* the waiter disabled, and for a waiter that was fired the event that did it.
\* WaitMultiple goes on as long as the events it has locked are not signaled.
CallOK(t) ==
  /\ pc[t] # "leaving" => frame[t].ret = None
  /\ pc[t] = "leaving" => frame[t].fired
  /\ pc[t] \in InWait /\ frame[t].fired => frame[t].by \in Events
  /\ pc[t] = "locking" => \A e \in Events : lock[e] = t => e \notin signaled

CallsOK == \A t \in Threads : CallOK(t)

Same(u) == pc'[u] = pc[u] /\ frame'[u] = frame[u]

LEMMA CallKept ==
  ASSUME NEW u \in Threads, CallOK(u), Same(u),
         \A e \in Events : lock'[e] = u => lock[e] = u /\ (e \in signaled' => e \in signaled)
  PROVE  CallOK(u)'
  BY DEF CallOK, Same

LEMMA SameStatus ==
  ASSUME NEW u \in Threads, Same(u)
  PROVE  /\ Blocked(u)' <=> Blocked(u)
         /\ Status(u)' = Status(u) /\ Got(u)' = Got(u)
  BY DEF Same, Blocked, Released, Status, Got

\* A thread's step that changes neither what it is to the service nor others.
LEMMA StatusesKept ==
  ASSUME \A u \in Threads : Status(u)' = Status(u) /\ Got(u)' = Got(u)
  PROVE  Statuses' = Statuses /\ Gots' = Gots
  BY DEF Statuses, Gots

LEMMA StatusesMove ==
  ASSUME NEW t \in Threads, NEW s, NEW g, Status(t)' = s, Got(t)' = g,
         \A u \in Threads \ {t} : Same(u)
  PROVE  /\ Statuses' = [Statuses EXCEPT ![t] = s]
         /\ Gots' = [Gots EXCEPT ![t] = g]
         /\ Statuses[t] = Status(t) /\ Gots[t] = Got(t)
  BY SameStatus DEF Statuses, Gots

\* What a signal has dealt with, and whether it goes on, is its thread's.
LEMMA HolderKept ==
  ASSUME VarsOK, NEW e \in Events, lock'[e] = lock[e],
         \A u \in Threads : lock[e] = u => Same(u)
  PROVE  Done(e)' = Done(e) /\ (e \in Raised' <=> e \in Raised)
  <1>1. lock[e] = None \/ lock[e] \in Threads
    BY DEF VarsOK
  <1>2. Done(e)' = Done(e)
    BY <1>1 DEF Done, Same
  <1>3. e \in Raised' <=> e \in Raised
    BY DEF Raised, Signaler, Same
  <1> QED
    BY <1>2, <1>3

LEMMA StillType ==
  ASSUME VarsOK, NEW e \in Events
  PROVE  /\ waiters[e] \in Seq(Threads) /\ Len(waiters[e]) \in Nat
         /\ Still(e) \in SUBSET (1..Len(waiters[e])) /\ Still(e) \in SUBSET Int
         /\ \A i \in Still(e) : waiters[e][i] \in Threads
  <1>1. waiters[e] \in Seq(Threads) /\ Len(waiters[e]) \in Nat
    BY LenProperties DEF VarsOK
  <1>2. Still(e) \in SUBSET (1..Len(waiters[e]))
    BY DEF Still, Entries
  <1> QED
    BY <1>1, <1>2, ElementOfSeq

LEMMA StillKept ==
  ASSUME VarsOK, NEW e \in Events, waiters'[e] = waiters[e],
         Entries(e)' \subseteq Entries(e),
         \A i \in Entries(e) : i \in Entries(e)' \/ ~Blocked(waiters[e][i]),
         \A u \in Threads :
           (\E i \in Entries(e) : waiters[e][i] = u) => (Blocked(u)' <=> Blocked(u))
  PROVE  Order(waiters[e], Still(e))' = Order(waiters[e], Still(e))
  <1>1. \A i \in Entries(e) : waiters[e][i] \in Threads
    BY EntryType
  <1>2. \A i \in Entries(e) : Blocked(waiters[e][i])' <=> Blocked(waiters[e][i])
    <2> SUFFICES ASSUME NEW i \in Entries(e)
                 PROVE  Blocked(waiters[e][i])' <=> Blocked(waiters[e][i])
      OBVIOUS
    <2>1. PICK u \in Threads : u = waiters[e][i]
      BY <1>1
    <2>2. waiters'[e][i] = u
      BY <2>1
    <2>3. Blocked(u)' <=> Blocked(u)
      BY <2>1
    <2> QED
      BY <2>1, <2>2, <2>3 DEF Blocked
  <1>3. Still(e)' = Still(e)
    BY <1>2 DEF Still
  <1> QED
    BY <1>3 DEF Order

LEMMA QueuesKept ==
  ASSUME VarsOK, UNCHANGED waiters, \A e \in Events : Done(e)' = Done(e),
         \A u \in Threads : Blocked(u)' <=> Blocked(u)
  PROVE  Queues' = Queues
  <1>1. \A e \in Events : Entries(e)' = Entries(e)
    BY DEF Entries
  <1> QED
    BY <1>1, StillKept DEF Queues

\* A thread waits no more.
LEMMA StillLess ==
  ASSUME VarsOK, NEW e \in Events, waiters'[e] = waiters[e],
         Entries(e)' \subseteq Entries(e),
         NEW t \in Threads, ~Blocked(t)',
         \A i \in Entries(e) : i \in Entries(e)' \/ waiters[e][i] = t,
         \A u \in Threads \ {t} : Blocked(u)' <=> Blocked(u)
  PROVE  Order(waiters[e], Still(e))'
           = {p \in Order(waiters[e], Still(e)) : t # p[1] /\ t # p[2]}
  <1>1. \A i \in Entries(e) : waiters[e][i] \in Threads
    BY EntryType
  <1>2. \A i \in Entries(e) :
          Blocked(waiters[e][i])' <=> Blocked(waiters[e][i]) /\ waiters[e][i] # t
    <2> SUFFICES ASSUME NEW i \in Entries(e)
                 PROVE  Blocked(waiters[e][i])' <=> Blocked(waiters[e][i]) /\ waiters[e][i] # t
      OBVIOUS
    <2>1. PICK u \in Threads : u = waiters[e][i]
      BY <1>1
    <2>2. waiters'[e][i] = u
      BY <2>1
    <2>3. Blocked(u)' <=> Blocked(u) /\ u # t
      OBVIOUS
    <2> QED
      BY <2>1, <2>2, <2>3 DEF Blocked
  <1>3. Still(e)' = {i \in Still(e) : waiters[e][i] # t}
    BY <1>2 DEF Still
  <1>4. PICK q : q = waiters[e]
    OBVIOUS
  <1>5. PICK I \in SUBSET Int : I = Still(e)
    BY StillType
  <1>6. PICK J \in SUBSET Int : J = Still(e)'
    BY <1>3, StillType
  <1>7. Thinned(q, I, J, t)
    BY <1>3, <1>4, <1>5, <1>6 DEF Thinned
  <1>8. \A p : p \in Order(q, J) <=> p \in Order(q, I) /\ t # p[1] /\ t # p[2]
    BY ONLY <1>5, <1>6, <1>7, OrderWithout
  <1>9. Order(waiters[e], Still(e))' = Order(q, J)
    BY <1>4, <1>6 DEF Order
  <1> QED
    BY <1>4, <1>5, <1>8, <1>9

LEMMA QueuesLess ==
  ASSUME VarsOK, UNCHANGED waiters, \A e \in Events : Done(e)' = Done(e),
         NEW t \in Threads, ~Blocked(t)',
         \A u \in Threads \ {t} : Blocked(u)' <=> Blocked(u)
  PROVE  Queues' = [e \in Events |-> {p \in Queues[e] : t # p[1] /\ t # p[2]}]
  <1>1. \A e \in Events : Entries(e)' = Entries(e)
    BY DEF Entries
  <1> QED
    BY <1>1, StillLess DEF Queues

\* A step of one thread that holds no lock before or after.
LEMMA OneMoves ==
  ASSUME VarsOK, NEW t \in Threads, NEW p, NEW g,
         pc' = [pc EXCEPT ![t] = p], frame' = [frame EXCEPT ![t] = g]
  PROVE  pc'[t] = p /\ frame'[t] = g /\ \A u \in Threads \ {t} : Same(u)
  BY DEF VarsOK, Same

LEMMA NoLock ==
  ASSUME EventInv, NEW t \in Threads, pc[t] \in Passive
  PROVE  \A e \in Events : lock[e] # t
  BY DEF EventInv, LocksOK, HoldsOK, Passive, Signaling, InWait

\* Nothing in the wait lists moves when a thread without a lock changes only
\* its own call.
LEMMA PassiveMoves ==
  ASSUME EventInv, CallsOK, NEW t \in Threads, pc[t] \in Passive, UNCHANGED lock,
         \A u \in Threads \ {t} : Same(u),
         \A e \in Events : e \in signaled' => e \in signaled
  PROVE  /\ \A u \in Threads \ {t} : CallOK(u)'
         /\ Raised' = Raised
         /\ \A e \in Events : Done(e)' = Done(e)
         /\ \A u \in Threads \ {t} : Blocked(u)' <=> Blocked(u)
         /\ \A e \in Events : lock'[e] # t
  <1>1. \A e \in Events : lock[e] # t /\ lock'[e] # t
    BY NoLock
  <1>2. ASSUME NEW u \in Threads \ {t} PROVE CallOK(u)'
    BY CallKept DEF CallsOK
  <1>3. ASSUME NEW e \in Events PROVE Done(e)' = Done(e) /\ (e \in Raised' <=> e \in Raised)
    BY <1>1, HolderKept DEF EventInv
  <1>4. Raised' = Raised
    BY <1>3 DEF Raised
  <1> QED
    BY <1>1, <1>2, <1>3, <1>4, SameStatus

(***************************************************************************)
(* Every action is a step of the service, or nothing to it                 *)
(***************************************************************************)

Unmoved == Raised' = Raised /\ Queues' = Queues /\ Statuses' = Statuses /\ Gots' = Gots

LEMMA ListsSame ==
  ASSUME UNCHANGED <<lock, waiters, pc, frame>> PROVE Unmoved
  BY DEF Unmoved, Raised, Signaler, Queues, Order, Still, Entries, Done, Blocked, Statuses,
         Status, Released, Gots, Got

LEMMA NotRaised ==
  ASSUME NEW e \in Events, lock[e] = None PROVE e \notin Raised
  BY EventsAssumption DEF EventsAssumption, Raised, Signaler

LEMMA StatusOut ==
  ASSUME NEW t \in Threads, pc[t] \in {"idle", "locking"}
  PROVE  Status(t) = "out" /\ Statuses[t] = "out"
  BY DEF Statuses, Status, Blocked, Released, InWait

LEMMA CallsSame ==
  ASSUME CallsOK, UNCHANGED <<lock, waiters, pc, frame>>,
         \A e \in Events : e \in signaled' => e \in signaled
  PROVE  CallsOK'
  BY CallKept DEF CallsOK, Same

LEMMA ResetServes ==
  ASSUME EventInv, CallsOK, NEW t \in Threads, NEW e \in Events, Reset(t, e)
  PROVE  CallsOK' /\ Service!Close(e)
  <1>1. /\ UNCHANGED <<lock, waiters, pc, frame>> /\ signaled' = signaled \ {e}
        /\ lock[e] = None
    BY DEF Reset
  <1> QED
    BY <1>1, ListsSame, CallsSame, NotRaised DEF Unmoved, Service!Close

\* An event that is open is taken; one that is not stays as it is.
LEMMA TakenServes ==
  ASSUME EventInv, CallsOK, NEW t \in Threads, NEW e \in Events, pc[t] = "idle",
         UNCHANGED <<lock, waiters, pc, frame>>, Consume(e)
  PROVE  /\ CallsOK'
         /\ Service!Take(t, e) \/ (Unmoved /\ signaled' = signaled)
  <1>1. \A d \in Events : d \in signaled' => d \in signaled
    BY DEF Consume
  <1>2. CASE e \in signaled
    BY <1>1, <1>2, ListsSame, CallsSame, StatusOut DEF Unmoved, Consume, Service!Take
  <1>3. CASE e \notin signaled
    BY <1>1, <1>3, ListsSame, CallsSame DEF Consume
  <1> QED
    BY <1>2, <1>3

LEMMA FreshCall ==
  ASSUME NEW a \in Seq(Events), NEW finite \in BOOLEAN
  PROVE  NewFrame(a, finite).ret = None /\ NoFrame.ret = None
  BY DEF NewFrame, NoFrame

\* A thread that begins or ends a call without waiting is out before and after.
LEMMA OutsideServes ==
  ASSUME EventInv, CallsOK, NEW t \in Threads, NEW p \in {"idle", "locking"}, NEW g,
         pc[t] = "idle", g.ret = None,
         pc' = [pc EXCEPT ![t] = p], frame' = [frame EXCEPT ![t] = g],
         UNCHANGED <<signaled, lock, waiters>>
  PROVE  CallsOK' /\ Unmoved
  <1>1. pc'[t] = p /\ frame'[t] = g /\ \A u \in Threads \ {t} : Same(u)
    BY OneMoves DEF EventInv
  <1>2. /\ \A u \in Threads \ {t} : CallOK(u)'
        /\ Raised' = Raised
        /\ \A e \in Events : Done(e)' = Done(e)
        /\ \A u \in Threads \ {t} : Blocked(u)' <=> Blocked(u)
        /\ \A e \in Events : lock'[e] # t
    BY <1>1, PassiveMoves DEF Passive
  <1>3. CallOK(t)'
    BY <1>1, <1>2 DEF CallOK, InWait
  <1>4. /\ ~Blocked(t) /\ ~Blocked(t)' /\ Status(t)' = Status(t)
        /\ Got(t)' = Got(t)
    BY <1>1 DEF Blocked, Released, Status, Got, InWait, CallsOK, CallOK
  <1>5. Queues' = Queues
    BY <1>2, <1>4, QueuesKept DEF EventInv
  <1>6. Statuses' = Statuses /\ Gots' = Gots
    BY <1>1, <1>4, SameStatus, StatusesKept
  <1> QED
    BY <1>2, <1>3, <1>5, <1>6 DEF CallsOK, Unmoved

LEMMA WaitMultipleServes ==
  ASSUME EventInv, CallsOK, NEW t \in Threads, NEW a \in Arrays, WaitMultiple(t, a)
  PROVE  CallsOK' /\ Unmoved /\ signaled' = signaled
  <1>1. a \in Seq(Events)
    BY ArraysAssumption DEF ArraysAssumption
  <1>2. /\ pc[t] = "idle" /\ UNCHANGED <<signaled, lock, waiters>>
        /\ pc' = [pc EXCEPT ![t] = "locking"]
        /\ frame' = [frame EXCEPT ![t] = NewFrame(a, FALSE)]
    BY DEF WaitMultiple, Call, kernels, Begin, Goto
  <1> QED
    BY <1>1, <1>2, FreshCall, OutsideServes

\* A step of a wait that leaves it as it is, as its waiter neither is fired nor
\* disabled by it.
LEMMA WaitingServes ==
  ASSUME EventInv, CallsOK, NEW t \in Threads, NEW p \in InWait, NEW g,
         pc[t] \in InWait, g.fired = frame[t].fired, g.by = frame[t].by, g.ret = frame[t].ret,
         pc' = [pc EXCEPT ![t] = p], frame' = [frame EXCEPT ![t] = g],
         UNCHANGED <<signaled, lock, waiters>>
  PROVE  CallsOK' /\ Unmoved
  <1>1. pc'[t] = p /\ frame'[t] = g /\ \A u \in Threads \ {t} : Same(u)
    BY OneMoves DEF EventInv
  <1>2. /\ \A u \in Threads \ {t} : CallOK(u)'
        /\ Raised' = Raised
        /\ \A e \in Events : Done(e)' = Done(e)
        /\ \A u \in Threads \ {t} : Blocked(u)' <=> Blocked(u)
        /\ \A e \in Events : lock'[e] # t
    BY <1>1, PassiveMoves DEF Passive
  <1>3. CallOK(t)'
    BY <1>1, <1>2 DEF CallOK, InWait, CallsOK
  <1>4. /\ Blocked(t)' <=> Blocked(t)
        /\ Status(t)' = Status(t) /\ Got(t)' = Got(t)
    BY <1>1 DEF Blocked, Released, Status, Got, InWait
  <1>5. Queues' = Queues
    BY <1>2, <1>4, QueuesKept DEF EventInv
  <1>6. Statuses' = Statuses /\ Gots' = Gots
    BY <1>1, <1>4, SameStatus, StatusesKept
  <1> QED
    BY <1>2, <1>3, <1>5, <1>6 DEF CallsOK, Unmoved

LEMMA ElapseServes ==
  ASSUME EventInv, CallsOK, NEW t \in Threads, Elapse(t)
  PROVE  CallsOK' /\ Unmoved /\ signaled' = signaled
  <1> DEFINE g == [frame[t] EXCEPT !.late = TRUE]
  <1>1. g.fired = frame[t].fired /\ g.by = frame[t].by /\ g.ret = frame[t].ret
    BY DEF EventInv, VarsOK, Frame
  <1>2. /\ pc[t] \in InWait /\ frame' = [frame EXCEPT ![t] = g]
        /\ UNCHANGED <<signaled, lock, waiters>>
    BY DEF Elapse, kernels
  <1> HIDE DEF g
  <1>3. PICK p \in InWait : pc' = [pc EXCEPT ![t] = p]
    BY <1>2 DEF Elapse, Goto, Broadcast, InWait
  <1> QED
    BY <1>1, <1>2, <1>3, WaitingServes

LEMMA WakeUpServes ==
  ASSUME EventInv, CallsOK, NEW t \in Threads, WakeUp(t)
  PROVE  CallsOK' /\ Unmoved /\ signaled' = signaled
  <1>1. /\ pc[t] \in InWait /\ pc' = [pc EXCEPT ![t] = "awake"] /\ "awake" \in InWait
        /\ frame' = [frame EXCEPT ![t] = frame[t]]
        /\ UNCHANGED <<signaled, lock, waiters>>
    BY DEF WakeUp, kernels, Goto, InWait, EventInv, VarsOK
  <1> QED
    BY <1>1, WaitingServes

LEMMA TestServes ==
  ASSUME EventInv, CallsOK, NEW t \in Threads, Test(t)
  PROVE  CallsOK' /\ signaled' = signaled /\ (Unmoved \/ Service!Expire(t))
  <1> DEFINE f == frame[t]
  <1>1. /\ f \in Frame /\ pc[t] \in InWait /\ UNCHANGED <<signaled, lock, waiters>>
        /\ f.ret = None /\ (f.fired => f.by \in Events)
    BY DEF Test, kernels, InWait, EventInv, VarsOK, CallsOK, CallOK
  <1>2. CASE f.fired \/ f.late
    <2>1. PICK g :
            /\ pc' = [pc EXCEPT ![t] = "leaving"] /\ frame' = [frame EXCEPT ![t] = g]
            /\ g.fired /\ g.by = f.by /\ g.ret = IF f.fired THEN f.by ELSE None
      <3> DEFINE ret == IF f.fired THEN f.by ELSE None
                 g == [f EXCEPT !.ret = ret, !.fired = TRUE, !.todo = Remaining(f)]
      <3>1. pc' = [pc EXCEPT ![t] = "leaving"] /\ frame' = [frame EXCEPT ![t] = g]
        BY <1>2 DEF Test, Begin, Goto, Disable
      <3>2. g.fired = TRUE /\ g.by = f.by /\ g.ret = ret
        BY <1>1 DEF Frame
      <3> HIDE DEF g
      <3> QED
        BY <3>1, <3>2
    <2>2. pc'[t] = "leaving" /\ frame'[t] = g /\ \A u \in Threads \ {t} : Same(u)
      BY <2>1, OneMoves DEF EventInv
    <2>3. /\ \A u \in Threads \ {t} : CallOK(u)'
          /\ Raised' = Raised
          /\ \A e \in Events : Done(e)' = Done(e)
          /\ \A u \in Threads \ {t} : Blocked(u)' <=> Blocked(u)
          /\ \A e \in Events : lock'[e] # t
      BY <1>1, <2>2, PassiveMoves DEF Passive
    <2>4. CallOK(t)' /\ ~Blocked(t)'
      BY <2>1, <2>2 DEF CallOK, InWait, Blocked
    <2>5. CASE f.fired
      <3>1. ~Blocked(t) /\ Status(t)' = Status(t) /\ Got(t)' = Got(t)
        BY <1>1, <2>1, <2>2, <2>5, EventsAssumption
           DEF Blocked, Released, Status, Got, InWait, EventsAssumption
      <3>2. Queues' = Queues
        BY <1>1, <2>3, <2>4, <3>1, QueuesKept DEF EventInv
      <3>3. Statuses' = Statuses /\ Gots' = Gots
        BY <2>2, <3>1, SameStatus, StatusesKept
      <3> QED
        BY <1>1, <2>3, <2>4, <3>2, <3>3 DEF CallsOK, Unmoved
    <2>6. CASE ~f.fired
      <3>1. /\ Status(t) = "waiting" /\ Status(t)' = "expired"
            /\ Got(t) = None /\ Got(t)' = None
        BY <1>1, <2>1, <2>2, <2>6 DEF Blocked, Released, Status, Got, InWait
      <3>2. Queues' = [e \in Events |-> {p \in Queues[e] : t # p[1] /\ t # p[2]}]
        BY <1>1, <2>3, <2>4, QueuesLess DEF EventInv
      <3>3. /\ Statuses' = [Statuses EXCEPT ![t] = "expired"] /\ Statuses[t] = "waiting"
            /\ Gots' = [Gots EXCEPT ![t] = None] /\ Gots[t] = None
        BY <2>2, <3>1, StatusesMove
      <3>4. Gots' = Gots
        BY <3>3 DEF Gots
      <3> QED
        BY <1>1, <2>3, <2>4, <3>2, <3>3, <3>4
           DEF CallsOK, Service!Expire, Service!Leaves
    <2> QED
      BY <2>5, <2>6
  <1>3. CASE ~(f.fired \/ f.late)
    <2>1. /\ pc' = [pc EXCEPT ![t] = "asleep"] /\ "asleep" \in InWait
          /\ frame' = [frame EXCEPT ![t] = frame[t]]
      BY <1>3 DEF Test, Goto, InWait, EventInv, VarsOK
    <2> QED
      BY <1>1, <2>1, WaitingServes
  <1> QED
    BY <1>2, <1>3

LEMMA ReturnServes ==
  ASSUME EventInv, CallsOK, NEW t \in Threads, Return(t)
  PROVE  CallsOK' /\ Service!Leave(t)
  <1>1. /\ pc[t] = "leaving" /\ UNCHANGED <<signaled, lock, waiters>>
        /\ pc' = [pc EXCEPT ![t] = "idle"] /\ frame' = [frame EXCEPT ![t] = NoFrame]
    BY DEF Return, End, Begin, Goto, kernels
  <1>2. pc'[t] = "idle" /\ frame'[t] = NoFrame /\ \A u \in Threads \ {t} : Same(u)
    BY <1>1, OneMoves DEF EventInv
  <1>3. NoFrame.ret = None
    BY DEF NoFrame, NewFrame
  <1>4. /\ \A u \in Threads \ {t} : CallOK(u)'
        /\ Raised' = Raised
        /\ \A e \in Events : Done(e)' = Done(e)
        /\ \A u \in Threads \ {t} : Blocked(u)' <=> Blocked(u)
    BY <1>1, <1>2, PassiveMoves DEF Passive
  <1>5. CallOK(t)'
    BY <1>2, <1>3 DEF CallOK, InWait
  <1>6. /\ ~Blocked(t) /\ ~Blocked(t)' /\ Status(t) \in {"released", "expired"}
        /\ Status(t)' = "out" /\ Got(t)' = None
    BY <1>1, <1>2, <1>3 DEF Blocked, Released, Status, Got, InWait
  <1>7. Queues' = Queues
    BY <1>1, <1>4, <1>6, QueuesKept DEF EventInv
  <1>8. /\ Statuses' = [Statuses EXCEPT ![t] = "out"] /\ Statuses[t] \in {"released", "expired"}
        /\ Gots' = [Gots EXCEPT ![t] = None]
    BY <1>2, <1>6, StatusesMove
  <1> QED
    BY <1>1, <1>4, <1>5, <1>7, <1>8 DEF CallsOK, Service!Leave

\* r is s without one of its entries t.
PickedOut(s, r, t) ==
  \E k \in 1..Len(s) :
    /\ s[k] = t /\ r \in Seq(Threads) /\ Len(r) = Len(s) - 1
    /\ \A j \in 1..(Len(s) - 1) : r[j] = IF j < k THEN s[j] ELSE s[j + 1]

\* Those that wait keep their order when one that does not is taken out.
LEMMA TakenOut ==
  ASSUME VarsOK, NEW e \in Events, NEW t \in Threads, ~Blocked(t), ~Blocked(t)',
         Done(e) = 0, Done(e)' = 0, waiters'[e] = RemoveFirst(waiters[e], t),
         \A u \in Threads : Blocked(u)' <=> Blocked(u)
  PROVE  Order(waiters[e], Still(e))' = Order(waiters[e], Still(e))
  <1>1. CASE ~\E i \in 1..Len(waiters[e]) : waiters[e][i] = t
    <2>1. waiters'[e] = waiters[e]
      BY <1>1 DEF RemoveFirst
    <2>2. Entries(e)' = Entries(e)
      BY <2>1 DEF Entries
    <2> QED
      BY <2>1, <2>2, StillKept
  <1>2. CASE \E i \in 1..Len(waiters[e]) : waiters[e][i] = t
    <2>1. PICK s : s = waiters[e]
      OBVIOUS
    <2>2. PICK r : r = waiters'[e]
      OBVIOUS
    <2>3. s \in Seq(Threads) /\ PickedOut(s, r, t)
      <3>1. s \in Seq(Threads) /\ \E i \in 1..Len(s) : s[i] = t
        BY <1>2, <2>1, StillType
      <3>2. r = RemoveFirst(s, t)
        BY <2>1, <2>2
      <3>3. \E k \in 1..Len(s) :
              /\ s[k] = t
              /\ RemoveFirst(s, t) \in Seq(Threads) /\ Len(RemoveFirst(s, t)) = Len(s) - 1
              /\ \A j \in 1..(Len(s) - 1) :
                   RemoveFirst(s, t)[j] = IF j < k THEN s[j] ELSE s[j + 1]
        BY <3>1, RemoveFirstAt
      <3> QED
        BY <3>1, <3>2, <3>3 DEF PickedOut
    <2>4. PICK k \in 1..Len(s) :
            /\ s[k] = t /\ r \in Seq(Threads) /\ Len(r) = Len(s) - 1
            /\ \A j \in 1..(Len(s) - 1) : r[j] = IF j < k THEN s[j] ELSE s[j + 1]
      BY <2>3 DEF PickedOut
    <2>5. PICK n \in Nat : n = Len(s)
      BY <2>3, LenProperties
    <2>6. PICK I \in SUBSET Int : I = Still(e)
      BY StillType
    <2>7. PICK J \in SUBSET Int : J = Still(e)'
      <3>1. Len(waiters'[e]) = n - 1
        BY <2>2, <2>4, <2>5
      <3>2. Entries(e)' \in SUBSET (1..(n - 1))
        BY <3>1 DEF Entries
      <3>3. Still(e)' \in SUBSET (1..(n - 1))
        BY <3>2 DEF Still
      <3> QED
        BY <3>3
    <2>8. \A i \in Int : i \in I <=> i \in 1..n /\ Blocked(s[i])
      BY <2>1, <2>5, <2>6 DEF Still, Entries
    <2>9. \A j \in Int : j \in J <=> j \in 1..(n - 1) /\ Blocked(r[j])
      <3>1. \A j \in Int : j \in J <=> j \in 1..(n - 1) /\ Blocked(r[j])'
        BY <2>2, <2>4, <2>5, <2>7 DEF Still, Entries
      <3>2. \A j \in 1..(n - 1) : r[j] \in Threads
        BY <2>4, <2>5, ElementOfSeq
      <3> QED
        BY <3>1, <3>2 DEF Blocked
    <2> DEFINE from == [j \in J |-> IF j < k THEN j ELSE j + 1]
    <2>10. from \in [J -> I]
      BY <2>4, <2>5, <2>8, <2>9
    <2>11. Rearranged(s, r, I, J, from)
      <3>1. ASSUME NEW i \in I PROVE \E j \in J : from[j] = i
        <4>1. i \in 1..n /\ Blocked(s[i]) /\ i # k
          BY <2>4, <2>8
        <4>2. CASE i < k
          <5>1. i \in 1..(n - 1) /\ r[i] = s[i]
            BY <2>4, <2>5, <4>1, <4>2
          <5> QED
            BY <2>9, <4>1, <4>2, <5>1
        <4>3. CASE ~(i < k)
          <5>1. i - 1 \in 1..(n - 1) /\ ~(i - 1 < k) /\ (i - 1) + 1 = i
            BY <2>5, <4>1, <4>3
          <5>2. r[i - 1] = s[i]
            BY <2>4, <2>5, <5>1
          <5> QED
            BY <2>9, <4>1, <5>1, <5>2
        <4> QED
          BY <4>2, <4>3
      <3>2. \A i, j \in J : i <= j <=> from[i] <= from[j]
        BY <2>4, <2>9
      <3>3. \A j \in J : r[j] = s[from[j]]
        BY <2>4, <2>5, <2>9
      <3> QED
        BY <3>1, <3>2, <3>3 DEF Rearranged
    <2> HIDE DEF from
    <2>12. Order(r, J) = Order(s, I)
      BY <2>10, <2>11, OrderMoved
    <2> QED
      BY <2>1, <2>2, <2>6, <2>7, <2>12 DEF Order
  <1> QED
    BY <1>1, <1>2

LEMMA DequeueServes ==
  ASSUME EventInv, CallsOK, NEW t \in Threads, Dequeue(t)
  PROVE  CallsOK' /\ Unmoved /\ signaled' = signaled
  <1>1. /\ pc[t] = "leaving" /\ frame[t].todo # << >> /\ frame[t] \in Frame
        /\ UNCHANGED <<signaled, lock, pc>>
    BY DEF Dequeue, EventInv, VarsOK
  <1>2. PICK e \in Events : e = Head(frame[t].todo)
    <2>1. frame[t].todo \in Seq(Events)
      BY <1>1 DEF Frame
    <2> QED
      BY <1>1, <2>1, HeadTailProperties
  <1>3. PICK g :
          /\ frame' = [frame EXCEPT ![t] = g]
          /\ g.fired = frame[t].fired /\ g.by = frame[t].by /\ g.ret = frame[t].ret
    <2> DEFINE h == [frame[t] EXCEPT !.todo = Tail(frame[t].todo)]
    <2>1. h.fired = frame[t].fired /\ h.by = frame[t].by /\ h.ret = frame[t].ret
      BY <1>1 DEF Frame
    <2>2. frame' = [frame EXCEPT ![t] = h]
      BY DEF Dequeue
    <2> HIDE DEF h
    <2> QED
      BY <2>1, <2>2
  <1>4. /\ lock[e] = None /\ waiters'[e] = RemoveFirst(waiters[e], t)
        /\ \A d \in Events \ {e} : waiters'[d] = waiters[d]
    BY <1>2 DEF Dequeue, EventInv, VarsOK
  <1>5. pc'[t] = "leaving" /\ frame'[t] = g /\ \A u \in Threads \ {t} : Same(u)
    BY <1>1, <1>3 DEF EventInv, VarsOK, Same
  <1>6. /\ \A u \in Threads \ {t} : CallOK(u)'
        /\ Raised' = Raised
        /\ \A d \in Events : Done(d)' = Done(d)
        /\ \A u \in Threads \ {t} : Blocked(u)' <=> Blocked(u)
    BY <1>1, <1>5, PassiveMoves DEF Passive
  <1>7. CallOK(t)'
    BY <1>1, <1>3, <1>5 DEF CallOK, InWait, CallsOK
  <1>8. ~Blocked(t) /\ ~Blocked(t)' /\ Status(t)' = Status(t) /\ Got(t)' = Got(t)
    BY <1>1, <1>3, <1>5 DEF Blocked, Released, Status, Got, InWait
  <1>9. ASSUME NEW d \in Events
        PROVE  Order(waiters[d], Still(d))' = Order(waiters[d], Still(d))
    <2>1. CASE d = e
      <3>1. Done(e) = 0 /\ Done(e)' = 0
        BY <1>4, <1>6 DEF Done
      <3> QED
        BY <1>4, <1>6, <1>8, <2>1, <3>1, TakenOut DEF EventInv
    <2>2. CASE d # e
      <3>1. Entries(d)' = Entries(d)
        BY <1>4, <1>6, <2>2 DEF Entries
      <3> QED
        BY <1>4, <1>6, <1>8, <2>2, <3>1, StillKept DEF EventInv
    <2> QED
      BY <2>1, <2>2
  <1>10. Statuses' = Statuses /\ Gots' = Gots
    BY <1>5, <1>8, SameStatus, StatusesKept
  <1>11. Queues' = Queues
    BY <1>9 DEF Queues
  <1> QED
    BY <1>1, <1>6, <1>7, <1>10, <1>11 DEF CallsOK, Unmoved

LEMMA SignalServes ==
  ASSUME EventInv, CallsOK, NEW t \in Threads, NEW e \in Events, Signal(t, e)
  PROVE  CallsOK' /\ (Service!Raise(e) \/ (Unmoved /\ signaled' = signaled))
  <1>1. pc[t] = "idle" /\ lock[e] = None /\ UNCHANGED <<signaled, waiters>> /\ t # None
    BY EventsAssumption DEF Signal, Call, EventsAssumption
  <1>2. CASE e \in signaled
    <2>1. UNCHANGED <<lock, pc, frame>>
      BY <1>2 DEF Signal
    <2> QED
      BY <1>1, <2>1, CallsSame, ListsSame
  <1>3. CASE e \notin signaled
    <2>1. PICK g \in Frame : g = NewFrame(<<e>>, FALSE) /\ g.cursor = 1 /\ g.ret = None
      <3>1. <<e>> \in Seq(Events) /\ FALSE \in BOOLEAN
        OBVIOUS
      <3>2. NewFrame(<<e>>, FALSE) \in Frame /\ NewFrame(<<e>>, FALSE).cursor = 1
        BY <3>1, NewFrameType
      <3>3. NewFrame(<<e>>, FALSE).ret = None
        BY <3>1, FreshCall
      <3> QED
        BY <3>2, <3>3
    <2>2. /\ lock' = [lock EXCEPT ![e] = t]
          /\ pc' = [pc EXCEPT ![t] = "signaling"] /\ frame' = [frame EXCEPT ![t] = g]
      BY <1>3, <2>1 DEF Signal, Begin, Goto
    <2>3. /\ pc'[t] = "signaling" /\ frame'[t] = g /\ lock'[e] = t
          /\ \A u \in Threads \ {t} : Same(u)
          /\ \A d \in Events \ {e} : lock'[d] = lock[d]
      BY <2>2 DEF EventInv, VarsOK, Same
    <2>4. \A d \in Events : lock[d] # t
      BY <1>1, NoLock DEF Passive
    <2>5. ASSUME NEW u \in Threads PROVE CallOK(u)'
      <3>1. CASE u = t
        BY <2>1, <2>3, <3>1 DEF CallOK, InWait
      <3>2. CASE u # t
        BY <1>1, <2>3, <3>2, CallKept DEF CallsOK
      <3> QED
        BY <3>1, <3>2
    <2>6. ASSUME NEW d \in Events PROVE Done(d)' = Done(d)
      <3>1. CASE d = e
        <4>1. lock'[e] = t /\ pc'[t] = "signaling" /\ frame'[t].cursor = 1
          BY <2>1, <2>3
        <4>2. Done(e)' = 1 - 1
          BY <1>1, <4>1 DEF Done
        <4>3. Done(e) = 0
          BY <1>1 DEF Done
        <4> QED
          BY <3>1, <4>2, <4>3
      <3>2. CASE d # e
        BY <2>3, <2>4, <3>2, HolderKept DEF EventInv
      <3> QED
        BY <3>1, <3>2
    <2>7. Raised' = Raised \cup {e} /\ e \notin Raised
      <3>1. e \in Raised'
        BY <2>3 DEF Raised, Signaler, Signaling
      <3>2. \A d \in Events \ {e} : d \in Raised' <=> d \in Raised
        BY <2>3, <2>4, HolderKept DEF EventInv
      <3> QED
        BY <1>1, <3>1, <3>2, NotRaised DEF Raised
    <2>8. /\ ~Blocked(t) /\ ~Blocked(t)' /\ Status(t)' = Status(t)
          /\ Got(t)' = Got(t)
      BY <1>1, <2>1, <2>3 DEF Blocked, Released, Status, Got, InWait, CallsOK, CallOK
    <2>9. \A u \in Threads : /\ Blocked(u)' <=> Blocked(u)
                             /\ Status(u)' = Status(u) /\ Got(u)' = Got(u)
      BY <2>3, <2>8, SameStatus
    <2>10. Queues' = Queues
      BY <1>1, <2>6, <2>9, QueuesKept DEF EventInv
    <2>11. Statuses' = Statuses /\ Gots' = Gots
      BY <2>9, StatusesKept
    <2> QED
      BY <1>1, <1>3, <2>5, <2>7, <2>10, <2>11 DEF CallsOK, Service!Raise
  <1> QED
    BY <1>2, <1>3

LEMMA EndSignalServes ==
  ASSUME EventInv, CallsOK, NEW t \in Threads, EndSignal(t)
  PROVE  CallsOK' /\ \E e \in Events : Service!Open(e)
  <1>1. PICK e \in Events :
          /\ frame[t].array[1] = e /\ lock[e] = t
          /\ \A d \in Events : lock[d] = t => d = e
    BY Signals DEF EndSignal, Signaling
  <1>2. /\ pc[t] = "signaling" /\ waiters' = [waiters EXCEPT ![e] = << >>]
        /\ signaled' = signaled \cup {e} /\ lock' = [lock EXCEPT ![e] = None]
        /\ pc' = [pc EXCEPT ![t] = "idle"] /\ frame' = [frame EXCEPT ![t] = NoFrame]
        /\ frame[t].cursor > Len(waiters[e]) /\ t # None
    BY <1>1, EventsAssumption DEF EndSignal, End, Begin, Goto, EventsAssumption
  <1>3. /\ pc'[t] = "idle" /\ frame'[t] = NoFrame /\ lock'[e] = None /\ waiters'[e] = << >>
        /\ \A u \in Threads \ {t} : Same(u)
        /\ \A d \in Events \ {e} : lock'[d] = lock[d] /\ waiters'[d] = waiters[d]
    BY <1>2 DEF EventInv, VarsOK, Same
  <1>4. NoFrame.ret = None
    BY DEF NoFrame, NewFrame
  <1>5. ASSUME NEW u \in Threads PROVE CallOK(u)'
    <2>1. CASE u = t
      BY <1>3, <1>4, <2>1 DEF CallOK, InWait
    <2>2. CASE u # t
      <3>1. u # None
        BY EventsAssumption DEF EventsAssumption
      <3>2. \A d \in Events : lock'[d] = u => lock[d] = u /\ (d \in signaled' => d \in signaled)
        BY <1>2, <1>3, <3>1
      <3> QED
        BY <1>3, <2>2, <3>2, CallKept DEF CallsOK
    <2> QED
      BY <2>1, <2>2
  <1>6. \A d \in Events \ {e} : Done(d)' = Done(d) /\ (d \in Raised' <=> d \in Raised)
    BY <1>1, <1>3, HolderKept DEF EventInv
  <1>7. e \in Raised /\ Raised' = Raised \ {e}
    <2>1. e \in Raised
      BY <1>1, <1>2 DEF Raised, Signaler, Signaling
    <2>2. e \notin Raised'
      BY <1>3, EventsAssumption DEF Raised, Signaler, EventsAssumption
    <2> QED
      BY <1>6, <2>1, <2>2 DEF Raised
  <1>8. /\ ~Blocked(t) /\ ~Blocked(t)' /\ Status(t)' = Status(t)
        /\ Got(t)' = Got(t)
    BY <1>2, <1>3, <1>4 DEF Blocked, Released, Status, Got, InWait, CallsOK, CallOK
  <1>9. \A u \in Threads : /\ Blocked(u)' <=> Blocked(u)
                           /\ Status(u)' = Status(u) /\ Got(u)' = Got(u)
    BY <1>3, <1>8, SameStatus
  <1>10. Still(e) = {} /\ Still(e)' = {}
    <2>1. Done(e) = frame[t].cursor - 1 /\ frame[t].cursor \in Nat
      BY <1>1, <1>2 DEF Done, EventInv, VarsOK, Frame
    <2>2. Len(waiters[e]) \in Nat
      BY StillType DEF EventInv
    <2>3. Entries(e) = {}
      BY <1>2, <2>1, <2>2 DEF Entries
    <2>4. Entries(e)' = {}
      BY <1>3 DEF Entries
    <2> QED
      BY <2>3, <2>4 DEF Still
  <1>11. \A p : p \notin Queues[e]
    BY <1>10 DEF Queues, Order
  <1>12. ASSUME NEW d \in Events
         PROVE  Order(waiters[d], Still(d))' = Order(waiters[d], Still(d))
    <2>1. CASE d = e
      BY <1>10, <2>1 DEF Order
    <2>2. CASE d # e
      <3>1. Entries(d)' = Entries(d)
        BY <1>3, <1>6, <2>2 DEF Entries
      <3> QED
        BY <1>3, <1>9, <2>2, <3>1, StillKept DEF EventInv
    <2> QED
      BY <2>1, <2>2
  <1>13. Queues' = Queues
    BY <1>12 DEF Queues
  <1>14. Statuses' = Statuses /\ Gots' = Gots
    BY <1>9, StatusesKept
  <1>15. Service!Open(e)
    BY <1>2, <1>7, <1>11, <1>13, <1>14 DEF Service!Open, Service!Waiting
  <1> QED
    BY <1>5, <1>15 DEF CallsOK

\* The first entry is taken off, which a signal has dealt with.
LEMMA FirstTaken ==
  ASSUME VarsOK, NEW e \in Events, waiters[e] # << >>, waiters'[e] = Tail(waiters[e]),
         Done(e) = 1, Done(e)' = 0, \A u \in Threads : Blocked(u)' <=> Blocked(u)
  PROVE  Order(waiters[e], Still(e))' = Order(waiters[e], Still(e))
  <1>1. PICK s : s = waiters[e]
    OBVIOUS
  <1>2. PICK r : r = waiters'[e]
    OBVIOUS
  <1>3. PICK n \in Nat : /\ n = Len(s) - 1 /\ Len(r) = n
                         /\ \A j \in 1..n : r[j] = s[j + 1] /\ r[j] \in Threads
    <2>1. s \in Seq(Threads) /\ s # << >> /\ r = Tail(s)
      BY <1>1, <1>2, StillType
    <2>2. /\ Len(s) \in Nat \ {0} /\ Len(r) = Len(s) - 1
          /\ \A j \in 1..Len(r) : r[j] = s[j + 1]
      BY <2>1, HeadTailProperties, EmptySeq, LenProperties
    <2>3. \A i \in 1..Len(s) : s[i] \in Threads
      BY <2>1, ElementOfSeq
    <2>4. Len(s) - 1 \in Nat /\ \A j \in 1..(Len(s) - 1) : j + 1 \in 1..Len(s)
      BY <2>2
    <2> QED
      BY <2>2, <2>3, <2>4
  <1>4. PICK I \in SUBSET Int : I = Still(e)
    BY StillType
  <1>5. \A i \in Int : i \in I <=> i \in 2..(n + 1) /\ Blocked(s[i])
    <2>1. Len(s) = n + 1
      <3>1. Len(s) \in Nat
        BY <1>1, StillType
      <3> QED
        BY <1>3, <3>1
    <2>2. \A i \in Int : i \in Entries(e) <=> i \in 2..(n + 1)
      BY <1>1, <2>1 DEF Entries
    <2> QED
      BY <1>1, <1>4, <2>2 DEF Still
  <1>6. Still(e)' \in SUBSET (1..n) /\ \A j \in 1..n : j \in Still(e)' <=> Blocked(r[j])
    <2>1. \A j : j \in Entries(e)' <=> j \in 1..n
      BY <1>2, <1>3 DEF Entries
    <2>2. \A j \in 1..n : j \in Still(e)' <=> Blocked(r[j])'
      BY <1>2, <2>1 DEF Still
    <2>3. \A j \in 1..n : Blocked(r[j])' <=> Blocked(r[j])
      <3> SUFFICES ASSUME NEW j \in 1..n PROVE Blocked(r[j])' <=> Blocked(r[j])
        OBVIOUS
      <3>1. PICK u \in Threads : u = r[j]
        BY <1>3
      <3>2. Blocked(u)' <=> Blocked(u)
        OBVIOUS
      <3> QED
        BY <3>1, <3>2 DEF Blocked
    <2> QED
      BY <2>1, <2>2, <2>3 DEF Still
  <1>7. PICK J \in SUBSET Int : J = Still(e)'
    BY <1>6
  <1>8. \A j \in Int : j \in J <=> j \in 1..n /\ Blocked(r[j])
    BY <1>6, <1>7
  <1> DEFINE from == [j \in J |-> j + 1]
  <1>9. from \in [J -> I]
    <2> SUFFICES ASSUME NEW j \in J PROVE j + 1 \in I
      OBVIOUS
    <2>1. j \in 1..n /\ Blocked(r[j]) /\ r[j] = s[j + 1]
      BY <1>3, <1>8
    <2>2. j + 1 \in 2..(n + 1)
      BY <2>1
    <2> QED
      BY <1>5, <2>1, <2>2
  <1>10. Rearranged(s, r, I, J, from)
    <2>1. ASSUME NEW i \in I PROVE \E j \in J : from[j] = i
      <3>1. i \in 2..(n + 1) /\ Blocked(s[i])
        BY <1>5
      <3>2. i - 1 \in 1..n /\ (i - 1) + 1 = i
        BY <3>1
      <3>3. r[i - 1] = s[i]
        BY <1>3, <3>2
      <3>4. i - 1 \in J
        BY <1>8, <3>1, <3>2, <3>3
      <3> QED
        BY <3>2, <3>4
    <2>2. \A i, j \in J : i <= j <=> from[i] <= from[j]
      OBVIOUS
    <2>3. \A j \in J : r[j] = s[from[j]]
      BY <1>3, <1>8
    <2> QED
      BY <2>1, <2>2, <2>3 DEF Rearranged
  <1> HIDE DEF from
  <1>11. Order(r, J) = Order(s, I)
    BY <1>9, <1>10, OrderMoved
  <1>12. Order(waiters[e], Still(e))' = Order(r, J)
    BY <1>2, <1>7 DEF Order
  <1> QED
    BY <1>1, <1>4, <1>11, <1>12

LEMMA PopFrontServes ==
  ASSUME EventInv, CallsOK, NEW t \in Threads, PopFront(t)
  PROVE  CallsOK' /\ Unmoved /\ signaled' = signaled
  <1>1. PICK e \in Events :
          /\ frame[t].array[1] = e /\ lock[e] = t
          /\ \A d \in Events : lock[d] = t => d = e
    BY Signals DEF PopFront, Signaling
  <1>2. /\ pc[t] \in {"rejected", "woken"} /\ UNCHANGED signaled
        /\ waiters' = [waiters EXCEPT ![e] = Tail(waiters[e])]
        /\ waiters[e] # << >> /\ frame[t].cursor = 1
        /\ t # None
    BY <1>1, EventsAssumption
       DEF PopFront, EventInv, LocksOK, SignalOK, EventsAssumption
  <1>3. NoFrame.ret = None /\ frame[t].ret = None
    BY <1>2 DEF NoFrame, NewFrame, CallsOK, CallOK
  <1>4. PICK g : \E p \in {"signaling", "idle"} :
          /\ pc' = [pc EXCEPT ![t] = p] /\ frame' = [frame EXCEPT ![t] = g]
          /\ p = "signaling" => pc[t] = "rejected" /\ g = frame[t] /\ lock' = lock
          /\ p = "idle" => pc[t] = "woken" /\ lock' = [lock EXCEPT ![e] = None]
          /\ g.ret = None
    <2>1. CASE pc[t] = "rejected"
      <3>1. /\ frame' = [frame EXCEPT ![t] = frame[t]]
            /\ lock' = lock /\ pc' = [pc EXCEPT ![t] = "signaling"]
        BY <2>1 DEF PopFront, Goto, EventInv, VarsOK
      <3> QED
        BY <1>3, <2>1, <3>1
    <2>2. CASE pc[t] = "woken"
      <3>1. /\ frame' = [frame EXCEPT ![t] = NoFrame] /\ pc' = [pc EXCEPT ![t] = "idle"]
            /\ lock' = [lock EXCEPT ![e] = None]
        BY <1>1, <2>2 DEF PopFront, End, Begin, Goto
      <3> QED
        BY <1>3, <2>2, <3>1
    <2> QED
      BY <1>2, <2>1, <2>2
  <1>5. PICK p \in {"signaling", "idle"} :
          /\ pc' = [pc EXCEPT ![t] = p] /\ frame' = [frame EXCEPT ![t] = g]
          /\ p = "signaling" => pc[t] = "rejected" /\ g = frame[t] /\ lock' = lock
          /\ p = "idle" => pc[t] = "woken" /\ lock' = [lock EXCEPT ![e] = None]
          /\ g.ret = None
    BY <1>4
  <1>6. /\ pc'[t] = p /\ frame'[t] = g
        /\ \A u \in Threads \ {t} : Same(u)
        /\ \A d \in Events \ {e} : lock'[d] = lock[d] /\ waiters'[d] = waiters[d]
        /\ lock'[e] = (IF p = "idle" THEN None ELSE t)
        /\ waiters'[e] = Tail(waiters[e])
    BY <1>1, <1>2, <1>5 DEF EventInv, VarsOK, Same
  <1>7. ASSUME NEW u \in Threads PROVE CallOK(u)'
    <2>0. u # None
      BY EventsAssumption DEF EventsAssumption
    <2>1. CASE u = t
      BY <1>5, <1>6, <2>1 DEF CallOK, InWait
    <2>2. CASE u # t
      <3>1. \A d \in Events : lock'[d] = u => lock[d] = u
        BY <1>1, <1>6, <2>0, <2>2
      <3> QED
        BY <1>2, <1>6, <2>2, <3>1, CallKept DEF CallsOK
    <2> QED
      BY <2>1, <2>2
  <1>8. \A d \in Events \ {e} : Done(d)' = Done(d) /\ (d \in Raised' <=> d \in Raised)
    BY <1>1, <1>6, HolderKept DEF EventInv
  <1>9. Done(e) = 1 /\ Done(e)' = 0
    <2>1. Done(e) = 1
      BY <1>1, <1>2 DEF Done
    <2>2. CASE p = "idle"
      BY <1>6, <2>1, <2>2 DEF Done
    <2>3. CASE p = "signaling"
      <3>1. lock'[e] = t /\ pc'[t] = "signaling" /\ frame'[t].cursor = 1
        BY <1>2, <1>5, <1>6, <2>3
      <3>2. Done(e)' = 1 - 1
        BY <1>2, <3>1 DEF Done
      <3> QED
        BY <2>1, <3>2
    <2> QED
      BY <2>2, <2>3
  <1>10. e \in Raised' <=> e \in Raised
    <2>1. CASE p = "idle"
      <3>1. e \notin Raised'
        BY <1>6, <2>1, EventsAssumption DEF Raised, Signaler, EventsAssumption
      <3>2. e \notin Raised
        BY <1>1, <1>5, <2>1 DEF Raised, Signaler
      <3> QED
        BY <3>1, <3>2
    <2>2. CASE p = "signaling"
      <3>1. e \in Raised'
        BY <1>6, <2>2 DEF Raised, Signaler, Signaling
      <3>2. e \in Raised
        BY <1>1, <1>5, <2>2 DEF Raised, Signaler, Signaling
      <3> QED
        BY <3>1, <3>2
    <2> QED
      BY <2>1, <2>2
  <1>11. Raised' = Raised
    BY <1>8, <1>10 DEF Raised
  <1>12. /\ ~Blocked(t) /\ ~Blocked(t)' /\ Status(t)' = Status(t)
         /\ Got(t)' = Got(t)
    BY <1>2, <1>3, <1>5, <1>6 DEF Blocked, Released, Status, Got, InWait
  <1>13. \A u \in Threads : /\ Blocked(u)' <=> Blocked(u)
                            /\ Status(u)' = Status(u) /\ Got(u)' = Got(u)
    BY <1>6, <1>12, SameStatus
  <1>14. ASSUME NEW d \in Events
         PROVE  Order(waiters[d], Still(d))' = Order(waiters[d], Still(d))
    <2>1. CASE d = e
      BY <1>2, <1>6, <1>9, <1>13, <2>1, FirstTaken DEF EventInv
    <2>2. CASE d # e
      <3>1. Entries(d)' = Entries(d)
        BY <1>6, <1>8, <2>2 DEF Entries
      <3> QED
        BY <1>6, <1>13, <2>2, <3>1, StillKept DEF EventInv
    <2> QED
      BY <2>1, <2>2
  <1>15. Queues' = Queues
    BY <1>14 DEF Queues
  <1>16. Statuses' = Statuses /\ Gots' = Gots
    BY <1>13, StatusesKept
  <1> QED
    BY <1>2, <1>7, <1>11, <1>15, <1>16 DEF CallsOK, Unmoved

\* What Fire does: to the waiter of w, at the first place c that is not dealt
\* with, and to the signal of t.
LEMMA FireMoves ==
  ASSUME EventInv, CallsOK, NEW t \in Threads, Fire(t)
  PROVE  \E e \in Events, w \in Threads, c \in Nat \ {0} :
           /\ lock[e] = t /\ (\A d \in Events : lock[d] = t => d = e)
           /\ pc[t] = "signaling" /\ UNCHANGED <<signaled, lock, waiters>>
           /\ w # t /\ (\A d \in Events : lock[d] # w)
           /\ Done(e) = c - 1 /\ c \in Entries(e) /\ waiters[e][c] = w
           /\ (e \notin Manual => c = 1)
           /\ (\A i \in Entries(e) : waiters[e][i] = w => i = c)
           /\ (\A u \in Threads \ {t, w} : Same(u))
           /\ (frame[w].fired => Same(w))
           /\ (~frame[w].fired =>
                 /\ pc[w] \in InWait /\ pc'[w] \in InWait
                 /\ frame'[w].fired /\ frame'[w].by = e /\ frame'[w].ret = frame[w].ret)
           /\ frame'[t].cursor = (IF e \in Manual THEN c + 1 ELSE c)
           /\ frame'[t].ret = frame[t].ret
           /\ pc'[t] = IF e \in Manual THEN "signaling"
                       ELSE IF frame[w].fired THEN "rejected" ELSE "woken"
  <1>1. PICK e \in Events :
          /\ frame[t].array[1] = e /\ lock[e] = t
          /\ \A d \in Events : lock[d] = t => d = e
    BY Signals DEF Fire, Signaling
  <1>2. /\ pc[t] = "signaling" /\ UNCHANGED <<signaled, lock, waiters>>
        /\ frame[t] \in Frame /\ t # None
    BY EventsAssumption DEF Fire, kernels, EventInv, VarsOK, EventsAssumption
  <1>3. PICK c \in Nat \ {0} : c = frame[t].cursor
    BY <1>2 DEF Frame
  <1>4. Done(e) = c - 1 /\ c \in Entries(e) /\ (e \notin Manual => c = 1)
    <2>1. Done(e) = c - 1
      BY <1>1, <1>2, <1>3 DEF Done
    <2>2. c <= Len(waiters[e]) /\ Len(waiters[e]) \in Nat
      BY <1>1, <1>3, StillType DEF Fire, EventInv
    <2>3. c \in 1..Len(waiters[e]) /\ c > Done(e)
      BY <2>1, <2>2
    <2>4. e \notin Manual => c = 1
      BY <1>1, <1>2, <1>3 DEF EventInv, LocksOK, SignalOK
    <2> QED
      BY <2>1, <2>3, <2>4 DEF Entries
  <1>5. PICK w \in Threads :
          /\ w = waiters[e][c] /\ Fresh(e, w)
          /\ \A i \in Entries(e) : waiters[e][i] = w => i = c
    BY <1>4, EntryType DEF EventInv, LiveOK, ListOK
  <1>6. w # t /\ pc[w] \in {"leaving"} \cup InWait /\ frame[w] \in Frame
    BY <1>2, <1>5 DEF Fresh, InWait, EventInv, VarsOK
  <1>7. /\ \A d \in Events : lock[d] # w
        /\ pc[w] = "leaving" => frame[w].fired
    <2>1. pc[w] \in Passive
      BY <1>6 DEF Passive
    <2> QED
      BY <2>1, NoLock DEF CallsOK, CallOK
  <1> DEFINE p == IF frame[w].fired THEN pc[w] ELSE Broadcast(w)
             q == IF e \in Manual THEN pc[t]
                  ELSE IF frame[w].fired THEN "rejected" ELSE "woken"
             g == [frame[w] EXCEPT !.by = IF frame[w].fired THEN @ ELSE e, !.fired = TRUE]
             h == [frame[t] EXCEPT !.cursor = IF e \in Manual THEN @ + 1 ELSE @]
  <1>8. pc' = [pc EXCEPT ![w] = p, ![t] = q]
    BY <1>1, <1>3, <1>5, <1>6 DEF Fire
  <1>9. frame' = [frame EXCEPT ![w] = g, ![t] = h]
    BY <1>1, <1>3, <1>5, <1>6 DEF Fire
  <1>10. /\ g.fired = TRUE /\ g.ret = frame[w].ret
         /\ g.by = IF frame[w].fired THEN frame[w].by ELSE e
         /\ frame[w].fired => g = frame[w]
    BY <1>6 DEF Frame
  <1>11. h.ret = frame[t].ret /\ h.cursor = IF e \in Manual THEN c + 1 ELSE c
    BY <1>2, <1>3 DEF Frame
  <1>12. /\ frame[w].fired => p = pc[w]
         /\ ~frame[w].fired => pc[w] \in InWait /\ p \in InWait
         /\ q = IF e \in Manual THEN "signaling"
                ELSE IF frame[w].fired THEN "rejected" ELSE "woken"
    BY <1>2, <1>6, <1>7 DEF Broadcast, InWait
  <1> HIDE DEF p, q, g, h
  <1>13. /\ pc'[w] = p /\ pc'[t] = q /\ frame'[w] = g /\ frame'[t] = h
         /\ \A u \in Threads \ {t, w} : Same(u)
    BY <1>6, <1>8, <1>9 DEF EventInv, VarsOK, Same
  <1>14. /\ frame[w].fired => Same(w)
         /\ ~frame[w].fired =>
              /\ pc[w] \in InWait /\ pc'[w] \in InWait
              /\ frame'[w].fired /\ frame'[w].by = e /\ frame'[w].ret = frame[w].ret
         /\ frame'[t].cursor = IF e \in Manual THEN c + 1 ELSE c
         /\ frame'[t].ret = frame[t].ret
         /\ pc'[t] = IF e \in Manual THEN "signaling"
                     ELSE IF frame[w].fired THEN "rejected" ELSE "woken"
    BY <1>10, <1>11, <1>12, <1>13 DEF Same
  <1> QED
    BY <1>1, <1>2, <1>4, <1>5, <1>6, <1>7, <1>13, <1>14

\* A signal that meets a waiter fired before passes it by; the other it
\* releases, which is the one that has waited longest.
LEMMA FireServes ==
  ASSUME EventInv, CallsOK, NEW t \in Threads, Fire(t)
  PROVE  /\ CallsOK' /\ signaled' = signaled
         /\ Unmoved \/ \E e \in Events : Service!Release(e)
  <1>1. PICK e \in Events, w \in Threads, c \in Nat \ {0} :
           /\ lock[e] = t /\ (\A d \in Events : lock[d] = t => d = e)
           /\ pc[t] = "signaling" /\ UNCHANGED <<signaled, lock, waiters>>
           /\ w # t /\ (\A d \in Events : lock[d] # w)
           /\ Done(e) = c - 1 /\ c \in Entries(e) /\ waiters[e][c] = w
           /\ (e \notin Manual => c = 1)
           /\ (\A i \in Entries(e) : waiters[e][i] = w => i = c)
           /\ (\A u \in Threads \ {t, w} : Same(u))
           /\ (frame[w].fired => Same(w))
           /\ (~frame[w].fired =>
                 /\ pc[w] \in InWait /\ pc'[w] \in InWait
                 /\ frame'[w].fired /\ frame'[w].by = e /\ frame'[w].ret = frame[w].ret)
           /\ frame'[t].cursor = (IF e \in Manual THEN c + 1 ELSE c)
           /\ frame'[t].ret = frame[t].ret
           /\ pc'[t] = IF e \in Manual THEN "signaling"
                       ELSE IF frame[w].fired THEN "rejected" ELSE "woken"
    BY FireMoves
  <1>2. t # None /\ w # None /\ frame[t].ret = None
    BY <1>1, EventsAssumption DEF EventsAssumption, CallsOK, CallOK
  <1>3. ASSUME NEW u \in Threads PROVE CallOK(u)'
    <2>1. CASE u = t
      BY <1>1, <1>2, <2>1 DEF CallOK, InWait
    <2>2. CASE u = w /\ ~frame[w].fired
      BY <1>1, <2>2 DEF CallOK, InWait, CallsOK
    <2>3. CASE u # t /\ ~(u = w /\ ~frame[w].fired)
      <3>1. Same(u)
        BY <1>1, <2>3
      <3> QED
        BY <1>1, <3>1, CallKept DEF CallsOK
    <2> QED
      BY <2>1, <2>2, <2>3
  <1>4. \A d \in Events \ {e} : Done(d)' = Done(d) /\ (d \in Raised' <=> d \in Raised)
    <2> SUFFICES ASSUME NEW d \in Events \ {e}
                 PROVE  Done(d)' = Done(d) /\ (d \in Raised' <=> d \in Raised)
      OBVIOUS
    <2>1. \A u \in Threads : lock[d] = u => Same(u)
      BY <1>1
    <2> QED
      BY <1>1, <2>1, HolderKept DEF EventInv
  <1>5. Done(e)' = c
    <2>1. lock'[e] = t
      BY <1>1
    <2>2. CASE e \in Manual
      <3>1. pc'[t] = "signaling" /\ frame'[t].cursor = c + 1
        BY <1>1, <2>2
      <3>2. Done(e)' = (c + 1) - 1
        BY <1>2, <2>1, <3>1 DEF Done
      <3> QED
        BY <3>2
    <2>3. CASE e \notin Manual
      <3>1. pc'[t] \in {"rejected", "woken"} /\ c = 1
        BY <1>1, <2>3
      <3> QED
        BY <1>2, <2>1, <3>1 DEF Done
    <2> QED
      BY <2>2, <2>3
  <1>6. /\ Entries(e)' \subseteq Entries(e)
        /\ \A i \in Entries(e) : i \in Entries(e)' \/ i = c
    BY <1>1, <1>5 DEF Entries
  <1>7. \A d \in Events \ {e} : Entries(d)' = Entries(d)
    BY <1>1, <1>4 DEF Entries
  <1>8. /\ ~Blocked(t) /\ ~Blocked(t)' /\ Status(t)' = Status(t)
        /\ Got(t)' = Got(t)
    BY <1>1 DEF Blocked, Released, Status, Got, InWait
  <1>9. e \in Raised
    BY <1>1 DEF Raised, Signaler, Signaling
  <1>10. e \in Raised' <=> e \in Manual \/ frame[w].fired
    BY <1>1 DEF Raised, Signaler, Signaling
  <1>11. CASE frame[w].fired
    <2>1. ~Blocked(w)
      BY <1>11 DEF Blocked
    <2>2. \A u \in Threads : /\ Blocked(u)' <=> Blocked(u)
                             /\ Status(u)' = Status(u) /\ Got(u)' = Got(u)
      BY <1>1, <1>8, <1>11, SameStatus
    <2>3. ASSUME NEW d \in Events
          PROVE  Order(waiters[d], Still(d))' = Order(waiters[d], Still(d))
      <3>1. CASE d = e
        <4>1. \A i \in Entries(e) : i \in Entries(e)' \/ ~Blocked(waiters[e][i])
          BY <1>1, <1>6, <2>1
        <4> QED
          BY <1>1, <1>6, <2>2, <3>1, <4>1, StillKept DEF EventInv
      <3>2. CASE d # e
        BY <1>1, <1>7, <2>2, <3>2, StillKept DEF EventInv
      <3> QED
        BY <3>1, <3>2
    <2>4. Queues' = Queues
      BY <2>3 DEF Queues
    <2>5. Raised' = Raised
      BY <1>4, <1>9, <1>10, <1>11 DEF Raised
    <2>6. Statuses' = Statuses /\ Gots' = Gots
      BY <2>2, StatusesKept
    <2> QED
      BY <1>1, <1>3, <2>4, <2>5, <2>6 DEF CallsOK, Unmoved
  <1>12. CASE ~frame[w].fired
    <2>1. /\ Blocked(w) /\ ~Blocked(w)' /\ Status(w)' = "released" /\ Got(w)' = e
      BY <1>1, <1>12 DEF Blocked, Released, Status, Got
    <2>2. \A u \in Threads \ {w} : /\ Blocked(u)' <=> Blocked(u)
                                   /\ Status(u)' = Status(u) /\ Got(u)' = Got(u)
      BY <1>1, <1>8, SameStatus
    <2>3. ASSUME NEW d \in Events
          PROVE  Order(waiters[d], Still(d))'
                   = {p \in Order(waiters[d], Still(d)) : w # p[1] /\ w # p[2]}
      <3>1. CASE d = e
        <4>1. \A i \in Entries(e) : i \in Entries(e)' \/ waiters[e][i] = w
          BY <1>1, <1>6
        <4> QED
          BY <1>1, <1>6, <2>1, <2>2, <3>1, <4>1, StillLess DEF EventInv
      <3>2. CASE d # e
        BY <1>1, <1>7, <2>1, <2>2, <3>2, StillLess DEF EventInv
      <3> QED
        BY <3>1, <3>2
    <2>4. Queues' = [d \in Events |-> {p \in Queues[d] : w # p[1] /\ w # p[2]}]
      BY <2>3 DEF Queues
    <2>5. Raised' = IF e \in Manual THEN Raised ELSE Raised \ {e}
      BY <1>4, <1>9, <1>10, <1>12 DEF Raised
    <2>6. Statuses' = [Statuses EXCEPT ![w] = "released"] /\ Gots' = [Gots EXCEPT ![w] = e]
      BY <2>1, <2>2 DEF Statuses, Gots
    <2>7. c \in Still(e) /\ \A i \in Still(e) : c <= i
      BY <1>1, <2>1 DEF Still, Entries
    <2>8. w \in Service!Waiting(e)
      <3>1. PICK s, I : s = waiters[e] /\ I = Still(e)
        OBVIOUS
      <3>2. I \in SUBSET Int /\ c \in I /\ s[c] = w
        BY <1>1, <2>7, <3>1, StillType DEF EventInv
      <3>3. <<w, w>> \in Order(s, I)
        BY <3>2, InQueue
      <3> QED
        BY <3>1, <3>3 DEF Queues, Service!Waiting
    <2>9. Service!First(e, w)
      <3> SUFFICES ASSUME NEW u \in Threads, <<u, u>> \in Queues[e]
                   PROVE  <<w, u>> \in Queues[e]
        BY DEF Service!First, Service!Waiting
      <3>1. PICK s, I : s = waiters[e] /\ I = Still(e)
        OBVIOUS
      <3>2. I \in SUBSET Int /\ c \in I /\ s[c] = w /\ Queues[e] = Order(s, I)
        BY <1>1, <2>7, <3>1, StillType DEF EventInv, Queues
      <3>3. PICK i \in I : s[i] = u
        BY <3>2, InQueue
      <3>4. c <= i /\ <<w, u>> = <<s[c], s[i]>>
        BY <2>7, <3>1, <3>2, <3>3
      <3>5. <<w, u>> \in Order(s, I)
        BY <3>2, <3>4, InOrder
      <3> QED
        BY <3>2, <3>5
    <2>10. Service!Release(e)
      BY <1>1, <1>9, <2>4, <2>5, <2>6, <2>8, <2>9 DEF Service!Release, Service!Leaves
    <2> QED
      BY <1>1, <1>3, <2>10 DEF CallsOK
  <1> QED
    BY <1>11, <1>12

\* One that begins to wait stands behind all that wait.
LEMMA StillMore ==
  ASSUME VarsOK, NEW e \in Events, NEW t \in Threads,
         waiters'[e] = Append(waiters[e], t), Done(e) = 0, Done(e)' = 0,
         \A i \in Entries(e) : waiters[e][i] # t,
         Blocked(t)', \A u \in Threads \ {t} : Blocked(u)' <=> Blocked(u)
  PROVE  Order(waiters[e], Still(e))'
           = Order(waiters[e], Still(e))
               \cup {<<u, t>> : u \in {v \in Threads : <<v, v>> \in Order(waiters[e], Still(e))}
                                        \cup {t}}
  <1>1. PICK s : s = waiters[e]
    OBVIOUS
  <1>2. PICK r : r = waiters'[e]
    OBVIOUS
  <1>3. PICK n \in Nat : /\ n = Len(s) /\ Len(r) = n + 1
                         /\ \A i \in 1..n : r[i] = s[i] /\ s[i] \in Threads
                         /\ r[n + 1] = t
    <2>1. s \in Seq(Threads) /\ Len(s) \in Nat /\ r = Append(s, t)
      BY <1>1, <1>2, StillType
    <2>2. /\ Len(r) = Len(s) + 1 /\ r[Len(s) + 1] = t
          /\ \A i \in 1..Len(s) : r[i] = s[i]
      BY <2>1, AppendProperties
    <2>3. \A i \in 1..Len(s) : s[i] \in Threads
      BY <2>1, ElementOfSeq
    <2> QED
      BY <2>1, <2>2, <2>3
  <1>4. PICK I \in SUBSET (1..n) : I = Still(e)
    BY <1>1, <1>3, StillType
  <1>5. \A i \in 1..n : i \in I <=> Blocked(s[i])
    BY <1>1, <1>3, <1>4 DEF Still, Entries
  <1>6. \A i \in 1..n : s[i] # t
    BY <1>1, <1>3 DEF Entries
  <1>7. Still(e)' = I \cup {n + 1}
    <2>1. \A i : i \in Entries(e)' <=> i \in 1..(n + 1)
      BY <1>2, <1>3 DEF Entries
    <2>2. \A i : i \in Still(e)' <=> i \in 1..(n + 1) /\ Blocked(r[i])'
      BY <1>2, <2>1 DEF Still
    <2>3. \A i \in 1..n : Blocked(r[i])' <=> Blocked(s[i])
      <3> SUFFICES ASSUME NEW i \in 1..n PROVE Blocked(r[i])' <=> Blocked(s[i])
        OBVIOUS
      <3>1. PICK u \in Threads \ {t} : u = s[i]
        BY <1>3, <1>6
      <3>2. Blocked(u)' <=> Blocked(u)
        OBVIOUS
      <3>3. r[i] = u
        BY <1>3, <3>1
      <3> QED
        BY <3>1, <3>2, <3>3 DEF Blocked
    <2>4. Blocked(r[n + 1])'
      BY <1>3 DEF Blocked
    <2>5. \A i : i \in 1..(n + 1) <=> i \in 1..n \/ i = n + 1
      OBVIOUS
    <2> QED
      BY <1>5, <2>2, <2>3, <2>4, <2>5
  <1>8. PICK J \in SUBSET Int : J = Still(e)'
    BY <1>7
  <1>9. Lengthened(s, r, I, J, n, t)
    BY <1>3, <1>7, <1>8 DEF Lengthened
  <1>10. I \in SUBSET Int
    OBVIOUS
  <1>11. \A p : p \in Order(r, J) <=>
                  \/ p \in Order(s, I)
                  \/ p = <<t, t>> \/ \E i \in I : p = <<s[i], t>>
    BY ONLY <1>8, <1>9, <1>10, OrderAppended
  <1>12. \A v : <<v, v>> \in Order(s, I) <=> \E i \in I : s[i] = v
    BY <1>10, InQueue
  <1>13. \A i \in I : s[i] \in Threads
    BY <1>3
  <1>14. Order(r, J) =
           Order(s, I)
             \cup {<<u, t>> : u \in {v \in Threads : <<v, v>> \in Order(s, I)} \cup {t}}
    <2> DEFINE Before == {v \in Threads : <<v, v>> \in Order(s, I)}
    <2>1. \A v : v \in Before <=> \E i \in I : s[i] = v
      BY <1>12, <1>13
    <2> HIDE DEF Before
    <2>2. \A p : p \in {<<u, t>> : u \in Before \cup {t}} <=>
                   p = <<t, t>> \/ \E i \in I : p = <<s[i], t>>
      BY ONLY <2>1
    <2>3. Order(r, J) = Order(s, I) \cup {<<u, t>> : u \in Before \cup {t}}
      BY ONLY <1>11, <2>2
    <2> QED
      BY <2>3 DEF Before
  <1>15. Order(waiters[e], Still(e))' = Order(r, J)
    BY <1>2, <1>8 DEF Order
  <1> QED
    BY <1>1, <1>4, <1>14, <1>15

\* A thread outside of a wait has no entry that matters.
LEMMA NotListed ==
  ASSUME EventInv, NEW t \in Threads, pc[t] \in {"idle", "locking"}, NEW e \in Events
  PROVE  \A i \in Entries(e) : waiters[e][i] # t
  BY DEF EventInv, LiveOK, ListOK, Fresh, InWait

LEMMA BlockServes ==
  ASSUME EventInv, NEW t \in Threads, NEW S \in SUBSET Events, S # {},
         pc[t] \in {"idle", "locking"}, frame[t].ret = None,
         pc'[t] = "enqueued", ~frame'[t].fired, frame'[t].ret = None,
         \A u \in Threads \ {t} : Same(u),
         Enqueue(t, S), signaled' = signaled, Raised' = Raised,
         \A e \in S : e \notin signaled /\ e \notin Raised /\ Done(e) = 0,
         \A e \in Events : Done(e)' = Done(e)
  PROVE  Service!Block(t, S)
  <1>1. /\ \A e \in S : waiters'[e] = Append(waiters[e], t)
        /\ \A e \in Events \ S : waiters'[e] = waiters[e]
    BY DEF Enqueue
  <1>2. /\ Blocked(t)' /\ Status(t)' = "waiting" /\ Status(t) = "out"
        /\ Got(t) = None /\ Got(t)' = None
    BY DEF Blocked, Released, Status, Got, InWait
  <1>3. \A u \in Threads \ {t} : Blocked(u)' <=> Blocked(u)
    BY SameStatus
  <1>4. \A e \in Events : \A i \in Entries(e) : waiters[e][i] # t
    BY NotListed
  <1>5. Statuses' = [Statuses EXCEPT ![t] = "waiting"] /\ Statuses[t] = "out" /\ Gots' = Gots
    BY <1>2, SameStatus DEF Statuses, Gots
  <1>6. ASSUME NEW e \in S
        PROVE  Queues'[e] = Queues[e] \cup {<<u, t>> : u \in Service!Waiting(e) \cup {t}}
    <2>1. Queues'[e] = Order(waiters[e], Still(e))' /\ Queues[e] = Order(waiters[e], Still(e))
      BY DEF Queues
    <2>2. Service!Waiting(e) = {v \in Threads : <<v, v>> \in Order(waiters[e], Still(e))}
      BY <2>1 DEF Service!Waiting
    <2>3. e \in Events /\ Done(e) = 0 /\ Done(e)' = 0
      OBVIOUS
    <2> QED
      BY <1>1, <1>2, <1>3, <1>4, <2>1, <2>2, <2>3, StillMore DEF EventInv
  <1>7. ASSUME NEW e \in Events \ S PROVE Queues'[e] = Queues[e]
    <2>1. Entries(e)' = Entries(e)
      BY <1>1 DEF Entries
    <2>2. \A u \in Threads :
            (\E i \in Entries(e) : waiters[e][i] = u) => (Blocked(u)' <=> Blocked(u))
      BY <1>3, <1>4
    <2>3. Order(waiters[e], Still(e))' = Order(waiters[e], Still(e))
      BY <1>1, <2>1, <2>2, StillKept DEF EventInv
    <2> QED
      BY <2>3 DEF Queues
  <1>8. Queues' = [e \in Events |->
                     IF e \in S THEN Queues[e] \cup {<<u, t>> : u \in Service!Waiting(e) \cup {t}}
                     ELSE Queues[e]]
    <2>1. Queues' = [e \in Events |-> Queues'[e]]
      BY DEF Queues
    <2> QED
      BY <1>6, <1>7, <2>1
  <1>9. S \cap (signaled \cup Raised) = {}
    OBVIOUS
  <1> QED
    BY <1>5, <1>8, <1>9 DEF Service!Block

LEMMA WaitServes ==
  ASSUME EventInv, CallsOK, NEW t \in Threads, NEW e \in Events, NEW finite \in BOOLEAN,
         Wait(t, e, finite)
  PROVE  /\ CallsOK'
         /\ Service!Take(t, e) \/ Service!Block(t, {e}) \/ (Unmoved /\ signaled' = signaled)
  <1>1. pc[t] = "idle" /\ lock[e] = None /\ UNCHANGED lock
    BY DEF Wait, Call
  <1>2. CASE e \in signaled
    <2>1. UNCHANGED <<lock, waiters, pc, frame>> /\ Consume(e)
      BY <1>1, <1>2 DEF Wait
    <2>2. CallsOK' /\ (Service!Take(t, e) \/ (Unmoved /\ signaled' = signaled))
      BY <1>1, <2>1, TakenServes
    <2> QED
      BY <2>2
  <1>3. CASE e \notin signaled
    <2>1. PICK g : g = NewFrame(<<e>>, finite) /\ g.ret = None /\ g.fired = FALSE
      <3>1. NewFrame(<<e>>, finite).ret = None /\ NewFrame(<<e>>, finite).fired = FALSE
        BY DEF NewFrame
      <3> QED
        BY <3>1
    <2>2. /\ signaled' = signaled /\ pc' = [pc EXCEPT ![t] = "enqueued"]
          /\ frame' = [frame EXCEPT ![t] = g] /\ Enqueue(t, {e})
      BY <1>3, <2>1 DEF Wait, Begin, Goto
    <2>3. pc'[t] = "enqueued" /\ frame'[t] = g /\ \A u \in Threads \ {t} : Same(u)
      BY <2>2, OneMoves DEF EventInv
    <2>4. /\ \A u \in Threads \ {t} : CallOK(u)'
          /\ Raised' = Raised
          /\ \A d \in Events : Done(d)' = Done(d)
      BY <1>1, <2>2, <2>3, PassiveMoves DEF Passive
    <2>5. CallOK(t)'
      BY <2>1, <2>3 DEF CallOK, InWait
    <2>6. e \notin Raised /\ Done(e) = 0 /\ frame[t].ret = None
      BY <1>1, NotRaised DEF Done, CallsOK, CallOK
    <2>7. {e} \in SUBSET Events /\ {e} # {}
      OBVIOUS
    <2>8. Service!Block(t, {e})
      BY <1>1, <1>3, <2>1, <2>2, <2>3, <2>4, <2>6, <2>7, BlockServes
    <2> QED
      BY <2>4, <2>5, <2>8 DEF CallsOK
  <1> QED
    BY <1>2, <1>3

LEMMA LockNextServes ==
  ASSUME EventInv, CallsOK, NEW t \in Threads, LockNext(t)
  PROVE  /\ CallsOK'
         /\ \/ \E e \in Events : Service!Take(t, e)
            \/ \E S \in SUBSET Events : Service!Block(t, S)
            \/ Unmoved /\ signaled' = signaled
  <1>1. /\ pc[t] = "locking" /\ t # None /\ Waited(t) \subseteq Events
        /\ ToLock(t) # {} /\ ToLock(t) \subseteq Waited(t)
        /\ frame[t] \in Frame /\ frame[t].fired = FALSE /\ frame[t].by = None
        /\ frame[t].ret = None
    <2>1. frame[t] \in Frame /\ frame[t].array \in Seq(Events) /\ frame[t].fired \in BOOLEAN
      BY DEF EventInv, VarsOK, Frame
    <2> QED
      BY <2>1, EventsAssumption, ElementOfSeq
         DEF LockNext, EventsAssumption, EventInv, LocksOK, LockingOK, Waited, ToLock,
             CallsOK, CallOK
  <1>2. PICK e \in ToLock(t) : e = NextToLock(t)
    <2>1. ToLock(t) \in SUBSET Nat
      BY <1>1, EventsAssumption DEF EventsAssumption
    <2> QED
      BY <1>1, <2>1, LeastNumber DEF NextToLock
  <1>3. e \in Events /\ lock[e] = None
    BY <1>1, <1>2 DEF LockNext
  <1>4. \A d \in Events : lock[d] \in {None, t} => d \notin Raised
    BY <1>1, EventsAssumption DEF Raised, Signaler, Signaling, EventsAssumption
  <1>5. CASE e \in signaled
    <2>1. /\ Consume(e) /\ UnlockAll(t) /\ UNCHANGED waiters
          /\ pc' = [pc EXCEPT ![t] = "idle"] /\ frame' = [frame EXCEPT ![t] = NoFrame]
      BY <1>2, <1>5 DEF LockNext, End, Begin, Goto
    <2>2. /\ pc'[t] = "idle" /\ frame'[t] = NoFrame
          /\ \A d \in Events : Done(d)' = Done(d)
      BY <1>1, <2>1, NoFrameType, Unlocked
    <2>3. \A u \in Threads \ {t} : Same(u)
      BY <2>1, OneMoves DEF EventInv
    <2>4. \A d \in Events : lock'[d] = IF lock[d] = t THEN None ELSE lock[d]
      BY <2>1 DEF UnlockAll
    <2>5. NoFrame.ret = None
      BY DEF NoFrame, NewFrame
    <2>6. ASSUME NEW u \in Threads PROVE CallOK(u)'
      <3>0. u # None
        BY EventsAssumption DEF EventsAssumption
      <3>1. CASE u = t
        BY <2>2, <2>5, <3>1 DEF CallOK, InWait
      <3>2. CASE u # t
        <4>1. \A d \in Events :
                lock'[d] = u => lock[d] = u /\ (d \in signaled' => d \in signaled)
          BY <2>1, <2>4, <3>0 DEF Consume
        <4> QED
          BY <2>3, <3>2, <4>1, CallKept DEF CallsOK
      <3> QED
        BY <3>1, <3>2
    <2>7. Raised' = Raised
      <3>1. ASSUME NEW d \in Events PROVE d \in Raised' <=> d \in Raised
        <4>1. CASE lock[d] \in {None, t}
          <5>1. lock'[d] = None
            BY <2>4, <4>1
          <5>2. d \notin Raised'
            BY <5>1, EventsAssumption DEF Raised, Signaler, EventsAssumption
          <5> QED
            BY <1>4, <4>1, <5>2
        <4>2. CASE lock[d] \notin {None, t}
          BY <2>3, <2>4, <4>2, HolderKept DEF EventInv
        <4> QED
          BY <4>1, <4>2
      <3> QED
        BY <3>1 DEF Raised
    <2>8. /\ ~Blocked(t) /\ ~Blocked(t)' /\ Status(t)' = Status(t)
          /\ Got(t)' = Got(t)
      BY <1>1, <2>2, <2>5 DEF Blocked, Released, Status, Got, InWait
    <2>9. \A u \in Threads : /\ Blocked(u)' <=> Blocked(u)
                             /\ Status(u)' = Status(u) /\ Got(u)' = Got(u)
      BY <2>3, <2>8, SameStatus
    <2>10. Queues' = Queues
      BY <2>1, <2>2, <2>9, QueuesKept DEF EventInv
    <2>11. Statuses' = Statuses /\ Gots' = Gots
      BY <2>9, StatusesKept
    <2>12. Service!Take(t, e)
      BY <1>1, <1>5, <2>1, <2>7, <2>10, <2>11, StatusOut DEF Consume, Service!Take
    <2> QED
      BY <1>3, <2>6, <2>12 DEF CallsOK
  <1>6. CASE e \notin signaled /\ ToLock(t) # {e}
    <2>1. lock' = [lock EXCEPT ![e] = t] /\ UNCHANGED <<signaled, waiters, pc, frame>>
      BY <1>2, <1>6 DEF LockNext
    <2>2. lock'[e] = t /\ \A d \in Events \ {e} : lock'[d] = lock[d]
      BY <1>3, <2>1 DEF EventInv, VarsOK
    <2>3. ASSUME NEW u \in Threads PROVE CallOK(u)'
      <3>1. CASE u = t
        BY <1>1, <1>6, <2>1, <2>2, <3>1 DEF CallsOK, CallOK, InWait
      <3>2. CASE u # t
        <4>1. \A d \in Events : lock'[d] = u => lock[d] = u
          BY <2>2, <3>2
        <4> QED
          BY <2>1, <4>1, CallKept DEF CallsOK, Same
      <3> QED
        BY <3>1, <3>2
    <2>4. ASSUME NEW d \in Events PROVE Done(d)' = Done(d) /\ (d \in Raised' <=> d \in Raised)
      <3>1. CASE d = e
        <4>1. d \notin Raised /\ d \notin Raised'
          BY <1>1, <1>3, <1>4, <2>1, <2>2, <3>1 DEF Raised, Signaler, Signaling
        <4>2. Done(d) = 0 /\ Done(d)' = 0
          BY <1>1, <1>3, <2>1, <2>2, <3>1 DEF Done
        <4> QED
          BY <4>1, <4>2
      <3>2. CASE d # e
        BY <2>1, <2>2, <3>2, HolderKept DEF EventInv, Same
      <3> QED
        BY <3>1, <3>2
    <2>5. \A u \in Threads : /\ Blocked(u)' <=> Blocked(u)
                             /\ Status(u)' = Status(u) /\ Got(u)' = Got(u)
      BY <2>1, SameStatus DEF Same
    <2>6. Queues' = Queues
      BY <2>1, <2>4, <2>5, QueuesKept DEF EventInv
    <2>7. Statuses' = Statuses /\ Gots' = Gots
      BY <2>5, StatusesKept
    <2>8. Raised' = Raised
      BY <2>4 DEF Raised
    <2> QED
      BY <2>1, <2>3, <2>6, <2>7, <2>8 DEF CallsOK, Unmoved
  <1>7. CASE e \notin signaled /\ ToLock(t) = {e}
    <2>1. /\ signaled' = signaled /\ UnlockAll(t) /\ pc' = [pc EXCEPT ![t] = "enqueued"]
          /\ frame' = [frame EXCEPT ![t] = frame[t]] /\ Enqueue(t, Waited(t))
      BY <1>1, <1>2, <1>7 DEF LockNext, Goto, EventInv, VarsOK
    <2>2. \A d \in Events : d \in Waited(t) <=> lock[d] = t \/ d = e
      BY <1>1, <1>2, <1>7 DEF ToLock, EventInv, LocksOK, HoldsOK
    <2>3. /\ pc'[t] = "enqueued" /\ frame'[t] = frame[t]
          /\ \A d \in Events : Done(d)' = Done(d) /\ Done(d) \in Nat
          /\ \A d \in Events : lock[d] \in {None, t} => Done(d) = 0
      <3>1. \A d \in Events : lock[d] \notin {None, t} => waiters'[d] = waiters[d]
        BY <1>3, <2>1, <2>2 DEF Enqueue
      <3> QED
        BY <1>1, <2>1, <3>1, Unlocked
    <2>4. \A u \in Threads \ {t} : Same(u)
      BY <2>1, OneMoves DEF EventInv
    <2>5. \A d \in Events : lock'[d] = IF lock[d] = t THEN None ELSE lock[d]
      BY <2>1 DEF UnlockAll
    <2>6. ASSUME NEW u \in Threads PROVE CallOK(u)'
      <3>0. u # None
        BY EventsAssumption DEF EventsAssumption
      <3>1. CASE u = t
        BY <1>1, <2>3, <3>1 DEF CallOK, InWait
      <3>2. CASE u # t
        <4>1. \A d \in Events : lock'[d] = u => lock[d] = u
          BY <2>5, <3>0
        <4> QED
          BY <2>1, <2>4, <3>2, <4>1, CallKept DEF CallsOK
      <3> QED
        BY <3>1, <3>2
    <2>7. Raised' = Raised
      <3>1. ASSUME NEW d \in Events PROVE d \in Raised' <=> d \in Raised
        <4>1. CASE lock[d] \in {None, t}
          <5>1. lock'[d] = None
            BY <2>5, <4>1
          <5>2. d \notin Raised'
            BY <5>1, EventsAssumption DEF Raised, Signaler, EventsAssumption
          <5> QED
            BY <1>4, <4>1, <5>2
        <4>2. CASE lock[d] \notin {None, t}
          BY <2>4, <2>5, <4>2, HolderKept DEF EventInv
        <4> QED
          BY <4>1, <4>2
      <3> QED
        BY <3>1 DEF Raised
    <2>8. \A d \in Waited(t) : d \notin signaled /\ d \notin Raised /\ Done(d) = 0
      <3> SUFFICES ASSUME NEW d \in Waited(t)
                   PROVE  d \notin signaled /\ d \notin Raised /\ Done(d) = 0
        OBVIOUS
      <3>1. d \in Events /\ (lock[d] = t \/ d = e)
        BY <1>1, <2>2
      <3>2. d \notin signaled
        BY <1>1, <1>7, <3>1 DEF CallsOK, CallOK
      <3> QED
        BY <1>3, <1>4, <2>3, <3>1, <3>2
    <2>9. Waited(t) \in SUBSET Events /\ Waited(t) # {}
      BY <1>1
    <2>10. PICK S \in SUBSET Events : S = Waited(t)
      BY <2>9
    <2>11. Service!Block(t, S)
      BY <1>1, <2>1, <2>3, <2>4, <2>7, <2>8, <2>9, <2>10, BlockServes
    <2> QED
      BY <2>6, <2>11 DEF CallsOK
  <1> QED
    BY <1>5, <1>6, <1>7

LEMMA CallsInit == Init => CallsOK
  BY EventsAssumption
     DEF Init, CallsOK, CallOK, NoFrame, NewFrame, InWait, EventsAssumption

LEMMA ServiceInit == Init => Service!EInit
  <1> SUFFICES ASSUME Init PROVE Service!EInit
    OBVIOUS
  <1>1. Raised = {}
    BY DEF Init, Raised, Signaler, Signaling
  <1>2. \A e \in Events : Order(waiters[e], Still(e)) = {}
    BY EmptySeq DEF Init, Order, Still, Entries
  <1>3. \A t \in Threads : Status(t) = "out" /\ Got(t) = None
    BY DEF Init, Status, Got, Blocked, Released, InWait, NoFrame, NewFrame
  <1> QED
    BY <1>1, <1>2, <1>3 DEF Init, Service!EInit, Queues, Statuses, Gots

\* Every step of the wait lists is a step of the service or nothing to it.
LEMMA EventServiceStep ==
  EventInv /\ CallsOK /\ [Next]_vars => CallsOK' /\ [Service!ENext]_(Service!evars)
  <1> SUFFICES ASSUME EventInv, CallsOK, [Next]_vars
               PROVE  CallsOK' /\ [Service!ENext]_(Service!evars)
    OBVIOUS
  <1>0. Unmoved /\ signaled' = signaled => [Service!ENext]_(Service!evars)
    BY DEF Unmoved, Service!evars
  <1>1. CASE UNCHANGED vars
    <2>1. UNCHANGED <<lock, waiters, pc, frame>> /\ signaled' = signaled
      BY <1>1 DEF vars
    <2> QED
      BY <1>0, <2>1, CallsSame, ListsSame
  <1>2. ASSUME NEW t \in Threads, Step(t)
        PROVE  CallsOK' /\ [Service!ENext]_(Service!evars)
    <2>1. CASE Fire(t)
      BY <1>0, <2>1, FireServes DEF Service!ENext
    <2>2. CASE PopFront(t)
      BY <1>0, <2>2, PopFrontServes
    <2>3. CASE EndSignal(t)
      BY <2>3, EndSignalServes DEF Service!ENext
    <2>4. CASE Test(t)
      BY <1>0, <2>4, TestServes DEF Service!ENext
    <2>5. CASE Dequeue(t)
      BY <1>0, <2>5, DequeueServes
    <2>6. CASE Return(t)
      BY <2>6, ReturnServes DEF Service!ENext
    <2>7. CASE LockNext(t)
      BY <1>0, <2>7, LockNextServes DEF Service!ENext
    <2> QED
      BY <1>2, <2>1, <2>2, <2>3, <2>4, <2>5, <2>6, <2>7 DEF Step
  <1>3. ASSUME NEW t \in Threads, NEW e \in Events,
               \/ Reset(t, e) \/ IsSignaled(t, e) \/ Signal(t, e)
               \/ \E finite \in BOOLEAN : Wait(t, e, finite)
        PROVE  CallsOK' /\ [Service!ENext]_(Service!evars)
    <2>1. CASE Reset(t, e)
      BY <2>1, ResetServes DEF Service!ENext
    <2>2. CASE IsSignaled(t, e)
      <3>1. pc[t] = "idle" /\ UNCHANGED <<lock, waiters, pc, frame>> /\ Consume(e)
        BY <2>2 DEF IsSignaled, Call
      <3> QED
        BY <1>0, <3>1, TakenServes DEF Service!ENext
    <2>3. CASE Signal(t, e)
      BY <1>0, <2>3, SignalServes DEF Service!ENext
    <2>4. ASSUME NEW finite \in BOOLEAN, Wait(t, e, finite)
          PROVE  CallsOK' /\ [Service!ENext]_(Service!evars)
      <3>1. /\ CallsOK'
            /\ \/ Service!Take(t, e) \/ Service!Block(t, {e})
               \/ Unmoved /\ signaled' = signaled
        BY <2>4, WaitServes
      <3>2. {e} \in SUBSET Events
        OBVIOUS
      <3> QED
        BY <1>0, <3>1, <3>2 DEF Service!ENext
    <2> QED
      BY <1>3, <2>1, <2>2, <2>3, <2>4
  <1>4. ASSUME NEW t \in Threads, NEW a \in Arrays, WaitMultiple(t, a)
        PROVE  CallsOK' /\ [Service!ENext]_(Service!evars)
    BY <1>0, <1>4, WaitMultipleServes
  <1>5. ASSUME NEW t \in Threads, Elapse(t) \/ WakeUp(t)
        PROVE  CallsOK' /\ [Service!ENext]_(Service!evars)
    BY <1>0, <1>5, ElapseServes, WakeUpServes
  <1> QED
    BY <1>1, <1>2, <1>3, <1>4, <1>5 DEF Next

\* To the threads that signal and wait, the wait lists are the EventService:
\* whatever locks, waiters and time-outs do, a signal of an auto-reset event
\* releases exactly the wait that has lasted longest or stays for the next, and is
\* never spent on one that ended by its time-out or for another event.
THEOREM EventsImplementService == Spec => ImplementsEventService
  <1> DEFINE Inv == EventInv /\ CallsOK
  <1>1. Init => Inv
    BY EventInit, CallsInit
  <1>2. Inv /\ [Next]_vars => Inv'
    BY EventStep, EventServiceStep
  <1>3. Init => Service!EInit
    BY ServiceInit
  <1>4. Inv /\ [Next]_vars => [Service!ENext]_(Service!evars)
    BY EventServiceStep
  <1> HIDE DEF Inv
  <1> QED
    BY <1>1, <1>2, <1>3, <1>4, PTL DEF Spec, ImplementsEventService, Service!ESpec
=============================================================================
