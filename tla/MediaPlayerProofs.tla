------------------------- MODULE MediaPlayerProofs -------------------------
(***************************************************************************)
(* For any files and any number of frames and calls: no bitmap of the      *)
(* player is forgotten, and the status is PS_STOP between playbacks.       *)
(***************************************************************************)
EXTENDS MediaPlayer, TLAPS, FiniteSetTheorems, SequenceTheorems

(***************************************************************************)
(* The frames in the queue of the UI thread                                *)
(***************************************************************************)

UITasks == {"frame", "duration", "invalidate"}
Frames(s) == {i \in 1..Len(s) : s[i] = "frame"}

LEMMA FramesFinite ==
  ASSUME NEW s \in Seq(UITasks)
  PROVE  IsFiniteSet(Frames(s)) /\ Cardinality(Frames(s)) \in Nat
  <1>1. Frames(s) \in SUBSET (1..Len(s)) /\ Len(s) \in Nat
    BY LenProperties DEF Frames
  <1>2. IsFiniteSet(1..Len(s))
    BY <1>1, FS_Interval
  <1>3. IsFiniteSet(Frames(s))
    BY <1>1, <1>2, FS_Subset
  <1> QED
    BY <1>3, FS_CardinalityType

\* Posting a task adds one frame if it is one.
LEMMA FramesAppend ==
  ASSUME NEW s \in Seq(UITasks), NEW t \in UITasks
  PROVE  Cardinality(Frames(Append(s, t))) =
           Cardinality(Frames(s)) + (IF t = "frame" THEN 1 ELSE 0)
  <1>1. /\ Len(Append(s, t)) = Len(s) + 1 /\ Len(s) \in Nat
        /\ \A i \in 1..Len(s) : Append(s, t)[i] = s[i]
        /\ Append(s, t)[Len(s) + 1] = t
    BY LenProperties, AppendProperties
  <1>2. CASE t = "frame"
    <2>1. Frames(Append(s, t)) = Frames(s) \cup {Len(s) + 1} /\ Len(s) + 1 \notin Frames(s)
      BY <1>1, <1>2 DEF Frames
    <2> QED
      BY <1>2, <2>1, FramesFinite, FS_AddElement
  <1>3. CASE t # "frame"
    <2>1. Frames(Append(s, t)) = Frames(s)
      BY <1>1, <1>3 DEF Frames
    <2> QED
      BY <1>3, <2>1, FramesFinite
  <1> QED
    BY <1>2, <1>3

\* Taking the first task removes one frame if it is one.
LEMMA FramesTail ==
  ASSUME NEW s \in Seq(UITasks), s # << >>
  PROVE  Cardinality(Frames(s)) =
           Cardinality(Frames(Tail(s))) + (IF Head(s) = "frame" THEN 1 ELSE 0)
  <1> DEFINE Rest == Frames(s) \ {1}
             shift == [i \in Frames(Tail(s)) |-> i + 1]
  <1>1. /\ Tail(s) \in Seq(UITasks) /\ Len(Tail(s)) = Len(s) - 1
        /\ \A i \in 1..Len(Tail(s)) : Tail(s)[i] = s[i + 1]
        /\ Len(s) \in Nat \ {0} /\ Head(s) = s[1]
    BY HeadTailProperties, EmptySeq, LenProperties
  <1>2. shift \in Bijection(Frames(Tail(s)), Rest)
    <2>1. shift \in [Frames(Tail(s)) -> Rest]
      BY <1>1 DEF Frames
    <2>2. \A i, j \in Frames(Tail(s)) : shift[i] = shift[j] => i = j
      BY <1>1 DEF Frames
    <2>3. \A k \in Rest : k - 1 \in Frames(Tail(s)) /\ shift[k - 1] = k
      BY <1>1 DEF Frames
    <2> HIDE DEF shift, Rest
    <2> QED
      BY <2>1, <2>2, <2>3 DEF Bijection, Injection, Surjection, IsInjective
  <1>3. Cardinality(Rest) = Cardinality(Frames(Tail(s)))
    BY <1>1, <1>2, FramesFinite, FS_Bijection DEF ExistsBijection
  <1>4. Cardinality(Rest) = IF 1 \in Frames(s) THEN Cardinality(Frames(s)) - 1
                            ELSE Cardinality(Frames(s))
    BY FramesFinite, FS_RemoveElement
  <1>5. 1 \in Frames(s) <=> Head(s) = "frame"
    BY <1>1 DEF Frames
  <1> QED
    BY <1>1, <1>3, <1>4, <1>5, FramesFinite

(***************************************************************************)
(* The invariant                                                           *)
(***************************************************************************)

\* What the UI thread still has to write, post or wait for is of its kind.
PlacesOK ==
  /\ ui.at = "write" => ui.value \in Status
  /\ ui.at = "post" => ui.file \in Files
  /\ ui.at \in {"wait", "gone"} => ~loaded
  /\ stopped => video.at \in {"idle", "start"}
  /\ ui.at = "gone" => stopped

\* Nobody but a pause can keep the status from PS_STOP until the next playback
\* has opened its file: nobody presses Pause, or the UI thread is in StopVideo.
Undisturbed == pauses = 0 \/ ui.at \in {"clear", "wait", "gone"}
StatusOK ==
  /\ Undisturbed =>
       /\ status # "pause"
       /\ video.at \in {"idle", "start", "opening", "leave"} => status = "stop"
  /\ pauses = 0 /\ ui.at = "write" => ui.value = "stop"

PlayerInv == TypeOK /\ PlacesOK /\ StatusOK /\ BitmapsAccounted

\* Where the threads are, as the steps set it.
LEMMA PlaceNames ==
  /\ "idle" \in UIPlaces /\ "write" \in UIPlaces /\ "post" \in UIPlaces /\ "clear" \in UIPlaces
  /\ "wait" \in UIPlaces /\ "draw" \in UIPlaces /\ "gone" \in UIPlaces
  /\ "idle" \in VideoPlaces /\ "start" \in VideoPlaces /\ "opening" \in VideoPlaces
  /\ "naming" \in VideoPlaces /\ "loop" \in VideoPlaces /\ "test" \in VideoPlaces
  /\ "test again" \in VideoPlaces /\ "err" \in VideoPlaces /\ "end" \in VideoPlaces
  /\ "leave" \in VideoPlaces
  BY DEF UIPlaces, VideoPlaces

LEMMA FrameNumbers ==
  /\ 0 \in 0..MaxFrames
  /\ \A n \in 1..MaxFrames : n \in 0..MaxFrames /\ n - 1 \in 0..MaxFrames
  /\ \A n \in 0..MaxFrames : n > 0 => n \in 1..MaxFrames
  BY BoundsAssumption DEF BoundsAssumption

LEMMA PlayerInit == Init => PlayerInv
  <1> SUFFICES ASSUME Init PROVE PlayerInv
    OBVIOUS
  <1> USE DEF Init, AtRest
  <1>1. /\ << >> \in Seq({"frame", "duration", "invalidate"}) /\ << >> \in Seq(Files)
        /\ ui \in UIType /\ video \in VideoType
    BY EmptySeq, FrameNumbers, PlaceNames DEF UIType, UI, VideoType, Video
  <1>2. TypeOK
    <2>1. starts \in 0..MaxStarts /\ pauses \in 0..MaxPauses /\ stops \in 0..MaxStops
      BY BoundsAssumption DEF BoundsAssumption
    <2> QED
      BY <1>1, <2>1 DEF TypeOK, Status
  <1>3. PlacesOK /\ StatusOK
    BY DEF PlacesOK, StatusOK, UI, Video
  <1>4. QueuedFrames = {}
    BY DEF QueuedFrames
  <1>5. BitmapsAccounted
    BY <1>4, FS_EmptySet DEF BitmapsAccounted
  <1> QED
    BY <1>2, <1>3, <1>5 DEF PlayerInv

\* Every step keeps the record of the UI thread.
LEMMA UIStep ==
  ASSUME PlayerInv, [Next]_vars PROVE ui' \in UIType
  <1> USE PlaceNames DEF PlayerInv, TypeOK, UIType, UI, Status, AtRest
  <1>1. ASSUME NEW f \in Files, Start(f) PROVE ui' \in UIType
    <2>1. ui' \in {ui, UI("write", "play", None), UI("write", "stop", f), UI("post", None, f)}
      BY <1>1 DEF Start
    <2>2. /\ UI("write", "play", None) \in UIType /\ UI("write", "stop", f) \in UIType
          /\ UI("post", None, f) \in UIType
      OBVIOUS
    <2> QED
      BY <2>1, <2>2
  <1>2. CASE PauseOrStartVideo
    BY <1>2 DEF PauseOrStartVideo
  <1>3. ASSUME NEW place \in {"button", "exit"}, StopVideo(place) PROVE ui' \in UIType
    BY <1>3 DEF StopVideo
  <1>4. CASE PaintScreen \/ Draw
    <2>1. ui' \in {UI("idle", None, None), UI("draw", None, None)}
      BY <1>4 DEF PaintScreen, Draw
    <2>2. UI("idle", None, None) \in UIType /\ UI("draw", None, None) \in UIType
      OBVIOUS
    <2> QED
      BY <2>1, <2>2
  <1>5. CASE BitbltCallback
    BY <1>4, <1>5 DEF BitbltCallback
  <1>6. CASE Write
    BY <1>6 DEF Write
  <1>7. CASE ClearFrame
    BY <1>7 DEF ClearFrame
  <1>8. CASE Post2VideoPlay \/ StopReturns
    <2>1. ui' \in {UI("idle", None, None), UI("gone", None, None)}
      BY <1>8 DEF Post2VideoPlay, StopReturns
    <2>2. UI("idle", None, None) \in UIType /\ UI("gone", None, None) \in UIType
      OBVIOUS
    <2> QED
      BY <2>1, <2>2
  <1>9. CASE RunOther \/ VideoStep \/ UNCHANGED vars
    <2>1. ui' = ui
      BY <1>9 DEF RunOther, VideoStep, StartPlayCallback, BeginPlayback, OpenFails,
         PostDuration, OpenSucceeds, NameFile, DecodeFrame, DecodeNothing, DecodeFails,
         TestPlay, TestPause, LeaveLoop, EndPlay, EndPlayback, vars
    <2> QED
      BY <2>1
  <1> QED
    BY <1>1, <1>2, <1>3, <1>4, <1>5, <1>6, <1>7, <1>8, <1>9 DEF Next, UIContinues, Paint

\* Every step keeps the record of the video thread.
LEMMA VideoThreadStep ==
  ASSUME PlayerInv, [Next]_vars PROVE video' \in VideoType
  <1> USE PlaceNames DEF PlayerInv, TypeOK, VideoType, Video, At, IdleVideo
  <1>1. CASE StartPlayCallback
    <2>1. Head(videoTasks) \in Files
      BY <1>1, HeadTailProperties DEF StartPlayCallback
    <2> QED
      BY <1>1, <2>1, FrameNumbers DEF StartPlayCallback
  <1>2. CASE BeginPlayback \/ OpenFails \/ OpenSucceeds \/ NameFile
    BY <1>2 DEF BeginPlayback, OpenFails, OpenSucceeds, NameFile
  <1>3. CASE PostDuration
    BY <1>3, FrameNumbers DEF PostDuration
  <1>4. CASE DecodeFrame
    <2>1. video.left > 0 /\ video.left \in 0..MaxFrames
      BY <1>4 DEF DecodeFrame, HasFrame
    <2>2. video.left - 1 \in 0..MaxFrames
      BY <2>1, FrameNumbers
    <2> QED
      BY <1>4, <2>2 DEF DecodeFrame
  <1>5. CASE DecodeNothing \/ DecodeFails
    BY <1>5 DEF DecodeNothing, DecodeFails
  <1>6. CASE TestPlay \/ TestPause
    BY <1>6 DEF TestPlay, TestPause, NextTurn
  <1>7. CASE LeaveLoop
    BY <1>7 DEF LeaveLoop, AfterPlay
  <1>8. CASE EndPlay \/ EndPlayback
    <2>1. video' \in {[video EXCEPT !.at = "leave"], Video("idle", None, 0, FALSE)}
      BY <1>8 DEF EndPlay, EndPlayback
    <2>2. [video EXCEPT !.at = "leave"] \in VideoType
      OBVIOUS
    <2>3. Video("idle", None, 0, FALSE) \in VideoType
      BY FrameNumbers
    <2> QED
      BY <2>1, <2>2, <2>3
  <1>9. CASE UNCHANGED video
    BY <1>9
  <1> QED
    BY <1>1, <1>2, <1>3, <1>4, <1>5, <1>6, <1>7, <1>8, <1>9
       DEF Next, VideoStep, UIContinues, Start, PauseOrStartVideo, StopVideo, Paint,
           BitbltCallback, RunOther, Write, Post2VideoPlay, ClearFrame, StopReturns, Draw, vars

\* Every step keeps the types of the two queues.
LEMMA QueuesStep ==
  ASSUME PlayerInv, [Next]_vars PROVE uiTasks' \in Seq(UITasks) /\ videoTasks' \in Seq(Files)
  <1> USE DEF PlayerInv, TypeOK, UITasks, screen, counts, shared
  <1>1. CASE Post2VideoPlay
    BY <1>1, AppendProperties DEF Post2VideoPlay, PlacesOK
  <1>2. CASE StopReturns
    BY <1>2, AppendProperties DEF StopReturns
  <1>3. CASE BitbltCallback \/ RunOther
    BY <1>3, HeadTailProperties DEF BitbltCallback, RunOther
  <1>4. CASE StartPlayCallback
    BY <1>4, HeadTailProperties DEF StartPlayCallback
  <1>5. CASE PostDuration \/ DecodeFrame
    <2>1. uiTasks' \in {uiTasks, Append(uiTasks, "duration"), Append(uiTasks, "frame")}
      BY <1>5 DEF PostDuration, DecodeFrame
    <2>2. videoTasks' = videoTasks
      BY <1>5 DEF PostDuration, DecodeFrame
    <2>3. /\ Append(uiTasks, "duration") \in Seq({"frame", "duration", "invalidate"})
          /\ Append(uiTasks, "frame") \in Seq({"frame", "duration", "invalidate"})
      BY AppendProperties
    <2> QED
      BY <2>1, <2>2, <2>3
  <1>6. CASE UNCHANGED <<uiTasks, videoTasks>>
    BY <1>6
  <1> QED
    BY <1>1, <1>2, <1>3, <1>4, <1>5, <1>6
       DEF Next, VideoStep, UIContinues, Start, PauseOrStartVideo, StopVideo, Paint,
           Write, ClearFrame, Draw, BeginPlayback, OpenFails, OpenSucceeds, NameFile,
           DecodeNothing, DecodeFails, TestPlay, TestPause, LeaveLoop, EndPlay,
           EndPlayback, vars

\* Every step keeps the types; the number of bitmaps is left to BitmapsStep.
LEMMA TypeStep ==
  ASSUME PlayerInv, [Next]_vars, bitmaps' \in Nat, lost' \in Nat PROVE TypeOK'
  <1>1. ui' \in UIType /\ video' \in VideoType
    BY UIStep, VideoThreadStep
  <1>2. uiTasks' \in Seq(UITasks) /\ videoTasks' \in Seq(Files)
    BY QueuesStep
  <1>3. /\ status' \in Status /\ stopped' \in BOOLEAN /\ loaded' \in BOOLEAN
        /\ curr' \in Files \cup {None}
    <2> USE DEF PlayerInv, TypeOK, PlacesOK, Status, shared, screen, VideoAt, counts
    <2>1. CASE Write \/ \E place \in {"button", "exit"} : StopVideo(place)
      BY <2>1 DEF Write, StopVideo, StopValue
    <2>2. CASE ClearFrame \/ BitbltCallback
      BY <2>2 DEF ClearFrame, BitbltCallback
    <2>3. CASE NameFile
      BY <2>3 DEF NameFile, VideoType
    <2>4. CASE BeginPlayback \/ OpenSucceeds \/ EndPlay \/ EndPlayback
      BY <2>4 DEF BeginPlayback, Begun, OpenSucceeds, EndPlay, EndPlayback
    <2>5. CASE UNCHANGED <<shared, loaded>>
      BY <2>5
    <2> QED
      BY <2>1, <2>2, <2>3, <2>4, <2>5
         DEF Next, VideoStep, UIContinues, Start, PauseOrStartVideo, Paint, RunOther,
             Post2VideoPlay, StopReturns, Draw, StartPlayCallback, OpenFails, PostDuration,
             DecodeFrame, DecodeNothing, DecodeFails, TestPlay, TestPause, LeaveLoop, vars
  <1>4. starts' \in 0..MaxStarts /\ pauses' \in 0..MaxPauses /\ stops' \in 0..MaxStops
    <2> USE BoundsAssumption DEF PlayerInv, TypeOK, BoundsAssumption
    <2>1. ASSUME NEW f \in Files, Start(f)
          PROVE starts' \in 0..MaxStarts /\ pauses' \in 0..MaxPauses /\ stops' \in 0..MaxStops
      BY <2>1 DEF Start
    <2>2. CASE PauseOrStartVideo
      BY <2>2 DEF PauseOrStartVideo
    <2>3. ASSUME NEW place \in {"button", "exit"}, StopVideo(place)
          PROVE starts' \in 0..MaxStarts /\ pauses' \in 0..MaxPauses /\ stops' \in 0..MaxStops
      BY <2>3 DEF StopVideo
    <2>4. CASE UNCHANGED counts
      BY <2>4 DEF counts
    <2> QED
      BY <2>1, <2>2, <2>3, <2>4
         DEF Next, VideoStep, UIContinues, Paint, BitbltCallback, RunOther, Write,
             Post2VideoPlay, ClearFrame, StopReturns, Draw, StartPlayCallback, BeginPlayback,
             OpenFails, PostDuration, OpenSucceeds, NameFile, DecodeFrame, DecodeNothing,
             DecodeFails, TestPlay, TestPause, LeaveLoop, EndPlay, EndPlayback, vars, counts
  <1> QED
    BY <1>1, <1>2, <1>3, <1>4 DEF TypeOK, UITasks

\* Every step leaves the threads where they have what they need.
LEMMA PlacesStep ==
  ASSUME PlayerInv, [Next]_vars PROVE PlacesOK'
  <1> USE BoundsAssumption DEF BoundsAssumption, PlayerInv, TypeOK, PlacesOK, UIType, VideoType,
          Status, UI, Video, AtRest, VideoAt, At, shared, screen, counts
  <1>0. CASE UNCHANGED vars
    BY <1>0 DEF vars
  <1>1. ASSUME NEW f \in Files, Start(f) PROVE PlacesOK'
    BY <1>1 DEF Start, Same
  <1>2. CASE PauseOrStartVideo
    BY <1>2 DEF PauseOrStartVideo
  <1>3. ASSUME NEW place \in {"button", "exit"}, StopVideo(place) PROVE PlacesOK'
    BY <1>3 DEF StopVideo, StopValue
  <1>4. CASE Paint \/ Draw
    BY <1>4 DEF Paint, PaintScreen, Draw
  <1>5. CASE BitbltCallback
    BY <1>5 DEF BitbltCallback, PaintScreen
  <1>6. CASE RunOther
    BY <1>6 DEF RunOther
  <1>7. CASE Write \/ Post2VideoPlay
    BY <1>7 DEF Write, Post2VideoPlay
  <1>8. CASE ClearFrame
    BY <1>8 DEF ClearFrame
  <1>9. CASE StopReturns
    BY <1>9 DEF StopReturns
  <1>10. CASE StartPlayCallback \/ BeginPlayback
    BY <1>10 DEF StartPlayCallback, BeginPlayback, Begun
  <1>11. CASE OpenFails \/ PostDuration
    BY <1>11 DEF OpenFails, PostDuration
  <1>12. CASE OpenSucceeds \/ NameFile
    BY <1>12 DEF OpenSucceeds, NameFile
  <1>13. CASE DecodeFrame
    BY <1>13 DEF DecodeFrame, HasFrame
  <1>14. CASE DecodeNothing \/ DecodeFails
    BY <1>14 DEF DecodeNothing, DecodeFails
  <1>15. CASE TestPlay \/ TestPause
    <2>1. ui' = ui /\ stopped' = stopped /\ loaded' = loaded
      BY <1>15 DEF TestPlay, TestPause
    <2>2. video.at \notin {"idle", "start"}
      BY <1>15 DEF TestPlay, TestPause
    <2> QED
      BY <2>1, <2>2
  <1>16. CASE LeaveLoop \/ EndPlay \/ EndPlayback
    BY <1>16 DEF LeaveLoop, AfterPlay, EndPlay, EndPlayback, IdleVideo
  <1> QED
    BY <1>0, <1>1, <1>2, <1>3, <1>4, <1>5, <1>6, <1>7, <1>8, <1>9, <1>10,
       <1>11, <1>12, <1>13, <1>14, <1>15, <1>16
       DEF Next, UIContinues, VideoStep

\* No step disturbs the status where a pause does not.
LEMMA StatusStep ==
  ASSUME PlayerInv, [Next]_vars PROVE StatusOK'
  <1> USE BoundsAssumption DEF BoundsAssumption, PlayerInv, TypeOK, PlacesOK, UIType,
          VideoType, StatusOK, Undisturbed, Status, UI, Video, AtRest, VideoAt, At, shared, screen, counts
  <1>0. CASE UNCHANGED vars
    BY <1>0 DEF vars
  <1>1. ASSUME NEW f \in Files, Start(f) PROVE StatusOK'
    BY <1>1 DEF Start, Same
  <1>2. CASE PauseOrStartVideo
    BY <1>2 DEF PauseOrStartVideo
  <1>3. ASSUME NEW place \in {"button", "exit"}, StopVideo(place) PROVE StatusOK'
    BY <1>3 DEF StopVideo, StopValue
  <1>4. CASE Paint \/ Draw
    BY <1>4 DEF Paint, PaintScreen, Draw
  <1>5. CASE BitbltCallback
    BY <1>5 DEF BitbltCallback, PaintScreen
  <1>6. CASE RunOther
    BY <1>6 DEF RunOther
  <1>7. CASE Write \/ Post2VideoPlay
    BY <1>7 DEF Write, Post2VideoPlay
  <1>8. CASE ClearFrame
    BY <1>8 DEF ClearFrame
  <1>9. CASE StopReturns
    BY <1>9 DEF StopReturns
  <1>10. CASE StartPlayCallback \/ BeginPlayback
    BY <1>10 DEF StartPlayCallback, BeginPlayback, Begun
  <1>11. CASE OpenFails \/ PostDuration
    BY <1>11 DEF OpenFails, PostDuration
  <1>12. CASE OpenSucceeds \/ NameFile
    BY <1>12 DEF OpenSucceeds, NameFile
  <1>13. CASE DecodeFrame
    BY <1>13 DEF DecodeFrame, HasFrame
  <1>14. CASE DecodeNothing \/ DecodeFails
    BY <1>14 DEF DecodeNothing, DecodeFails
  <1>15. CASE TestPlay \/ TestPause
    BY <1>15 DEF TestPlay, TestPause, NextTurn
  <1>16. CASE LeaveLoop \/ EndPlay \/ EndPlayback
    BY <1>16 DEF LeaveLoop, AfterPlay, EndPlay, EndPlayback, IdleVideo
  <1> QED
    BY <1>0, <1>1, <1>2, <1>3, <1>4, <1>5, <1>6, <1>7, <1>8, <1>9, <1>10,
       <1>11, <1>12, <1>13, <1>14, <1>15, <1>16
       DEF Next, UIContinues, VideoStep

\* Every step keeps account of the bitmaps.
LEMMA BitmapsStep ==
  ASSUME PlayerInv, [Next]_vars
  PROVE  BitmapsAccounted' /\ bitmaps' \in Nat /\ lost' \in Nat
  <1> DEFINE N == Cardinality(Frames(uiTasks))
             Shown == IF loaded THEN 1 ELSE 0
  <1>1. /\ uiTasks \in Seq(UITasks) /\ loaded \in BOOLEAN /\ lost \in Nat /\ bitmaps \in Nat
        /\ bitmaps = lost + N + Shown /\ N \in Nat
    BY FramesFinite DEF PlayerInv, TypeOK, UITasks, BitmapsAccounted, QueuedFrames, Frames
  <1>2. SUFFICES /\ bitmaps' = lost' + Cardinality(Frames(uiTasks')) + (IF loaded' THEN 1 ELSE 0)
                 /\ bitmaps' \in Nat /\ lost' \in Nat
    BY DEF BitmapsAccounted, QueuedFrames, Frames
  <1> USE DEF shared, screen, counts
  <1>3. CASE ClearFrame
    BY <1>1, <1>3 DEF ClearFrame
  <1>4. CASE StopReturns
    <2>1. /\ uiTasks' \in {uiTasks, Append(uiTasks, "invalidate")}
          /\ UNCHANGED <<loaded, bitmaps, lost>>
      BY <1>4 DEF StopReturns
    <2>2. Cardinality(Frames(Append(uiTasks, "invalidate"))) = N + 0
      BY <1>1, FramesAppend DEF UITasks
    <2>3. Cardinality(Frames(uiTasks')) = N
      <3>1. CASE uiTasks' = uiTasks
        BY <3>1
      <3>2. CASE uiTasks' = Append(uiTasks, "invalidate")
        BY <1>1, <2>2, <3>2
      <3> QED
        BY <2>1, <3>1, <3>2
    <2> QED
      BY <1>1, <2>1, <2>3
  <1>5. CASE BitbltCallback
    <2>1. uiTasks # << >> /\ Head(uiTasks) = "frame" /\ uiTasks' = Tail(uiTasks)
      BY <1>5 DEF BitbltCallback
    <2>2. \/ lost' = lost + 1 /\ UNCHANGED <<loaded, bitmaps>>
          \/ bitmaps' = bitmaps - Shown /\ loaded' = TRUE /\ lost' = lost
      BY <1>1, <1>5 DEF BitbltCallback, BitmapsAfterShow
    <2>3. Tail(uiTasks) \in Seq(UITasks)
      BY <1>1, <2>1, HeadTailProperties
    <2>4. N = Cardinality(Frames(uiTasks')) + 1 /\ Cardinality(Frames(uiTasks')) \in Nat
      BY <1>1, <2>1, <2>3, FramesTail, FramesFinite
    <2>5. Shown \in {0, 1} /\ Shown \in Nat
      OBVIOUS
    <2> HIDE DEF N
    <2>6. CASE lost' = lost + 1 /\ UNCHANGED <<loaded, bitmaps>>
      BY <1>1, <2>4, <2>5, <2>6
    <2>7. CASE bitmaps' = bitmaps - Shown /\ loaded' = TRUE /\ lost' = lost
      BY <1>1, <2>4, <2>5, <2>7
    <2> QED
      BY <2>2, <2>6, <2>7
  <1>6. CASE RunOther
    <2>1. /\ uiTasks # << >> /\ Head(uiTasks) # "frame" /\ uiTasks' = Tail(uiTasks)
          /\ UNCHANGED <<loaded, bitmaps, lost>>
      BY <1>6 DEF RunOther
    <2>2. Tail(uiTasks) \in Seq(UITasks)
      BY <1>1, <2>1, HeadTailProperties
    <2>3. N = Cardinality(Frames(Tail(uiTasks))) + 0 /\ Cardinality(Frames(Tail(uiTasks))) \in Nat
      BY <1>1, <2>1, <2>2, FramesTail, FramesFinite
    <2> QED
      BY <1>1, <2>1, <2>3
  <1>7. CASE PostDuration
    <2>1. /\ uiTasks' \in {uiTasks, Append(uiTasks, "duration")}
          /\ UNCHANGED <<loaded, bitmaps, lost>>
      BY <1>7 DEF PostDuration
    <2>2. Cardinality(Frames(Append(uiTasks, "duration"))) = N + 0
      BY <1>1, FramesAppend DEF UITasks
    <2>3. Cardinality(Frames(uiTasks')) = N
      <3>1. CASE uiTasks' = uiTasks
        BY <3>1
      <3>2. CASE uiTasks' = Append(uiTasks, "duration")
        BY <1>1, <2>2, <3>2
      <3> QED
        BY <2>1, <3>1, <3>2
    <2> QED
      BY <1>1, <2>1, <2>3
  <1>8. CASE DecodeFrame
    <2>1. /\ uiTasks' = Append(uiTasks, "frame") /\ bitmaps' = bitmaps + 1
          /\ UNCHANGED <<loaded, lost>>
      BY <1>8 DEF DecodeFrame
    <2>2. Cardinality(Frames(uiTasks')) = N + 1
      BY <1>1, <2>1, FramesAppend DEF UITasks
    <2> QED
      BY <1>1, <2>1, <2>2
  <1>9. CASE UNCHANGED <<uiTasks, loaded, bitmaps, lost>>
    BY <1>1, <1>9
  <1> QED
    BY <1>3, <1>4, <1>5, <1>6, <1>7, <1>8, <1>9
       DEF Next, VideoStep, UIContinues, Start, PauseOrStartVideo, StopVideo, Paint, Write,
           Post2VideoPlay, Draw, StartPlayCallback, BeginPlayback, OpenFails, OpenSucceeds,
           NameFile, DecodeNothing, DecodeFails, TestPlay, TestPause, LeaveLoop, EndPlay,
           EndPlayback, vars

LEMMA PlayerAlways == Spec => []PlayerInv
  <1>1. PlayerInv /\ [Next]_vars => PlayerInv'
    BY TypeStep, PlacesStep, StatusStep, BitmapsStep DEF PlayerInv
  <1> QED
    BY <1>1, PlayerInit, PTL DEF Spec

\* Every variable keeps its type; no frame is taken from a stream that has none
\* left.
THEOREM PlayerTypes == Spec => []TypeOK
  BY PlayerAlways, PTL DEF PlayerInv

\* Every bitmap that was created is queued, shown, deleted or met a
\* BitbltCallback after its playback: none is forgotten on another way.
THEOREM NoBitmapForgotten == Spec => []BitmapsAccounted
  BY PlayerAlways, PTL DEF PlayerInv

\* The assertion at the head of StartPlayCallback holds as long as nobody
\* presses Pause.
THEOREM PlaybackStartsStopped == Spec => []StartsStopped
  <1>1. PlayerInv => StartsStopped
    BY DEF PlayerInv, StatusOK, Undisturbed, StartsStopped
  <1> QED
    BY <1>1, PlayerAlways, PTL

\* A player is destroyed only at rest.
THEOREM DestroyedAtRest == Spec => []StopLeavesRest
  <1>1. PlayerInv => StopLeavesRest
    BY DEF PlayerInv, PlacesOK, StatusOK, Undisturbed, StopLeavesRest
  <1> QED
    BY <1>1, PlayerAlways, PTL
=============================================================================
