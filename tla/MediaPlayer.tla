---------------------------- MODULE MediaPlayer ----------------------------
(***************************************************************************)
(* The player of src/player: the UI thread starts, pauses, stops and       *)
(* paints, the video thread opens the file, decodes it and posts every     *)
(* frame to the UI thread.  They share m_play_status, m_bStoped and        *)
(* m_curr_file without a lock, so a step reads or writes one of them, with *)
(* what its thread does on its own around it.                              *)
(*                                                                         *)
(* The build is the one without assertions: where a step meets an assert,  *)
(* a property says whether it would hold.  A stream is a number of frames. *)
(* The model ends when the player is destroyed.                            *)
(***************************************************************************)
EXTENDS Integers, Sequences, FiniteSets

CONSTANTS
  Files,        \* what StartVideo and StartRtsp are given
  None,
  MaxFrames,    \* bounds: the frames of a stream,
  MaxStarts,    \* the calls of StartVideo and StartRtsp,
  MaxPauses,    \* of PauseOrStartVideo that found something to do,
  MaxStops      \* of StopVideo

ASSUME FilesAssumption == None \notin Files
ASSUME BoundsAssumption ==
  MaxFrames \in Nat /\ MaxStarts \in Nat /\ MaxPauses \in Nat /\ MaxStops \in Nat

VARIABLES
  status,      \* m_play_status
  stopped,     \* m_bStoped
  curr,        \* m_curr_file, None when empty
  loaded,      \* m_diCurrFrame.bLoaded: pImageInfo has a bitmap
  bitmaps,     \* number of bitmaps that exist
  lost,        \* number of bitmaps nobody knows any more
  uiTasks,     \* tasks posted to the UI thread
  videoTasks,  \* files of the StartPlayCallbacks posted to the video thread
  ui,          \* where the UI thread is, what it has to write and to post
  video,       \* where the video thread is, its file and the frames left in it
  starts, pauses, stops

vars == <<status, stopped, curr, loaded, bitmaps, lost, uiTasks, videoTasks, ui, video,
          starts, pauses, stops>>
shared == <<status, stopped, curr>>
screen == <<loaded, bitmaps, lost>>
counts == <<starts, pauses, stops>>

Status == {"stop", "play", "pause"}
UI(at, value, file) == [at |-> at, value |-> value, file |-> file]
AtRest == UI("idle", None, None)
Video(at, file, left, got) == [at |-> at, file |-> file, left |-> left, got |-> got]

Init ==
  /\ status = "stop" /\ stopped = TRUE /\ curr = None
  /\ loaded = FALSE /\ bitmaps = 0 /\ lost = 0
  /\ uiTasks = << >> /\ videoTasks = << >>
  /\ ui = AtRest
  /\ video = Video("idle", None, 0, FALSE)
  /\ starts = 0 /\ pauses = 0 /\ stops = 0

------------------------------------------------------------------------------
(* The UI thread *)

\* m_curr_file == f; anything while the video thread assigns it.
Same(f) == IF video.at = "naming" THEN BOOLEAN ELSE {curr = f}

\* StartVideo and StartRtsp up to their first write.
Start(f) ==
  /\ ui.at = "idle" /\ starts < MaxStarts
  /\ \/ /\ status = "pause"
        /\ \E same \in Same(f) : ui' = IF same THEN UI("write", "play", None) ELSE ui
     \/ /\ status = "play"
        /\ \E same \in Same(f) : ui' = IF same THEN ui ELSE UI("write", "stop", f)
     \/ /\ status = "stop"
        /\ ui' = UI("post", None, f)
  /\ starts' = starts + 1
  /\ UNCHANGED <<shared, screen, uiTasks, videoTasks, video, pauses, stops>>

PauseOrStartVideo ==
  /\ ui.at = "idle" /\ pauses < MaxPauses /\ status # "stop"
  /\ ui' = UI("write", IF status = "play" THEN "pause" ELSE "play", None)
  /\ pauses' = pauses + 1
  /\ UNCHANGED <<shared, screen, uiTasks, videoTasks, video, starts, stops>>

\* The write that follows the reads of Start or PauseOrStartVideo.
Write ==
  /\ ui.at = "write"
  /\ status' = ui.value
  /\ ui' = IF ui.file = None THEN AtRest ELSE [ui EXCEPT !.at = "post"]
  /\ UNCHANGED <<stopped, curr, screen, uiTasks, videoTasks, video, counts>>

Post2VideoPlay ==
  /\ ui.at = "post"
  /\ videoTasks' = Append(videoTasks, ui.file)
  /\ ui' = AtRest
  /\ UNCHANGED <<shared, screen, uiTasks, video, counts>>

\* StopVideo from the button (place = "button") or, with exit, from
\* OnFinalMessage of the form (place = "exit"), which destroys the player.
StopValueWhenPlaying == IF status = "play" THEN "stop" ELSE status
StopValue == "stop"

StopVideo(place) ==
  /\ ui.at = "idle" /\ stops < MaxStops
  /\ status' = StopValue
  /\ ui' = UI("clear", place, None)
  /\ stops' = stops + 1
  /\ UNCHANGED <<stopped, curr, screen, uiTasks, videoTasks, video, starts, pauses>>

ClearFrame ==
  /\ ui.at = "clear"
  /\ curr' = None
  /\ loaded' = FALSE
  /\ bitmaps' = IF loaded THEN bitmaps - 1 ELSE bitmaps
  /\ ui' = [ui EXCEPT !.at = "wait"]
  /\ UNCHANGED <<status, stopped, lost, uiTasks, videoTasks, video, counts>>

\* The loop that sleeps until m_bStoped has ended.
StopReturns ==
  /\ ui.at = "wait" /\ stopped
  /\ \/ /\ ui.value = "button"
        /\ uiTasks' = Append(uiTasks, "invalidate")
        /\ ui' = AtRest
     \/ /\ ui.value = "exit"
        /\ ui' = UI("gone", None, None)
        /\ UNCHANGED uiTasks
  /\ UNCHANGED <<shared, screen, videoTasks, video, counts>>

\* Screen::Paint up to its assertion: PS_STOP paints the background only.
PaintScreen == ui' = IF status = "stop" THEN AtRest ELSE UI("draw", None, None)

\* WM_PAINT, whoever caused it.
Paint ==
  /\ ui.at = "idle" /\ PaintScreen
  /\ UNCHANGED <<shared, screen, uiTasks, videoTasks, video, counts>>

Draw ==
  /\ ui.at = "draw"
  /\ ui' = AtRest
  /\ UNCHANGED <<shared, screen, uiTasks, videoTasks, video, counts>>

\* The bitmap that was shown goes when the next one is.
BitmapsKept == bitmaps
BitmapsAfterShow == IF loaded THEN bitmaps - 1 ELSE bitmaps

BitbltCallback ==
  /\ ui.at = "idle" /\ uiTasks # << >> /\ Head(uiTasks) = "frame"
  /\ \/ /\ stopped
        /\ lost' = lost + 1
        /\ UNCHANGED <<loaded, bitmaps, ui>>
     \/ /\ ~stopped
        /\ bitmaps' = BitmapsAfterShow
        /\ loaded' = TRUE
        /\ PaintScreen
        /\ UNCHANGED lost
  /\ uiTasks' = Tail(uiTasks)
  /\ UNCHANGED <<shared, videoTasks, video, counts>>

\* The tasks that set the slider and invalidate the window.
RunOther ==
  /\ ui.at = "idle" /\ uiTasks # << >> /\ Head(uiTasks) # "frame"
  /\ uiTasks' = Tail(uiTasks)
  /\ UNCHANGED <<shared, screen, videoTasks, ui, video, counts>>

------------------------------------------------------------------------------
(* The video thread: StartPlayCallback and StartPlayRtspCallback *)

VideoAt(place) == video.at = place /\ ui.at # "gone"
At(place) == video' = [video EXCEPT !.at = place]

\* The next task of the video thread; assert(m_play_status == PS_STOP).
StartPlayCallback ==
  /\ VideoAt("idle") /\ videoTasks # << >>
  /\ video' = Video("start", Head(videoTasks), 0, FALSE)
  /\ videoTasks' = Tail(videoTasks)
  /\ UNCHANGED <<shared, screen, uiTasks, ui, counts>>

NotYetBegun == stopped
Begun == FALSE

BeginPlayback ==
  /\ VideoAt("start")
  /\ stopped' = Begun
  /\ At("opening")
  /\ UNCHANGED <<status, curr, screen, uiTasks, videoTasks, ui, counts>>

\* Everything from avformat_open_input to sws_init_context may fail.  A file
\* whose duration is known has it shown by a task, a stream of rtsp never.
OpenFails ==
  /\ VideoAt("opening")
  /\ At("err")
  /\ UNCHANGED <<shared, screen, uiTasks, videoTasks, ui, counts>>

PostDuration ==
  /\ VideoAt("opening") /\ video.left = 0
  /\ \E frames \in 1..MaxFrames : video' = [video EXCEPT !.left = frames]
  /\ uiTasks' \in {uiTasks, Append(uiTasks, "duration")}
  /\ UNCHANGED <<shared, screen, videoTasks, ui, counts>>

OpenSucceeds ==
  /\ VideoAt("opening") /\ video.left # 0
  /\ status' = "play"
  /\ At("naming")
  /\ UNCHANGED <<stopped, curr, screen, uiTasks, videoTasks, ui, counts>>

NameFile ==
  /\ VideoAt("naming")
  /\ curr' = video.file
  /\ At("loop")
  /\ UNCHANGED <<status, stopped, screen, uiTasks, videoTasks, ui, counts>>

HasFrame == video.left > 0

DecodeFrame ==
  /\ VideoAt("loop") /\ status # "pause" /\ HasFrame
  /\ video' = [video EXCEPT !.at = "test", !.left = @ - 1, !.got = TRUE]
  /\ bitmaps' = bitmaps + 1
  /\ uiTasks' = Append(uiTasks, "frame")
  /\ UNCHANGED <<shared, loaded, lost, videoTasks, ui, counts>>

DecodeNothing ==
  /\ VideoAt("loop") /\ status # "pause" /\ video.left = 0
  /\ video' = [video EXCEPT !.at = "test", !.got = FALSE]
  /\ UNCHANGED <<shared, screen, uiTasks, videoTasks, ui, counts>>

DecodeFails ==
  /\ VideoAt("loop") /\ status # "pause"
  /\ At("err")
  /\ UNCHANGED <<shared, screen, uiTasks, videoTasks, ui, counts>>

\* The condition of the loop reads m_play_status twice: == PS_PLAY, then
\* == PS_PAUSE.
NextTurn == IF video.got THEN "loop" ELSE "err"
TestPlay ==
  /\ VideoAt("test")
  /\ At(IF status = "play" THEN NextTurn ELSE "test again")
  /\ UNCHANGED <<shared, screen, uiTasks, videoTasks, ui, counts>>
TestPause ==
  /\ VideoAt("test again")
  /\ At(IF status = "pause" THEN NextTurn ELSE "err")
  /\ UNCHANGED <<shared, screen, uiTasks, videoTasks, ui, counts>>

\* From the label err on: the status is read, then written.
AfterPlayKeepsStatus == "leave"
AfterPlay == IF status = "play" THEN "end" ELSE "leave"
LeaveLoop ==
  /\ VideoAt("err")
  /\ At(AfterPlay)
  /\ UNCHANGED <<shared, screen, uiTasks, videoTasks, ui, counts>>
EndPlay ==
  /\ VideoAt("end")
  /\ status' = "stop"
  /\ At("leave")
  /\ UNCHANGED <<stopped, curr, screen, uiTasks, videoTasks, ui, counts>>
IdleVideo == Video("idle", None, 0, FALSE)
EndPlayback ==
  /\ VideoAt("leave")
  /\ stopped' = TRUE
  /\ video' = IdleVideo
  /\ UNCHANGED <<status, curr, screen, uiTasks, videoTasks, ui, counts>>

------------------------------------------------------------------------------
UIContinues ==
  Write \/ Post2VideoPlay \/ ClearFrame \/ StopReturns \/ Draw
VideoStep ==
  \/ StartPlayCallback \/ BeginPlayback
  \/ OpenFails \/ PostDuration \/ OpenSucceeds \/ NameFile
  \/ DecodeFrame \/ DecodeNothing \/ DecodeFails
  \/ TestPlay \/ TestPause \/ LeaveLoop \/ EndPlay \/ EndPlayback

Next ==
  \/ \E f \in Files : Start(f)
  \/ PauseOrStartVideo
  \/ \E place \in {"button", "exit"} : StopVideo(place)
  \/ Paint \/ BitbltCallback \/ RunOther
  \/ UIContinues
  \/ VideoStep

Spec == Init /\ [][Next]_vars

\* Both threads run on; nobody has to press a button.
FairSpec == Spec /\ WF_vars(UIContinues) /\ WF_vars(VideoStep)
------------------------------------------------------------------------------
(* Properties *)

UIPlaces == {"idle", "write", "post", "clear", "wait", "draw", "gone"}
VideoPlaces == {"idle", "start", "opening", "naming", "loop", "test", "test again",
                "err", "end", "leave"}
UIType ==
  [at : UIPlaces, value : Status \cup {"button", "exit", None}, file : Files \cup {None}]
VideoType ==
  [at : VideoPlaces, file : Files \cup {None}, left : 0..MaxFrames, got : BOOLEAN]

\* Every variable keeps its type; no stream yields more frames than it has.
TypeOK ==
  /\ status \in Status /\ stopped \in BOOLEAN /\ curr \in Files \cup {None}
  /\ loaded \in BOOLEAN /\ bitmaps \in Nat /\ lost \in Nat
  /\ uiTasks \in Seq({"frame", "duration", "invalidate"}) /\ videoTasks \in Seq(Files)
  /\ ui \in UIType /\ video \in VideoType
  /\ starts \in 0..MaxStarts /\ pauses \in 0..MaxPauses /\ stops \in 0..MaxStops

QueuedFrames == {i \in 1..Len(uiTasks) : uiTasks[i] = "frame"}

\* Every bitmap that was created is on its way to the screen, on the screen,
\* deleted, or was met by a BitbltCallback after the end of its playback.
BitmapsAccounted ==
  bitmaps = lost + Cardinality(QueuedFrames) + (IF loaded THEN 1 ELSE 0)

\* Without a pause, m_play_status is PS_STOP whenever the video thread is not
\* in a playback, whatever the UI thread read and wrote meanwhile, so a queued
\* playback meets its assertion (media_player.cpp:51) true.
StartsStopped ==
  pauses = 0 /\ video.at \in {"idle", "start"} => status = "stop"

\* When StopVideo(true) lets the player be destroyed, no playback is under way,
\* but for one whose task has not yet cleared m_bStoped, and no bitmap is shown.
StopLeavesRest ==
  ui.at = "gone" => status = "stop" /\ ~loaded /\ video.at \in {"idle", "start"}

\* A StopVideo ends, also one given while paused or while the file was opened,
\* when the stream does.
StopEnds == ui.at = "wait" ~> ui.at # "wait"

\* What Screen::Paint asserts when it draws (screen.cpp:22).
PaintHasFrame == ui.at = "draw" => loaded
==============================================================================
