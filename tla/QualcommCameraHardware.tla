------------------------ MODULE QualcommCameraHardware ------------------------
(***************************************************************************)
(* The HAL of the older chips, src/QualcommCameraHardware.cpp: the threads *)
(* it starts and ends around the calls of the camera service.  A preview   *)
(* has a frame thread, which runs liboemcamera's LINK_cam_frame(), and a   *)
(* preview thread, which shows the frames; a recording has a video thread, *)
(* a picture a snapshot thread, which waits for the callbacks of the       *)
(* library.  No thread is joined: each has a flag that says it runs, and   *)
(* who needs it gone waits for the flag.                                   *)
(*                                                                         *)
(* Modelled are the targets with a video output (7x30, 8x50, 8x60), a      *)
(* window that is set, one JPEG picture at a time, no ZSL, no 3D mode, and *)
(* threads of the preview that can be created.  The calls hold mLock from  *)
(* their beginning to their end, so that there is one at a time, except    *)
(* cancelPicture() and releaseRecordingFrame(), which do not take it.      *)
(*                                                                         *)
(* Outside src/ are enqueue() and dequeue() of g_busy_frame_queue and the  *)
(* library's queue of free frames: each call of theirs is one step, also   *)
(* where startRecording() makes it without the queue's mutex.              *)
(***************************************************************************)
EXTENDS Naturals, Sequences, FiniteSets, SequencesExt

CONSTANTS
    Bufs,           \* the record buffers
    MaxEvents,      \* how many recordings, pictures and timeouts there are
    Faults          \* which calls may fail: a subset of AllFaults

AllFaults == {"prepare", "initRaw", "start", "stop", "thread", "genlock", "timeout"}

ASSUME FaultsAssumption == Faults \subseteq AllFaults
ASSUME MaxEventsAssumption == MaxEvents \in Nat

VARIABLES
    call,                \* the call that holds mLock, and the step it is at
    videoMsg,            \* mMsgEnabled has CAMERA_MSG_VIDEO_FRAME
    previewMsg,          \* ... and CAMERA_MSG_PREVIEW_FRAME: for an application with a
                         \* preview callback
    mCameraRunning, mPreviewInitialized,
    busyInit,            \* mPreviewBusyQueue.mInitialized
    frame,               \* the frame thread
    exitFlag,            \* LINK_camframe_terminate() was called
    camframe_timeout_flag,
    preview,             \* the preview thread
    buffer,              \* where the preview buffer is
    recordings, pictures,\* how often a recording was started and a picture asked for
    mRecordingState, mVideoThreadExit, mVideoThreadRunning,
    streamsVideo,        \* the driver fills record buffers
    video,               \* the video threads, in the order they were created
    free,                \* how often a record buffer was given to the driver
    g_busy_frame_queue,
    tracked,             \* record_buffers_tracking_flag
    app,                 \* how often the application holds a record buffer
    snapshot,            \* the snapshot thread
    capture,             \* what the camera library brings next
    mSnapshotCancel, mJpegThreadRunning, mInSnapshotMode,
    leaving,             \* receiveRawPicture() has still to end the snapshot mode
    raw,                 \* the buffers of the picture exist
    dangling,            \* the buffers startRecording() has still to look at
    reclaimed,           \* the one it has given to the driver and not yet untracked
    releasing,           \* the one releaseRecordingFrame() is about to give back
    mFrameThreadWaitLock,\* ... and whether it still holds this lock
    shared               \* how often a record buffer was given to the driver of this
                         \* preview while somebody outside had it

callVars   == <<call, videoMsg, previewMsg, pictures>>
runVars    == <<mCameraRunning, mPreviewInitialized, busyInit, exitFlag,
                camframe_timeout_flag>>
threadVars == <<frame, preview, buffer>>
recordVars == <<recordings, mRecordingState, mVideoThreadExit, mVideoThreadRunning,
                streamsVideo, video>>
frameVars  == <<free, g_busy_frame_queue, tracked, app>>
pictureVars == <<snapshot, capture, mSnapshotCancel, mJpegThreadRunning, mInSnapshotMode,
                 leaving, raw>>
releaseVars == <<releasing, mFrameThreadWaitLock>>
ownerVars   == <<dangling, reclaimed, releaseVars, shared>>
vars == <<callVars, runVars, threadVars, recordVars, frameVars, pictureVars, ownerVars>>

Idle == [op |-> "none", pc |-> "none"]
NoBuf == "none"
Thread(pc, b, msg) == [pc |-> pc, b |-> b, msg |-> msg]
Looping == Thread("check", NoBuf, FALSE)
ASSUME NoBufAssumption == NoBuf \notin Bufs
None(n) == [b \in Bufs |-> n]

Init ==
    /\ call = Idle /\ videoMsg = FALSE /\ previewMsg \in BOOLEAN
    /\ mCameraRunning = FALSE /\ mPreviewInitialized = FALSE
    /\ busyInit = FALSE /\ exitFlag = FALSE /\ camframe_timeout_flag = FALSE
    /\ frame = "none" /\ preview = "none" /\ buffer = "window"
    /\ recordings = 0 /\ pictures = 0 /\ mRecordingState = FALSE
    /\ mVideoThreadExit = FALSE /\ mVideoThreadRunning = FALSE
    /\ streamsVideo = FALSE /\ video = <<>>
    /\ free = None(0) /\ g_busy_frame_queue = <<>>
    /\ tracked = None(FALSE) /\ app = None(0)
    /\ snapshot = "none" /\ capture = "none"
    /\ mSnapshotCancel = FALSE /\ mJpegThreadRunning = FALSE
    /\ mInSnapshotMode = FALSE /\ leaving = FALSE /\ raw = FALSE
    /\ dangling = {} /\ reclaimed = NoBuf
    /\ releasing = NoBuf /\ mFrameThreadWaitLock = FALSE
    /\ shared = None(0)

Events == recordings + pictures + (IF camframe_timeout_flag THEN 1 ELSE 0)
MayFail(fault) == IF fault \in Faults THEN BOOLEAN ELSE {FALSE}
At(op, pc) == call = [op |-> op, pc |-> pc]
AtStep(pc) == call.pc = pc
Begin(op, pc) == call = Idle /\ call' = [op |-> op, pc |-> pc]
Goto(pc) == call' = [call EXCEPT !.pc = pc]
Return == call' = Idle

\* pthread_cond_signal() of g_busy_frame_queue.wait: one waiter wakes, if any.
Waiting(threads) == {k \in DOMAIN threads : threads[k].pc = "wait"}
SignalVideo(threads) ==
    IF Waiting(threads) = {} THEN {threads}
    ELSE { [threads EXCEPT ![k] = Looping] : k \in Waiting(threads) }

\* How often a record buffer is in g_busy_frame_queue, with the video threads and with
\* a call of releaseRecordingFrame(), and whether it is somewhere outside the driver's
\* and the HAL's queues.
Queued(b) == Cardinality({k \in DOMAIN g_busy_frame_queue : g_busy_frame_queue[k] = b})
Held(b) == Cardinality({k \in DOMAIN video : video[k].b = b})
Releasing(b) == IF releasing = b THEN 1 ELSE 0
Outside(b) == app[b] > 0 \/ Held(b) > 0 \/ releasing = b

-----------------------------------------------------------------------------
(* Starting the preview                                                      *)

\* The camera service asks previewEnabled() first.
StartPreview ==
    /\ ~mCameraRunning
    /\ Begin("startPreview", "buffers")
    /\ UNCHANGED <<videoMsg, previewMsg, pictures, runVars, threadVars, recordVars,
                   frameVars, pictureVars, ownerVars>>

\* getBuffersAndStartPreview(): the buffers come from the window.
GetBuffers ==
    /\ At("startPreview", "buffers")
    /\ frame = "none" /\ ~mFrameThreadWaitLock
    /\ buffer' = "camera"
    /\ busyInit' = TRUE
    /\ Goto("mode")
    /\ UNCHANGED <<videoMsg, previewMsg, pictures, mCameraRunning, mPreviewInitialized,
                   exitFlag, camframe_timeout_flag, frame, preview, recordVars, frameVars,
                   pictureVars, ownerVars>>

\* initPreview() waits for the last picture to leave the snapshot mode.
SnapshotModeOver == ~mInSnapshotMode

\* initRecord(): new record buffers, the old ones mean nothing to a call of
\* releaseRecordingFrame() from now on, but to an old video thread and to a call that
\* has found its buffer they are the new ones.
InitRecord ==
    /\ At("startPreview", "mode")
    /\ SnapshotModeOver
    /\ tracked' = None(FALSE) /\ app' = None(0)
    /\ g_busy_frame_queue' = <<>>
    /\ shared' = [b \in Bufs |-> Held(b) + Releasing(b)]
    /\ Goto("video")
    /\ UNCHANGED <<videoMsg, previewMsg, pictures, runVars, threadVars, recordVars, free,
                   pictureVars, dangling, reclaimed, releaseVars>>

\* The end of initRecord(): when the old video thread is gone, by its flag, the driver
\* gets all record buffers.
FillDriver ==
    /\ ~mVideoThreadRunning
    /\ free' = None(1)

\* The two threads of the preview begin.
LaunchPreview ==
    /\ At("startPreview", "video")
    /\ FillDriver
    /\ preview' = "get" /\ frame' = "run"
    /\ mPreviewInitialized' = TRUE
    /\ busyInit' = TRUE /\ exitFlag' = FALSE
    /\ Goto("ops")
    /\ UNCHANGED <<videoMsg, previewMsg, pictures, mCameraRunning, camframe_timeout_flag,
                   buffer, recordVars, g_busy_frame_queue, tracked, app, pictureVars,
                   ownerVars>>

\* The rest of startPreviewInternal(): streaming is started, or everything undone.
StartStreaming ==
    /\ At("startPreview", "ops")
    /\ Return
    /\ \E fails \in MayFail("start") :
         /\ mCameraRunning' = ~fails
         /\ IF fails
            THEN /\ busyInit' = FALSE /\ exitFlag' = TRUE
                 /\ mPreviewInitialized' = FALSE
                 /\ g_busy_frame_queue' = <<>> /\ free' = None(0)
            ELSE UNCHANGED <<busyInit, exitFlag, mPreviewInitialized, g_busy_frame_queue,
                             free>>
    /\ UNCHANGED <<videoMsg, previewMsg, pictures, camframe_timeout_flag, threadVars,
                   recordVars, tracked, app, pictureVars, ownerVars>>

-----------------------------------------------------------------------------
(* Stopping the preview: stopPreviewInternal() is called by stopPreview(),   *)
(* takePicture() and release()                                               *)

AfterStop == CASE call.op = "stopPreview" -> "return"
               [] call.op = "takePicture" -> "initRaw"
               [] call.op = "release"     -> "jpeg"

\* stopPreview() does nothing while recording or while a picture is taken.
StopPreview ==
    /\ ~videoMsg /\ snapshot = "none"
    /\ Begin("stopPreview", "stop")
    /\ UNCHANGED <<videoMsg, previewMsg, pictures, runVars, threadVars, recordVars,
                   frameVars, pictureVars, ownerVars>>

\* The camera that runs is told to stop and may refuse, but it is not told after a
\* timeout of the frame thread: then it only counts as stopped.
StopStreaming ==
    /\ AtStep("stop")
    /\ \E fails \in MayFail("stop") :
         /\ mCameraRunning' = (mCameraRunning /\ ~camframe_timeout_flag /\ fails)
         /\ streamsVideo' = (/\ streamsVideo
                            /\ mCameraRunning => camframe_timeout_flag \/ fails)
    /\ Goto("deinit")
    /\ UNCHANGED <<videoMsg, previewMsg, pictures, mPreviewInitialized, busyInit,
                   exitFlag, camframe_timeout_flag, threadVars, recordings,
                   mRecordingState, mVideoThreadExit, mVideoThreadRunning, video,
                   frameVars, pictureVars, ownerVars>>

\* receive_camframe_error_timeout(): the frame thread has got no frames.  Nothing takes
\* the flag back as long as the object lives.  Only StopStreaming looks at it, so that a
\* timeout at any time before may as well come now.
CamframeTimeout ==
    /\ "timeout" \in Faults
    /\ Events < MaxEvents
    /\ AtStep("stop") /\ mCameraRunning
    /\ ~camframe_timeout_flag /\ camframe_timeout_flag' = TRUE
    /\ UNCHANGED <<callVars, mCameraRunning, mPreviewInitialized, busyInit, exitFlag,
                   threadVars, recordVars, frameVars, pictureVars, ownerVars>>

\* Mutant: mPreviewBusyQueue stays initialized, so that the preview thread goes on.
DeinitPreviewKeepingQueue ==
    /\ AtStep("deinit")
    /\ IF ~mCameraRunning /\ mPreviewInitialized
       THEN /\ exitFlag' = TRUE /\ UNCHANGED busyInit
            /\ mVideoThreadExit' = TRUE
            /\ video' \in SignalVideo(video)
            /\ g_busy_frame_queue' = <<>> /\ free' = None(0) /\ shared' = None(0)
            /\ mPreviewInitialized' = FALSE
       ELSE UNCHANGED <<busyInit, exitFlag, mVideoThreadExit, video, g_busy_frame_queue,
                        free, shared, mPreviewInitialized>>
    /\ IF AfterStop = "return" THEN Return ELSE Goto(AfterStop)
    /\ UNCHANGED <<videoMsg, previewMsg, pictures, mCameraRunning, camframe_timeout_flag,
                   threadVars, recordings, mRecordingState, mVideoThreadRunning,
                   streamsVideo, tracked, app, pictureVars, dangling, reclaimed,
                   releaseVars>>

\* Every thread of the preview and the video thread are told to end, and nobody
\* waits for them here.
DeinitPreview ==
    /\ AtStep("deinit")
    /\ IF ~mCameraRunning /\ mPreviewInitialized
       THEN /\ busyInit' = FALSE /\ exitFlag' = TRUE
            /\ mVideoThreadExit' = TRUE
            /\ video' \in SignalVideo(video)
            /\ g_busy_frame_queue' = <<>> /\ free' = None(0) /\ shared' = None(0)
            /\ mPreviewInitialized' = FALSE
       ELSE UNCHANGED <<busyInit, exitFlag, mVideoThreadExit, video, g_busy_frame_queue,
                        free, shared, mPreviewInitialized>>
    /\ IF AfterStop = "return" THEN Return ELSE Goto(AfterStop)
    /\ UNCHANGED <<videoMsg, previewMsg, pictures, mCameraRunning, camframe_timeout_flag,
                   threadVars, recordings, mRecordingState, mVideoThreadRunning,
                   streamsVideo, tracked, app, pictureVars, dangling, reclaimed,
                   releaseVars>>

-----------------------------------------------------------------------------
(* The frame thread and the preview thread                                   *)

\* receivePreviewFrame(): a frame that nobody takes goes back at once.
PreviewFrame ==
    /\ frame = "run"
    /\ buffer = "camera"
    /\ mCameraRunning /\ busyInit
    /\ buffer' = "busy"
    /\ UNCHANGED <<callVars, runVars, frame, preview, recordVars, frameVars, pictureVars,
                   ownerVars>>

\* receiveRecordingFrame(), cam_frame_post_video()
VideoFrame ==
    /\ frame = "run"
    /\ streamsVideo
    /\ \E b \in Bufs :
         /\ free[b] > 0
         /\ free' = [free EXCEPT ![b] = @ - 1]
         /\ g_busy_frame_queue' = Append(g_busy_frame_queue, b)
    /\ video' \in SignalVideo(video)
    /\ UNCHANGED <<callVars, runVars, threadVars, recordings, mRecordingState,
                   mVideoThreadExit, mVideoThreadRunning, streamsVideo, tracked, app,
                   pictureVars, ownerVars>>

\* LINK_cam_frame() returns after it was told to terminate.
FrameThreadTerminates ==
    /\ frame = "run"
    /\ exitFlag
    /\ frame' = "waitPreview"
    /\ UNCHANGED <<callVars, runVars, preview, buffer, recordVars, frameVars, pictureVars,
                   ownerVars>>

\* Mutant: the buffers are relinquished while the preview thread works.
RelinquishAtOnce ==
    /\ frame = "waitPreview"
    /\ frame' = "none"
    /\ buffer' = "window"
    /\ UNCHANGED <<callVars, runVars, preview, recordVars, frameVars, pictureVars,
                   ownerVars>>

\* The frame thread gives the preview buffers back to the window, once the preview
\* thread is gone, and ends.
RelinquishBuffers ==
    /\ frame = "waitPreview"
    /\ preview = "none"
    /\ ~mFrameThreadWaitLock
    /\ frame' = "none"
    /\ buffer' = "window"
    /\ UNCHANGED <<callVars, runVars, preview, recordVars, frameVars, pictureVars,
                   ownerVars>>

\* mPreviewBusyQueue.get(): NULL once the queue is deinitialized, which ends the thread.
PreviewThreadGets ==
    /\ preview = "get"
    /\ \/ /\ ~busyInit
          /\ preview' = "none"
          /\ UNCHANGED buffer
       \/ /\ busyInit /\ buffer = "busy"
          /\ preview' = "show"
          /\ buffer' = "thread"
    /\ UNCHANGED <<callVars, runVars, frame, recordVars, frameVars, pictureVars,
                   ownerVars>>

\* The frame goes to the application and the window, another one to the camera.
PreviewThreadShows ==
    /\ preview = "show"
    /\ preview' = "get"
    /\ buffer' = "camera"
    /\ UNCHANGED <<callVars, runVars, frame, recordVars, frameVars, pictureVars,
                   ownerVars>>

-----------------------------------------------------------------------------
(* Recording                                                                 *)

\* The camera service enables the message and calls startRecording(), which finds
\* the preview running and has the driver fill record buffers.
StartRecording ==
    /\ mCameraRunning /\ ~videoMsg
    /\ Events < MaxEvents
    /\ Begin("startRecording", "drain")
    /\ recordings' = recordings + 1
    /\ videoMsg' = TRUE
    /\ streamsVideo' = TRUE /\ mRecordingState' = TRUE
    /\ UNCHANGED <<previewMsg, pictures, runVars, threadVars, mVideoThreadExit,
                   mVideoThreadRunning, video, frameVars, pictureVars, ownerVars>>

\* The frames that wait in the queue go back to the driver one by one, without the
\* queue's mutex ...
DrainFrame ==
    /\ At("startRecording", "drain")
    /\ g_busy_frame_queue # <<>>
    /\ free' = [free EXCEPT ![Head(g_busy_frame_queue)] = @ + 1]
    /\ g_busy_frame_queue' = Tail(g_busy_frame_queue)
    /\ UNCHANGED <<callVars, runVars, threadVars, recordVars, tracked, app, pictureVars,
                   ownerVars>>

\* ... until the queue is found empty.
DrainEnds ==
    /\ At("startRecording", "drain")
    /\ g_busy_frame_queue = <<>>
    /\ dangling' = Bufs
    /\ Goto("dangling")
    /\ UNCHANGED <<videoMsg, previewMsg, pictures, runVars, threadVars, recordVars,
                   frameVars, pictureVars, reclaimed, releaseVars, shared>>

\* Every tracked buffer goes back to the driver, also one that the application has
\* not released, that a call of it is about to, or that a video thread holds ...
ReclaimDangling(b) ==
    /\ At("startRecording", "dangling")
    /\ reclaimed = NoBuf /\ b \in dangling
    /\ IF tracked[b]
       THEN /\ free' = [free EXCEPT ![b] = @ + 1]
            /\ shared' = [shared EXCEPT ![b] = @ + (IF Outside(b) THEN 1 ELSE 0)]
            /\ reclaimed' = b /\ UNCHANGED dangling
       ELSE dangling' = dangling \ {b} /\ UNCHANGED <<free, shared, reclaimed>>
    /\ UNCHANGED <<callVars, runVars, threadVars, recordVars, g_busy_frame_queue, tracked,
                   app, pictureVars, releaseVars>>

\* ... and is tracked no more.
ClearDangling ==
    /\ reclaimed # NoBuf
    /\ tracked' = [tracked EXCEPT ![reclaimed] = FALSE]
    /\ dangling' = dangling \ {reclaimed} /\ reclaimed' = NoBuf
    /\ UNCHANGED <<callVars, runVars, threadVars, recordVars, free, g_busy_frame_queue,
                   app, pictureVars, releaseVars, shared>>

\* Mutant: a thread is also created by startRecordingInternal().
LaunchVideoThreadTwice ==
    /\ At("startRecording", "dangling")
    /\ dangling = {}
    /\ mVideoThreadExit' = FALSE
    /\ \E fails \in MayFail("thread") :
         /\ mVideoThreadRunning' = fails
         /\ video' = IF fails THEN video ELSE video \o <<Looping, Looping>>
    /\ Return
    /\ UNCHANGED <<videoMsg, previewMsg, pictures, runVars, threadVars, recordings,
                   mRecordingState, streamsVideo, frameVars, pictureVars, ownerVars>>

\* mVideoThreadRunning becomes the result of pthread_create(), 0 on success.
LaunchVideoThread ==
    /\ At("startRecording", "dangling")
    /\ dangling = {}
    /\ mVideoThreadExit' = FALSE
    /\ \E fails \in MayFail("thread") :
         /\ mVideoThreadRunning' = fails
         /\ video' = IF fails THEN video ELSE Append(video, Looping)
    /\ Return
    /\ UNCHANGED <<videoMsg, previewMsg, pictures, runVars, threadVars, recordings,
                   mRecordingState, streamsVideo, frameVars, pictureVars, ownerVars>>

\* stopRecording(), the message being disabled before: it leaves everything as it
\* is when preview frames are delivered to the application.
StopRecording ==
    /\ videoMsg
    /\ Begin("stopRecording", "thread")
    /\ videoMsg' = FALSE
    /\ IF previewMsg THEN UNCHANGED mVideoThreadExit ELSE mVideoThreadExit' = TRUE
    /\ UNCHANGED <<previewMsg, pictures, runVars, threadVars, recordings, mRecordingState,
                   mVideoThreadRunning, streamsVideo, video, frameVars, pictureVars,
                   ownerVars>>

StopVideo ==
    /\ At("stopRecording", "thread")
    /\ IF previewMsg
       THEN UNCHANGED <<mRecordingState, streamsVideo, video>>
       ELSE /\ mRecordingState' = FALSE
            /\ streamsVideo' = FALSE
            /\ video' \in SignalVideo(video)
    /\ Return
    /\ UNCHANGED <<videoMsg, previewMsg, pictures, runVars, threadVars, recordings,
                   mVideoThreadExit, mVideoThreadRunning, frameVars, pictureVars,
                   ownerVars>>

\* Round the loop of a video thread, under the queue's mutex: it ends, takes a frame
\* or waits.  A thread that was woken goes round again, whatever woke it.
VideoThreadLoops(k) ==
    /\ video[k].pc = "check"
    /\ \/ /\ mVideoThreadExit
          /\ video' = RemoveAt(video, k)
          /\ mVideoThreadRunning' = FALSE
          /\ UNCHANGED g_busy_frame_queue
       \/ /\ ~mVideoThreadExit /\ g_busy_frame_queue = <<>>
          /\ video' = [video EXCEPT ![k] = Thread("wait", NoBuf, FALSE)]
          /\ UNCHANGED <<mVideoThreadRunning, g_busy_frame_queue>>
       \/ /\ ~mVideoThreadExit /\ g_busy_frame_queue # <<>>
          /\ video' = [video EXCEPT ![k] = Thread("take", Head(g_busy_frame_queue), FALSE)]
          /\ g_busy_frame_queue' = Tail(g_busy_frame_queue)
          /\ UNCHANGED mVideoThreadRunning
    /\ UNCHANGED <<callVars, runVars, threadVars, recordings, mRecordingState,
                   mVideoThreadExit, streamsVideo, free, tracked, app, pictureVars,
                   ownerVars>>

\* With a frame it looks whether the message is enabled ...
VideoThreadLooksAtMsg(k) ==
    /\ video[k].pc = "take"
    /\ video' = [video EXCEPT ![k] = Thread("track", @.b, videoMsg)]
    /\ UNCHANGED <<callVars, runVars, threadVars, recordings, mRecordingState,
                   mVideoThreadExit, mVideoThreadRunning, streamsVideo, frameVars,
                   pictureVars, ownerVars>>

\* Mutant: a frame is only tracked if the application gets it.
VideoThreadTracksDelivered(k) ==
    /\ video[k].pc = "track"
    /\ video' = [video EXCEPT ![k] = Thread("deliver", @.b, @.msg)]
    /\ tracked' = [tracked EXCEPT ![video[k].b] = video[k].msg]
    /\ UNCHANGED <<callVars, runVars, threadVars, recordings, mRecordingState,
                   mVideoThreadExit, mVideoThreadRunning, streamsVideo, free,
                   g_busy_frame_queue, app, pictureVars, ownerVars>>

\* ... tracks the frame ...
VideoThreadTracks(k) ==
    /\ video[k].pc = "track"
    /\ video' = [video EXCEPT ![k] = Thread("deliver", @.b, @.msg)]
    /\ tracked' = [tracked EXCEPT ![video[k].b] = TRUE]
    /\ UNCHANGED <<callVars, runVars, threadVars, recordings, mRecordingState,
                   mVideoThreadExit, mVideoThreadRunning, streamsVideo, free,
                   g_busy_frame_queue, app, pictureVars, ownerVars>>

\* ... and gives it to the application, if the message was enabled when it looked.
VideoThreadDelivers(k) ==
    /\ video[k].pc = "deliver"
    /\ video' = [video EXCEPT ![k] = Looping]
    /\ app' = [app EXCEPT ![video[k].b] = @ + (IF video[k].msg THEN 1 ELSE 0)]
    /\ UNCHANGED <<callVars, runVars, threadVars, recordings, mRecordingState,
                   mVideoThreadExit, mVideoThreadRunning, streamsVideo, free,
                   g_busy_frame_queue, tracked, pictureVars, ownerVars>>

\* releaseRecordingFrame(), one at a time under mRecordFrameLock: a buffer is given back
\* if there is a frame thread, which the other lock keeps there.
ReleaseRecordingFrame(b) ==
    /\ releasing = NoBuf /\ ~mFrameThreadWaitLock
    /\ app[b] > 0
    /\ app' = [app EXCEPT ![b] = @ - 1]
    /\ IF frame # "none"
       THEN releasing' = b /\ mFrameThreadWaitLock' = TRUE
       ELSE UNCHANGED releaseVars
    /\ UNCHANGED <<callVars, runVars, threadVars, recordVars, free, g_busy_frame_queue,
                   tracked, pictureVars, dangling, reclaimed, shared>>

ReleaseGivesBack ==
    /\ releasing # NoBuf
    /\ tracked' = [tracked EXCEPT ![releasing] = FALSE]
    /\ free' = [free EXCEPT ![releasing] = @ + 1]
    /\ releasing' = NoBuf /\ mFrameThreadWaitLock' = FALSE
    /\ UNCHANGED <<callVars, runVars, threadVars, recordVars, g_busy_frame_queue, app,
                   pictureVars, dangling, reclaimed, shared>>

-----------------------------------------------------------------------------
(* Pictures                                                                  *)

TakePicture ==
    /\ ~mRecordingState
    /\ Events < MaxEvents
    /\ pictures' = pictures + 1
    /\ Begin("takePicture", "oldThread")
    /\ UNCHANGED <<videoMsg, previewMsg, runVars, threadVars, recordVars, frameVars,
                   pictureVars, ownerVars>>

\* takePicture() from here holds mSnapshotThreadWaitLock to the launch.
PrepareSnapshot ==
    /\ At("takePicture", "oldThread")
    /\ snapshot = "none"
    /\ \E fails \in MayFail("prepare") : IF fails THEN Return ELSE Goto("stop")
    /\ UNCHANGED <<videoMsg, previewMsg, pictures, runVars, threadVars, recordVars,
                   frameVars, pictureVars, ownerVars>>

\* A call of cancelPicture() up to here is forgotten.  The call unlocks
\* mFrameThreadWaitLock, which it has not locked: releaseRecordingFrame() may have.
LaunchSnapshot ==
    /\ At("takePicture", "initRaw")
    /\ mFrameThreadWaitLock' = FALSE
    /\ \E rawFails \in MayFail("initRaw"), threadFails \in MayFail("thread") :
         /\ raw' = ~rawFails
         /\ IF rawFails
            THEN Return /\ UNCHANGED <<mSnapshotCancel, snapshot>>
            ELSE /\ mSnapshotCancel' = FALSE
                 /\ snapshot' = IF threadFails THEN "none" ELSE "start"
                 /\ Goto("mode")
    /\ UNCHANGED <<videoMsg, previewMsg, pictures, runVars, threadVars, recordVars,
                   frameVars, capture, mJpegThreadRunning, mInSnapshotMode, leaving,
                   dangling, reclaimed, releasing, shared>>

\* The thread may have come to the raw picture, or ended, by the time this is set.
EnterSnapshotMode ==
    /\ At("takePicture", "mode")
    /\ mInSnapshotMode' = TRUE
    /\ Return
    /\ UNCHANGED <<videoMsg, previewMsg, pictures, runVars, threadVars, recordVars,
                   frameVars, snapshot, capture, mSnapshotCancel, mJpegThreadRunning,
                   leaving, raw, ownerVars>>

\* runSnapshotThread(): cancelPicture() is only looked at here.
SnapshotThreadStarts ==
    /\ snapshot = "start"
    /\ IF mSnapshotCancel
       THEN /\ mSnapshotCancel' = FALSE /\ mInSnapshotMode' = FALSE
            /\ raw' = FALSE
            /\ snapshot' = "none"
       ELSE snapshot' = "begin" /\ UNCHANGED <<mSnapshotCancel, mInSnapshotMode, raw>>
    /\ UNCHANGED <<callVars, runVars, threadVars, recordVars, frameVars, capture,
                   mJpegThreadRunning, leaving, ownerVars>>

\* The thread says that a picture is under way and has it taken, by mm_camera_start():
\* nothing comes of it once release() has closed the camera.
SnapshotThreadShoots ==
    /\ snapshot = "begin"
    /\ snapshot' = "wait"
    /\ mJpegThreadRunning' = TRUE
    /\ capture' = IF call.op = "release" /\ call.pc \in {"snapshotThread", "frameThread"}
                  THEN "stopped" ELSE "raw"
    /\ UNCHANGED <<callVars, runVars, threadVars, recordVars, frameVars, mSnapshotCancel,
                   mInSnapshotMode, leaving, raw, ownerVars>>

\* Mutant: deinitRaw() does not wait for the picture.
SnapshotThreadCleansAtOnce ==
    /\ snapshot = "wait"
    /\ raw' = FALSE
    /\ snapshot' = "none"
    /\ UNCHANGED <<callVars, runVars, threadVars, recordVars, frameVars, capture,
                   mSnapshotCancel, mJpegThreadRunning, mInSnapshotMode, leaving,
                   ownerVars>>

\* The picture has come, or release() says so: its buffers are freed.
SnapshotThreadCleans ==
    /\ snapshot = "wait"
    /\ ~mJpegThreadRunning
    /\ raw' = FALSE
    /\ snapshot' = "none"
    /\ UNCHANGED <<callVars, runVars, threadVars, recordVars, frameVars, capture,
                   mSnapshotCancel, mJpegThreadRunning, mInSnapshotMode, leaving,
                   ownerVars>>

\* receiveRawPicture(): one that failed is all that comes, else a JPEG picture follows.
\* It returns early when a buffer of the display cannot be unlocked.
ReceiveRawPicture ==
    /\ capture = "raw" /\ ~leaving
    /\ \E failed \in BOOLEAN, fails \in MayFail("genlock") :
         IF failed
         THEN capture' = "none" /\ mJpegThreadRunning' = FALSE /\ leaving' = TRUE
         ELSE capture' = "jpeg" /\ leaving' = ~fails /\ UNCHANGED mJpegThreadRunning
    /\ UNCHANGED <<callVars, runVars, threadVars, recordVars, frameVars, snapshot,
                   mSnapshotCancel, mInSnapshotMode, raw, ownerVars>>

\* At its end the snapshot mode is over.
LeaveSnapshotMode ==
    /\ leaving
    /\ leaving' = FALSE /\ mInSnapshotMode' = FALSE
    /\ UNCHANGED <<callVars, runVars, threadVars, recordVars, frameVars, snapshot,
                   capture, mSnapshotCancel, mJpegThreadRunning, raw, ownerVars>>

\* receiveJpegPicture() of the only picture: the callbacks of the library come one
\* after the other.
ReceiveJpegPicture ==
    /\ capture = "jpeg" /\ ~leaving
    /\ capture' = "none"
    /\ mJpegThreadRunning' = FALSE
    /\ UNCHANGED <<callVars, runVars, threadVars, recordVars, frameVars, snapshot,
                   mSnapshotCancel, mInSnapshotMode, leaving, raw, ownerVars>>

\* cancelPicture() takes no mLock: it may come during any other call.  It sets its
\* flag and stops CAMERA_OPS_CAPTURE, two steps that are one here because the second
\* alone does what another call would: the library may still bring the picture, or never.
CancelPicture ==
    /\ snapshot # "none" \/ call.op = "takePicture"
    /\ call.op # "released"
    /\ mSnapshotCancel' = TRUE
    /\ capture' \in {capture} \cup (IF capture = "none" THEN {} ELSE {"stopped"})
    /\ UNCHANGED <<callVars, runVars, threadVars, recordVars, frameVars, snapshot,
                   mJpegThreadRunning, mInSnapshotMode, leaving, raw, ownerVars>>

-----------------------------------------------------------------------------
(* release()                                                                 *)

Release ==
    /\ Begin("release", IF mCameraRunning THEN "stop" ELSE "jpeg")
    /\ UNCHANGED <<videoMsg, previewMsg, pictures, runVars, threadVars, recordVars,
                   frameVars, pictureVars, ownerVars>>

\* The capture is closed and the snapshot thread told not to wait, which it misses
\* if it has not begun to.
ReleasePicture ==
    /\ At("release", "jpeg")
    /\ capture' = "none"
    /\ mJpegThreadRunning' = FALSE
    /\ Goto("snapshotThread")
    /\ UNCHANGED <<videoMsg, previewMsg, pictures, runVars, threadVars, recordVars,
                   frameVars, snapshot, mSnapshotCancel, mInSnapshotMode, leaving, raw,
                   ownerVars>>

ReleaseResources ==
    /\ At("release", "snapshotThread")
    /\ snapshot = "none"
    /\ raw' = FALSE
    /\ Goto("frameThread")
    /\ UNCHANGED <<videoMsg, previewMsg, pictures, runVars, threadVars, recordVars,
                   frameVars, snapshot, capture, mSnapshotCancel, mJpegThreadRunning,
                   mInSnapshotMode, leaving, ownerVars>>

Released ==
    /\ At("release", "frameThread")
    /\ frame = "none" /\ ~mFrameThreadWaitLock
    /\ call' = [op |-> "released", pc |-> "none"]
    /\ UNCHANGED <<videoMsg, previewMsg, pictures, runVars, threadVars, recordVars,
                   frameVars, pictureVars, ownerVars>>

-----------------------------------------------------------------------------
Steps == \/ GetBuffers \/ InitRecord \/ LaunchPreview \/ StartStreaming
         \/ StopStreaming \/ DeinitPreview
         \/ DrainFrame \/ DrainEnds \/ ClearDangling \/ LaunchVideoThread \/ StopVideo
         \/ \E b \in Bufs : ReclaimDangling(b)
         \/ PrepareSnapshot \/ LaunchSnapshot \/ EnterSnapshotMode
         \/ ReleasePicture \/ ReleaseResources \/ Released

Calls == \/ StartPreview \/ StopPreview \/ StartRecording \/ StopRecording
         \/ TakePicture \/ Release

FrameThread   == FrameThreadTerminates \/ RelinquishBuffers
PreviewThread == PreviewThreadGets \/ PreviewThreadShows
VideoThread   == \E k \in DOMAIN video : \/ VideoThreadLoops(k) \/ VideoThreadLooksAtMsg(k)
                                       \/ VideoThreadTracks(k) \/ VideoThreadDelivers(k)
SnapshotThread == SnapshotThreadStarts \/ SnapshotThreadShoots \/ SnapshotThreadCleans
Library == ReceiveRawPicture \/ LeaveSnapshotMode \/ ReceiveJpegPicture

Next == \/ Calls \/ Steps \/ FrameThread \/ PreviewThread \/ VideoThread
        \/ SnapshotThread \/ Library
        \/ PreviewFrame \/ VideoFrame \/ CamframeTimeout
        \/ \E b \in Bufs : ReleaseRecordingFrame(b)
        \/ ReleaseGivesBack
        \/ CancelPicture

Spec == Init /\ [][Next]_vars

\* Threads run, the library answers a capture it was not told to stop, and a call
\* goes on; nobody has to make a call, and no frame has to come.
FairSpec == /\ Spec
            /\ WF_vars(Steps \/ FrameThread \/ SnapshotThread \/ Library)
            /\ WF_vars(PreviewThread) /\ WF_vars(ReleaseGivesBack)

-----------------------------------------------------------------------------
(* Properties                                                                *)

\* The calls, and the steps of each at which other threads may come between.
CallSteps ==
    {Idle, [op |-> "released", pc |-> "none"]}
    \cup [op : {"startPreview"}, pc : {"buffers", "mode", "video", "ops"}]
    \cup [op : {"startRecording"}, pc : {"drain", "dangling"}]
    \cup [op : {"stopRecording"}, pc : {"thread"}]
    \cup [op : {"stopPreview"}, pc : {"stop", "deinit"}]
    \cup [op : {"takePicture"}, pc : {"oldThread", "stop", "deinit", "initRaw", "mode"}]
    \cup [op : {"release"}, pc : {"stop", "deinit", "jpeg", "snapshotThread", "frameThread"}]

\* Every variable has its type.
TypeOK ==
    /\ call \in CallSteps
    /\ {videoMsg, previewMsg, mCameraRunning, mPreviewInitialized, busyInit, exitFlag,
        camframe_timeout_flag, mRecordingState, mVideoThreadExit, mVideoThreadRunning,
        streamsVideo, mSnapshotCancel, mJpegThreadRunning, mInSnapshotMode, leaving, raw,
        mFrameThreadWaitLock} \subseteq BOOLEAN
    /\ frame \in {"none", "run", "waitPreview"}
    /\ preview \in {"none", "get", "show"}
    /\ buffer \in {"camera", "busy", "thread", "window"}
    /\ recordings \in Nat /\ pictures \in Nat /\ Events <= MaxEvents
    /\ video \in Seq([pc : {"check", "wait", "take", "track", "deliver"},
                     b : Bufs \cup {NoBuf}, msg : BOOLEAN])
    /\ Len(video) <= recordings
    /\ g_busy_frame_queue \in Seq(Bufs)
    /\ tracked \in [Bufs -> BOOLEAN]
    /\ {free, app, shared} \subseteq [Bufs -> Nat]
    /\ dangling \subseteq Bufs /\ {reclaimed, releasing} \subseteq Bufs \cup {NoBuf}
    /\ snapshot \in {"none", "start", "begin", "wait"}
    /\ capture \in {"none", "raw", "jpeg", "stopped"}

\* The frame thread never takes a preview buffer from under the preview thread, a
\* preview begins only when both threads of the last one are gone, and then all
\* buffers are back in the window: relinquishing them is to "ensure that all preview
\* buffers are available for dequeing when startPreview is called again".
PreviewsDoNotOverlap ==
    /\ preview = "show" => buffer = "thread"
    /\ At("startPreview", "video") => frame = "none" /\ preview = "none"
    /\ At("startPreview", "buffers") /\ frame = "none" => buffer = "window"

\* While the preview streams, a record buffer has one owner: the driver, the queue, a
\* video thread, the application or its call, or nobody, and then it is tracked, for the
\* next recording to take it back.  It has one more for each time the driver was given
\* it while somebody outside had it: by a recording that takes back what was not
\* released, or by a preview that begins while a video thread of the last, or a call
\* that had its lock taken away, still has the buffer.
Owners(b) == free[b] + Queued(b) + Held(b) + app[b] + Releasing(b)
RecordBuffersHaveOneOwner ==
    mPreviewInitialized /\ mCameraRunning =>
        \A b \in Bufs : /\ Owners(b) <= 1 + shared[b]
                       /\ Owners(b) = 0 => tracked[b]

\* What the camera library still has to bring finds the snapshot thread waiting for
\* it, and the buffers it goes to: receiveRawPicture() without a snapshot thread
\* returns with mSnapshotThreadWaitLock held.
CaptureHasItsThread ==
    capture # "none" => snapshot = "wait" /\ raw /\ mJpegThreadRunning

\* Every call returns, unless it waits with mLock held for what nobody will do: end
\* the snapshot mode, when it was set after the raw picture came or its thread was
\* gone, or when the callback of the picture returned early; end the picture, when its
\* capture was stopped or release() has closed it before the thread took it; clear the
\* flag of a video thread that could not be created; end the frame thread, in a
\* release() whose camera refused to stop.  And startRecording() empties a queue that
\* the driver fills, which may take for ever.
Abandoned == \/ /\ mInSnapshotMode /\ ~leaving
                /\ snapshot \in {"none", "wait"} /\ capture # "raw"
             \/ capture = "stopped"
CallsReturn ==
    (call # Idle) ~> \/ call = Idle \/ call.op = "released"
                     \/ Abandoned
                     \/ mVideoThreadRunning
                     \/ call.op = "release" /\ mCameraRunning
                     \/ At("startRecording", "drain") /\ g_busy_frame_queue # <<>>

\* A video thread ends with its recording: there is never a second one.
OneVideoThread == Len(video) <= 1
=============================================================================
