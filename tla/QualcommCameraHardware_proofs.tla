--------------------- MODULE QualcommCameraHardware_proofs ---------------------
(***************************************************************************)
(* Why the threads of the old HAL keep out of each other's way, for any    *)
(* number of record buffers and of recordings, and whichever calls fail.   *)
(* The preview: its frame thread outlives its preview thread and is gone   *)
(* before the next preview begins.  A picture: the library brings nothing  *)
(* that no snapshot thread waits for.  The record buffers: where a buffer  *)
(* is, with the driver, in the queue, with a video thread, the application *)
(* or its call, is counted per buffer, against how often it was handed out *)
(* twice.                                                                  *)
(***************************************************************************)
EXTENDS QualcommCameraHardware, SequenceTheorems, FiniteSetTheorems, FunctionTheorems, TLAPS

-----------------------------------------------------------------------------
(* The invariant                                                             *)

\* The types, the record buffers' apart.
FlagTypes ==
    /\ videoMsg \in BOOLEAN /\ previewMsg \in BOOLEAN
    /\ mCameraRunning \in BOOLEAN /\ mPreviewInitialized \in BOOLEAN
    /\ busyInit \in BOOLEAN /\ exitFlag \in BOOLEAN /\ camframe_timeout_flag \in BOOLEAN
    /\ mRecordingState \in BOOLEAN /\ mVideoThreadExit \in BOOLEAN
    /\ mVideoThreadRunning \in BOOLEAN /\ streamsVideo \in BOOLEAN
    /\ mSnapshotCancel \in BOOLEAN /\ mJpegThreadRunning \in BOOLEAN
    /\ mInSnapshotMode \in BOOLEAN /\ leaving \in BOOLEAN /\ raw \in BOOLEAN
    /\ mFrameThreadWaitLock \in BOOLEAN

\* Recordings, pictures and timeouts are counted.
EventsInv == recordings \in Nat /\ pictures \in Nat /\ Events <= MaxEvents

\* How far a call has come, and the threads of the preview and the picture.
CallTyped ==
    /\ call \in CallSteps
    /\ frame \in {"none", "run", "waitPreview"}
    /\ preview \in {"none", "get", "show"}
    /\ buffer \in {"camera", "busy", "thread", "window"}
    /\ snapshot \in {"none", "start", "begin", "wait"}
    /\ capture \in {"none", "raw", "jpeg", "stopped"}

\* The frame thread outlives the preview thread, there is none while a preview gets
\* its buffers, and else the buffers are in the window when there is none.
PreviewInv ==
    /\ preview # "none" => frame # "none"
    /\ preview = "show" => buffer = "thread"
    /\ At("startPreview", "mode") \/ At("startPreview", "video") => frame = "none"
    /\ frame = "none" => \/ buffer = "window"
                         \/ At("startPreview", "mode") \/ At("startPreview", "video")

\* As long as a preview is initialized its frame thread runs, and a preview is
\* initialized that does not stream only while a call is about to change that.  Only
\* a recording that begins, with its message enabled, takes tracked buffers back.
StreamingInv ==
    /\ mCameraRunning => mPreviewInitialized
    /\ mPreviewInitialized => frame = "run" /\ ~exitFlag
    /\ mPreviewInitialized => \/ mCameraRunning
                              \/ At("startPreview", "ops") \/ AtStep("deinit")
    /\ call.op = "startPreview" => ~mCameraRunning
    /\ At("startPreview", "ops") => mPreviewInitialized
    /\ call.op = "startRecording" => mPreviewInitialized /\ videoMsg
    /\ reclaimed # NoBuf => At("startRecording", "dangling") /\ reclaimed \in dangling

\* A snapshot thread has the buffers of the picture, and there is none while
\* takePicture() prepares the next or release() has waited for it.
PictureInv ==
    /\ CaptureHasItsThread
    /\ snapshot # "none" => raw
    /\ call.op = "takePicture" /\ call.pc \in {"stop", "deinit", "initRaw"} => snapshot = "none"
    /\ At("release", "frameThread") \/ call.op = "released" => snapshot = "none"

\* A video thread has a buffer from when it takes it to when it delivers it.
VideoTypes == [pc : {"check", "wait"}, b : {NoBuf}, msg : {FALSE}]
              \cup [pc : {"take"}, b : Bufs, msg : {FALSE}]
              \cup [pc : {"track", "deliver"}, b : Bufs, msg : BOOLEAN]

\* The types of the record buffers' variables.
RecordTyped ==
    /\ video \in Seq(VideoTypes)
    /\ g_busy_frame_queue \in Seq(Bufs)
    /\ tracked \in [Bufs -> BOOLEAN]
    /\ free \in [Bufs -> Nat] /\ app \in [Bufs -> Nat] /\ shared \in [Bufs -> Nat]
    /\ dangling \subseteq Bufs /\ reclaimed \in Bufs \cup {NoBuf}
    /\ releasing \in Bufs \cup {NoBuf}

\* Every recording adds one video thread at most, and the queue is empty when the
\* driver gets all buffers anew.
CountInv ==
    /\ Len(video) + (IF call.op = "startRecording" THEN 1 ELSE 0) <= recordings
    /\ At("startPreview", "video") => g_busy_frame_queue = <<>>

\* A video thread that will give its buffer to the application, as far as it knows,
\* and one that is about to track its buffer.
Carries(t, b) == t.b = b /\ (t.pc = "take" \/ t.msg)
Tracks(t, b) == t.b = b /\ t.pc = "track"
Carried(b) == \E k \in DOMAIN video : Carries(video[k], b)
Tracking(b) == \E k \in DOMAIN video : Tracks(video[k], b)

\* A buffer that comes back to the driver without being tracked.
Kept(b) == free[b] > 0 \/ Queued(b) > 0 \/ app[b] > 0 \/ releasing = b \/ Carried(b)

\* A buffer has one owner more than it was handed out twice.  A tracked one that is
\* not outside has an owner less, so that a recording may give it to the driver; one
\* it has given there is kept until it is tracked no more.  No buffer is lost.
Accounted(b) ==
    /\ Owners(b) <= 1 + shared[b]
    /\ tracked[b] /\ ~Outside(b) /\ reclaimed # b => Owners(b) <= shared[b]
    /\ tracked[b] \/ Kept(b) \/ Tracking(b)
    /\ reclaimed = b => Kept(b)

\* What the last preview has left outside is counted before the driver gets the
\* buffers.
Inherited(b) ==
    /\ app[b] + Held(b) + Releasing(b) <= shared[b]
    /\ tracked[b] => shared[b] > 0

OwnerInv ==
    /\ At("startPreview", "video") => \A b \in Bufs : Inherited(b)
    /\ mPreviewInitialized => \A b \in Bufs : Accounted(b)

RecordInv == RecordTyped /\ CountInv /\ OwnerInv

-----------------------------------------------------------------------------
(* Types, the preview and the picture                                        *)

\* A call goes from one of its steps to the next, and the threads keep their types.
LEMMA CallTypes ==
  ASSUME CallTyped, [Next]_vars
  PROVE  CallTyped'
<1> USE DEF CallTyped, CallSteps, Begin, Goto, Return, At, AtStep, Idle, MayFail, AfterStop,
           callVars, runVars, threadVars, recordVars, frameVars, pictureVars, releaseVars,
           ownerVars
<1>1. CASE StartPreview
  BY <1>1 DEF StartPreview
<1>2. CASE GetBuffers
  BY <1>2 DEF GetBuffers
<1>3. CASE InitRecord
  BY <1>3 DEF InitRecord, SnapshotModeOver
<1>4. CASE LaunchPreview
  BY <1>4 DEF LaunchPreview, FillDriver
<1>5. CASE StartStreaming
  BY <1>5 DEF StartStreaming
<1>6. CASE StopPreview
  BY <1>6 DEF StopPreview
<1>7. CASE StopStreaming
  BY <1>7 DEF StopStreaming
<1>8. CASE CamframeTimeout
  BY <1>8 DEF CamframeTimeout
<1>9. CASE DeinitPreview
  BY <1>9 DEF DeinitPreview
<1>10. CASE PreviewFrame
  BY <1>10 DEF PreviewFrame
<1>11. CASE VideoFrame
  BY <1>11 DEF VideoFrame
<1>12. CASE FrameThreadTerminates
  BY <1>12 DEF FrameThreadTerminates
<1>13. CASE RelinquishBuffers
  BY <1>13 DEF RelinquishBuffers
<1>14. CASE PreviewThreadGets
  BY <1>14 DEF PreviewThreadGets
<1>15. CASE PreviewThreadShows
  BY <1>15 DEF PreviewThreadShows
<1>16. CASE StartRecording
  BY <1>16 DEF StartRecording
<1>17. CASE DrainFrame
  BY <1>17 DEF DrainFrame
<1>18. CASE DrainEnds
  BY <1>18 DEF DrainEnds
<1>19. ASSUME NEW b \in Bufs, ReclaimDangling(b) PROVE CallTyped'
  BY <1>19 DEF ReclaimDangling
<1>20. CASE ClearDangling
  BY <1>20 DEF ClearDangling
<1>21. CASE LaunchVideoThread
  BY <1>21 DEF LaunchVideoThread
<1>22. CASE StopRecording
  BY <1>22 DEF StopRecording
<1>23. CASE StopVideo
  BY <1>23 DEF StopVideo
<1>24. ASSUME NEW k \in DOMAIN video, VideoThreadLoops(k) PROVE CallTyped'
  BY <1>24 DEF VideoThreadLoops
<1>25. ASSUME NEW k \in DOMAIN video, VideoThreadLooksAtMsg(k) PROVE CallTyped'
  BY <1>25 DEF VideoThreadLooksAtMsg
<1>26. ASSUME NEW k \in DOMAIN video, VideoThreadTracks(k) PROVE CallTyped'
  BY <1>26 DEF VideoThreadTracks
<1>27. ASSUME NEW k \in DOMAIN video, VideoThreadDelivers(k) PROVE CallTyped'
  BY <1>27 DEF VideoThreadDelivers
<1>28. ASSUME NEW b \in Bufs, ReleaseRecordingFrame(b) PROVE CallTyped'
  BY <1>28 DEF ReleaseRecordingFrame
<1>29. CASE ReleaseGivesBack
  BY <1>29 DEF ReleaseGivesBack
<1>30. CASE TakePicture
  BY <1>30 DEF TakePicture
<1>31. CASE PrepareSnapshot
  BY <1>31 DEF PrepareSnapshot
<1>32. CASE LaunchSnapshot
  BY <1>32 DEF LaunchSnapshot
<1>33. CASE EnterSnapshotMode
  BY <1>33 DEF EnterSnapshotMode
<1>34. CASE SnapshotThreadStarts
  BY <1>34 DEF SnapshotThreadStarts
<1>35. CASE SnapshotThreadShoots
  BY <1>35 DEF SnapshotThreadShoots
<1>36. CASE SnapshotThreadCleans
  BY <1>36 DEF SnapshotThreadCleans
<1>37. CASE ReceiveRawPicture
  BY <1>37 DEF ReceiveRawPicture
<1>38. CASE LeaveSnapshotMode
  BY <1>38 DEF LeaveSnapshotMode
<1>39. CASE ReceiveJpegPicture
  BY <1>39 DEF ReceiveJpegPicture
<1>40. CASE CancelPicture
  BY <1>40 DEF CancelPicture
<1>41. CASE Release
  BY <1>41 DEF Release
<1>42. CASE ReleasePicture
  BY <1>42 DEF ReleasePicture
<1>43. CASE ReleaseResources
  BY <1>43 DEF ReleaseResources
<1>44. CASE Released
  BY <1>44 DEF Released
<1>45. CASE UNCHANGED vars
  BY <1>45 DEF vars
<1> QED
  BY <1>1, <1>2, <1>3, <1>4, <1>5, <1>6, <1>7, <1>8, <1>9, <1>10, <1>11, <1>12, <1>13,
     <1>14, <1>15, <1>16, <1>17, <1>18, <1>19, <1>20, <1>21, <1>22, <1>23, <1>24, <1>25,
     <1>26, <1>27, <1>28, <1>29, <1>30, <1>31, <1>32, <1>33, <1>34, <1>35, <1>36, <1>37,
     <1>38, <1>39, <1>40, <1>41, <1>42, <1>43, <1>44, <1>45
     DEF Next, Calls, Steps, FrameThread, PreviewThread, VideoThread, SnapshotThread,
         Library

\* The flags keep their types.
LEMMA FlagsKeep ==
  ASSUME FlagTypes, [Next]_vars
  PROVE  FlagTypes'
<1>1. CASE StartPreview
  BY <1>1
     DEF StartPreview, FlagTypes, callVars, runVars, threadVars, recordVars, frameVars,
         pictureVars, releaseVars, ownerVars
<1>2. CASE GetBuffers
  BY <1>2
     DEF GetBuffers, FlagTypes, callVars, runVars, threadVars, recordVars, frameVars,
         pictureVars, releaseVars, ownerVars
<1>3. CASE InitRecord
  BY <1>3
     DEF InitRecord, SnapshotModeOver, FlagTypes, callVars, runVars, threadVars,
         recordVars, frameVars, pictureVars, releaseVars, ownerVars
<1>4. CASE LaunchPreview
  <2>1. /\ mPreviewInitialized' \in BOOLEAN /\ busyInit' \in BOOLEAN
        /\ exitFlag' \in BOOLEAN
    BY <1>4 DEF LaunchPreview, FlagTypes, MayFail
  <2>2. UNCHANGED <<videoMsg, previewMsg, mCameraRunning, camframe_timeout_flag,
                    mRecordingState, mVideoThreadExit, mVideoThreadRunning,
                    streamsVideo, mSnapshotCancel, mJpegThreadRunning, mInSnapshotMode,
                    leaving, raw, mFrameThreadWaitLock>>
    BY <1>4 DEF LaunchPreview, callVars, runVars, recordVars, pictureVars, releaseVars,
            ownerVars
  <2> QED
    BY <2>1, <2>2 DEF FlagTypes
<1>5. CASE StartStreaming
  <2>1. /\ mCameraRunning' \in BOOLEAN /\ mPreviewInitialized' \in BOOLEAN
        /\ busyInit' \in BOOLEAN /\ exitFlag' \in BOOLEAN
    BY <1>5 DEF StartStreaming, FlagTypes, MayFail
  <2>2. UNCHANGED <<videoMsg, previewMsg, camframe_timeout_flag, mRecordingState,
                    mVideoThreadExit, mVideoThreadRunning, streamsVideo,
                    mSnapshotCancel, mJpegThreadRunning, mInSnapshotMode, leaving, raw,
                    mFrameThreadWaitLock>>
    BY <1>5 DEF StartStreaming, callVars, runVars, recordVars, pictureVars, releaseVars,
            ownerVars
  <2> QED
    BY <2>1, <2>2 DEF FlagTypes
<1>6. CASE StopPreview
  BY <1>6
     DEF StopPreview, FlagTypes, callVars, runVars, threadVars, recordVars, frameVars,
         pictureVars, releaseVars, ownerVars
<1>7. CASE StopStreaming
  BY <1>7
     DEF StopStreaming, FlagTypes, callVars, runVars, threadVars, recordVars, frameVars,
         pictureVars, releaseVars, ownerVars
<1>8. CASE CamframeTimeout
  BY <1>8
     DEF CamframeTimeout, FlagTypes, callVars, runVars, threadVars, recordVars,
         frameVars, pictureVars, releaseVars, ownerVars
<1>9. CASE DeinitPreview
  <2>1. /\ mPreviewInitialized' \in BOOLEAN /\ busyInit' \in BOOLEAN
        /\ exitFlag' \in BOOLEAN /\ mVideoThreadExit' \in BOOLEAN
    BY <1>9 DEF DeinitPreview, FlagTypes, MayFail
  <2>2. UNCHANGED <<videoMsg, previewMsg, mCameraRunning, camframe_timeout_flag,
                    mRecordingState, mVideoThreadRunning, streamsVideo, mSnapshotCancel,
                    mJpegThreadRunning, mInSnapshotMode, leaving, raw,
                    mFrameThreadWaitLock>>
    BY <1>9 DEF DeinitPreview, callVars, runVars, recordVars, pictureVars, releaseVars,
            ownerVars
  <2> QED
    BY <2>1, <2>2 DEF FlagTypes
<1>10. CASE PreviewFrame
  BY <1>10
     DEF PreviewFrame, FlagTypes, callVars, runVars, threadVars, recordVars, frameVars,
         pictureVars, releaseVars, ownerVars
<1>11. CASE VideoFrame
  BY <1>11
     DEF VideoFrame, FlagTypes, callVars, runVars, threadVars, recordVars, frameVars,
         pictureVars, releaseVars, ownerVars
<1>12. CASE FrameThreadTerminates
  BY <1>12
     DEF FrameThreadTerminates, FlagTypes, callVars, runVars, threadVars, recordVars,
         frameVars, pictureVars, releaseVars, ownerVars
<1>13. CASE RelinquishBuffers
  BY <1>13
     DEF RelinquishBuffers, FlagTypes, callVars, runVars, threadVars, recordVars,
         frameVars, pictureVars, releaseVars, ownerVars
<1>14. CASE PreviewThreadGets
  BY <1>14
     DEF PreviewThreadGets, FlagTypes, callVars, runVars, threadVars, recordVars,
         frameVars, pictureVars, releaseVars, ownerVars
<1>15. CASE PreviewThreadShows
  BY <1>15
     DEF PreviewThreadShows, FlagTypes, callVars, runVars, threadVars, recordVars,
         frameVars, pictureVars, releaseVars, ownerVars
<1>16. CASE StartRecording
  BY <1>16
     DEF StartRecording, FlagTypes, callVars, runVars, threadVars, recordVars,
         frameVars, pictureVars, releaseVars, ownerVars
<1>17. CASE DrainFrame
  BY <1>17
     DEF DrainFrame, FlagTypes, callVars, runVars, threadVars, recordVars, frameVars,
         pictureVars, releaseVars, ownerVars
<1>18. CASE DrainEnds
  BY <1>18
     DEF DrainEnds, FlagTypes, callVars, runVars, threadVars, recordVars, frameVars,
         pictureVars, releaseVars, ownerVars
<1>19. ASSUME NEW b \in Bufs, ReclaimDangling(b) PROVE FlagTypes'
  BY <1>19
     DEF ReclaimDangling, FlagTypes, callVars, runVars, threadVars, recordVars,
         frameVars, pictureVars, releaseVars, ownerVars
<1>20. CASE ClearDangling
  BY <1>20
     DEF ClearDangling, FlagTypes, callVars, runVars, threadVars, recordVars, frameVars,
         pictureVars, releaseVars, ownerVars
<1>21. CASE LaunchVideoThread
  <2>1. /\ mVideoThreadExit' \in BOOLEAN /\ mVideoThreadRunning' \in BOOLEAN
    BY <1>21 DEF LaunchVideoThread, FlagTypes, MayFail
  <2>2. UNCHANGED <<videoMsg, previewMsg, mCameraRunning, mPreviewInitialized, busyInit,
                    exitFlag, camframe_timeout_flag, mRecordingState, streamsVideo,
                    mSnapshotCancel, mJpegThreadRunning, mInSnapshotMode, leaving, raw,
                    mFrameThreadWaitLock>>
    BY <1>21 DEF LaunchVideoThread, callVars, runVars, recordVars, pictureVars, releaseVars,
            ownerVars
  <2> QED
    BY <2>1, <2>2 DEF FlagTypes
<1>22. CASE StopRecording
  <2>1. /\ videoMsg' \in BOOLEAN /\ mVideoThreadExit' \in BOOLEAN
    BY <1>22 DEF StopRecording, FlagTypes, MayFail
  <2>2. UNCHANGED <<previewMsg, mCameraRunning, mPreviewInitialized, busyInit, exitFlag,
                    camframe_timeout_flag, mRecordingState, mVideoThreadRunning,
                    streamsVideo, mSnapshotCancel, mJpegThreadRunning, mInSnapshotMode,
                    leaving, raw, mFrameThreadWaitLock>>
    BY <1>22 DEF StopRecording, callVars, runVars, recordVars, pictureVars, releaseVars,
            ownerVars
  <2> QED
    BY <2>1, <2>2 DEF FlagTypes
<1>23. CASE StopVideo
  <2>1. /\ mRecordingState' \in BOOLEAN /\ streamsVideo' \in BOOLEAN
    BY <1>23 DEF StopVideo, FlagTypes, MayFail
  <2>2. UNCHANGED <<videoMsg, previewMsg, mCameraRunning, mPreviewInitialized, busyInit,
                    exitFlag, camframe_timeout_flag, mVideoThreadExit,
                    mVideoThreadRunning, mSnapshotCancel, mJpegThreadRunning,
                    mInSnapshotMode, leaving, raw, mFrameThreadWaitLock>>
    BY <1>23 DEF StopVideo, callVars, runVars, recordVars, pictureVars, releaseVars,
            ownerVars
  <2> QED
    BY <2>1, <2>2 DEF FlagTypes
<1>24. ASSUME NEW k \in DOMAIN video, VideoThreadLoops(k) PROVE FlagTypes'
  <2>1. mVideoThreadRunning' \in BOOLEAN
    BY <1>24 DEF VideoThreadLoops, FlagTypes, MayFail
  <2>2. UNCHANGED <<videoMsg, previewMsg, mCameraRunning, mPreviewInitialized, busyInit,
                    exitFlag, camframe_timeout_flag, mRecordingState, mVideoThreadExit,
                    streamsVideo, mSnapshotCancel, mJpegThreadRunning, mInSnapshotMode,
                    leaving, raw, mFrameThreadWaitLock>>
    BY <1>24 DEF VideoThreadLoops, callVars, runVars, recordVars, pictureVars, releaseVars,
            ownerVars
  <2> QED
    BY <2>1, <2>2 DEF FlagTypes
<1>25. ASSUME NEW k \in DOMAIN video, VideoThreadLooksAtMsg(k) PROVE FlagTypes'
  BY <1>25
     DEF VideoThreadLooksAtMsg, FlagTypes, callVars, runVars, threadVars, recordVars,
         frameVars, pictureVars, releaseVars, ownerVars
<1>26. ASSUME NEW k \in DOMAIN video, VideoThreadTracks(k) PROVE FlagTypes'
  BY <1>26
     DEF VideoThreadTracks, FlagTypes, callVars, runVars, threadVars, recordVars,
         frameVars, pictureVars, releaseVars, ownerVars
<1>27. ASSUME NEW k \in DOMAIN video, VideoThreadDelivers(k) PROVE FlagTypes'
  BY <1>27
     DEF VideoThreadDelivers, FlagTypes, callVars, runVars, threadVars, recordVars,
         frameVars, pictureVars, releaseVars, ownerVars
<1>28. ASSUME NEW b \in Bufs, ReleaseRecordingFrame(b) PROVE FlagTypes'
  <2>1. mFrameThreadWaitLock' \in BOOLEAN
    BY <1>28 DEF ReleaseRecordingFrame, FlagTypes, MayFail, releaseVars
  <2>2. UNCHANGED <<videoMsg, previewMsg, mCameraRunning, mPreviewInitialized, busyInit,
                    exitFlag, camframe_timeout_flag, mRecordingState, mVideoThreadExit,
                    mVideoThreadRunning, streamsVideo, mSnapshotCancel,
                    mJpegThreadRunning, mInSnapshotMode, leaving, raw>>
    BY <1>28 DEF ReleaseRecordingFrame, callVars, runVars, recordVars, pictureVars, releaseVars,
            ownerVars
  <2> QED
    BY <2>1, <2>2 DEF FlagTypes
<1>29. CASE ReleaseGivesBack
  <2>1. mFrameThreadWaitLock' \in BOOLEAN
    BY <1>29 DEF ReleaseGivesBack, FlagTypes, MayFail
  <2>2. UNCHANGED <<videoMsg, previewMsg, mCameraRunning, mPreviewInitialized, busyInit,
                    exitFlag, camframe_timeout_flag, mRecordingState, mVideoThreadExit,
                    mVideoThreadRunning, streamsVideo, mSnapshotCancel,
                    mJpegThreadRunning, mInSnapshotMode, leaving, raw>>
    BY <1>29 DEF ReleaseGivesBack, callVars, runVars, recordVars, pictureVars, releaseVars,
            ownerVars
  <2> QED
    BY <2>1, <2>2 DEF FlagTypes
<1>30. CASE TakePicture
  BY <1>30
     DEF TakePicture, FlagTypes, callVars, runVars, threadVars, recordVars, frameVars,
         pictureVars, releaseVars, ownerVars
<1>31. CASE PrepareSnapshot
  BY <1>31
     DEF PrepareSnapshot, FlagTypes, callVars, runVars, threadVars, recordVars,
         frameVars, pictureVars, releaseVars, ownerVars
<1>32. CASE LaunchSnapshot
  <2>1. /\ raw' \in BOOLEAN /\ mSnapshotCancel' \in BOOLEAN
        /\ mFrameThreadWaitLock' \in BOOLEAN
    BY <1>32 DEF LaunchSnapshot, FlagTypes, MayFail
  <2>2. UNCHANGED <<videoMsg, previewMsg, mCameraRunning, mPreviewInitialized, busyInit,
                    exitFlag, camframe_timeout_flag, mRecordingState, mVideoThreadExit,
                    mVideoThreadRunning, streamsVideo, mJpegThreadRunning,
                    mInSnapshotMode, leaving>>
    BY <1>32 DEF LaunchSnapshot, callVars, runVars, recordVars, pictureVars, releaseVars,
            ownerVars
  <2> QED
    BY <2>1, <2>2 DEF FlagTypes
<1>33. CASE EnterSnapshotMode
  BY <1>33
     DEF EnterSnapshotMode, FlagTypes, callVars, runVars, threadVars, recordVars,
         frameVars, pictureVars, releaseVars, ownerVars
<1>34. CASE SnapshotThreadStarts
  <2>1. /\ mSnapshotCancel' \in BOOLEAN /\ mInSnapshotMode' \in BOOLEAN
        /\ raw' \in BOOLEAN
    BY <1>34 DEF SnapshotThreadStarts, FlagTypes, MayFail
  <2>2. UNCHANGED <<videoMsg, previewMsg, mCameraRunning, mPreviewInitialized, busyInit,
                    exitFlag, camframe_timeout_flag, mRecordingState, mVideoThreadExit,
                    mVideoThreadRunning, streamsVideo, mJpegThreadRunning, leaving,
                    mFrameThreadWaitLock>>
    BY <1>34 DEF SnapshotThreadStarts, callVars, runVars, recordVars, pictureVars, releaseVars,
            ownerVars
  <2> QED
    BY <2>1, <2>2 DEF FlagTypes
<1>35. CASE SnapshotThreadShoots
  BY <1>35
     DEF SnapshotThreadShoots, FlagTypes, callVars, runVars, threadVars, recordVars,
         frameVars, pictureVars, releaseVars, ownerVars
<1>36. CASE SnapshotThreadCleans
  <2>1. raw' \in BOOLEAN
    BY <1>36 DEF SnapshotThreadCleans, FlagTypes, MayFail
  <2>2. UNCHANGED <<videoMsg, previewMsg, mCameraRunning, mPreviewInitialized, busyInit,
                    exitFlag, camframe_timeout_flag, mRecordingState, mVideoThreadExit,
                    mVideoThreadRunning, streamsVideo, mSnapshotCancel,
                    mJpegThreadRunning, mInSnapshotMode, leaving, mFrameThreadWaitLock>>
    BY <1>36 DEF SnapshotThreadCleans, callVars, runVars, recordVars, pictureVars, releaseVars,
            ownerVars
  <2> QED
    BY <2>1, <2>2 DEF FlagTypes
<1>37. CASE ReceiveRawPicture
  <2>1. /\ mJpegThreadRunning' \in BOOLEAN /\ leaving' \in BOOLEAN
    BY <1>37 DEF ReceiveRawPicture, FlagTypes, MayFail
  <2>2. UNCHANGED <<videoMsg, previewMsg, mCameraRunning, mPreviewInitialized, busyInit,
                    exitFlag, camframe_timeout_flag, mRecordingState, mVideoThreadExit,
                    mVideoThreadRunning, streamsVideo, mSnapshotCancel, mInSnapshotMode,
                    raw, mFrameThreadWaitLock>>
    BY <1>37 DEF ReceiveRawPicture, callVars, runVars, recordVars, pictureVars, releaseVars,
            ownerVars
  <2> QED
    BY <2>1, <2>2 DEF FlagTypes
<1>38. CASE LeaveSnapshotMode
  <2>1. /\ leaving' \in BOOLEAN /\ mInSnapshotMode' \in BOOLEAN
    BY <1>38 DEF LeaveSnapshotMode, FlagTypes, MayFail
  <2>2. UNCHANGED <<videoMsg, previewMsg, mCameraRunning, mPreviewInitialized, busyInit,
                    exitFlag, camframe_timeout_flag, mRecordingState, mVideoThreadExit,
                    mVideoThreadRunning, streamsVideo, mSnapshotCancel,
                    mJpegThreadRunning, raw, mFrameThreadWaitLock>>
    BY <1>38 DEF LeaveSnapshotMode, callVars, runVars, recordVars, pictureVars, releaseVars,
            ownerVars
  <2> QED
    BY <2>1, <2>2 DEF FlagTypes
<1>39. CASE ReceiveJpegPicture
  <2>1. mJpegThreadRunning' \in BOOLEAN
    BY <1>39 DEF ReceiveJpegPicture, FlagTypes, MayFail
  <2>2. UNCHANGED <<videoMsg, previewMsg, mCameraRunning, mPreviewInitialized, busyInit,
                    exitFlag, camframe_timeout_flag, mRecordingState, mVideoThreadExit,
                    mVideoThreadRunning, streamsVideo, mSnapshotCancel, mInSnapshotMode,
                    leaving, raw, mFrameThreadWaitLock>>
    BY <1>39 DEF ReceiveJpegPicture, callVars, runVars, recordVars, pictureVars, releaseVars,
            ownerVars
  <2> QED
    BY <2>1, <2>2 DEF FlagTypes
<1>40. CASE CancelPicture
  BY <1>40
     DEF CancelPicture, FlagTypes, callVars, runVars, threadVars, recordVars, frameVars,
         pictureVars, releaseVars, ownerVars
<1>41. CASE Release
  BY <1>41
     DEF Release, FlagTypes, callVars, runVars, threadVars, recordVars, frameVars,
         pictureVars, releaseVars, ownerVars
<1>42. CASE ReleasePicture
  <2>1. mJpegThreadRunning' \in BOOLEAN
    BY <1>42 DEF ReleasePicture, FlagTypes, MayFail
  <2>2. UNCHANGED <<videoMsg, previewMsg, mCameraRunning, mPreviewInitialized, busyInit,
                    exitFlag, camframe_timeout_flag, mRecordingState, mVideoThreadExit,
                    mVideoThreadRunning, streamsVideo, mSnapshotCancel, mInSnapshotMode,
                    leaving, raw, mFrameThreadWaitLock>>
    BY <1>42 DEF ReleasePicture, callVars, runVars, recordVars, pictureVars, releaseVars,
            ownerVars
  <2> QED
    BY <2>1, <2>2 DEF FlagTypes
<1>43. CASE ReleaseResources
  <2>1. raw' \in BOOLEAN
    BY <1>43 DEF ReleaseResources, FlagTypes, MayFail
  <2>2. UNCHANGED <<videoMsg, previewMsg, mCameraRunning, mPreviewInitialized, busyInit,
                    exitFlag, camframe_timeout_flag, mRecordingState, mVideoThreadExit,
                    mVideoThreadRunning, streamsVideo, mSnapshotCancel,
                    mJpegThreadRunning, mInSnapshotMode, leaving, mFrameThreadWaitLock>>
    BY <1>43 DEF ReleaseResources, callVars, runVars, recordVars, pictureVars, releaseVars,
            ownerVars
  <2> QED
    BY <2>1, <2>2 DEF FlagTypes
<1>44. CASE Released
  BY <1>44
     DEF Released, FlagTypes, callVars, runVars, threadVars, recordVars, frameVars,
         pictureVars, releaseVars, ownerVars
<1>45. CASE UNCHANGED vars
  BY <1>45 DEF vars, FlagTypes, callVars, runVars, threadVars, recordVars, frameVars,
         pictureVars, releaseVars, ownerVars
<1> QED
  BY <1>1, <1>2, <1>3, <1>4, <1>5, <1>6, <1>7, <1>8, <1>9, <1>10, <1>11, <1>12, <1>13,
     <1>14, <1>15, <1>16, <1>17, <1>18, <1>19, <1>20, <1>21, <1>22, <1>23, <1>24, <1>25,
     <1>26, <1>27, <1>28, <1>29, <1>30, <1>31, <1>32, <1>33, <1>34, <1>35, <1>36, <1>37,
     <1>38, <1>39, <1>40, <1>41, <1>42, <1>43, <1>44, <1>45
     DEF Next, Calls, Steps, FrameThread, PreviewThread, VideoThread, SnapshotThread,
         Library

\* The frame thread is gone before a preview begins, and the preview thread before it.
LEMMA PreviewKeeps ==
  ASSUME CallTyped, PreviewInv, [Next]_vars
  PROVE  PreviewInv'
<1> USE DEF CallTyped, CallSteps, PreviewInv,
           Begin, Goto, Return, At, AtStep, Idle, MayFail, AfterStop,
           callVars, runVars, threadVars, recordVars, frameVars, pictureVars, releaseVars,
           ownerVars
<1>1. CASE StartPreview
  BY <1>1 DEF StartPreview
<1>2. CASE GetBuffers
  BY <1>2 DEF GetBuffers
<1>3. CASE InitRecord
  BY <1>3 DEF InitRecord, SnapshotModeOver
<1>4. CASE LaunchPreview
  BY <1>4 DEF LaunchPreview, FillDriver
<1>5. CASE StartStreaming
  BY <1>5 DEF StartStreaming
<1>6. CASE StopPreview
  BY <1>6 DEF StopPreview
<1>7. CASE StopStreaming
  BY <1>7 DEF StopStreaming
<1>8. CASE CamframeTimeout
  BY <1>8 DEF CamframeTimeout
<1>9. CASE DeinitPreview
  BY <1>9 DEF DeinitPreview
<1>10. CASE PreviewFrame
  BY <1>10 DEF PreviewFrame
<1>11. CASE VideoFrame
  BY <1>11 DEF VideoFrame
<1>12. CASE FrameThreadTerminates
  BY <1>12 DEF FrameThreadTerminates
<1>13. CASE RelinquishBuffers
  BY <1>13 DEF RelinquishBuffers
<1>14. CASE PreviewThreadGets
  BY <1>14 DEF PreviewThreadGets
<1>15. CASE PreviewThreadShows
  BY <1>15 DEF PreviewThreadShows
<1>16. CASE StartRecording
  BY <1>16 DEF StartRecording
<1>17. CASE DrainFrame
  BY <1>17 DEF DrainFrame
<1>18. CASE DrainEnds
  BY <1>18 DEF DrainEnds
<1>19. ASSUME NEW b \in Bufs, ReclaimDangling(b) PROVE PreviewInv'
  BY <1>19 DEF ReclaimDangling
<1>20. CASE ClearDangling
  BY <1>20 DEF ClearDangling
<1>21. CASE LaunchVideoThread
  BY <1>21 DEF LaunchVideoThread
<1>22. CASE StopRecording
  BY <1>22 DEF StopRecording
<1>23. CASE StopVideo
  BY <1>23 DEF StopVideo
<1>24. ASSUME NEW k \in DOMAIN video, VideoThreadLoops(k) PROVE PreviewInv'
  BY <1>24 DEF VideoThreadLoops
<1>25. ASSUME NEW k \in DOMAIN video, VideoThreadLooksAtMsg(k) PROVE PreviewInv'
  BY <1>25 DEF VideoThreadLooksAtMsg
<1>26. ASSUME NEW k \in DOMAIN video, VideoThreadTracks(k) PROVE PreviewInv'
  BY <1>26 DEF VideoThreadTracks
<1>27. ASSUME NEW k \in DOMAIN video, VideoThreadDelivers(k) PROVE PreviewInv'
  BY <1>27 DEF VideoThreadDelivers
<1>28. ASSUME NEW b \in Bufs, ReleaseRecordingFrame(b) PROVE PreviewInv'
  BY <1>28 DEF ReleaseRecordingFrame
<1>29. CASE ReleaseGivesBack
  BY <1>29 DEF ReleaseGivesBack
<1>30. CASE TakePicture
  BY <1>30 DEF TakePicture
<1>31. CASE PrepareSnapshot
  BY <1>31 DEF PrepareSnapshot
<1>32. CASE LaunchSnapshot
  BY <1>32 DEF LaunchSnapshot
<1>33. CASE EnterSnapshotMode
  BY <1>33 DEF EnterSnapshotMode
<1>34. CASE SnapshotThreadStarts
  BY <1>34 DEF SnapshotThreadStarts
<1>35. CASE SnapshotThreadShoots
  BY <1>35 DEF SnapshotThreadShoots
<1>36. CASE SnapshotThreadCleans
  BY <1>36 DEF SnapshotThreadCleans
<1>37. CASE ReceiveRawPicture
  BY <1>37 DEF ReceiveRawPicture
<1>38. CASE LeaveSnapshotMode
  BY <1>38 DEF LeaveSnapshotMode
<1>39. CASE ReceiveJpegPicture
  BY <1>39 DEF ReceiveJpegPicture
<1>40. CASE CancelPicture
  BY <1>40 DEF CancelPicture
<1>41. CASE Release
  BY <1>41 DEF Release
<1>42. CASE ReleasePicture
  BY <1>42 DEF ReleasePicture
<1>43. CASE ReleaseResources
  BY <1>43 DEF ReleaseResources
<1>44. CASE Released
  BY <1>44 DEF Released
<1>45. CASE UNCHANGED vars
  BY <1>45 DEF vars
<1> QED
  BY <1>1, <1>2, <1>3, <1>4, <1>5, <1>6, <1>7, <1>8, <1>9, <1>10, <1>11, <1>12, <1>13,
     <1>14, <1>15, <1>16, <1>17, <1>18, <1>19, <1>20, <1>21, <1>22, <1>23, <1>24, <1>25,
     <1>26, <1>27, <1>28, <1>29, <1>30, <1>31, <1>32, <1>33, <1>34, <1>35, <1>36, <1>37,
     <1>38, <1>39, <1>40, <1>41, <1>42, <1>43, <1>44, <1>45
     DEF Next, Calls, Steps, FrameThread, PreviewThread, VideoThread, SnapshotThread,
         Library

\* A preview that is initialized streams, or is about to, or to be ended.
LEMMA StreamingKeeps ==
  ASSUME CallTyped, StreamingInv, [Next]_vars
  PROVE  StreamingInv'
<1> USE DEF CallTyped, CallSteps, StreamingInv,
           Begin, Goto, Return, At, AtStep, Idle, MayFail, AfterStop,
           callVars, runVars, threadVars, recordVars, frameVars, pictureVars, releaseVars,
           ownerVars
<1>1. CASE StartPreview
  BY <1>1 DEF StartPreview
<1>2. CASE GetBuffers
  BY <1>2 DEF GetBuffers
<1>3. CASE InitRecord
  BY <1>3 DEF InitRecord, SnapshotModeOver
<1>4. CASE LaunchPreview
  BY <1>4 DEF LaunchPreview, FillDriver
<1>5. CASE StartStreaming
  BY <1>5 DEF StartStreaming
<1>6. CASE StopPreview
  BY <1>6 DEF StopPreview
<1>7. CASE StopStreaming
  <2>1. /\ AtStep("stop") /\ call' = [call EXCEPT !.pc = "deinit"]
        /\ UNCHANGED <<mPreviewInitialized, exitFlag, frame, videoMsg, reclaimed, dangling>>
    BY <1>7 DEF StopStreaming
  <2>2. mCameraRunning' => mCameraRunning
    BY <1>7 DEF StopStreaming
  <2>3. call.op \in {"stopPreview", "takePicture", "release"} /\ call'.op = call.op
    BY <2>1
  <2> QED
    BY <2>1, <2>2, <2>3
<1>8. CASE CamframeTimeout
  BY <1>8 DEF CamframeTimeout
<1>9. CASE DeinitPreview
  BY <1>9 DEF DeinitPreview
<1>10. CASE PreviewFrame
  BY <1>10 DEF PreviewFrame
<1>11. CASE VideoFrame
  BY <1>11 DEF VideoFrame
<1>12. CASE FrameThreadTerminates
  BY <1>12 DEF FrameThreadTerminates
<1>13. CASE RelinquishBuffers
  BY <1>13 DEF RelinquishBuffers
<1>14. CASE PreviewThreadGets
  BY <1>14 DEF PreviewThreadGets
<1>15. CASE PreviewThreadShows
  BY <1>15 DEF PreviewThreadShows
<1>16. CASE StartRecording
  BY <1>16 DEF StartRecording
<1>17. CASE DrainFrame
  BY <1>17 DEF DrainFrame
<1>18. CASE DrainEnds
  BY <1>18 DEF DrainEnds
<1>19. ASSUME NEW b \in Bufs, ReclaimDangling(b) PROVE StreamingInv'
  BY <1>19 DEF ReclaimDangling
<1>20. CASE ClearDangling
  BY <1>20 DEF ClearDangling
<1>21. CASE LaunchVideoThread
  BY <1>21 DEF LaunchVideoThread
<1>22. CASE StopRecording
  BY <1>22 DEF StopRecording
<1>23. CASE StopVideo
  BY <1>23 DEF StopVideo
<1>24. ASSUME NEW k \in DOMAIN video, VideoThreadLoops(k) PROVE StreamingInv'
  BY <1>24 DEF VideoThreadLoops
<1>25. ASSUME NEW k \in DOMAIN video, VideoThreadLooksAtMsg(k) PROVE StreamingInv'
  BY <1>25 DEF VideoThreadLooksAtMsg
<1>26. ASSUME NEW k \in DOMAIN video, VideoThreadTracks(k) PROVE StreamingInv'
  BY <1>26 DEF VideoThreadTracks
<1>27. ASSUME NEW k \in DOMAIN video, VideoThreadDelivers(k) PROVE StreamingInv'
  BY <1>27 DEF VideoThreadDelivers
<1>28. ASSUME NEW b \in Bufs, ReleaseRecordingFrame(b) PROVE StreamingInv'
  BY <1>28 DEF ReleaseRecordingFrame
<1>29. CASE ReleaseGivesBack
  BY <1>29 DEF ReleaseGivesBack
<1>30. CASE TakePicture
  BY <1>30 DEF TakePicture
<1>31. CASE PrepareSnapshot
  BY <1>31 DEF PrepareSnapshot
<1>32. CASE LaunchSnapshot
  BY <1>32 DEF LaunchSnapshot
<1>33. CASE EnterSnapshotMode
  BY <1>33 DEF EnterSnapshotMode
<1>34. CASE SnapshotThreadStarts
  BY <1>34 DEF SnapshotThreadStarts
<1>35. CASE SnapshotThreadShoots
  BY <1>35 DEF SnapshotThreadShoots
<1>36. CASE SnapshotThreadCleans
  BY <1>36 DEF SnapshotThreadCleans
<1>37. CASE ReceiveRawPicture
  BY <1>37 DEF ReceiveRawPicture
<1>38. CASE LeaveSnapshotMode
  BY <1>38 DEF LeaveSnapshotMode
<1>39. CASE ReceiveJpegPicture
  BY <1>39 DEF ReceiveJpegPicture
<1>40. CASE CancelPicture
  BY <1>40 DEF CancelPicture
<1>41. CASE Release
  BY <1>41 DEF Release
<1>42. CASE ReleasePicture
  BY <1>42 DEF ReleasePicture
<1>43. CASE ReleaseResources
  BY <1>43 DEF ReleaseResources
<1>44. CASE Released
  BY <1>44 DEF Released
<1>45. CASE UNCHANGED vars
  BY <1>45 DEF vars
<1> QED
  BY <1>1, <1>2, <1>3, <1>4, <1>5, <1>6, <1>7, <1>8, <1>9, <1>10, <1>11, <1>12, <1>13,
     <1>14, <1>15, <1>16, <1>17, <1>18, <1>19, <1>20, <1>21, <1>22, <1>23, <1>24, <1>25,
     <1>26, <1>27, <1>28, <1>29, <1>30, <1>31, <1>32, <1>33, <1>34, <1>35, <1>36, <1>37,
     <1>38, <1>39, <1>40, <1>41, <1>42, <1>43, <1>44, <1>45
     DEF Next, Calls, Steps, FrameThread, PreviewThread, VideoThread, SnapshotThread,
         Library

\* The snapshot thread is there, with its buffers, as long as a capture is.
LEMMA PictureKeeps ==
  ASSUME CallTyped, PictureInv, [Next]_vars
  PROVE  PictureInv'
<1> USE DEF CallTyped, CallSteps, PictureInv, CaptureHasItsThread,
           Begin, Goto, Return, At, AtStep, Idle, MayFail, AfterStop,
           callVars, runVars, threadVars, recordVars, frameVars, pictureVars, releaseVars,
           ownerVars
<1>1. CASE StartPreview
  BY <1>1 DEF StartPreview
<1>2. CASE GetBuffers
  BY <1>2 DEF GetBuffers
<1>3. CASE InitRecord
  BY <1>3 DEF InitRecord, SnapshotModeOver
<1>4. CASE LaunchPreview
  BY <1>4 DEF LaunchPreview, FillDriver
<1>5. CASE StartStreaming
  BY <1>5 DEF StartStreaming
<1>6. CASE StopPreview
  BY <1>6 DEF StopPreview
<1>7. CASE StopStreaming
  BY <1>7 DEF StopStreaming
<1>8. CASE CamframeTimeout
  BY <1>8 DEF CamframeTimeout
<1>9. CASE DeinitPreview
  BY <1>9 DEF DeinitPreview
<1>10. CASE PreviewFrame
  BY <1>10 DEF PreviewFrame
<1>11. CASE VideoFrame
  BY <1>11 DEF VideoFrame
<1>12. CASE FrameThreadTerminates
  BY <1>12 DEF FrameThreadTerminates
<1>13. CASE RelinquishBuffers
  BY <1>13 DEF RelinquishBuffers
<1>14. CASE PreviewThreadGets
  BY <1>14 DEF PreviewThreadGets
<1>15. CASE PreviewThreadShows
  BY <1>15 DEF PreviewThreadShows
<1>16. CASE StartRecording
  BY <1>16 DEF StartRecording
<1>17. CASE DrainFrame
  BY <1>17 DEF DrainFrame
<1>18. CASE DrainEnds
  BY <1>18 DEF DrainEnds
<1>19. ASSUME NEW b \in Bufs, ReclaimDangling(b) PROVE PictureInv'
  BY <1>19 DEF ReclaimDangling
<1>20. CASE ClearDangling
  BY <1>20 DEF ClearDangling
<1>21. CASE LaunchVideoThread
  BY <1>21 DEF LaunchVideoThread
<1>22. CASE StopRecording
  BY <1>22 DEF StopRecording
<1>23. CASE StopVideo
  BY <1>23 DEF StopVideo
<1>24. ASSUME NEW k \in DOMAIN video, VideoThreadLoops(k) PROVE PictureInv'
  BY <1>24 DEF VideoThreadLoops
<1>25. ASSUME NEW k \in DOMAIN video, VideoThreadLooksAtMsg(k) PROVE PictureInv'
  BY <1>25 DEF VideoThreadLooksAtMsg
<1>26. ASSUME NEW k \in DOMAIN video, VideoThreadTracks(k) PROVE PictureInv'
  BY <1>26 DEF VideoThreadTracks
<1>27. ASSUME NEW k \in DOMAIN video, VideoThreadDelivers(k) PROVE PictureInv'
  BY <1>27 DEF VideoThreadDelivers
<1>28. ASSUME NEW b \in Bufs, ReleaseRecordingFrame(b) PROVE PictureInv'
  BY <1>28 DEF ReleaseRecordingFrame
<1>29. CASE ReleaseGivesBack
  BY <1>29 DEF ReleaseGivesBack
<1>30. CASE TakePicture
  BY <1>30 DEF TakePicture
<1>31. CASE PrepareSnapshot
  BY <1>31 DEF PrepareSnapshot
<1>32. CASE LaunchSnapshot
  <2>1. snapshot = "none" /\ capture = "none" /\ capture' = capture
    BY <1>32 DEF LaunchSnapshot
  <2>2. snapshot' # "none" => raw'
    BY <1>32, <2>1 DEF LaunchSnapshot
  <2>3. call' \in {Idle, [op |-> "takePicture", pc |-> "mode"]}
    BY <1>32 DEF LaunchSnapshot
  <2> QED
    BY <2>1, <2>2, <2>3
<1>33. CASE EnterSnapshotMode
  BY <1>33 DEF EnterSnapshotMode
<1>34. CASE SnapshotThreadStarts
  BY <1>34 DEF SnapshotThreadStarts
<1>35. CASE SnapshotThreadShoots
  BY <1>35 DEF SnapshotThreadShoots
<1>36. CASE SnapshotThreadCleans
  BY <1>36 DEF SnapshotThreadCleans
<1>37. CASE ReceiveRawPicture
  BY <1>37 DEF ReceiveRawPicture
<1>38. CASE LeaveSnapshotMode
  BY <1>38 DEF LeaveSnapshotMode
<1>39. CASE ReceiveJpegPicture
  BY <1>39 DEF ReceiveJpegPicture
<1>40. CASE CancelPicture
  BY <1>40 DEF CancelPicture
<1>41. CASE Release
  BY <1>41 DEF Release
<1>42. CASE ReleasePicture
  BY <1>42 DEF ReleasePicture
<1>43. CASE ReleaseResources
  BY <1>43 DEF ReleaseResources
<1>44. CASE Released
  BY <1>44 DEF Released
<1>45. CASE UNCHANGED vars
  BY <1>45 DEF vars
<1> QED
  BY <1>1, <1>2, <1>3, <1>4, <1>5, <1>6, <1>7, <1>8, <1>9, <1>10, <1>11, <1>12, <1>13,
     <1>14, <1>15, <1>16, <1>17, <1>18, <1>19, <1>20, <1>21, <1>22, <1>23, <1>24, <1>25,
     <1>26, <1>27, <1>28, <1>29, <1>30, <1>31, <1>32, <1>33, <1>34, <1>35, <1>36, <1>37,
     <1>38, <1>39, <1>40, <1>41, <1>42, <1>43, <1>44, <1>45
     DEF Next, Calls, Steps, FrameThread, PreviewThread, VideoThread, SnapshotThread,
         Library

-----------------------------------------------------------------------------
(* Counting in sequences                                                     *)

\* Where a buffer is in a queue, and which video threads have it.
PlacesOf(q, b) == {k \in DOMAIN q : q[k] = b}
HoldersOf(v, b) == {k \in DOMAIN v : v[k].b = b}

\* A set of places in a sequence is finite and has no more than its length.
LEMMA Places ==
  ASSUME NEW n \in Nat, NEW P \in SUBSET (1 .. n)
  PROVE  IsFiniteSet(P) /\ Cardinality(P) \in Nat /\ Cardinality(P) <= n
<1>1. IsFiniteSet(1 .. n) /\ Cardinality(1 .. n) = n
  BY FS_Interval
<1> QED
  BY <1>1, FS_Subset, FS_CardinalityType

\* B has the places that A has, in a sequence of length n without its place k.
Shifted(n, k, A, B) ==
    /\ n \in Nat /\ k \in 1 .. n /\ k \notin A
    /\ A \in SUBSET (1 .. n) /\ B \in SUBSET (1 .. n - 1)
    /\ \A i \in 1 .. n - 1 : i \in B <=> (IF i < k THEN i ELSE i + 1) \in A

\* An element taken out of a sequence leaves as many of the others.
LEMMA Renumbered ==
  ASSUME NEW n, NEW k, NEW A, NEW B, Shifted(n, k, A, B)
  PROVE  Cardinality(B) = Cardinality(A)
<1> USE DEF Shifted
<1> DEFINE f == [i \in B |-> IF i < k THEN i ELSE i + 1]
<1>1. f \in [B -> A]
  OBVIOUS
<1>2. ASSUME NEW i \in B, NEW j \in B, f[i] = f[j] PROVE i = j
  BY <1>2
<1>3. ASSUME NEW a \in A PROVE \E i \in B : f[i] = a
  <2>1. CASE a < k
    <3>1. a \in 1 .. n - 1 /\ a \in B
      BY <2>1
    <3> QED
      BY <2>1, <3>1
  <2>2. CASE a > k
    <3>1. a - 1 \in 1 .. n - 1 /\ (a - 1) + 1 = a /\ ~(a - 1 < k)
      BY <2>2
    <3>2. a - 1 \in B
      BY <3>1
    <3> QED
      BY <3>1, <3>2
  <2> QED
    BY <2>1, <2>2
<1>4. f \in Bijection(B, A)
  BY <1>1, <1>2, <1>3 DEF Bijection, Injection, Surjection, IsInjective
<1>5. ExistsBijection(B, A)
  BY <1>4 DEF ExistsBijection
<1>6. IsFiniteSet(B)
  <2>1. n - 1 \in Nat
    OBVIOUS
  <2> QED
    BY <2>1, Places
<1> QED
  BY <1>5, <1>6, FS_Bijection

\* RemoveAt() takes out one element and keeps the order of the others.
LEMMA RemoveAtProperties ==
  ASSUME NEW S, NEW s \in Seq(S), NEW k \in 1 .. Len(s)
  PROVE  /\ RemoveAt(s, k) \in Seq(S)
         /\ Len(RemoveAt(s, k)) = Len(s) - 1
         /\ \A i \in 1 .. Len(s) - 1 : RemoveAt(s, k)[i] = s[IF i < k THEN i ELSE i + 1]
<1> DEFINE l == SubSeq(s, 1, k - 1)
           r == SubSeq(s, k + 1, Len(s))
<1>0. Len(s) \in Nat /\ \A i \in 1 .. Len(s) : s[i] \in S
  BY LenProperties, ElementOfSeq
<1>1. l \in Seq(S) /\ Len(l) = k - 1 /\ \A i \in 1 .. k - 1 : l[i] = s[i]
  <2>1. \A i \in 1 .. k - 1 : s[i] \in S
    BY <1>0
  <2>2. /\ l \in Seq(S)
        /\ Len(l) = IF 1 <= k - 1 THEN (k - 1) - 1 + 1 ELSE 0
        /\ \A i \in 1 .. (k - 1) - 1 + 1 : l[i] = s[1 + i - 1]
    BY <2>1, SubSeqProperties
  <2> QED
    BY <2>2
<1>2. r \in Seq(S) /\ Len(r) = Len(s) - k /\ \A i \in 1 .. Len(s) - k : r[i] = s[k + i]
  <2>1. \A i \in k + 1 .. Len(s) : s[i] \in S
    BY <1>0
  <2>2. /\ r \in Seq(S)
        /\ Len(r) = IF k + 1 <= Len(s) THEN Len(s) - (k + 1) + 1 ELSE 0
        /\ \A i \in 1 .. Len(s) - (k + 1) + 1 : r[i] = s[(k + 1) + i - 1]
    BY <1>0, <2>1, SubSeqProperties
  <2> QED
    BY <1>0, <2>2
<1> HIDE DEF l, r
<1>3. /\ l \o r \in Seq(S) /\ Len(l \o r) = Len(s) - 1
      /\ \A i \in 1 .. Len(s) - 1 : (l \o r)[i] = IF i <= k - 1 THEN l[i] ELSE r[i - (k - 1)]
  BY <1>0, <1>1, <1>2, ConcatProperties
<1>4. ASSUME NEW i \in 1 .. Len(s) - 1 PROVE (l \o r)[i] = s[IF i < k THEN i ELSE i + 1]
  <2>1. CASE i < k
    BY <1>0, <1>1, <1>3, <2>1
  <2>2. CASE ~(i < k)
    <3>1. i - (k - 1) \in 1 .. Len(s) - k /\ k + (i - (k - 1)) = i + 1 /\ ~(i <= k - 1)
      BY <1>0, <2>2
    <3> QED
      BY <1>2, <1>3, <2>2, <3>1
  <2> QED
    BY <2>1, <2>2
<1>5. RemoveAt(s, k) = l \o r
  BY DEF RemoveAt, l, r
<1> QED
  BY <1>3, <1>4, <1>5

\* A queue has a buffer once more when it is appended, once less when it is taken.
LEMMA QueueCounts ==
  ASSUME NEW q \in Seq(Bufs), NEW b \in Bufs
  PROVE  /\ Cardinality(PlacesOf(q, b)) \in Nat
         /\ Cardinality(PlacesOf(<<>>, b)) = 0
         /\ \A e \in Bufs : /\ Append(q, e) \in Seq(Bufs)
                            /\ Cardinality(PlacesOf(Append(q, e), b))
                               = Cardinality(PlacesOf(q, b)) + (IF e = b THEN 1 ELSE 0)
         /\ q # <<>> => /\ Tail(q) \in Seq(Bufs) /\ Head(q) \in Bufs
                        /\ Cardinality(PlacesOf(q, b))
                           = Cardinality(PlacesOf(Tail(q), b)) + (IF Head(q) = b THEN 1 ELSE 0)
<1>0. Len(q) \in Nat /\ DOMAIN q = 1 .. Len(q)
  BY LenProperties
<1>1. IsFiniteSet(PlacesOf(q, b)) /\ Cardinality(PlacesOf(q, b)) \in Nat
  BY <1>0, Places DEF PlacesOf
<1>2. Cardinality(PlacesOf(<<>>, b)) = 0
  <2>1. PlacesOf(<<>>, b) = {}
    BY DEF PlacesOf
  <2> QED
    BY <2>1, FS_EmptySet
<1>3. ASSUME NEW e \in Bufs
      PROVE  /\ Append(q, e) \in Seq(Bufs)
             /\ Cardinality(PlacesOf(Append(q, e), b))
                = Cardinality(PlacesOf(q, b)) + (IF e = b THEN 1 ELSE 0)
  <2>1. /\ Append(q, e) \in Seq(Bufs) /\ Len(Append(q, e)) = Len(q) + 1
        /\ \A i \in 1 .. Len(q) : Append(q, e)[i] = q[i]
        /\ Append(q, e)[Len(q) + 1] = e
    BY AppendProperties
  <2>2. DOMAIN Append(q, e) = 1 .. Len(q) + 1
    BY <2>1, LenProperties
  <2>3. CASE e = b
    <3>1. PlacesOf(Append(q, e), b) = PlacesOf(q, b) \cup {Len(q) + 1}
      BY <1>0, <2>1, <2>2, <2>3 DEF PlacesOf
    <3>2. Len(q) + 1 \notin PlacesOf(q, b)
      BY <1>0 DEF PlacesOf
    <3>3. Cardinality(PlacesOf(q, b) \cup {Len(q) + 1}) = Cardinality(PlacesOf(q, b)) + 1
      BY <1>1, <3>2, FS_AddElement
    <3> QED
      BY <2>1, <2>3, <3>1, <3>3
  <2>4. CASE e # b
    <3>1. PlacesOf(Append(q, e), b) = PlacesOf(q, b)
      BY <1>0, <2>1, <2>2, <2>4 DEF PlacesOf
    <3> QED
      BY <1>1, <2>1, <2>4, <3>1
  <2> QED
    BY <2>3, <2>4
<1>4. ASSUME q # <<>>
      PROVE  /\ Tail(q) \in Seq(Bufs) /\ Head(q) \in Bufs
             /\ Cardinality(PlacesOf(q, b))
                = Cardinality(PlacesOf(Tail(q), b)) + (IF Head(q) = b THEN 1 ELSE 0)
  <2>1. /\ Head(q) \in Bufs /\ Tail(q) \in Seq(Bufs) /\ Len(Tail(q)) = Len(q) - 1
        /\ \A i \in 1 .. Len(Tail(q)) : Tail(q)[i] = q[i + 1]
    BY <1>4, HeadTailProperties
  <2>2. Head(q) = q[1] /\ Len(q) >= 1 /\ DOMAIN Tail(q) = 1 .. Len(q) - 1
    <3>1. Len(q) >= 1
      BY <1>4, EmptySeq
    <3>2. Head(q) = q[1]
      BY <1>4
    <3> QED
      BY <2>1, <3>1, <3>2, LenProperties
  <2> DEFINE rest == PlacesOf(q, b) \ {1}
  <2>3. Cardinality(PlacesOf(Tail(q), b)) = Cardinality(rest)
    <3>1. rest \in SUBSET (1 .. Len(q)) /\ PlacesOf(Tail(q), b) \in SUBSET (1 .. Len(q) - 1)
      BY <1>0, <2>2 DEF PlacesOf
    <3>2. \A i \in 1 .. Len(q) - 1 : i \in PlacesOf(Tail(q), b) <=> i + 1 \in rest
      BY <1>0, <2>1, <2>2 DEF PlacesOf
    <3>3. \A i \in 1 .. Len(q) - 1 :
            i \in PlacesOf(Tail(q), b) <=> (IF i < 1 THEN i ELSE i + 1) \in rest
      BY <1>0, <3>2
    <3>4. 1 \in 1 .. Len(q) /\ 1 \notin rest
      BY <1>0, <2>2
    <3> HIDE DEF rest
    <3>5. Shifted(Len(q), 1, rest, PlacesOf(Tail(q), b))
      BY <1>0, <3>1, <3>3, <3>4 DEF Shifted
    <3> QED
      BY <3>5, Renumbered
  <2>4. 1 \in PlacesOf(q, b) <=> Head(q) = b
    BY <1>0, <2>2 DEF PlacesOf
  <2>5. /\ IsFiniteSet(rest)
        /\ Cardinality(rest) = IF 1 \in PlacesOf(q, b) THEN Cardinality(PlacesOf(q, b)) - 1
                                                     ELSE Cardinality(PlacesOf(q, b))
    BY <1>1, FS_RemoveElement
  <2>6. Cardinality(PlacesOf(q, b))
        = Cardinality(PlacesOf(Tail(q), b)) + (IF Head(q) = b THEN 1 ELSE 0)
    BY <1>1, <2>3, <2>4, <2>5
  <2> QED
    BY <2>1, <2>6
<1> QED
  BY <1>1, <1>2, <1>3, <1>4

\* No more video threads have a buffer than there are threads.
LEMMA HolderBounds ==
  ASSUME NEW v \in Seq(VideoTypes), NEW b \in Bufs
  PROVE  /\ IsFiniteSet(HoldersOf(v, b))
         /\ Cardinality(HoldersOf(v, b)) \in Nat
         /\ Cardinality(HoldersOf(v, b)) <= Len(v)
         /\ HoldersOf(v, b) \in SUBSET (1 .. Len(v))
         /\ Cardinality(HoldersOf(<<>>, b)) = 0
<1>0. Len(v) \in Nat /\ DOMAIN v = 1 .. Len(v)
  BY LenProperties
<1>1. HoldersOf(v, b) \in SUBSET (1 .. Len(v))
  BY <1>0 DEF HoldersOf
<1>2. HoldersOf(<<>>, b) = {}
  BY DEF HoldersOf
<1> QED
  BY <1>0, <1>1, <1>2, Places, FS_EmptySet

\* A video thread that goes on takes a buffer, gives one away or does neither.
LEMMA HolderMoves ==
  ASSUME NEW v \in Seq(VideoTypes), NEW b \in Bufs, NEW k \in 1 .. Len(v), NEW t \in VideoTypes
  PROVE  /\ [v EXCEPT ![k] = t] \in Seq(VideoTypes)
         /\ Len([v EXCEPT ![k] = t]) = Len(v)
         /\ Cardinality(HoldersOf([v EXCEPT ![k] = t], b)) + (IF v[k].b = b THEN 1 ELSE 0)
            = Cardinality(HoldersOf(v, b)) + (IF t.b = b THEN 1 ELSE 0)
<1> DEFINE w == [v EXCEPT ![k] = t]
<1>0. Len(v) \in Nat /\ DOMAIN v = 1 .. Len(v)
  BY LenProperties
<1>1. /\ w \in Seq(VideoTypes) /\ Len(w) = Len(v)
      /\ \A j \in 1 .. Len(v) : w[j] = IF j = k THEN t ELSE v[j]
  BY ExceptSeq
<1>2. DOMAIN w = 1 .. Len(v)
  BY <1>1, LenProperties
<1> HIDE DEF w
<1>3. HoldersOf(w, b) \cup {k} = HoldersOf(v, b) \cup {k}
  BY <1>0, <1>1, <1>2 DEF HoldersOf
<1>4. (k \in HoldersOf(w, b) <=> t.b = b) /\ (k \in HoldersOf(v, b) <=> v[k].b = b)
  BY <1>0, <1>1, <1>2 DEF HoldersOf
<1>5. /\ IsFiniteSet(HoldersOf(w, b)) /\ Cardinality(HoldersOf(w, b)) \in Nat
      /\ IsFiniteSet(HoldersOf(v, b)) /\ Cardinality(HoldersOf(v, b)) \in Nat
  BY <1>1, HolderBounds
<1>6. Cardinality(HoldersOf(w, b) \cup {k})
      = Cardinality(HoldersOf(w, b)) + (IF t.b = b THEN 0 ELSE 1)
  <2>1. Cardinality(HoldersOf(w, b) \cup {k})
        = IF k \in HoldersOf(w, b) THEN Cardinality(HoldersOf(w, b))
                                   ELSE Cardinality(HoldersOf(w, b)) + 1
    BY <1>5, FS_AddElement
  <2> QED
    BY <1>4, <1>5, <2>1
<1>7. Cardinality(HoldersOf(v, b) \cup {k})
      = Cardinality(HoldersOf(v, b)) + (IF v[k].b = b THEN 0 ELSE 1)
  <2>1. Cardinality(HoldersOf(v, b) \cup {k})
        = IF k \in HoldersOf(v, b) THEN Cardinality(HoldersOf(v, b))
                                   ELSE Cardinality(HoldersOf(v, b)) + 1
    BY <1>5, FS_AddElement
  <2> QED
    BY <1>4, <1>5, <2>1
<1>8. Cardinality(HoldersOf(w, b)) + (IF v[k].b = b THEN 1 ELSE 0)
      = Cardinality(HoldersOf(v, b)) + (IF t.b = b THEN 1 ELSE 0)
  <2>1. Cardinality(HoldersOf(w, b) \cup {k}) = Cardinality(HoldersOf(v, b) \cup {k})
    BY <1>3
  <2> QED
    BY <1>5, <1>6, <1>7, <2>1
<1> QED
  BY <1>1, <1>8 DEF w

\* A video thread that is created or ends has no buffer.
LEMMA HolderCounts ==
  ASSUME NEW v \in Seq(VideoTypes), NEW b \in Bufs
  PROVE  /\ Append(v, Looping) \in Seq(VideoTypes) /\ Len(Append(v, Looping)) = Len(v) + 1
         /\ Cardinality(HoldersOf(Append(v, Looping), b)) = Cardinality(HoldersOf(v, b))
         /\ \A k \in 1 .. Len(v) : v[k].b # b =>
              Cardinality(HoldersOf(RemoveAt(v, k), b)) = Cardinality(HoldersOf(v, b))
<1>0. Len(v) \in Nat /\ DOMAIN v = 1 .. Len(v) /\ Looping \in VideoTypes /\ Looping.b # b
  BY LenProperties, NoBufAssumption DEF Looping, Thread, VideoTypes
<1>1. /\ Append(v, Looping) \in Seq(VideoTypes) /\ Len(Append(v, Looping)) = Len(v) + 1
      /\ \A i \in 1 .. Len(v) : Append(v, Looping)[i] = v[i]
      /\ Append(v, Looping)[Len(v) + 1] = Looping
  BY <1>0, AppendProperties
<1>2. HoldersOf(Append(v, Looping), b) = HoldersOf(v, b)
  <2>1. DOMAIN Append(v, Looping) = 1 .. Len(v) + 1
    BY <1>1, LenProperties
  <2> QED
    BY <1>0, <1>1, <2>1 DEF HoldersOf
<1>3. ASSUME NEW k \in 1 .. Len(v), v[k].b # b
      PROVE  Cardinality(HoldersOf(RemoveAt(v, k), b)) = Cardinality(HoldersOf(v, b))
  <2>1. /\ RemoveAt(v, k) \in Seq(VideoTypes) /\ Len(RemoveAt(v, k)) = Len(v) - 1
        /\ \A i \in 1 .. Len(v) - 1 : RemoveAt(v, k)[i] = v[IF i < k THEN i ELSE i + 1]
    BY RemoveAtProperties
  <2>2. DOMAIN RemoveAt(v, k) = 1 .. Len(v) - 1
    BY <2>1, LenProperties
  <2>3. \A i \in 1 .. Len(v) - 1 : i \in HoldersOf(RemoveAt(v, k), b)
                                   <=> (IF i < k THEN i ELSE i + 1) \in HoldersOf(v, b)
    BY <1>0, <2>1, <2>2 DEF HoldersOf
  <2>4. /\ HoldersOf(v, b) \in SUBSET (1 .. Len(v)) /\ k \notin HoldersOf(v, b)
        /\ HoldersOf(RemoveAt(v, k), b) \in SUBSET (1 .. Len(v) - 1)
    BY <1>0, <1>3, <2>2 DEF HoldersOf
  <2>5. Shifted(Len(v), k, HoldersOf(v, b), HoldersOf(RemoveAt(v, k), b))
    BY <1>0, <2>3, <2>4 DEF Shifted
  <2> QED
    BY <2>5, Renumbered
<1> QED
  BY <1>1, <1>2, <1>3

-----------------------------------------------------------------------------
(* The record buffers                                                        *)

\* Every count of a buffer is a natural number.
LEMMA Numbers ==
  ASSUME RecordTyped, NEW b \in Bufs
  PROVE  /\ free[b] \in Nat /\ Queued(b) \in Nat /\ Held(b) \in Nat /\ app[b] \in Nat
         /\ shared[b] \in Nat /\ Releasing(b) \in {0, 1} /\ Owners(b) \in Nat
         /\ tracked[b] \in BOOLEAN
         /\ Queued(b) = Cardinality(PlacesOf(g_busy_frame_queue, b))
         /\ Held(b) = Cardinality(HoldersOf(video, b))
         /\ Carried(b) \/ Tracking(b) => Held(b) > 0
<1>1. /\ Queued(b) = Cardinality(PlacesOf(g_busy_frame_queue, b))
      /\ Held(b) = Cardinality(HoldersOf(video, b))
  BY DEF Queued, PlacesOf, Held, HoldersOf
<1>2. Cardinality(PlacesOf(g_busy_frame_queue, b)) \in Nat
  BY QueueCounts DEF RecordTyped
<1>3. /\ Cardinality(HoldersOf(video, b)) \in Nat /\ IsFiniteSet(HoldersOf(video, b))
  BY HolderBounds DEF RecordTyped
<1>4. free[b] \in Nat /\ app[b] \in Nat /\ shared[b] \in Nat /\ tracked[b] \in BOOLEAN
  BY DEF RecordTyped
<1>5. Releasing(b) \in {0, 1}
  BY DEF Releasing
<1>6. Owners(b) \in Nat
  BY <1>1, <1>2, <1>3, <1>4, <1>5 DEF Owners
<1>7. Carried(b) \/ Tracking(b) => HoldersOf(video, b) # {}
  BY DEF Carried, Carries, Tracking, Tracks, HoldersOf
<1>8. HoldersOf(video, b) # {} => Cardinality(HoldersOf(video, b)) > 0
  <2>1. HoldersOf(video, b) # {} => Cardinality(HoldersOf(video, b)) # 0
    BY <1>3, FS_EmptySet
  <2> QED
    BY <1>3, <2>1
<1> QED
  BY <1>1, <1>2, <1>3, <1>4, <1>5, <1>6, <1>7, <1>8

\* They stay natural numbers.
LEMMA NumbersNext ==
  ASSUME RecordTyped', NEW b \in Bufs
  PROVE  /\ free'[b] \in Nat /\ Queued(b)' \in Nat /\ Held(b)' \in Nat /\ app'[b] \in Nat
         /\ shared'[b] \in Nat /\ Releasing(b)' \in {0, 1} /\ Owners(b)' \in Nat
         /\ tracked'[b] \in BOOLEAN
         /\ Queued(b)' = Cardinality(PlacesOf(g_busy_frame_queue', b))
         /\ Held(b)' = Cardinality(HoldersOf(video', b))
<1>1. /\ Queued(b)' = Cardinality(PlacesOf(g_busy_frame_queue', b))
      /\ Held(b)' = Cardinality(HoldersOf(video', b))
  BY DEF Queued, PlacesOf, Held, HoldersOf
<1>2. Cardinality(PlacesOf(g_busy_frame_queue', b)) \in Nat
  BY QueueCounts DEF RecordTyped
<1>3. Cardinality(HoldersOf(video', b)) \in Nat
  BY HolderBounds DEF RecordTyped
<1>4. free'[b] \in Nat /\ app'[b] \in Nat /\ shared'[b] \in Nat /\ tracked'[b] \in BOOLEAN
  BY DEF RecordTyped
<1>5. Releasing(b)' \in {0, 1}
  BY DEF Releasing
<1>6. Owners(b)' \in Nat
  BY <1>1, <1>2, <1>3, <1>4, <1>5 DEF Owners
<1> QED
  BY <1>1, <1>2, <1>3, <1>4, <1>5, <1>6

\* What is known of a step in which video thread k becomes t.
Becomes(k, t) == k \in DOMAIN video /\ t \in VideoTypes /\ video' = [video EXCEPT ![k] = t]

\* The buffers a video thread that goes on has, carries and is to track.
LEMMA ThreadMoves ==
  ASSUME RecordTyped, NEW k, NEW t, Becomes(k, t)
  PROVE  /\ video' \in Seq(VideoTypes) /\ Len(video') = Len(video) /\ video[k] \in VideoTypes
         /\ \A b \in Bufs :
              /\ Held(b)' \in Nat
              /\ Held(b)' + (IF video[k].b = b THEN 1 ELSE 0)
                 = Held(b) + (IF t.b = b THEN 1 ELSE 0)
              /\ Carries(t, b) => Carried(b)'
              /\ Carried(b) => Carried(b)' \/ Carries(video[k], b)
              /\ Tracks(t, b) => Tracking(b)'
              /\ Tracking(b) => Tracking(b)' \/ Tracks(video[k], b)
<1>1. video \in Seq(VideoTypes) /\ k \in 1 .. Len(video) /\ DOMAIN video = 1 .. Len(video)
      /\ t \in VideoTypes /\ video' = [video EXCEPT ![k] = t]
  BY LenProperties DEF RecordTyped, Becomes
<1>2. video[k] \in VideoTypes
  BY <1>1, ElementOfSeq
<1>3. video' \in Seq(VideoTypes) /\ Len(video') = Len(video)
  BY <1>1, ExceptSeq
<1>4. \A j \in DOMAIN video : video'[j] = IF j = k THEN t ELSE video[j]
  BY <1>1
<1>5. DOMAIN video' = DOMAIN video
  BY <1>1
<1>6. ASSUME NEW b \in Bufs
      PROVE  /\ Held(b)' \in Nat
             /\ Held(b)' + (IF video[k].b = b THEN 1 ELSE 0)
                = Held(b) + (IF t.b = b THEN 1 ELSE 0)
  <2>1. Cardinality(HoldersOf([video EXCEPT ![k] = t], b))
          + (IF video[k].b = b THEN 1 ELSE 0)
        = Cardinality(HoldersOf(video, b)) + (IF t.b = b THEN 1 ELSE 0)
    <3>1. video \in Seq(VideoTypes) /\ k \in 1 .. Len(video) /\ t \in VideoTypes
      BY <1>1
    <3> QED
      BY <3>1, HolderMoves
  <2>2. Cardinality(HoldersOf(video', b)) \in Nat
    BY <1>3, HolderBounds
  <2> QED
    BY <1>1, <2>1, <2>2 DEF Held, HoldersOf
<1>7. ASSUME NEW b \in Bufs
      PROVE  /\ Carries(t, b) => Carried(b)'
             /\ Carried(b) => Carried(b)' \/ Carries(video[k], b)
             /\ Tracks(t, b) => Tracking(b)'
             /\ Tracking(b) => Tracking(b)' \/ Tracks(video[k], b)
  <2>1. Carries(t, b) => Carried(b)'
    BY <1>1, <1>4, <1>5 DEF Carried, Carries
  <2>2. Carried(b) => Carried(b)' \/ Carries(video[k], b)
    BY <1>1, <1>4, <1>5 DEF Carried, Carries
  <2>3. Tracks(t, b) => Tracking(b)'
    BY <1>1, <1>4, <1>5 DEF Tracking, Tracks
  <2>4. Tracking(b) => Tracking(b)' \/ Tracks(video[k], b)
    BY <1>1, <1>4, <1>5 DEF Tracking, Tracks
  <2> QED
    BY <2>1, <2>2, <2>3, <2>4
<1> QED
  BY <1>2, <1>3, <1>6, <1>7

\* pthread_cond_signal() moves no buffer.
LEMMA SignalKeeps ==
  ASSUME RecordTyped, video' \in SignalVideo(video)
  PROVE  /\ video' \in Seq(VideoTypes) /\ Len(video') = Len(video)
         /\ \A b \in Bufs : /\ Held(b)' = Held(b)
                            /\ Carried(b) => Carried(b)'
                            /\ Tracking(b) => Tracking(b)'
<1>1. CASE video' = video
  BY <1>1 DEF RecordTyped, Held, Carried, Tracking
<1>2. ASSUME NEW k \in Waiting(video), video' = [video EXCEPT ![k] = Looping]
      PROVE  /\ video' \in Seq(VideoTypes) /\ Len(video') = Len(video)
             /\ \A b \in Bufs : /\ Held(b)' = Held(b)
                                /\ Carried(b) => Carried(b)'
                                /\ Tracking(b) => Tracking(b)'
  <2>1. k \in DOMAIN video /\ video[k].pc = "wait" /\ Looping \in VideoTypes
    BY DEF Waiting, Looping, Thread, VideoTypes
  <2>2. Becomes(k, Looping)
    BY <1>2, <2>1 DEF Becomes
  <2>3. video[k].b = NoBuf /\ Looping.b = NoBuf
    BY <2>1, <2>2, ThreadMoves DEF VideoTypes, Looping, Thread
  <2>4. ASSUME NEW b \in Bufs
        PROVE  /\ Held(b)' = Held(b)
               /\ Carried(b) => Carried(b)'
               /\ Tracking(b) => Tracking(b)'
    <3>1. video[k].b # b /\ Looping.b # b
      BY <2>3, NoBufAssumption
    <3>2. ~Carries(video[k], b) /\ ~Tracks(video[k], b)
      BY <3>1 DEF Carries, Tracks
    <3>3. Held(b) \in Nat
      BY Numbers
    <3> QED
      BY <2>2, <3>1, <3>2, <3>3, ThreadMoves
  <2>5. video' \in Seq(VideoTypes) /\ Len(video') = Len(video)
    BY <2>2, ThreadMoves
  <2> QED
    BY <2>4, <2>5
<1> QED
  BY <1>1, <1>2 DEF SignalVideo

\* An empty queue has no buffer.
LEMMA FlushTypes ==
  ASSUME RecordTyped, g_busy_frame_queue' = <<>>, NEW b \in Bufs
  PROVE  Queued(b)' = 0
<1>1. Queued(b)' = Cardinality(PlacesOf(g_busy_frame_queue', b))
  BY DEF Queued, PlacesOf
<1> QED
  BY <1>1, QueueCounts DEF RecordTyped

\* What the invariant says after a step is what it said of each buffer before.
LEMMA RecordNext ==
  ASSUME RecordInv, RecordTyped', CountInv',
         At("startPreview", "video")' => At("startPreview", "video"),
         mPreviewInitialized' => mPreviewInitialized,
         \A b \in Bufs : /\ At("startPreview", "video") /\ Inherited(b) => Inherited(b)'
                         /\ mPreviewInitialized /\ Accounted(b) => Accounted(b)'
  PROVE  RecordInv'
<1>1. OwnerInv'
  BY DEF RecordInv, OwnerInv
<1> QED
  BY <1>1 DEF RecordInv

\* A step that changes neither the length of the sequence of video threads nor what is
\* counted, and leaves the queue empty that has to be.
LEMMA CountKeeps ==
  ASSUME RecordTyped, CountInv, video' \in Seq(VideoTypes), Len(video') <= Len(video),
         UNCHANGED recordings, recordings \in Nat,
         call'.op = "startRecording" => call.op = "startRecording",
         At("startPreview", "video")' =>
            At("startPreview", "video") /\ (g_busy_frame_queue = <<>> => g_busy_frame_queue' = <<>>)
  PROVE  CountInv'
<1>1. Len(video) \in Nat /\ Len(video') \in Nat
  BY LenProperties DEF RecordTyped
<1>2. Len(video') + (IF call'.op = "startRecording" THEN 1 ELSE 0) <= recordings
  BY <1>1 DEF CountInv
<1> QED
  BY <1>2 DEF CountInv

\* A step that moves a buffer from one place to another.
LEMMA StaysAccounted ==
  ASSUME RecordTyped, NEW b \in Bufs, Accounted(b),
         Owners(b)' = Owners(b), shared'[b] = shared[b], tracked'[b] = tracked[b],
         UNCHANGED reclaimed,
         Outside(b) => Outside(b)',
         Kept(b) => Kept(b)',
         Tracking(b) => Kept(b)' \/ Tracking(b)'
  PROVE  Accounted(b)'
BY DEF Accounted

\* What the record buffers are counted by.
bufferVars == <<video, g_busy_frame_queue, tracked, free, app, shared, reclaimed, releasing>>

\* A step that touches no record buffer.
LEMMA OthersKeep ==
  ASSUME RecordInv, EventsInv, UNCHANGED bufferVars, dangling' \subseteq Bufs,
         UNCHANGED recordings,
         call'.op = "startRecording" => call.op = "startRecording",
         At("startPreview", "video")' => At("startPreview", "video"),
         mPreviewInitialized' => mPreviewInitialized
  PROVE  RecordInv'
<1>1. RecordTyped'
  BY DEF RecordInv, RecordTyped, bufferVars
<1>2. Len(video') <= Len(video)
  BY LenProperties DEF RecordInv, RecordTyped, bufferVars
<1>3. CountInv'
  <2>1. video' \in Seq(VideoTypes) /\ g_busy_frame_queue' = g_busy_frame_queue
    BY <1>1 DEF RecordTyped, bufferVars
  <2> QED
    BY <1>2, <2>1, CountKeeps DEF RecordInv, EventsInv
<1>4. ASSUME NEW b \in Bufs
      PROVE  (Inherited(b) <=> Inherited(b)') /\ (Accounted(b) <=> Accounted(b)')
  <2>1. /\ Owners(b)' = Owners(b) /\ Held(b)' = Held(b) /\ Queued(b)' = Queued(b)
        /\ Releasing(b)' = Releasing(b)
        /\ (Carried(b)' <=> Carried(b)) /\ (Tracking(b)' <=> Tracking(b))
    BY DEF Held, Queued, Owners, Releasing, Carried, Tracking, bufferVars
  <2>2. (Outside(b)' <=> Outside(b)) /\ (Kept(b)' <=> Kept(b))
    BY <2>1 DEF Outside, Kept, bufferVars
  <2> QED
    BY <2>1, <2>2 DEF Inherited, Accounted, bufferVars
<1> QED
  BY <1>1, <1>3, <1>4, RecordNext

\* initRecord() makes new record buffers.
LEMMA InitRecordKeeps ==
  ASSUME RecordInv, EventsInv, StreamingInv, InitRecord
  PROVE  RecordInv'
<1>1. RecordTyped /\ CountInv /\ OwnerInv
  BY DEF RecordInv
<1>2. /\ tracked' = None(FALSE) /\ app' = None(0) /\ g_busy_frame_queue' = <<>>
      /\ UNCHANGED <<recordings, video, free, mPreviewInitialized, releasing, reclaimed,
                     dangling>>
      /\ shared' = [b \in Bufs |-> Held(b) + Releasing(b)]
      /\ At("startPreview", "mode") /\ At("startPreview", "video")'
  BY DEF InitRecord, At, Goto, recordVars, runVars, releaseVars
<1>3. ~mPreviewInitialized
  BY <1>2 DEF StreamingInv, At, AtStep
<1>4. \A b \in Bufs : Held(b) \in Nat /\ Releasing(b) \in {0, 1}
  BY <1>1, Numbers
<1>5. RecordTyped'
  <2>1. shared' \in [Bufs -> Nat]
    BY <1>2, <1>4
  <2> QED
    BY <1>1, <1>2, <2>1, EmptySeq DEF RecordTyped, None
<1>6. CountInv'
  <2>1. call'.op # "startRecording" /\ call.op # "startRecording"
    BY <1>2 DEF At
  <2> QED
    BY <1>1, <1>2, <2>1 DEF CountInv
<1>7. ASSUME NEW b \in Bufs PROVE Inherited(b)'
  <2>1. Held(b)' = Held(b) /\ Releasing(b)' = Releasing(b)
    BY <1>2 DEF Held, Releasing
  <2>2. app'[b] = 0 /\ shared'[b] = Held(b) + Releasing(b) /\ ~tracked'[b]
    BY <1>2 DEF None
  <2> QED
    BY <1>4, <2>1, <2>2 DEF Inherited
<1> QED
  BY <1>2, <1>3, <1>5, <1>6, <1>7 DEF RecordInv, OwnerInv

\* The driver gets every buffer.
LEMMA LaunchPreviewKeeps ==
  ASSUME RecordInv, EventsInv, StreamingInv, LaunchPreview
  PROVE  RecordInv'
<1>1. RecordTyped /\ CountInv /\ OwnerInv
  BY DEF RecordInv
<1>2. /\ free' = None(1)
      /\ UNCHANGED <<recordings, video, g_busy_frame_queue, tracked, app, shared, releasing,
                     reclaimed, dangling>>
      /\ At("startPreview", "video") /\ At("startPreview", "ops")'
  BY DEF LaunchPreview, FillDriver, At, Goto, recordVars, ownerVars, releaseVars
<1>3. RecordTyped'
  BY <1>1, <1>2 DEF RecordTyped, None
<1>4. /\ g_busy_frame_queue = <<>> /\ reclaimed = NoBuf
      /\ call.op # "startRecording" /\ call'.op # "startRecording"
      /\ ~At("startPreview", "video")'
  BY <1>1, <1>2 DEF CountInv, StreamingInv, At
<1>5. CountInv'
  BY <1>1, <1>2, <1>4 DEF CountInv
<1>6. ASSUME NEW b \in Bufs PROVE Accounted(b)'
  <2>1. /\ Queued(b)' = 0 /\ free'[b] = 1 /\ Held(b)' = Held(b)
        /\ Releasing(b)' = Releasing(b)
    BY <1>1, <1>2, <1>4, FlushTypes DEF None, Held, Releasing
  <2>2. app[b] + Held(b) + Releasing(b) <= shared[b] /\ (tracked[b] => shared[b] > 0)
    BY <1>1, <1>2 DEF OwnerInv, Inherited
  <2>3. Owners(b)' = 1 + (app[b] + Held(b) + Releasing(b))
    BY <1>1, <1>2, <2>1, Numbers DEF Owners
  <2>4. ~Outside(b)' => app[b] + Held(b) + Releasing(b) = 0
    BY <1>1, <1>2, <2>1, Numbers DEF Outside, Releasing
  <2>5. Kept(b)'
    BY <2>1 DEF Kept
  <2> QED
    BY <1>1, <1>2, <2>2, <2>3, <2>4, <2>5, Numbers DEF Accounted
<1> QED
  BY <1>3, <1>4, <1>5, <1>6 DEF RecordInv, OwnerInv

\* A step that ends the preview or finds it ended.
LEMMA EndKeeps ==
  ASSUME RecordInv, RecordTyped', CountInv', ~mPreviewInitialized',
         ~At("startPreview", "video")'
  PROVE  RecordInv'
BY DEF RecordInv, OwnerInv

\* The rest of startPreviewInternal() starts the camera or ends the preview.
LEMMA StartStreamingKeeps ==
  ASSUME RecordInv, EventsInv, StreamingInv, StartStreaming
  PROVE  RecordInv'
<1>1. /\ At("startPreview", "ops") /\ call' = Idle
      /\ UNCHANGED <<recordings, video, tracked, app, shared, reclaimed, releasing, dangling>>
  BY DEF StartStreaming, Return, recordVars, ownerVars, releaseVars
<1>2. /\ ~At("startPreview", "video")' /\ call'.op # "startRecording"
      /\ mPreviewInitialized /\ RecordTyped /\ CountInv
  BY <1>1 DEF At, Idle, StreamingInv, RecordInv
<1>3. \/ UNCHANGED <<g_busy_frame_queue, free, mPreviewInitialized>>
      \/ ~mPreviewInitialized' /\ g_busy_frame_queue' = <<>> /\ free' = None(0)
  BY DEF StartStreaming
<1>4. CASE UNCHANGED <<g_busy_frame_queue, free, mPreviewInitialized>>
  <2>1. dangling' \subseteq Bufs /\ UNCHANGED bufferVars
    BY <1>1, <1>2, <1>4 DEF RecordTyped, bufferVars
  <2> QED
    BY <1>1, <1>2, <1>4, <2>1, OthersKeep
<1>5. CASE ~mPreviewInitialized' /\ g_busy_frame_queue' = <<>> /\ free' = None(0)
  <2>1. RecordTyped'
    BY <1>1, <1>2, <1>5, EmptySeq DEF RecordTyped, None
  <2>2. Len(video') <= Len(video) /\ video' \in Seq(VideoTypes)
    BY <1>1, <1>2, LenProperties DEF RecordTyped
  <2>3. CountInv'
    BY <1>1, <1>2, <2>2, CountKeeps DEF EventsInv
  <2> QED
    BY <1>2, <1>5, <2>1, <2>3, EndKeeps
<1> QED
  BY <1>3, <1>4, <1>5

\* stopPreviewInternal() ends the preview unless the camera goes on.
LEMMA DeinitPreviewKeeps ==
  ASSUME RecordInv, EventsInv, CallTyped, DeinitPreview
  PROVE  RecordInv'
<1>1. UNCHANGED <<recordings, tracked, app, dangling, reclaimed, releasing>>
  BY DEF DeinitPreview, releaseVars
<1>2. ~At("startPreview", "video")' /\ call'.op # "startRecording"
  BY DEF DeinitPreview, CallTyped, CallSteps, AfterStop, At, AtStep, Idle, Return, Goto
<1>3. RecordTyped /\ CountInv
  BY DEF RecordInv
<1>4. CASE ~mCameraRunning /\ mPreviewInitialized
  <2>1. /\ g_busy_frame_queue' = <<>> /\ free' = None(0) /\ shared' = None(0)
        /\ ~mPreviewInitialized' /\ video' \in SignalVideo(video)
    BY <1>4 DEF DeinitPreview
  <2>2. video' \in Seq(VideoTypes) /\ Len(video') = Len(video)
    BY <1>3, <2>1, SignalKeeps
  <2>3. RecordTyped'
    BY <1>1, <1>3, <2>1, <2>2, EmptySeq DEF RecordTyped, None
  <2>4. Len(video') <= Len(video)
    BY <1>3, <2>2, LenProperties DEF RecordTyped
  <2>5. CountInv'
    BY <1>1, <1>2, <1>3, <2>2, <2>4, CountKeeps DEF EventsInv
  <2> QED
    BY <1>2, <2>1, <2>3, <2>5, EndKeeps
<1>5. CASE ~(~mCameraRunning /\ mPreviewInitialized)
  <2>1. UNCHANGED bufferVars /\ UNCHANGED mPreviewInitialized /\ dangling' \subseteq Bufs
    BY <1>1, <1>3, <1>5 DEF DeinitPreview, bufferVars, RecordTyped
  <2> QED
    BY <1>1, <1>2, <2>1, OthersKeep
<1> QED
  BY <1>4, <1>5

\* cam_frame_post_video() queues what the driver filled.
LEMMA VideoFrameKeeps ==
  ASSUME RecordInv, EventsInv, PreviewInv, VideoFrame
  PROVE  RecordInv'
<1>1. RecordTyped /\ CountInv /\ OwnerInv
  BY DEF RecordInv
<1>2. PICK e \in Bufs : /\ free[e] > 0
                        /\ free' = [free EXCEPT ![e] = @ - 1]
                        /\ g_busy_frame_queue' = Append(g_busy_frame_queue, e)
  BY DEF VideoFrame
<1>3. /\ video' \in SignalVideo(video) /\ frame = "run"
      /\ UNCHANGED <<recordings, tracked, app, shared, call, mPreviewInitialized, dangling,
                     reclaimed, releasing>>
  BY DEF VideoFrame, callVars, runVars, ownerVars, releaseVars
<1>4. /\ video' \in Seq(VideoTypes) /\ Len(video') = Len(video)
      /\ \A b \in Bufs : /\ Held(b)' = Held(b)
                         /\ Carried(b) => Carried(b)'
                         /\ Tracking(b) => Tracking(b)'
  BY <1>1, <1>3, SignalKeeps
<1>5. ~At("startPreview", "video") /\ ~At("startPreview", "video")'
  BY <1>3 DEF PreviewInv, At
<1>6. free[e] \in Nat \ {0} /\ g_busy_frame_queue' \in Seq(Bufs)
  <2>1. free[e] \in Nat /\ free[e] # 0
    BY <1>1, <1>2 DEF RecordTyped
  <2> QED
    BY <1>1, <1>2, <2>1, AppendProperties DEF RecordTyped
<1>7. RecordTyped'
  <2>1. free' \in [Bufs -> Nat]
    BY <1>1, <1>2, <1>6 DEF RecordTyped
  <2> QED
    BY <1>1, <1>3, <1>4, <1>6, <2>1 DEF RecordTyped
<1>8. ASSUME NEW b \in Bufs, Accounted(b) PROVE Accounted(b)'
  <2>1. Queued(b)' = Queued(b) + (IF e = b THEN 1 ELSE 0)
    <3>1. Queued(b)' = Cardinality(PlacesOf(g_busy_frame_queue', b))
      BY DEF Queued, PlacesOf
    <3>2. Cardinality(PlacesOf(Append(g_busy_frame_queue, e), b))
          = Cardinality(PlacesOf(g_busy_frame_queue, b)) + (IF e = b THEN 1 ELSE 0)
      BY <1>1, QueueCounts DEF RecordTyped
    <3> QED
      BY <1>1, <1>2, <3>1, <3>2, Numbers
  <2>2. free'[b] = free[b] - (IF e = b THEN 1 ELSE 0) /\ (e = b => free[b] > 0)
    BY <1>1, <1>2, Numbers DEF RecordTyped
  <2>3. /\ Held(b)' = Held(b) /\ app'[b] = app[b] /\ Releasing(b)' = Releasing(b)
        /\ shared'[b] = shared[b] /\ tracked'[b] = tracked[b]
    BY <1>3, <1>4 DEF Releasing
  <2>4. Owners(b)' = Owners(b)
    BY <1>1, <2>1, <2>2, <2>3, Numbers DEF Owners
  <2>5. Outside(b) => Outside(b)'
    BY <1>3, <2>3 DEF Outside
  <2>6. Kept(b) => Kept(b)'
    BY <1>1, <1>3, <1>4, <2>1, <2>2, <2>3, Numbers DEF Kept
  <2> QED
    BY <1>1, <1>3, <1>4, <1>8, <2>3, <2>4, <2>5, <2>6, StaysAccounted
<1>9. CountInv'
  <2>1. Len(video') <= Len(video)
    BY <1>1, <1>4, LenProperties DEF RecordTyped
  <2> QED
    BY <1>1, <1>3, <1>4, <1>5, <2>1, CountKeeps DEF EventsInv
<1> QED
  BY <1>3, <1>5, <1>7, <1>8, <1>9, RecordNext

\* A step of startRecording(), which goes on.
LEMMA DrainFrameKeeps ==
  ASSUME RecordInv, EventsInv, DrainFrame
  PROVE  RecordInv'
<1> DEFINE e == Head(g_busy_frame_queue)
<1>1. RecordTyped /\ CountInv /\ OwnerInv
  BY DEF RecordInv
<1>2. /\ g_busy_frame_queue # <<>> /\ g_busy_frame_queue' = Tail(g_busy_frame_queue)
      /\ free' = [free EXCEPT ![e] = @ + 1] /\ At("startRecording", "drain")
      /\ UNCHANGED <<recordings, video, tracked, app, shared, call, mPreviewInitialized,
                     dangling, reclaimed, releasing>>
  BY DEF DrainFrame, callVars, runVars, recordVars, ownerVars, releaseVars
<1>3. e \in Bufs /\ g_busy_frame_queue' \in Seq(Bufs)
  BY <1>1, <1>2, HeadTailProperties DEF RecordTyped
<1> HIDE DEF e
<1>4. free \in [Bufs -> Nat] /\ free' \in [Bufs -> Nat]
  <2>1. free \in [Bufs -> Nat] /\ free[e] + 1 \in Nat
    BY <1>1, <1>3 DEF RecordTyped
  <2> QED
    BY <1>2, <2>1
<1>5. RecordTyped'
  BY <1>1, <1>2, <1>3, <1>4 DEF RecordTyped
<1>6. ~At("startPreview", "video") /\ ~At("startPreview", "video")'
  BY <1>2 DEF At
<1>7. CountInv'
  BY <1>1, <1>2, <1>6 DEF CountInv
<1>8. ASSUME NEW b \in Bufs, Accounted(b) PROVE Accounted(b)'
  <2>1. Queued(b) = Queued(b)' + (IF e = b THEN 1 ELSE 0) /\ Queued(b)' \in Nat
    <3>1. Cardinality(PlacesOf(g_busy_frame_queue, b))
          = Cardinality(PlacesOf(g_busy_frame_queue', b)) + (IF e = b THEN 1 ELSE 0)
      BY <1>1, <1>2, QueueCounts DEF RecordTyped, e
    <3> QED
      BY <1>1, <1>5, <3>1, Numbers, NumbersNext
  <2>2. free'[b] = free[b] + (IF e = b THEN 1 ELSE 0)
    BY <1>2, <1>3, <1>4
  <2>3. /\ Held(b)' = Held(b) /\ app'[b] = app[b] /\ Releasing(b)' = Releasing(b)
        /\ shared'[b] = shared[b] /\ tracked'[b] = tracked[b]
        /\ Carried(b)' = Carried(b) /\ Tracking(b)' = Tracking(b)
    BY <1>2 DEF Held, Releasing, Carried, Tracking
  <2>4. Owners(b)' = Owners(b)
    BY <1>1, <2>1, <2>2, <2>3, Numbers DEF Owners
  <2>5. Outside(b) => Outside(b)'
    BY <1>2, <2>3 DEF Outside
  <2>6. Kept(b) => Kept(b)'
    BY <1>1, <1>2, <2>1, <2>2, <2>3, Numbers DEF Kept
  <2> QED
    BY <1>1, <1>2, <1>8, <2>3, <2>4, <2>5, <2>6, StaysAccounted
<1> QED
  BY <1>2, <1>5, <1>6, <1>7, <1>8, RecordNext

\* A tracked buffer that goes back to the driver, or one that is not tracked.
LEMMA ReclaimDanglingKeeps ==
  ASSUME RecordInv, EventsInv, NEW e \in Bufs, ReclaimDangling(e)
  PROVE  RecordInv'
<1>1. RecordTyped /\ CountInv /\ OwnerInv
  BY DEF RecordInv
<1>2. /\ At("startRecording", "dangling") /\ reclaimed = NoBuf
      /\ UNCHANGED <<recordings, video, g_busy_frame_queue, tracked, app, call,
                     mPreviewInitialized, releasing>>
  BY DEF ReclaimDangling, callVars, runVars, recordVars, releaseVars
<1>3. ~At("startPreview", "video") /\ ~At("startPreview", "video")'
  BY <1>2 DEF At
<1>4. CASE ~tracked[e]
  <2>1. UNCHANGED bufferVars /\ dangling' \subseteq Bufs
    BY <1>1, <1>2, <1>4 DEF ReclaimDangling, bufferVars, RecordTyped
  <2> QED
    BY <1>2, <1>3, <2>1, OthersKeep
<1>5. CASE tracked[e]
  <2> DEFINE n == IF Outside(e) THEN 1 ELSE 0
  <2>1. /\ free' = [free EXCEPT ![e] = @ + 1] /\ shared' = [shared EXCEPT ![e] = @ + n]
        /\ reclaimed' = e /\ UNCHANGED dangling /\ n \in {0, 1}
    BY <1>5 DEF ReclaimDangling
  <2>n. n = (IF Outside(e) THEN 1 ELSE 0)
    OBVIOUS
  <2> HIDE DEF n
  <2>2. /\ free \in [Bufs -> Nat] /\ free' \in [Bufs -> Nat]
        /\ shared \in [Bufs -> Nat] /\ shared' \in [Bufs -> Nat]
    <3>1. free \in [Bufs -> Nat] /\ shared \in [Bufs -> Nat]
      BY <1>1 DEF RecordTyped
    <3>2. free[e] \in Nat /\ shared[e] \in Nat
      BY <3>1
    <3>3. free[e] + 1 \in Nat /\ shared[e] + n \in Nat
      BY <2>1, <3>2
    <3> QED
      BY <2>1, <3>1, <3>3
  <2>3. RecordTyped'
    BY <1>1, <1>2, <2>1, <2>2 DEF RecordTyped
  <2>4. CountInv'
    BY <1>1, <1>2, <1>3 DEF CountInv
  <2>5. ASSUME NEW b \in Bufs, Accounted(b) PROVE Accounted(b)'
    <3>1. /\ Held(b)' = Held(b) /\ app'[b] = app[b] /\ Releasing(b)' = Releasing(b)
          /\ Queued(b)' = Queued(b) /\ tracked'[b] = tracked[b]
          /\ Carried(b)' = Carried(b) /\ Tracking(b)' = Tracking(b)
      BY <1>2 DEF Held, Releasing, Carried, Tracking, Queued
    <3>2. Outside(b)' = Outside(b)
      BY <1>2, <3>1 DEF Outside
    <3>3. CASE e = b
      <4>1. free'[b] = free[b] + 1 /\ shared'[b] = shared[b] + n
        BY <2>1, <2>2, <3>3
      <4>2. Owners(b)' = Owners(b) + 1
        BY <1>1, <3>1, <4>1, Numbers DEF Owners
      <4>3. Owners(b) <= shared[b] + n
        <5>1. b # NoBuf
          BY NoBufAssumption
        <5> QED
          BY <1>1, <1>2, <1>5, <2>n, <2>5, <3>3, <5>1, Numbers DEF Accounted
      <4>4. Kept(b)'
        BY <1>1, <4>1, Numbers DEF Kept
      <4>5. Owners(b)' <= 1 + shared'[b]
        BY <1>1, <2>1, <4>1, <4>2, <4>3, Numbers
      <4> QED
        BY <2>1, <3>3, <4>4, <4>5 DEF Accounted
    <3>4. CASE e # b
      <4>1. free'[b] = free[b] /\ shared'[b] = shared[b]
        BY <2>1, <2>2, <3>4
      <4>2. Owners(b)' = Owners(b) /\ (Kept(b) <=> Kept(b)')
        BY <1>2, <3>1, <4>1 DEF Owners, Kept
      <4>3. b # NoBuf
        BY NoBufAssumption
      <4> QED
        BY <1>2, <2>1, <2>5, <3>1, <3>2, <3>4, <4>1, <4>2, <4>3 DEF Accounted
    <3> QED
      BY <3>3, <3>4
  <2> QED
    BY <1>2, <1>3, <2>3, <2>4, <2>5, RecordNext
<1> QED
  BY <1>4, <1>5

\* The buffer is not tracked any more, but kept.
LEMMA ClearDanglingKeeps ==
  ASSUME RecordInv, EventsInv, StreamingInv, ClearDangling
  PROVE  RecordInv'
<1>1. RecordTyped /\ CountInv /\ OwnerInv
  BY DEF RecordInv
<1>2. /\ reclaimed # NoBuf /\ tracked' = [tracked EXCEPT ![reclaimed] = FALSE]
      /\ reclaimed' = NoBuf /\ dangling' = dangling \ {reclaimed}
      /\ UNCHANGED <<recordings, video, g_busy_frame_queue, free, shared, app, call,
                     mPreviewInitialized, releasing>>
  BY DEF ClearDangling, callVars, runVars, recordVars, releaseVars
<1>3. ~At("startPreview", "video") /\ ~At("startPreview", "video")'
  BY <1>2 DEF StreamingInv, At
<1>4. tracked \in [Bufs -> BOOLEAN] /\ reclaimed \in Bufs
  BY <1>1, <1>2 DEF RecordTyped
<1>5. RecordTyped'
  BY <1>1, <1>2, <1>4 DEF RecordTyped
<1>6. CountInv'
  BY <1>1, <1>2, <1>3 DEF CountInv
<1>7. ASSUME NEW b \in Bufs, Accounted(b) PROVE Accounted(b)'
  <2>1. /\ Owners(b)' = Owners(b) /\ Kept(b)' = Kept(b) /\ Tracking(b)' = Tracking(b)
        /\ Outside(b)' = Outside(b) /\ shared'[b] = shared[b]
    BY <1>2 DEF Owners, Held, Queued, Releasing, Kept, Carried, Tracking, Outside
  <2>2. /\ reclaimed = b => ~tracked'[b]
        /\ reclaimed # b => tracked'[b] = tracked[b]
    BY <1>2, <1>4
  <2>3. b # NoBuf
    BY NoBufAssumption
  <2> QED
    BY <1>2, <1>7, <2>1, <2>2, <2>3 DEF Accounted
<1> QED
  BY <1>2, <1>3, <1>5, <1>6, <1>7, RecordNext

\* A recording begins.
LEMMA StartRecordingKeeps ==
  ASSUME RecordInv, EventsInv, StartRecording
  PROVE  RecordInv'
<1>1. RecordTyped /\ CountInv /\ OwnerInv
  BY DEF RecordInv
<1>2. /\ recordings' = recordings + 1 /\ call = Idle /\ At("startRecording", "drain")'
      /\ UNCHANGED bufferVars /\ UNCHANGED <<dangling, mPreviewInitialized>>
  BY DEF StartRecording, Begin, At, bufferVars, runVars, frameVars, ownerVars, releaseVars
<1>3. ~At("startPreview", "video") /\ ~At("startPreview", "video")'
  BY <1>2 DEF At, Idle
<1>4. RecordTyped'
  BY <1>1, <1>2 DEF RecordTyped, bufferVars
<1>5. CountInv'
  <2>1. Len(video) \in Nat /\ recordings \in Nat
    BY <1>1, LenProperties DEF RecordTyped, EventsInv
  <2>2. Len(video) <= recordings
    BY <1>1, <1>2, <2>1 DEF CountInv, Idle
  <2>3. Len(video') + 1 <= recordings'
    BY <1>2, <2>1, <2>2 DEF bufferVars
  <2>4. call'.op = "startRecording"
    BY <1>2 DEF At
  <2> QED
    BY <1>3, <2>3, <2>4 DEF CountInv
<1>6. ASSUME NEW b \in Bufs, Accounted(b) PROVE Accounted(b)'
  <2>1. /\ Owners(b)' = Owners(b) /\ Kept(b)' = Kept(b) /\ Tracking(b)' = Tracking(b)
        /\ Outside(b)' = Outside(b) /\ shared'[b] = shared[b] /\ tracked'[b] = tracked[b]
    BY <1>2 DEF bufferVars, Owners, Held, Queued, Releasing, Kept, Carried, Tracking, Outside
  <2> QED
    BY <1>2, <1>6, <2>1 DEF Accounted, bufferVars
<1> QED
  BY <1>2, <1>3, <1>4, <1>5, <1>6, RecordNext

\* startRecording() creates its video thread, or fails to.
LEMMA LaunchVideoThreadKeeps ==
  ASSUME RecordInv, EventsInv, LaunchVideoThread
  PROVE  RecordInv'
<1>1. RecordTyped /\ CountInv /\ OwnerInv
  BY DEF RecordInv
<1>2. /\ At("startRecording", "dangling") /\ call' = Idle
      /\ UNCHANGED <<recordings, g_busy_frame_queue, tracked, free, app, shared, reclaimed,
                     releasing, dangling, mPreviewInitialized>>
      /\ video' = video \/ video' = Append(video, Looping)
  BY DEF LaunchVideoThread, Return, runVars, frameVars, ownerVars, releaseVars
<1>3. /\ ~At("startPreview", "video") /\ ~At("startPreview", "video")'
      /\ call.op = "startRecording" /\ call'.op # "startRecording"
  BY <1>2 DEF At, Idle
<1>4. CASE video' = video
  <2>1. UNCHANGED bufferVars /\ dangling' \subseteq Bufs
    BY <1>1, <1>2, <1>4 DEF bufferVars, RecordTyped
  <2> QED
    BY <1>2, <1>3, <2>1, OthersKeep
<1>5. CASE video' = Append(video, Looping)
  <2>1. /\ video' \in Seq(VideoTypes) /\ Len(video') = Len(video) + 1
        /\ \A i \in 1 .. Len(video) : video'[i] = video[i]
    BY <1>1, <1>5, AppendProperties DEF RecordTyped, VideoTypes, Looping, Thread
  <2>2. RecordTyped'
    BY <1>1, <1>2, <2>1 DEF RecordTyped
  <2>3. CountInv'
    <3>1. Len(video) \in Nat /\ recordings \in Nat
      BY <1>1, LenProperties DEF RecordTyped, EventsInv
    <3>2. Len(video') + 0 <= recordings
      BY <1>1, <1>3, <2>1, <3>1 DEF CountInv
    <3> QED
      BY <1>2, <1>3, <3>2 DEF CountInv
  <2>4. ASSUME NEW b \in Bufs, Accounted(b) PROVE Accounted(b)'
    <3>1. Held(b)' = Held(b)
      <4>1. Held(b)' = Cardinality(HoldersOf(video', b))
        BY DEF Held, HoldersOf
      <4> QED
        BY <1>1, <1>5, <4>1, Numbers, HolderCounts DEF RecordTyped
    <3>2. (Carried(b) => Carried(b)') /\ (Tracking(b) => Tracking(b)')
      <4>1. DOMAIN video = 1 .. Len(video) /\ DOMAIN video' = 1 .. Len(video')
            /\ Len(video) \in Nat
        BY <1>1, <2>1, LenProperties DEF RecordTyped
      <4> QED
        BY <2>1, <4>1 DEF Carried, Tracking
    <3>3. Queued(b)' = Queued(b) /\ Releasing(b)' = Releasing(b)
      BY <1>2 DEF Queued, Releasing
    <3>4. Owners(b)' = Owners(b)
      BY <1>2, <3>1, <3>3 DEF Owners
    <3>5. Outside(b) => Outside(b)'
      BY <1>2, <3>1 DEF Outside
    <3>6. Kept(b) => Kept(b)'
      BY <1>2, <3>2, <3>3 DEF Kept
    <3> QED
      BY <1>1, <1>2, <2>4, <3>2, <3>4, <3>5, <3>6, StaysAccounted
  <2> QED
    BY <1>2, <1>3, <2>2, <2>3, <2>4, RecordNext
<1> QED
  BY <1>2, <1>4, <1>5

\* stopRecording() wakes the video thread.
LEMMA StopVideoKeeps ==
  ASSUME RecordInv, EventsInv, StopVideo
  PROVE  RecordInv'
<1>1. RecordTyped /\ CountInv /\ OwnerInv
  BY DEF RecordInv
<1>2. /\ UNCHANGED <<recordings, g_busy_frame_queue, tracked, free, app, shared, reclaimed,
                     releasing, dangling, mPreviewInitialized>>
      /\ video' = video \/ video' \in SignalVideo(video)
      /\ At("stopRecording", "thread") /\ call' = Idle
  BY DEF StopVideo, runVars, frameVars, Return, ownerVars, releaseVars
<1>3. /\ ~At("startPreview", "video") /\ ~At("startPreview", "video")'
      /\ call'.op # "startRecording"
  BY <1>2 DEF At, Idle
<1>4. /\ video' \in Seq(VideoTypes) /\ Len(video') = Len(video)
      /\ \A b \in Bufs : /\ Held(b)' = Held(b)
                         /\ Carried(b) => Carried(b)'
                         /\ Tracking(b) => Tracking(b)'
  <2>1. CASE video' = video
    BY <1>1, <2>1 DEF RecordTyped, Held, Carried, Tracking
  <2> QED
    BY <1>1, <1>2, <2>1, SignalKeeps
<1>5. RecordTyped'
  BY <1>1, <1>2, <1>4 DEF RecordTyped
<1>6. CountInv'
  <2>1. Len(video') <= Len(video)
    BY <1>1, <1>4, LenProperties DEF RecordTyped
  <2> QED
    BY <1>1, <1>2, <1>3, <1>4, <2>1, CountKeeps DEF EventsInv
<1>7. ASSUME NEW b \in Bufs, Accounted(b) PROVE Accounted(b)'
  <2>1. /\ Queued(b)' = Queued(b) /\ Held(b)' = Held(b) /\ Releasing(b)' = Releasing(b)
    BY <1>2, <1>4 DEF Queued, Releasing
  <2>2. Owners(b)' = Owners(b) /\ (Outside(b) => Outside(b)') /\ (Kept(b) => Kept(b)')
    BY <1>2, <1>4, <2>1 DEF Owners, Outside, Kept
  <2> QED
    BY <1>1, <1>2, <1>4, <1>7, <2>2, StaysAccounted
<1> QED
  BY <1>2, <1>3, <1>5, <1>6, <1>7, RecordNext

\* A video thread that has ended is out of the sequence; one that goes on waits or
\* takes the buffer at the head of the queue.
LEMMA VideoThreadLoopsKeeps ==
  ASSUME RecordInv, EventsInv, NEW k \in DOMAIN video, VideoThreadLoops(k)
  PROVE  RecordInv'
<1>1. RecordTyped /\ CountInv /\ OwnerInv
  BY DEF RecordInv
<1>2. /\ UNCHANGED <<recordings, call, shared, mPreviewInitialized, free, tracked, app,
                     reclaimed, releasing, dangling>>
      /\ video[k].pc = "check"
  BY DEF VideoThreadLoops, callVars, runVars, ownerVars, releaseVars
<1>3. /\ video \in Seq(VideoTypes) /\ k \in 1 .. Len(video) /\ Len(video) \in Nat
      /\ video[k] = Looping /\ DOMAIN video = 1 .. Len(video)
  <2>1. video \in Seq(VideoTypes) /\ k \in 1 .. Len(video) /\ Len(video) \in Nat
        /\ DOMAIN video = 1 .. Len(video)
    BY <1>1, LenProperties DEF RecordTyped
  <2>2. video[k] \in VideoTypes
    BY <2>1, ElementOfSeq
  <2> QED
    BY <1>2, <2>1, <2>2 DEF VideoTypes, Looping, Thread
<1>4. \A b \in Bufs : video[k].b # b /\ ~Carries(video[k], b) /\ ~Tracks(video[k], b)
  BY <1>3, NoBufAssumption DEF Looping, Thread, Carries, Tracks
<1>5. ASSUME /\ video' \in Seq(VideoTypes) /\ Len(video') <= Len(video)
             /\ UNCHANGED g_busy_frame_queue
             /\ \A b \in Bufs : /\ Held(b)' = Held(b)
                                /\ Carried(b) => Carried(b)'
                                /\ Tracking(b) => Tracking(b)'
      PROVE  RecordInv'
  <2>1. RecordTyped'
    BY <1>1, <1>2, <1>5 DEF RecordTyped
  <2>2. CountInv'
    BY <1>1, <1>2, <1>5, CountKeeps DEF EventsInv, At
  <2>3. ASSUME NEW b \in Bufs
        PROVE  (Inherited(b) => Inherited(b)') /\ (Accounted(b) => Accounted(b)')
    <3>1. /\ Queued(b)' = Queued(b) /\ Held(b)' = Held(b) /\ Releasing(b)' = Releasing(b)
      BY <1>2, <1>5 DEF Queued, Releasing
    <3>2. Owners(b)' = Owners(b) /\ (Outside(b) => Outside(b)') /\ (Kept(b) => Kept(b)')
      BY <1>2, <1>5, <3>1 DEF Owners, Outside, Kept
    <3>3. Accounted(b) => Accounted(b)'
      BY <1>1, <1>2, <1>5, <3>2, StaysAccounted
    <3> QED
      BY <1>2, <3>1, <3>3 DEF Inherited
  <2> QED
    BY <1>2, <2>1, <2>2, <2>3, RecordNext DEF At
<1>6. CASE video' = RemoveAt(video, k) /\ UNCHANGED g_busy_frame_queue
  <2>1. /\ video' \in Seq(VideoTypes) /\ Len(video') = Len(video) - 1
        /\ \A i \in 1 .. Len(video) - 1 : video'[i] = video[IF i < k THEN i ELSE i + 1]
    BY <1>3, <1>6, RemoveAtProperties
  <2>2. DOMAIN video' = 1 .. Len(video) - 1
    BY <2>1, LenProperties
  <2>3. ASSUME NEW j \in DOMAIN video, j # k PROVE \E i \in DOMAIN video' : video'[i] = video[j]
    <3>1. CASE j < k
      BY <1>3, <2>1, <2>2, <3>1
    <3>2. CASE j > k
      <4>1. /\ j - 1 \in 1 .. Len(video) - 1 /\ ~(j - 1 < k) /\ (j - 1) + 1 = j
        BY <1>3, <3>2
      <4> QED
        BY <2>1, <2>2, <4>1
    <3> QED
      BY <1>3, <2>3, <3>1, <3>2
  <2>4. ASSUME NEW b \in Bufs
        PROVE  /\ Held(b)' = Held(b)
               /\ Carried(b) => Carried(b)'
               /\ Tracking(b) => Tracking(b)'
    <3>1. Held(b)' = Cardinality(HoldersOf(video', b))
      BY DEF Held, HoldersOf
    <3>2. Cardinality(HoldersOf(RemoveAt(video, k), b)) = Cardinality(HoldersOf(video, b))
      BY <1>3, <1>4, HolderCounts
    <3>3. Held(b)' = Held(b)
      BY <1>1, <1>6, <3>1, <3>2, Numbers
    <3>4. Carried(b) => Carried(b)'
      BY <1>4, <2>3 DEF Carried
    <3>5. Tracking(b) => Tracking(b)'
      BY <1>4, <2>3 DEF Tracking
    <3> QED
      BY <3>3, <3>4, <3>5
  <2>5. Len(video') <= Len(video)
    BY <1>3, <2>1
  <2> QED
    BY <1>5, <1>6, <2>1, <2>4, <2>5
<1>7. CASE /\ video' = [video EXCEPT ![k] = Thread("wait", NoBuf, FALSE)]
           /\ UNCHANGED g_busy_frame_queue
  <2> DEFINE t == [pc |-> "wait", b |-> NoBuf, msg |-> FALSE]
  <2>1. Becomes(k, t) /\ t.b = NoBuf
    <3>1. video' = [video EXCEPT ![k] = t]
      BY <1>7 DEF Thread
    <3>2. t \in VideoTypes
      BY DEF VideoTypes
    <3> QED
      BY <1>3, <3>1, <3>2 DEF Becomes
  <2> HIDE DEF t
  <2>2. ASSUME NEW b \in Bufs
        PROVE  /\ Held(b)' = Held(b)
               /\ Carried(b) => Carried(b)'
               /\ Tracking(b) => Tracking(b)'
    <3>1. t.b # b
      BY <2>1, NoBufAssumption
    <3>2. Held(b) \in Nat
      BY <1>1, Numbers
    <3> QED
      BY <1>1, <1>4, <2>1, <3>1, <3>2, ThreadMoves
  <2>3. video' \in Seq(VideoTypes) /\ Len(video') <= Len(video)
    BY <1>1, <1>3, <2>1, ThreadMoves
  <2> QED
    BY <1>5, <1>7, <2>2, <2>3
<1>8. CASE /\ g_busy_frame_queue # <<>> /\ g_busy_frame_queue' = Tail(g_busy_frame_queue)
           /\ video' = [video EXCEPT ![k] = Thread("take", Head(g_busy_frame_queue), FALSE)]
  <2> DEFINE e == Head(g_busy_frame_queue)
             t == [pc |-> "take", b |-> e, msg |-> FALSE]
  <2>1. e \in Bufs /\ g_busy_frame_queue' \in Seq(Bufs)
    BY <1>1, <1>8, HeadTailProperties DEF RecordTyped
  <2>2. Becomes(k, t) /\ t.b = e /\ t.pc = "take"
    <3>1. video' = [video EXCEPT ![k] = t]
      BY <1>8 DEF Thread
    <3>2. t \in VideoTypes
      BY <2>1 DEF VideoTypes
    <3> QED
      BY <1>3, <3>1, <3>2 DEF Becomes
  <2> HIDE DEF e, t
  <2>3. video' \in Seq(VideoTypes) /\ Len(video') = Len(video)
    BY <1>1, <2>2, ThreadMoves
  <2>4. RecordTyped'
    BY <1>1, <1>2, <2>1, <2>3 DEF RecordTyped
  <2>5. ~At("startPreview", "video") /\ ~At("startPreview", "video")'
    BY <1>1, <1>2, <1>8 DEF CountInv, At
  <2>6. CountInv'
    BY <1>1, <1>2, <2>3, <2>5 DEF CountInv
  <2>7. ASSUME NEW b \in Bufs, Accounted(b) PROVE Accounted(b)'
    <3>1. /\ Held(b)' = Held(b) + (IF e = b THEN 1 ELSE 0)
          /\ Carried(b) \/ e = b => Carried(b)'
          /\ Tracking(b) => Tracking(b)'
      <4>1. e = b => Carries(t, b)
        BY <2>2 DEF Carries
      <4>2. Held(b) \in Nat
        BY <1>1, Numbers
      <4> QED
        BY <1>1, <1>4, <2>2, <4>1, <4>2, ThreadMoves
    <3>2. Queued(b) = Queued(b)' + (IF e = b THEN 1 ELSE 0)
      <4>1. Cardinality(PlacesOf(g_busy_frame_queue, b))
            = Cardinality(PlacesOf(g_busy_frame_queue', b)) + (IF e = b THEN 1 ELSE 0)
        BY <1>1, <1>8, QueueCounts DEF RecordTyped, e
      <4> QED
        BY <1>1, <2>4, <4>1, Numbers, NumbersNext
    <3>3. Releasing(b)' = Releasing(b)
      BY <1>2 DEF Releasing
    <3>4. Owners(b)' = Owners(b)
      BY <1>1, <1>2, <2>4, <3>1, <3>2, <3>3, Numbers, NumbersNext DEF Owners
    <3>5. Outside(b) => Outside(b)'
      BY <1>1, <1>2, <3>1, Numbers DEF Outside
    <3>6. Kept(b) => Kept(b)'
      BY <1>1, <1>2, <2>4, <3>1, <3>2, Numbers, NumbersNext DEF Kept
    <3> QED
      BY <1>1, <1>2, <2>7, <3>1, <3>4, <3>5, <3>6, StaysAccounted
  <2> QED
    BY <1>2, <2>4, <2>5, <2>6, <2>7, RecordNext
<1> QED
  BY <1>6, <1>7, <1>8 DEF VideoThreadLoops

\* A video thread learns whether the application is to get its buffer: it is, as long
\* as a recording begins.
LEMMA VideoThreadLooksKeeps ==
  ASSUME RecordInv, EventsInv, FlagTypes, StreamingInv,
         NEW k \in DOMAIN video, VideoThreadLooksAtMsg(k)
  PROVE  RecordInv'
<1> DEFINE e == video[k].b
           t == [pc |-> "track", b |-> e, msg |-> videoMsg]
<1>1. RecordTyped /\ CountInv /\ OwnerInv
  BY DEF RecordInv
<1>2. /\ UNCHANGED <<recordings, call, shared, mPreviewInitialized, free, tracked, app,
                     g_busy_frame_queue, reclaimed, releasing, dangling>>
      /\ video[k].pc = "take"
  BY DEF VideoThreadLooksAtMsg, callVars, runVars, frameVars, ownerVars, releaseVars
<1>3. video[k] \in VideoTypes
  BY <1>1, ElementOfSeq, LenProperties DEF RecordTyped
<1>4. video[k] = [pc |-> "take", b |-> e, msg |-> FALSE] /\ e \in Bufs
  BY <1>2, <1>3 DEF VideoTypes
<1>5. Becomes(k, t) /\ t.b = e /\ t.pc = "track" /\ t.msg = videoMsg
  <2>1. video' = [video EXCEPT ![k] = t]
    BY DEF VideoThreadLooksAtMsg, Thread
  <2>2. t \in VideoTypes
    BY <1>4 DEF VideoTypes, FlagTypes
  <2> QED
    BY <2>1, <2>2 DEF Becomes
<1> HIDE DEF e, t
<1>6. video' \in Seq(VideoTypes) /\ Len(video') = Len(video)
  BY <1>1, <1>5, ThreadMoves
<1>7. RecordTyped'
  BY <1>1, <1>2, <1>6 DEF RecordTyped
<1>8. CountInv'
  BY <1>1, <1>2, <1>6 DEF CountInv, At
<1>9. ASSUME NEW b \in Bufs
      PROVE  (Inherited(b) => Inherited(b)') /\ (Accounted(b) => Accounted(b)')
  <2>1. /\ Held(b)' = Held(b)
        /\ Carried(b) => Carried(b)' \/ (e = b /\ ~videoMsg)
        /\ Tracking(b) \/ e = b => Tracking(b)'
    <3>1. /\ e = b => Tracks(t, b)
          /\ Carries(video[k], b) => e = b
          /\ ~Tracks(video[k], b)
          /\ e = b /\ videoMsg => Carries(t, b)
      BY <1>2, <1>5 DEF Tracks, Carries, e
    <3>2. Held(b)' + (IF e = b THEN 1 ELSE 0) = Held(b) + (IF e = b THEN 1 ELSE 0)
          /\ Held(b)' \in Nat
      BY <1>1, <1>5, ThreadMoves DEF e
    <3>3. Held(b)' = Held(b)
      BY <1>1, <3>2, Numbers
    <3> QED
      BY <1>1, <1>5, <3>1, <3>3, ThreadMoves
  <2>2. Queued(b)' = Queued(b) /\ Releasing(b)' = Releasing(b)
    BY <1>2 DEF Queued, Releasing
  <2>3. Owners(b)' = Owners(b) /\ Outside(b)' = Outside(b)
    BY <1>2, <2>1, <2>2 DEF Owners, Outside
  <2>4. Kept(b) => Kept(b)' \/ Tracking(b)'
    BY <1>2, <2>1, <2>2 DEF Kept
  <2>5. reclaimed = b /\ Kept(b) => Kept(b)'
    <3>1. reclaimed = b => videoMsg
      BY NoBufAssumption DEF StreamingInv, At
    <3> QED
      BY <1>2, <2>1, <2>2, <3>1 DEF Kept
  <2>6. Accounted(b) => Accounted(b)'
    BY <1>2, <2>1, <2>3, <2>4, <2>5 DEF Accounted
  <2> QED
    BY <1>2, <2>1, <2>2, <2>6 DEF Inherited
<1> QED
  BY <1>2, <1>7, <1>8, <1>9, RecordNext DEF At

\* The buffer is tracked while the video thread still has it.
LEMMA VideoThreadTracksKeeps ==
  ASSUME RecordInv, EventsInv, NEW k \in DOMAIN video, VideoThreadTracks(k)
  PROVE  RecordInv'
<1> DEFINE e == video[k].b
           t == [pc |-> "deliver", b |-> e, msg |-> video[k].msg]
<1>1. RecordTyped /\ CountInv /\ OwnerInv
  BY DEF RecordInv
<1>2. /\ UNCHANGED <<recordings, call, shared, mPreviewInitialized, free, app,
                     g_busy_frame_queue, reclaimed, releasing, dangling>>
      /\ video[k].pc = "track" /\ tracked' = [tracked EXCEPT ![e] = TRUE]
  BY DEF VideoThreadTracks, callVars, runVars, ownerVars, releaseVars
<1>3. video[k] \in VideoTypes
  BY <1>1, ElementOfSeq, LenProperties DEF RecordTyped
<1>4. /\ video[k] = [pc |-> "track", b |-> e, msg |-> video[k].msg]
      /\ e \in Bufs /\ video[k].msg \in BOOLEAN
  BY <1>2, <1>3 DEF VideoTypes
<1>5. Becomes(k, t) /\ t.b = e /\ t.pc = "deliver" /\ t.msg = video[k].msg
  <2>1. video' = [video EXCEPT ![k] = t]
    BY DEF VideoThreadTracks, Thread
  <2>2. t \in VideoTypes
    BY <1>4 DEF VideoTypes
  <2> QED
    BY <2>1, <2>2 DEF Becomes
<1> HIDE DEF e, t
<1>6. video' \in Seq(VideoTypes) /\ Len(video') = Len(video)
  BY <1>1, <1>5, ThreadMoves
<1>7. tracked \in [Bufs -> BOOLEAN]
  BY <1>1 DEF RecordTyped
<1>8. RecordTyped'
  BY <1>1, <1>2, <1>6, <1>7 DEF RecordTyped
<1>9. CountInv'
  BY <1>1, <1>2, <1>6 DEF CountInv, At
<1>10. ASSUME NEW b \in Bufs
       PROVE  (Inherited(b) => Inherited(b)') /\ (Accounted(b) => Accounted(b)')
  <2>1. /\ Held(b)' = Held(b)
        /\ Carried(b) => Carried(b)'
        /\ Tracking(b) => Tracking(b)' \/ e = b
    <3>1. /\ Carries(video[k], b) => Carries(t, b)
          /\ Tracks(video[k], b) => e = b
      BY <1>2, <1>5 DEF Tracks, Carries, e
    <3>2. Held(b)' + (IF e = b THEN 1 ELSE 0) = Held(b) + (IF e = b THEN 1 ELSE 0)
          /\ Held(b)' \in Nat
      BY <1>1, <1>5, ThreadMoves DEF e
    <3>3. Held(b)' = Held(b)
      BY <1>1, <3>2, Numbers
    <3> QED
      BY <1>1, <1>5, <3>1, <3>3, ThreadMoves
  <2>2. e = b => Held(b) > 0
    <3>1. e = b => HoldersOf(video, b) # {}
      BY DEF HoldersOf, e
    <3>2. IsFiniteSet(HoldersOf(video, b)) /\ Cardinality(HoldersOf(video, b)) \in Nat
      BY <1>1, HolderBounds DEF RecordTyped
    <3>3. e = b => Cardinality(HoldersOf(video, b)) # 0
      BY <3>1, <3>2, FS_EmptySet
    <3> QED
      BY <1>1, <3>2, <3>3, Numbers
  <2>3. Queued(b)' = Queued(b) /\ Releasing(b)' = Releasing(b)
    BY <1>2 DEF Queued, Releasing
  <2>4. /\ Owners(b)' = Owners(b) /\ (Outside(b)' <=> Outside(b))
        /\ (Kept(b) => Kept(b)') /\ (e = b => Outside(b))
    BY <1>2, <2>1, <2>2, <2>3 DEF Owners, Outside, Kept
  <2>5. /\ e = b => tracked'[b]
        /\ e # b => tracked'[b] = tracked[b]
    BY <1>2, <1>4, <1>7
  <2>6. Accounted(b) => Accounted(b)'
    BY <1>2, <2>1, <2>4, <2>5 DEF Accounted
  <2>7. Inherited(b) => Inherited(b)'
    <3>1. e = b /\ Inherited(b) => shared[b] > 0
      BY <1>1, <2>2, Numbers DEF Inherited
    <3>2. /\ app'[b] = app[b] /\ Held(b)' = Held(b) /\ Releasing(b)' = Releasing(b)
          /\ shared'[b] = shared[b]
      BY <1>2, <2>1, <2>3
    <3> QED
      BY <2>5, <3>1, <3>2 DEF Inherited
  <2> QED
    BY <2>6, <2>7
<1> QED
  BY <1>2, <1>8, <1>9, <1>10, RecordNext DEF At

\* The buffer goes to the application, or stays tracked and with nobody.
LEMMA VideoThreadDeliversKeeps ==
  ASSUME RecordInv, EventsInv, NEW k \in DOMAIN video, VideoThreadDelivers(k)
  PROVE  RecordInv'
<1> DEFINE e == video[k].b
           n == IF video[k].msg THEN 1 ELSE 0
<1>1. RecordTyped /\ CountInv /\ OwnerInv
  BY DEF RecordInv
<1>2. /\ UNCHANGED <<recordings, call, shared, mPreviewInitialized, free, tracked,
                     g_busy_frame_queue, reclaimed, releasing, dangling>>
      /\ video[k].pc = "deliver" /\ video' = [video EXCEPT ![k] = Looping]
      /\ app' = [app EXCEPT ![e] = @ + n]
  BY DEF VideoThreadDelivers, callVars, runVars, ownerVars, releaseVars
<1>3. video[k] \in VideoTypes
  BY <1>1, ElementOfSeq, LenProperties DEF RecordTyped
<1>4. e \in Bufs /\ n \in {0, 1} /\ (video[k].msg => n = 1)
  BY <1>2, <1>3 DEF VideoTypes
<1>5. Becomes(k, Looping)
  BY <1>2 DEF Becomes, Looping, Thread, VideoTypes
<1> HIDE DEF e, n
<1>6. video' \in Seq(VideoTypes) /\ Len(video') = Len(video)
  BY <1>1, <1>5, ThreadMoves
<1>7. app \in [Bufs -> Nat] /\ app' \in [Bufs -> Nat]
  <2>1. app \in [Bufs -> Nat] /\ app[e] + n \in Nat
    BY <1>1, <1>4 DEF RecordTyped
  <2> QED
    BY <1>2, <2>1
<1>8. RecordTyped'
  BY <1>1, <1>2, <1>6, <1>7 DEF RecordTyped
<1>9. CountInv'
  BY <1>1, <1>2, <1>6 DEF CountInv, At
<1>10. ASSUME NEW b \in Bufs
       PROVE  (Inherited(b) => Inherited(b)') /\ (Accounted(b) => Accounted(b)')
  <2>1. /\ Held(b) = Held(b)' + (IF e = b THEN 1 ELSE 0) /\ Held(b)' \in Nat
        /\ Carried(b) => Carried(b)' \/ (e = b /\ n = 1)
        /\ Tracking(b) => Tracking(b)'
    <3>1. /\ Carries(video[k], b) => e = b /\ n = 1
          /\ ~Tracks(video[k], b)
      BY <1>2, <1>4 DEF Tracks, Carries, e
    <3>2. /\ Held(b)' + (IF e = b THEN 1 ELSE 0) = Held(b) + (IF Looping.b = b THEN 1 ELSE 0)
          /\ Held(b)' \in Nat
      BY <1>1, <1>5, ThreadMoves DEF e
    <3>3. Looping.b # b
      BY NoBufAssumption DEF Looping, Thread
    <3>4. Held(b) = Held(b)' + (IF e = b THEN 1 ELSE 0)
      BY <1>1, <3>2, <3>3, Numbers
    <3> QED
      BY <1>1, <1>5, <3>1, <3>2, <3>4, ThreadMoves
  <2>2. app'[b] = app[b] + (IF e = b THEN n ELSE 0)
    <3>1. app[b] + 0 = app[b]
      BY <1>7
    <3> QED
      BY <1>2, <1>4, <1>7, <3>1
  <2>3. Queued(b)' = Queued(b) /\ Releasing(b)' = Releasing(b)
    BY <1>2 DEF Queued, Releasing
  <2>4. CASE e # b
    <3>1. Held(b)' = Held(b) /\ app'[b] = app[b]
      BY <1>1, <2>1, <2>2, <2>4, Numbers
    <3>2. Owners(b)' = Owners(b) /\ (Outside(b)' <=> Outside(b)) /\ (Kept(b) => Kept(b)')
      BY <1>2, <2>1, <2>3, <2>4, <3>1 DEF Owners, Outside, Kept
    <3>3. Accounted(b) => Accounted(b)'
      BY <1>2, <2>1, <3>2 DEF Accounted
    <3> QED
      BY <1>2, <2>3, <3>1, <3>3 DEF Inherited
  <2>5. CASE e = b /\ n = 1
    <3>1. Held(b) = Held(b)' + 1 /\ app'[b] = app[b] + 1 /\ Held(b)' \in Nat
      BY <2>1, <2>2, <2>5
    <3>2. app'[b] + Held(b)' + Releasing(b)' = app[b] + Held(b) + Releasing(b)
      BY <1>1, <2>3, <3>1, Numbers
    <3>3. Owners(b)' = Owners(b)
      <4>1. /\ free[b] \in Nat /\ Queued(b) \in Nat /\ app[b] \in Nat
            /\ Releasing(b) \in {0, 1} /\ Held(b)' \in Nat
            /\ free'[b] = free[b] /\ Queued(b)' = Queued(b)
            /\ Releasing(b)' = Releasing(b)
        BY <1>1, <1>2, <2>3, <3>1, Numbers
      <4> QED
        BY <3>1, <4>1 DEF Owners
    <3>4. Outside(b)' /\ Kept(b)'
      BY <1>1, <3>1, Numbers DEF Outside, Kept
    <3>5. Accounted(b) => Accounted(b)'
      BY <1>2, <3>3, <3>4 DEF Accounted
    <3> QED
      BY <1>2, <3>2, <3>5 DEF Inherited
  <2>6. CASE e = b /\ n = 0
    <3>1. Held(b) = Held(b)' + 1 /\ app'[b] = app[b] /\ Held(b)' \in Nat
      BY <1>1, <2>1, <2>2, <2>6, Numbers
    <3>2. app'[b] + Held(b)' + Releasing(b)' <= app[b] + Held(b) + Releasing(b)
      BY <1>1, <2>3, <3>1, Numbers
    <3>3. Owners(b) = Owners(b)' + 1
      BY <1>1, <1>2, <2>3, <3>1, Numbers DEF Owners
    <3>4. (Kept(b) => Kept(b)') /\ (Tracking(b) => Tracking(b)')
      BY <1>2, <2>1, <2>3, <2>6, <3>1 DEF Kept
    <3>5. Accounted(b) => Accounted(b)'
      <4>1. Owners(b)' \in Nat /\ shared[b] \in Nat /\ shared'[b] = shared[b]
        BY <1>1, <1>2, <1>8, Numbers, NumbersNext
      <4>2. Accounted(b) => Owners(b)' <= shared[b] /\ Owners(b)' <= 1 + shared[b]
        BY <3>3, <4>1 DEF Accounted
      <4> QED
        BY <1>2, <3>4, <4>1, <4>2 DEF Accounted
    <3>6. Inherited(b) => Inherited(b)'
      <4>1. /\ app[b] \in Nat /\ Held(b) \in Nat /\ Releasing(b) \in {0, 1} /\ shared[b] \in Nat
            /\ Held(b) = Held(b)' + 1 /\ app'[b] = app[b] /\ Held(b)' \in Nat
            /\ Releasing(b)' = Releasing(b) /\ shared'[b] = shared[b]
            /\ tracked'[b] = tracked[b]
        BY <1>1, <1>2, <2>3, <3>1, Numbers
      <4> QED
        BY <4>1 DEF Inherited
    <3> QED
      BY <3>5, <3>6
  <2> QED
    BY <1>4, <2>4, <2>5, <2>6
<1> QED
  BY <1>2, <1>8, <1>9, <1>10, RecordNext DEF At

\* The application gives a buffer to a call, which has it as long as a preview is
\* initialized, because the frame thread runs.
LEMMA ReleaseRecordingFrameKeeps ==
  ASSUME RecordInv, EventsInv, StreamingInv, NEW e \in Bufs, ReleaseRecordingFrame(e)
  PROVE  RecordInv'
<1>1. RecordTyped /\ CountInv /\ OwnerInv
  BY DEF RecordInv
<1>2. /\ UNCHANGED <<recordings, call, shared, mPreviewInitialized, video, free, tracked,
                     g_busy_frame_queue, reclaimed, dangling>>
      /\ releasing = NoBuf /\ app[e] > 0 /\ app' = [app EXCEPT ![e] = @ - 1]
      /\ releasing' = e \/ (frame = "none" /\ releasing' = NoBuf)
  BY DEF ReleaseRecordingFrame, callVars, runVars, recordVars, releaseVars
<1>3. app \in [Bufs -> Nat] /\ app[e] \in Nat \ {0}
  BY <1>1, <1>2, Numbers DEF RecordTyped
<1>4. RecordTyped'
  <2>1. app' \in [Bufs -> Nat]
    BY <1>2, <1>3
  <2> QED
    BY <1>1, <1>2, <2>1 DEF RecordTyped
<1>5. CountInv'
  BY <1>1, <1>2 DEF CountInv, At
<1>6. ASSUME NEW b \in Bufs
      PROVE  /\ Held(b)' = Held(b) /\ Queued(b)' = Queued(b)
             /\ Carried(b)' = Carried(b) /\ Tracking(b)' = Tracking(b)
             /\ app[b] = app'[b] + (IF e = b THEN 1 ELSE 0)
             /\ Releasing(b) = 0 /\ b # NoBuf
             /\ Releasing(b)' = (IF releasing' = b THEN 1 ELSE 0)
  <2>1. /\ Held(b)' = Held(b) /\ Queued(b)' = Queued(b)
        /\ Carried(b)' = Carried(b) /\ Tracking(b)' = Tracking(b)
    BY <1>2 DEF Held, Queued, Carried, Tracking
  <2>2. app[b] = app'[b] + (IF e = b THEN 1 ELSE 0)
    BY <1>2, <1>3
  <2>3. /\ Releasing(b) = 0 /\ b # NoBuf
        /\ Releasing(b)' = (IF releasing' = b THEN 1 ELSE 0)
    BY <1>2, NoBufAssumption DEF Releasing
  <2> QED
    BY <2>1, <2>2, <2>3
<1>7. ASSUME NEW b \in Bufs, Inherited(b) PROVE Inherited(b)'
  <2>1. app'[b] + Held(b)' + Releasing(b)' <= app[b] + Held(b) + Releasing(b)
    <3>1. Releasing(b)' <= IF e = b THEN 1 ELSE 0
      BY <1>2, <1>6
    <3> QED
      BY <1>1, <1>4, <1>6, <3>1, Numbers, NumbersNext
  <2>2. /\ app[b] + Held(b) + Releasing(b) \in Nat /\ shared[b] \in Nat
        /\ app'[b] + Held(b)' + Releasing(b)' \in Nat
    BY <1>1, <1>4, Numbers, NumbersNext
  <2>3. app'[b] + Held(b)' + Releasing(b)' <= shared[b]
    BY <1>7, <2>1, <2>2 DEF Inherited
  <2> QED
    BY <1>2, <1>7, <2>3 DEF Inherited
<1>8. ASSUME NEW b \in Bufs, mPreviewInitialized, Accounted(b) PROVE Accounted(b)'
  <2>1. releasing' = e
    BY <1>2, <1>8 DEF StreamingInv
  <2>2. Releasing(b)' = (IF e = b THEN 1 ELSE 0)
    BY <1>6, <2>1
  <2>3. Owners(b)' = Owners(b)
    <3>1. /\ free[b] \in Nat /\ Queued(b) \in Nat /\ Held(b) \in Nat /\ app'[b] \in Nat
          /\ free'[b] = free[b]
      BY <1>1, <1>2, <1>4, Numbers, NumbersNext
    <3> QED
      BY <1>6, <2>2, <3>1 DEF Owners
  <2>4. Outside(b) => Outside(b)'
    BY <1>2, <1>4, <1>6, <2>1, NumbersNext DEF Outside
  <2>5. Kept(b) => Kept(b)'
    BY <1>2, <1>4, <1>6, <2>1, NumbersNext DEF Kept
  <2> QED
    BY <1>1, <1>2, <1>6, <1>8, <2>3, <2>4, <2>5, StaysAccounted
<1> QED
  BY <1>2, <1>4, <1>5, <1>7, <1>8, RecordNext DEF At

\* The driver has it back.
LEMMA ReleaseGivesBackKeeps ==
  ASSUME RecordInv, EventsInv, ReleaseGivesBack
  PROVE  RecordInv'
<1> DEFINE e == releasing
<1>1. RecordTyped /\ CountInv /\ OwnerInv
  BY DEF RecordInv
<1>2. /\ UNCHANGED <<recordings, call, shared, mPreviewInitialized, video, app,
                     g_busy_frame_queue, reclaimed, dangling>>
      /\ e # NoBuf /\ releasing' = NoBuf
      /\ tracked' = [tracked EXCEPT ![e] = FALSE] /\ free' = [free EXCEPT ![e] = @ + 1]
  BY DEF ReleaseGivesBack, callVars, runVars, recordVars
<1>3. e \in Bufs /\ free \in [Bufs -> Nat] /\ tracked \in [Bufs -> BOOLEAN]
  BY <1>1, <1>2 DEF RecordTyped
<1>e. \A b : Releasing(b) = (IF e = b THEN 1 ELSE 0)
  BY DEF Releasing
<1>o. \A b : (Outside(b) <=> app[b] > 0 \/ Held(b) > 0 \/ e = b)
  BY DEF Outside
<1>k. \A b : Kept(b) <=> free[b] > 0 \/ Queued(b) > 0 \/ app[b] > 0 \/ e = b \/ Carried(b)
  BY DEF Kept
<1>4. free' \in [Bufs -> Nat] /\ tracked' \in [Bufs -> BOOLEAN]
  <2>1. free[e] + 1 \in Nat
    BY <1>3
  <2> QED
    BY <1>2, <1>3, <2>1
<1>5. RecordTyped'
  BY <1>1, <1>2, <1>4 DEF RecordTyped
<1>6. CountInv'
  BY <1>1, <1>2 DEF CountInv, At
<1> HIDE DEF e
<1>7. ASSUME NEW b \in Bufs
      PROVE  /\ Held(b)' = Held(b) /\ Queued(b)' = Queued(b)
             /\ Carried(b)' = Carried(b) /\ Tracking(b)' = Tracking(b)
             /\ free'[b] = free[b] + (IF e = b THEN 1 ELSE 0)
             /\ e = b => ~tracked'[b]
             /\ e # b => tracked'[b] = tracked[b]
             /\ Releasing(b)' = 0 /\ b # NoBuf
  <2>1. /\ Held(b)' = Held(b) /\ Queued(b)' = Queued(b)
        /\ Carried(b)' = Carried(b) /\ Tracking(b)' = Tracking(b)
    BY <1>2 DEF Held, Queued, Carried, Tracking
  <2>2. free'[b] = free[b] + (IF e = b THEN 1 ELSE 0)
    BY <1>2, <1>3
  <2>3. (e = b => ~tracked'[b]) /\ (e # b => tracked'[b] = tracked[b])
    BY <1>2, <1>3
  <2>4. Releasing(b)' = 0 /\ b # NoBuf
    BY <1>2, NoBufAssumption DEF Releasing
  <2> QED
    BY <2>1, <2>2, <2>3, <2>4
<1>8. ASSUME NEW b \in Bufs, Inherited(b) PROVE Inherited(b)'
  <2>1. /\ app[b] \in Nat /\ Held(b) \in Nat /\ Releasing(b) \in {0, 1} /\ shared[b] \in Nat
        /\ app'[b] = app[b] /\ shared'[b] = shared[b]
    BY <1>1, <1>2, Numbers
  <2> QED
    BY <1>7, <1>8, <2>1 DEF Inherited
<1>9. ASSUME NEW b \in Bufs, Accounted(b) PROVE Accounted(b)'
  <2>1. /\ app[b] \in Nat /\ Held(b) \in Nat /\ shared[b] \in Nat /\ free[b] \in Nat
        /\ Queued(b) \in Nat /\ app'[b] = app[b] /\ shared'[b] = shared[b]
    BY <1>1, <1>2, Numbers
  <2>2. Owners(b)' = Owners(b)
    BY <1>7, <1>e, <2>1 DEF Owners
  <2>3. Kept(b) => Kept(b)'
    <3>1. free'[b] >= free[b] /\ (e = b => free'[b] > 0)
      BY <1>7, <2>1
    <3>2. free[b] > 0 \/ e = b => free'[b] > 0
      BY <1>4, <2>1, <3>1
    <3> QED
      BY <1>2, <1>7, <1>k, <2>1, <3>2 DEF Kept
  <2>4. CASE e = b
    <3>1. Kept(b)
      BY <1>k, <2>4
    <3> QED
      BY <1>2, <1>7, <1>9, <2>1, <2>2, <2>3, <2>4, <3>1 DEF Accounted
  <2>5. CASE e # b
    <3>1. Outside(b)' <=> Outside(b)
      BY <1>2, <1>7, <1>o, <2>5 DEF Outside
    <3> QED
      BY <1>2, <1>7, <1>9, <2>1, <2>2, <2>3, <2>5, <3>1 DEF Accounted
  <2> QED
    BY <2>4, <2>5
<1> QED
  BY <1>2, <1>5, <1>6, <1>8, <1>9, RecordNext DEF At

\* The steps of the preview and the picture alone, and of a recording that only goes on.
OtherStep ==
    \/ StartPreview \/ GetBuffers \/ StopPreview \/ StopStreaming \/ CamframeTimeout
    \/ PreviewFrame \/ FrameThreadTerminates \/ RelinquishBuffers
    \/ PreviewThreadGets \/ PreviewThreadShows \/ DrainEnds \/ StopRecording
    \/ TakePicture \/ PrepareSnapshot \/ LaunchSnapshot \/ EnterSnapshotMode
    \/ SnapshotThreadStarts \/ SnapshotThreadShoots \/ SnapshotThreadCleans
    \/ ReceiveRawPicture \/ LeaveSnapshotMode \/ ReceiveJpegPicture \/ CancelPicture
    \/ Release \/ ReleasePicture \/ ReleaseResources \/ Released

\* They touch no record buffer.
LEMMA OtherStepsKeep ==
  ASSUME RecordInv, EventsInv, CallTyped, OtherStep
  PROVE  RecordInv'
<1>1. /\ UNCHANGED bufferVars /\ UNCHANGED <<recordings, mPreviewInitialized>>
      /\ UNCHANGED dangling \/ dangling' = Bufs
      /\ call'.op = "startRecording" => call.op = "startRecording"
      /\ ~At("startPreview", "video")' \/ UNCHANGED call
  <2> USE DEF bufferVars, callVars, runVars, threadVars, recordVars, frameVars, pictureVars,
              releaseVars, ownerVars,
              CallTyped, CallSteps, Begin, Goto, Return, At, AtStep, Idle, MayFail
  <2>1. CASE StartPreview
    BY <2>1 DEF StartPreview
  <2>2. CASE GetBuffers
    BY <2>2 DEF GetBuffers
  <2>3. CASE StopPreview
    BY <2>3 DEF StopPreview
  <2>4. CASE StopStreaming
    BY <2>4 DEF StopStreaming
  <2>5. CASE CamframeTimeout
    BY <2>5 DEF CamframeTimeout
  <2>6. CASE PreviewFrame
    BY <2>6 DEF PreviewFrame
  <2>7. CASE FrameThreadTerminates
    BY <2>7 DEF FrameThreadTerminates
  <2>8. CASE RelinquishBuffers
    BY <2>8 DEF RelinquishBuffers
  <2>9. CASE PreviewThreadGets
    BY <2>9 DEF PreviewThreadGets
  <2>10. CASE PreviewThreadShows
    BY <2>10 DEF PreviewThreadShows
  <2>11. CASE DrainEnds
    BY <2>11 DEF DrainEnds
  <2>12. CASE StopRecording
    BY <2>12 DEF StopRecording
  <2>13. CASE TakePicture
    BY <2>13 DEF TakePicture
  <2>14. CASE PrepareSnapshot
    BY <2>14 DEF PrepareSnapshot
  <2>15. CASE LaunchSnapshot
    BY <2>15 DEF LaunchSnapshot
  <2>16. CASE EnterSnapshotMode
    BY <2>16 DEF EnterSnapshotMode
  <2>17. CASE SnapshotThreadStarts
    BY <2>17 DEF SnapshotThreadStarts
  <2>18. CASE SnapshotThreadShoots
    BY <2>18 DEF SnapshotThreadShoots
  <2>19. CASE SnapshotThreadCleans
    BY <2>19 DEF SnapshotThreadCleans
  <2>20. CASE ReceiveRawPicture
    BY <2>20 DEF ReceiveRawPicture
  <2>21. CASE LeaveSnapshotMode
    BY <2>21 DEF LeaveSnapshotMode
  <2>22. CASE ReceiveJpegPicture
    BY <2>22 DEF ReceiveJpegPicture
  <2>23. CASE CancelPicture
    BY <2>23 DEF CancelPicture
  <2>24. CASE Release
    BY <2>24 DEF Release
  <2>25. CASE ReleasePicture
    BY <2>25 DEF ReleasePicture
  <2>26. CASE ReleaseResources
    BY <2>26 DEF ReleaseResources
  <2>27. CASE Released
    BY <2>27 DEF Released
  <2> QED
    BY <2>1, <2>2, <2>3, <2>4, <2>5, <2>6, <2>7, <2>8, <2>9, <2>10, <2>11, <2>12, <2>13,
       <2>14, <2>15, <2>16, <2>17, <2>18, <2>19, <2>20, <2>21, <2>22, <2>23, <2>24,
       <2>25, <2>26, <2>27
       DEF OtherStep
<1>2. dangling' \subseteq Bufs
  BY <1>1 DEF RecordInv, RecordTyped
<1> QED
  BY <1>1, <1>2, OthersKeep DEF At

\* Every step keeps the record buffers in order.
LEMMA RecordKeeps ==
  ASSUME RecordInv, EventsInv, CallTyped, FlagTypes, StreamingInv, PreviewInv, [Next]_vars
  PROVE  RecordInv'
<1>1. CASE OtherStep
  BY <1>1, OtherStepsKeep
<1>2. CASE UNCHANGED vars
  <2>1. UNCHANGED bufferVars /\ UNCHANGED <<recordings, mPreviewInitialized, call, dangling>>
    BY <1>2 DEF vars, bufferVars, callVars, runVars, recordVars, frameVars, ownerVars,
            releaseVars
  <2>2. dangling' \subseteq Bufs
    BY <2>1 DEF RecordInv, RecordTyped
  <2> QED
    BY <2>1, <2>2, OthersKeep DEF At
<1>3. CASE InitRecord \/ LaunchPreview \/ StartStreaming \/ DeinitPreview \/ VideoFrame
  BY <1>3, InitRecordKeeps, LaunchPreviewKeeps, StartStreamingKeeps, DeinitPreviewKeeps,
     VideoFrameKeeps
<1>4. CASE StartRecording \/ DrainFrame \/ ClearDangling \/ LaunchVideoThread \/ StopVideo
  BY <1>4, StartRecordingKeeps, DrainFrameKeeps, ClearDanglingKeeps,
     LaunchVideoThreadKeeps, StopVideoKeeps
<1>5. ASSUME NEW k \in DOMAIN video, VideoThreadLoops(k) \/ VideoThreadLooksAtMsg(k)
      PROVE  RecordInv'
  BY <1>5, VideoThreadLoopsKeeps, VideoThreadLooksKeeps
<1>6. ASSUME NEW k \in DOMAIN video, VideoThreadTracks(k) \/ VideoThreadDelivers(k)
      PROVE  RecordInv'
  BY <1>6, VideoThreadTracksKeeps, VideoThreadDeliversKeeps
<1>7. ASSUME NEW b \in Bufs, ReclaimDangling(b) \/ ReleaseRecordingFrame(b)
      PROVE  RecordInv'
  BY <1>7, ReclaimDanglingKeeps, ReleaseRecordingFrameKeeps
<1>8. CASE ReleaseGivesBack
  BY <1>8, ReleaseGivesBackKeeps
<1> QED
  BY <1>1, <1>2, <1>3, <1>4, <1>5, <1>6, <1>7, <1>8
     DEF OtherStep, Next, Calls, Steps, FrameThread, PreviewThread, VideoThread,
         SnapshotThread, Library

\* Recordings, pictures and timeouts are counted only up to the bound.
LEMMA EventsKeep ==
  ASSUME EventsInv, FlagTypes, [Next]_vars
  PROVE  EventsInv'
<1>n. MaxEvents \in Nat /\ camframe_timeout_flag \in BOOLEAN
  BY MaxEventsAssumption DEF FlagTypes
<1>1. CASE StartRecording
  <2>1. /\ recordings' = recordings + 1 /\ UNCHANGED <<pictures, camframe_timeout_flag>>
        /\ Events < MaxEvents
    BY <1>1 DEF StartRecording, runVars
  <2> QED
    BY <1>n, <2>1 DEF EventsInv, Events
<1>2. CASE TakePicture
  <2>1. /\ pictures' = pictures + 1 /\ UNCHANGED <<recordings, camframe_timeout_flag>>
        /\ Events < MaxEvents
    BY <1>2 DEF TakePicture, runVars, recordVars
  <2> QED
    BY <1>n, <2>1 DEF EventsInv, Events
<1>3. CASE CamframeTimeout
  <2>1. /\ UNCHANGED <<pictures, recordings>> /\ Events < MaxEvents
        /\ ~camframe_timeout_flag /\ camframe_timeout_flag' = TRUE
    BY <1>3 DEF CamframeTimeout, callVars, recordVars
  <2> QED
    BY <1>n, <2>1 DEF EventsInv, Events
<1>4. ASSUME UNCHANGED <<recordings, pictures, camframe_timeout_flag>> PROVE EventsInv'
  BY <1>4 DEF EventsInv, Events
<1>5. \/ StartRecording \/ TakePicture \/ CamframeTimeout
      \/ UNCHANGED <<recordings, pictures, camframe_timeout_flag>>
  <2> USE DEF callVars, runVars, recordVars
  <2>1. CASE StartPreview
    BY <2>1 DEF StartPreview
  <2>2. CASE GetBuffers
    BY <2>2 DEF GetBuffers
  <2>3. CASE InitRecord
    BY <2>3 DEF InitRecord
  <2>4. CASE LaunchPreview
    BY <2>4 DEF LaunchPreview
  <2>5. CASE StartStreaming
    BY <2>5 DEF StartStreaming
  <2>6. CASE StopPreview
    BY <2>6 DEF StopPreview
  <2>7. CASE StopStreaming
    BY <2>7 DEF StopStreaming
  <2>8. CASE DeinitPreview
    BY <2>8 DEF DeinitPreview
  <2>9. CASE PreviewFrame
    BY <2>9 DEF PreviewFrame
  <2>10. CASE VideoFrame
    BY <2>10 DEF VideoFrame
  <2>11. CASE FrameThreadTerminates
    BY <2>11 DEF FrameThreadTerminates
  <2>12. CASE RelinquishBuffers
    BY <2>12 DEF RelinquishBuffers
  <2>13. CASE PreviewThreadGets
    BY <2>13 DEF PreviewThreadGets
  <2>14. CASE PreviewThreadShows
    BY <2>14 DEF PreviewThreadShows
  <2>15. CASE DrainFrame
    BY <2>15 DEF DrainFrame
  <2>16. CASE DrainEnds
    BY <2>16 DEF DrainEnds
  <2>17. ASSUME NEW b \in Bufs, ReclaimDangling(b)
        PROVE  UNCHANGED <<recordings, pictures, camframe_timeout_flag>>
    BY <2>17 DEF ReclaimDangling
  <2>18. CASE ClearDangling
    BY <2>18 DEF ClearDangling
  <2>19. CASE LaunchVideoThread
    BY <2>19 DEF LaunchVideoThread
  <2>20. CASE StopRecording
    BY <2>20 DEF StopRecording
  <2>21. CASE StopVideo
    BY <2>21 DEF StopVideo
  <2>22. ASSUME NEW k \in DOMAIN video, VideoThreadLoops(k)
        PROVE  UNCHANGED <<recordings, pictures, camframe_timeout_flag>>
    BY <2>22 DEF VideoThreadLoops
  <2>23. ASSUME NEW k \in DOMAIN video, VideoThreadLooksAtMsg(k)
        PROVE  UNCHANGED <<recordings, pictures, camframe_timeout_flag>>
    BY <2>23 DEF VideoThreadLooksAtMsg
  <2>24. ASSUME NEW k \in DOMAIN video, VideoThreadTracks(k)
        PROVE  UNCHANGED <<recordings, pictures, camframe_timeout_flag>>
    BY <2>24 DEF VideoThreadTracks
  <2>25. ASSUME NEW k \in DOMAIN video, VideoThreadDelivers(k)
        PROVE  UNCHANGED <<recordings, pictures, camframe_timeout_flag>>
    BY <2>25 DEF VideoThreadDelivers
  <2>26. ASSUME NEW b \in Bufs, ReleaseRecordingFrame(b)
        PROVE  UNCHANGED <<recordings, pictures, camframe_timeout_flag>>
    BY <2>26 DEF ReleaseRecordingFrame
  <2>27. CASE ReleaseGivesBack
    BY <2>27 DEF ReleaseGivesBack
  <2>28. CASE PrepareSnapshot
    BY <2>28 DEF PrepareSnapshot
  <2>29. CASE LaunchSnapshot
    BY <2>29 DEF LaunchSnapshot
  <2>30. CASE EnterSnapshotMode
    BY <2>30 DEF EnterSnapshotMode
  <2>31. CASE SnapshotThreadStarts
    BY <2>31 DEF SnapshotThreadStarts
  <2>32. CASE SnapshotThreadShoots
    BY <2>32 DEF SnapshotThreadShoots
  <2>33. CASE SnapshotThreadCleans
    BY <2>33 DEF SnapshotThreadCleans
  <2>34. CASE ReceiveRawPicture
    BY <2>34 DEF ReceiveRawPicture
  <2>35. CASE LeaveSnapshotMode
    BY <2>35 DEF LeaveSnapshotMode
  <2>36. CASE ReceiveJpegPicture
    BY <2>36 DEF ReceiveJpegPicture
  <2>37. CASE CancelPicture
    BY <2>37 DEF CancelPicture
  <2>38. CASE Release
    BY <2>38 DEF Release
  <2>39. CASE ReleasePicture
    BY <2>39 DEF ReleasePicture
  <2>40. CASE ReleaseResources
    BY <2>40 DEF ReleaseResources
  <2>41. CASE Released
    BY <2>41 DEF Released
  <2>42. CASE UNCHANGED vars
    BY <2>42 DEF vars
  <2> QED
    BY <2>1, <2>2, <2>3, <2>4, <2>5, <2>6, <2>7, <2>8, <2>9, <2>10, <2>11, <2>12, <2>13,
       <2>14, <2>15, <2>16, <2>17, <2>18, <2>19, <2>20, <2>21, <2>22, <2>23, <2>24,
       <2>25, <2>26, <2>27, <2>28, <2>29, <2>30, <2>31, <2>32, <2>33, <2>34, <2>35,
       <2>36, <2>37, <2>38, <2>39, <2>40, <2>41, <2>42
       DEF Next, Calls, Steps, FrameThread, PreviewThread, VideoThread, SnapshotThread,
           Library
<1> QED
  BY <1>1, <1>2, <1>3, <1>4, <1>5

-----------------------------------------------------------------------------
(* The results                                                               *)

\* The inductive invariant.
IInv == CallTyped /\ FlagTypes /\ EventsInv /\ PreviewInv /\ StreamingInv /\ PictureInv
        /\ RecordInv

\* At the start nothing runs and nobody has a record buffer.
LEMMA Start == Init => IInv
<1> SUFFICES ASSUME Init PROVE IInv
  OBVIOUS
<1>1. CallTyped /\ FlagTypes
  BY DEF Init, CallTyped, FlagTypes, CallSteps
<1>2. PreviewInv /\ StreamingInv /\ PictureInv
  BY DEF Init, PreviewInv, StreamingInv, PictureInv, CaptureHasItsThread, At, AtStep, Idle
<1>3. EventsInv
  BY MaxEventsAssumption DEF Init, EventsInv, Events
<1>4. RecordTyped
  BY EmptySeq DEF Init, RecordTyped, None
<1>5. CountInv
  BY EmptySeq DEF Init, CountInv, At, Idle
<1>6. OwnerInv
  BY DEF Init, OwnerInv, At, Idle
<1> QED
  BY <1>1, <1>2, <1>3, <1>4, <1>5, <1>6 DEF IInv, RecordInv

\* The invariant always holds.
LEMMA Invariance == Spec => []IInv
<1>1. IInv /\ [Next]_vars => IInv'
  BY CallTypes, FlagsKeep, EventsKeep, PreviewKeeps, StreamingKeeps, PictureKeeps,
     RecordKeeps
     DEF IInv
<1> QED
  BY <1>1, Start, PTL DEF Spec

\* Every variable keeps its type: there are no more video threads than recordings, and
\* no more recordings, pictures and timeouts than the bound.
THEOREM TypeCorrect == Spec => []TypeOK
<1>1. ASSUME IInv PROVE TypeOK
  <2>1. /\ CallTyped /\ FlagTypes /\ EventsInv /\ RecordTyped /\ CountInv
    BY <1>1 DEF IInv, RecordInv
  <2>2. {videoMsg, previewMsg, mCameraRunning, mPreviewInitialized, busyInit, exitFlag,
         camframe_timeout_flag, mRecordingState, mVideoThreadExit, mVideoThreadRunning,
         streamsVideo, mSnapshotCancel, mJpegThreadRunning, mInSnapshotMode, leaving, raw,
         mFrameThreadWaitLock} \subseteq BOOLEAN
    BY <2>1 DEF FlagTypes
  <2>3. video \in Seq([pc : {"check", "wait", "take", "track", "deliver"},
                       b : Bufs \cup {NoBuf}, msg : BOOLEAN])
    <3>1. VideoTypes \subseteq [pc : {"check", "wait", "take", "track", "deliver"},
                                b : Bufs \cup {NoBuf}, msg : BOOLEAN]
      BY DEF VideoTypes
    <3> QED
      BY <2>1, <3>1, SeqMonotonic DEF RecordTyped
  <2>4. Len(video) <= recordings
    <3>1. Len(video) \in Nat /\ recordings \in Nat
      BY <2>1, LenProperties DEF RecordTyped, EventsInv
    <3> QED
      BY <2>1, <3>1 DEF CountInv
  <2> QED
    BY <2>1, <2>2, <2>3, <2>4 DEF TypeOK, CallTyped, RecordTyped, EventsInv
<1> QED
  BY <1>1, Invariance, PTL

\* The frame thread relinquishes the buffers only when the preview thread is gone, and
\* a new preview waits for the frame thread: no preview begins while buffers of the last
\* are away from the window, and none are taken from under the preview thread.
THEOREM PreviewsApart == Spec => []PreviewsDoNotOverlap
<1>1. IInv => PreviewsDoNotOverlap
  BY DEF IInv, CallTyped, PreviewInv, PreviewsDoNotOverlap, At
<1> QED
  BY <1>1, Invariance, PTL

\* However often preview and recording are started and stopped, whatever fails, and
\* whenever the application releases a frame: the driver, the queue, the video threads,
\* the application and its call have a record buffer once, and once more for each time
\* the code has given it to the driver under one of them; a buffer that none of them
\* has is tracked.
THEOREM OneOwnerEach == Spec => []RecordBuffersHaveOneOwner
<1>1. ASSUME IInv PROVE RecordBuffersHaveOneOwner
  <2>1. ASSUME mPreviewInitialized, NEW b \in Bufs
        PROVE  Owners(b) <= 1 + shared[b] /\ (Owners(b) = 0 => tracked[b])
    <3>1. RecordTyped /\ Accounted(b)
      BY <1>1, <2>1 DEF IInv, RecordInv, OwnerInv
    <3>2. Kept(b) \/ Tracking(b) => Owners(b) > 0
      <4>1. releasing = b => Releasing(b) = 1
        BY DEF Releasing
      <4>2. /\ free[b] \in Nat /\ Queued(b) \in Nat /\ Held(b) \in Nat /\ app[b] \in Nat
            /\ Releasing(b) \in {0, 1} /\ (Carried(b) \/ Tracking(b) => Held(b) > 0)
        BY <3>1, Numbers
      <4> QED
        BY <4>1, <4>2 DEF Kept, Owners
    <3> QED
      BY <3>1, <3>2, Numbers DEF Accounted
  <2> QED
    BY <2>1 DEF RecordBuffersHaveOneOwner
<1> QED
  BY <1>1, Invariance, PTL

\* A capture the library still has to finish finds the snapshot thread waiting and the
\* buffers of the picture allocated, cancelled or not, released or not.
THEOREM CapturesHaveTheirThread == Spec => []CaptureHasItsThread
<1>1. IInv => CaptureHasItsThread
  BY DEF IInv, PictureInv
<1> QED
  BY <1>1, Invariance, PTL
================================================================================
