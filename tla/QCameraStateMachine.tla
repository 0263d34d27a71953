-------------------------- MODULE QCameraStateMachine --------------------------
(***************************************************************************)
(* The control core of the QCamera2 HAL: QCameraStateMachine.cpp, the       *)
(* operations of QCamera2HWI.cpp its handlers call, and the SNAPSHOT_DONE   *)
(* event the postprocessor's notify thread posts back to it.                *)
(*                                                                          *)
(* One step is one event taken by the state machine thread, with every call *)
(* its handler makes.  An API event is handled while its caller waits (see  *)
(* ApiHandshake for that protocol), so at most one is outstanding.          *)
(***************************************************************************)
EXTENDS Naturals, Sequences

CONSTANTS
    ZslModes,      \* what isZSLMode() may be; nothing changes it once set up
    HintStores,    \* may setRecordingHintValue() really store its argument
    NeedRestarts,  \* what updateParameters() may answer in needRestart
    Faults,        \* kinds of call that may fail, a subset of FaultKind
    MaxPictures    \* bound on the pictures of one behaviour

FaultKind == {"add", "start", "request", "params"}

ASSUME ConstantsAssumption ==
    /\ ZslModes \subseteq BOOLEAN
    /\ HintStores \subseteq BOOLEAN
    /\ NeedRestarts \subseteq BOOLEAN
    /\ Faults \subseteq FaultKind
    /\ MaxPictures \in Nat

VARIABLES
    m_state,         \* the state of the machine
    zslMode,         \* mParameters.isZSLMode()
    hintStored,      \* does this build's setRecordingHintValue() store the hint
    quiet,           \* a run of the program in which no call fails and no
                     \* parameter asks for a restart
    mPreviewWindow,  \* is a preview window set (mPreviewWindow != NULL)
    recordingHint,   \* mParameters.getRecordingHintValue()
    m_channels,      \* m_channels[]: no object, a stopped one, an active one
    orphans,         \* channels whose object was deleted while streaming: the
                     \* stack's poll thread still runs, nobody holds its handle
    m_pHistBuf,      \* is the histogram buffer allocated
    postproc,        \* the last command given to m_postprocessor was start()
    pictures,        \* number of pictures taken so far; the last one's id
    shooting,        \* pictures the notify thread has yet to finish or drop
    evt_queue,       \* SNAPSHOT_DONE events queued, by the picture posting them
    apiResult        \* what signalAPIResult() handed to the last API caller

mParameters == <<zslMode, hintStored, quiet>>
hwVars   == <<recordingHint, m_channels, orphans, m_pHistBuf, postproc>>
picVars  == <<pictures, shooting>>
vars     == <<m_state, mParameters, mPreviewWindow, hwVars, picVars, evt_queue, apiResult>>

State == {"PREVIEW_STOPPED", "PREVIEW_READY", "PREVIEWING", "PIC_TAKING",
          "RECORDING", "VIDEO_PIC_TAKING", "PREVIEW_PIC_TAKING"}
PicStates == {"PIC_TAKING", "VIDEO_PIC_TAKING", "PREVIEW_PIC_TAKING"}

Channel      == {"METADATA", "ZSL", "PREVIEW", "VIDEO", "SNAPSHOT", "CAPTURE"}
ChannelState == {"null", "stopped", "active"}

\* APIs that touch none of the state above: answered alike in every state.
PlainApi == {"SET_CALLBACKS", "MSG_TYPE", "GET_PARAMS", "PUT_PARAMS",
             "STORE_METADATA_IN_BUFS"}
\* autoFocus(), cancelAutoFocus() and sendCommand()
FocusApi == {"START_AUTO_FOCUS", "STOP_AUTO_FOCUS", "SEND_COMMAND"}
Queries == {"PREVIEW_ENABLED", "RECORDING_ENABLED"}
Api == PlainApi \cup FocusApi \cup Queries \cup
       {"SET_PREVIEW_WINDOW", "SET_PARAMS", "START_PREVIEW",
        "START_NODISPLAY_PREVIEW", "STOP_PREVIEW",
        "START_RECORDING", "STOP_RECORDING",
        "RELEASE_RECORDING_FRAME", "TAKE_PICTURE", "CANCEL_PICTURE", "RELEASE",
        "DUMP"}
Status == {"OK", "FAILED", "INVALID_OPERATION", "BAD_VALUE"}

-----------------------------------------------------------------------------
(* The hardware as the operations of QCamera2HardwareInterface see it: each  *)
(* operator below takes the record and returns it as the call leaves it.     *)

Hw == [hint |-> recordingHint, ch |-> m_channels, orphans |-> orphans,
       hist |-> m_pHistBuf, pp |-> postproc]

HwBecomes(hw) == /\ recordingHint' = hw.hint
                 /\ m_channels' = hw.ch
                 /\ orphans' = hw.orphans
                 /\ m_pHistBuf' = hw.hist
                 /\ postproc' = hw.pp

NoFault == "none"
\* The kinds of call that may fail in this run of the program.
MayFail == IF quiet THEN {} ELSE Faults
\* At most one addChannel() of a call fails: the call gives up there.
AddFault(chs) == {NoFault} \cup (IF "add" \in MayFail THEN chs ELSE {})
\* Any of the start_channel() of a call, or its histogram allocation, may fail.
StartFaults(chs) == IF "start" \in MayFail THEN SUBSET chs ELSE {{}}

\* Deleting a channel object.  In state ACTIVE the stack ignores DEL_STREAM and
\* DELETE and then clears the object: whatever was streaming is orphaned.
delChannels(hw, chs) ==
    [hw EXCEPT !.ch = [c \in Channel |-> IF c \in chs THEN "null" ELSE hw.ch[c]],
               !.orphans = @ \cup {c \in chs : hw.ch[c] = "active"}]

\* QCameraChannel::start() on an active channel is a no-op of the stack that
\* returns 0; on no channel it is UNKNOWN_ERROR.
Starts(hw, c, bad) == \/ hw.ch[c] = "active"
                      \/ hw.ch[c] = "stopped" /\ c \notin bad

startChannel(hw, c, bad) ==
    [hw EXCEPT !.ch[c] = IF Starts(hw, c, bad) THEN "active" ELSE @]

stopChannel(hw, c) ==
    [hw EXCEPT !.ch[c] = IF @ = "active" THEN "stopped" ELSE @]

stopAndDel(hw, c) == delChannels(stopChannel(hw, c), {c})

\* Every add*Channel() deletes the previous object first; a failing one leaves none.
addChannel(hw, c, f) ==
    LET clean == delChannels(hw, {c})
    IN  IF f = c THEN clean ELSE [clean EXCEPT !.ch[c] = "stopped"]

MainChannel == IF zslMode THEN "ZSL" ELSE "PREVIEW"

\* What can fail in startPreview().
PreviewParts == {"HISTBUF", "METADATA", MainChannel}

\* The channels preparePreview() adds and unpreparePreview() deletes.
PreviewChannels(hint) ==
    {"METADATA", MainChannel} \cup
    (IF hint /\ ~zslMode THEN {"VIDEO", "SNAPSHOT"} ELSE {})

AddOrder == [c \in Channel |-> CASE c = "METADATA" -> 1
                                 [] c = "VIDEO"    -> 3
                                 [] c = "SNAPSHOT" -> 4
                                 [] OTHER          -> 2]

\* The channels are added in AddOrder; when adding f fails those before it are
\* deleted again and those after it are not touched.
preparePreview(hw, f) ==
    LET wanted == PreviewChannels(hw.hint)
        tried  == {c \in wanted : f = NoFault \/ AddOrder[c] <= AddOrder[f]}
        clean  == delChannels(hw, tried)
    IN  IF f = NoFault
        THEN [clean EXCEPT !.ch = [c \in Channel |-> IF c \in wanted THEN "stopped"
                                                     ELSE clean.ch[c]]]
        ELSE clean

unpreparePreview(hw) == delChannels(hw, PreviewChannels(hw.hint))

\* startPreview(): its status is that of the main channel alone.
StartPreviewOk(hw, bad) ==
    /\ hw.hist \/ "HISTBUF" \notin bad
    /\ Starts(hw, MainChannel, bad)

startPreview(hw, bad) ==
    IF ~hw.hist /\ "HISTBUF" \in bad
    THEN hw
    ELSE [startChannel(startChannel(hw, "METADATA", bad), MainChannel, bad)
          EXCEPT !.hist = Starts(hw, MainChannel, bad)]

stopPreview(hw) ==
    unpreparePreview([stopChannel(stopChannel(hw, MainChannel), "METADATA")
                      EXCEPT !.hist = FALSE])

\* startRecording(): without the hint the preview is torn down and prepared
\* again, then the preview and the video channel are started.
RearmForRecording(hw, f) ==
    LET down == stopAndDel(hw, "PREVIEW")
    IN  preparePreview([down EXCEPT !.hint = hintStored], f)

StartRecordingOk(hw, f, bad) ==
    IF hw.hint THEN Starts(hw, "VIDEO", bad)
    ELSE LET armed == RearmForRecording(hw, f)
         IN  /\ f = NoFault
             /\ Starts(armed, "PREVIEW", bad)
             /\ Starts(armed, "VIDEO", bad)

\* Planted error: the preview is not started again.
StartVideoOnly(hw, f, bad) ==
    IF hw.hint THEN startChannel(hw, "VIDEO", bad)
    ELSE LET armed == RearmForRecording(hw, f)
         IN  IF f # NoFault THEN armed ELSE startChannel(armed, "VIDEO", bad)

startRecording(hw, f, bad) ==
    IF hw.hint THEN startChannel(hw, "VIDEO", bad)
    ELSE LET armed   == RearmForRecording(hw, f)
             preview == startChannel(armed, "PREVIEW", bad)
         IN  CASE f # NoFault -> armed
               [] f = NoFault /\ ~Starts(armed, "PREVIEW", bad) -> preview
               [] f = NoFault /\ Starts(armed, "PREVIEW", bad)  ->
                    startChannel(preview, "VIDEO", bad)

stopRecording(hw) == stopChannel(hw, "VIDEO")

\* takePicture(): ZSL asks the running channel for frames, otherwise the preview
\* channel gives way to a capture channel.  A failing addCaptureChannel() is the
\* one error path that leaves the postprocessor started.
TakePictureOk(hw, f, bad) ==
    IF zslMode THEN hw.ch["ZSL"] # "null" /\ f = NoFault
    ELSE f = NoFault /\ "CAPTURE" \notin bad

\* Planted error: the preview is not stopped for a picture.
TakePictureInPreview(hw, f, bad) ==
    LET added == [addChannel(hw, "CAPTURE", f) EXCEPT !.pp = TRUE]
    IN  IF f # NoFault THEN added ELSE startChannel(added, "CAPTURE", bad)

takePicture(hw, f, bad) ==
    IF zslMode
    THEN [hw EXCEPT !.pp = TakePictureOk(hw, f, bad)]
    ELSE LET added == [addChannel(stopAndDel(hw, "PREVIEW"), "CAPTURE", f)
                       EXCEPT !.pp = TRUE]
         IN  CASE f # NoFault -> added
               [] f = NoFault /\ "CAPTURE" \in bad ->
                    [delChannels(added, {"CAPTURE"}) EXCEPT !.pp = FALSE]
               [] f = NoFault /\ "CAPTURE" \notin bad ->
                    startChannel(added, "CAPTURE", bad)

cancelPicture(hw) ==
    [stopAndDel(hw, IF zslMode THEN "ZSL" ELSE "CAPTURE") EXCEPT !.pp = FALSE]

\* Planted error: the postprocessor is not started.
StartSnapshotOnly(hw, bad) == startChannel(hw, "SNAPSHOT", bad)

takeLiveSnapshot(hw, bad) ==
    [startChannel(hw, "SNAPSHOT", bad) EXCEPT !.pp = Starts(hw, "SNAPSHOT", bad)]

\* Planted error: the postprocessor is left running.
StopSnapshotOnly(hw) == stopChannel(hw, "SNAPSHOT")

cancelLiveSnapshot(hw) == [stopChannel(hw, "SNAPSHOT") EXCEPT !.pp = FALSE]

\* release() stops every channel before it deletes it.
release(hw) == [hw EXCEPT !.ch = [c \in Channel |-> "null"]]

-----------------------------------------------------------------------------
(* Building blocks of the handlers.                                          *)

StateOf(ok) == IF ok THEN "OK" ELSE "FAILED"

\* Planted error: every answer is typed as that of a query.
ReplyAsQuery(api, status) ==
    apiResult' = [query |-> api, status |-> status, enabled |-> FALSE]

\* Of the answer only what it says is kept: the status and, for the two queries,
\* the flag.  Which caller it wakes is the matter of ApiHandshake.
Reply(api, status) ==
    /\ api \in Api
    /\ apiResult' = [query |-> "NONE", status |-> status, enabled |-> FALSE]

ReplyFlag(api, flag) ==
    apiResult' = [query |-> api, status |-> "OK", enabled |-> flag]

\* Planted error: only the data thread of the postprocessor is told to start.
NotifyNotStarted == UNCHANGED <<pictures, shooting>>

\* m_postprocessor.start() comes first, whether the picture can be taken or not:
\* the notify thread is told to count its snapshots.
NewPicture == /\ pictures' = pictures + 1
              /\ shooting' = Append(shooting, pictures + 1)

\* A reply that changes nothing else.
Untouched == UNCHANGED <<m_state, mParameters, mPreviewWindow, hwVars, picVars, evt_queue>>

In(s) == m_state = s
Goto(s) == m_state' = s

Query(previewFlag, recordingFlag) ==
    /\ Untouched
    /\ \/ ReplyFlag("PREVIEW_ENABLED", previewFlag)
       \/ ReplyFlag("RECORDING_ENABLED", recordingFlag)

Refuse(apis) == Untouched /\ \E a \in apis : Reply(a, "INVALID_OPERATION")

NoOp(apis) == Untouched /\ \E a \in apis : Reply(a, "OK")

ParamStatus == IF "params" \in MayFail THEN {"OK", "FAILED"} ELSE {"OK"}

\* updateParameters() and commitParameterChanges() without a restart.
SetParamsInPlace == Untouched /\ \E s \in ParamStatus : Reply("SET_PARAMS", s)

\* needRestart: stop the preview, commit, start the preview again.  The outcome
\* of that startPreview() is not looked at.
MayRestart == TRUE \in NeedRestarts /\ ~quiet

SetParamsRestart ==
    /\ MayRestart
    /\ \E bad \in StartFaults(PreviewParts), s \in ParamStatus :
         /\ HwBecomes(startPreview(stopPreview(Hw), bad))
         /\ Reply("SET_PARAMS", s)
    /\ UNCHANGED <<m_state, mParameters, mPreviewWindow, picVars, evt_queue>>

\* The answers every state gives alike; FocusApi is handled outside STOPPED.
PlainApis == NoOp(PlainApi) \/ Refuse({"DUMP"})
ReleaseFrame == Untouched /\ \E s \in {"OK", "FAILED"} : Reply("RELEASE_RECORDING_FRAME", s)
FocusApis == Untouched /\ \E a \in FocusApi, s \in {"OK", "FAILED"} : Reply(a, s)

-----------------------------------------------------------------------------
(* procEvtPreviewStoppedState                                                *)

StoppedSetPreviewWindow ==
    /\ In("PREVIEW_STOPPED")
    /\ mPreviewWindow' \in BOOLEAN
    /\ Reply("SET_PREVIEW_WINDOW", "OK")
    /\ UNCHANGED <<m_state, mParameters, hwVars, picVars, evt_queue>>

StoppedStartPreviewNoWindow ==
    /\ In("PREVIEW_STOPPED")
    /\ ~mPreviewWindow
    /\ Goto("PREVIEW_READY")
    /\ Reply("START_PREVIEW", "OK")
    /\ UNCHANGED <<mParameters, mPreviewWindow, hwVars, picVars, evt_queue>>

StoppedStartPreview ==
    /\ In("PREVIEW_STOPPED")
    /\ \E api \in {"START_NODISPLAY_PREVIEW"}
                  \cup (IF mPreviewWindow THEN {"START_PREVIEW"} ELSE {}),
          f \in AddFault(PreviewChannels(recordingHint)),
          bad \in StartFaults(PreviewParts) :
         LET ready == preparePreview(Hw, f)
             ok    == f = NoFault /\ StartPreviewOk(ready, bad)
             after == IF f = NoFault THEN startPreview(ready, bad) ELSE ready
         IN  /\ HwBecomes(IF f = NoFault /\ ~ok THEN unpreparePreview(after) ELSE after)
             /\ Goto(IF ok THEN "PREVIEWING" ELSE "PREVIEW_STOPPED")
             /\ Reply(api, StateOf(ok))
    /\ UNCHANGED <<mParameters, mPreviewWindow, picVars, evt_queue>>

StoppedRelease ==
    /\ In("PREVIEW_STOPPED")
    /\ HwBecomes(release(Hw))
    /\ Reply("RELEASE", "OK")
    /\ UNCHANGED <<m_state, mParameters, mPreviewWindow, picVars, evt_queue>>

StoppedOther ==
    /\ In("PREVIEW_STOPPED")
    /\ \/ SetParamsInPlace
       \/ Query(FALSE, FALSE)
       \/ NoOp({"STOP_PREVIEW"})
       \/ Refuse(FocusApi \cup
                 {"START_RECORDING", "STOP_RECORDING", "RELEASE_RECORDING_FRAME",
                  "TAKE_PICTURE", "CANCEL_PICTURE"})

(* procEvtPreviewReadyState                                                  *)

\* Starts the preview as soon as there is a window; nothing prepared its channels.
ReadySetPreviewWindow ==
    /\ In("PREVIEW_READY")
    /\ mPreviewWindow' \in BOOLEAN
    /\ IF mPreviewWindow'
       THEN \E bad \in StartFaults(PreviewParts) :
              LET ok    == StartPreviewOk(Hw, bad)
                  after == startPreview(Hw, bad)
              IN  /\ HwBecomes(IF ok THEN after ELSE unpreparePreview(after))
                  /\ Goto(IF ok THEN "PREVIEWING" ELSE "PREVIEW_STOPPED")
                  /\ Reply("SET_PREVIEW_WINDOW", StateOf(ok))
       ELSE /\ Reply("SET_PREVIEW_WINDOW", "OK")
            /\ UNCHANGED <<m_state, hwVars>>
    /\ UNCHANGED <<mParameters, picVars, evt_queue>>

ReadyStopPreview ==
    /\ In("PREVIEW_READY")
    /\ HwBecomes(unpreparePreview(Hw))
    /\ Goto("PREVIEW_STOPPED")
    /\ Reply("STOP_PREVIEW", "OK")
    /\ UNCHANGED <<mParameters, mPreviewWindow, picVars, evt_queue>>

ReadyOther ==
    /\ In("PREVIEW_READY")
    /\ \/ SetParamsInPlace
       \/ Query(TRUE, FALSE)
       \/ NoOp({"START_PREVIEW"})
       \/ FocusApis
       \/ Refuse({"START_NODISPLAY_PREVIEW", "START_RECORDING", "STOP_RECORDING",
                  "TAKE_PICTURE", "CANCEL_PICTURE", "RELEASE_RECORDING_FRAME",
                  "RELEASE"})

(* procEvtPreviewingState                                                    *)

PreviewingSetParams == In("PREVIEWING") /\ SetParamsRestart

PreviewingStopPreview ==
    /\ In("PREVIEWING")
    /\ HwBecomes(stopPreview(Hw))
    /\ Goto("PREVIEW_STOPPED")
    /\ Reply("STOP_PREVIEW", "OK")
    /\ UNCHANGED <<mParameters, mPreviewWindow, picVars, evt_queue>>

PreviewingStartRecording ==
    /\ In("PREVIEWING")
    /\ \E f \in AddFault(PreviewChannels(hintStored)),
          bad \in StartFaults({"PREVIEW", "VIDEO"}) :
         LET ok == StartRecordingOk(Hw, f, bad)
         IN  /\ HwBecomes(startRecording(Hw, f, bad))
             /\ Goto(IF ok THEN "RECORDING" ELSE "PREVIEWING")
             /\ Reply("START_RECORDING", StateOf(ok))
    /\ UNCHANGED <<mParameters, mPreviewWindow, picVars, evt_queue>>

PreviewingTakePicture ==
    /\ In("PREVIEWING")
    /\ pictures < MaxPictures
    /\ NewPicture
    /\ \E f \in {NoFault} \cup
                (IF zslMode THEN MayFail \cap {"request"}
                 ELSE AddFault({"CAPTURE"})),
          bad \in StartFaults({"CAPTURE"}) :
         LET ok == TakePictureOk(Hw, f, bad)
         IN  /\ HwBecomes(takePicture(Hw, f, bad))
             /\ Goto(IF ok THEN "PIC_TAKING" ELSE "PREVIEW_STOPPED")
             /\ Reply("TAKE_PICTURE", StateOf(ok))
    /\ UNCHANGED <<mParameters, mPreviewWindow, evt_queue>>

PreviewingOther ==
    /\ In("PREVIEWING")
    /\ \/ SetParamsInPlace
       \/ Query(TRUE, FALSE)
       \/ NoOp({"START_PREVIEW", "START_NODISPLAY_PREVIEW"})
       \/ FocusApis
       \/ Refuse({"SET_PREVIEW_WINDOW", "CANCEL_PICTURE", "STOP_RECORDING",
                  "RELEASE_RECORDING_FRAME", "RELEASE"})

(* procEvtPicTakingState                                                     *)

PicTakingCancelPicture ==
    /\ In("PIC_TAKING")
    /\ HwBecomes(cancelPicture(Hw))
    /\ Goto("PREVIEW_STOPPED")
    /\ Reply("CANCEL_PICTURE", "OK")
    /\ UNCHANGED <<mParameters, mPreviewWindow, picVars, evt_queue>>

PicTakingOther ==
    /\ In("PIC_TAKING")
    /\ \/ SetParamsInPlace
       \/ Query(FALSE, FALSE)
       \/ NoOp({"STOP_PREVIEW"})
       \/ FocusApis
       \/ Refuse({"SET_PREVIEW_WINDOW", "TAKE_PICTURE", "START_RECORDING",
                  "STOP_RECORDING", "RELEASE_RECORDING_FRAME", "START_PREVIEW",
                  "START_NODISPLAY_PREVIEW", "RELEASE"})

(* procEvtRecordingState                                                     *)

RecordingTakePicture ==
    /\ In("RECORDING")
    /\ pictures < MaxPictures
    /\ NewPicture
    /\ \E bad \in StartFaults({"SNAPSHOT"}) :
         LET ok == Starts(Hw, "SNAPSHOT", bad)
         IN  /\ HwBecomes(takeLiveSnapshot(Hw, bad))
             /\ Goto(IF ok THEN "VIDEO_PIC_TAKING" ELSE "RECORDING")
             /\ Reply("TAKE_PICTURE", StateOf(ok))
    /\ UNCHANGED <<mParameters, mPreviewWindow, evt_queue>>

RecordingStopRecording ==
    /\ In("RECORDING")
    /\ HwBecomes(stopRecording(Hw))
    /\ Goto("PREVIEWING")
    /\ Reply("STOP_RECORDING", StateOf(m_channels["VIDEO"] # "null"))
    /\ UNCHANGED <<mParameters, mPreviewWindow, picVars, evt_queue>>

\* SET_PARAMS while the video channel may run: a restart is refused.
SetParamsNoRestart ==
    \/ SetParamsInPlace
    \/ MayRestart /\ Untouched /\ Reply("SET_PARAMS", "BAD_VALUE")

RecordingOther ==
    /\ In("RECORDING")
    /\ \/ SetParamsNoRestart
       \/ Query(FALSE, TRUE)
       \/ NoOp({"START_RECORDING"})
       \/ ReleaseFrame
       \/ FocusApis
       \/ Refuse({"SET_PREVIEW_WINDOW", "CANCEL_PICTURE", "START_PREVIEW",
                  "START_NODISPLAY_PREVIEW", "STOP_PREVIEW", "RELEASE"})

(* procEvtVideoPicTakingState                                                *)

VideoPicTakingStopRecording ==
    /\ In("VIDEO_PIC_TAKING")
    /\ HwBecomes(stopRecording(Hw))
    /\ Goto("PREVIEW_PIC_TAKING")
    /\ Reply("STOP_RECORDING", StateOf(m_channels["VIDEO"] # "null"))
    /\ UNCHANGED <<mParameters, mPreviewWindow, picVars, evt_queue>>

VideoPicTakingCancelPicture ==
    /\ In("VIDEO_PIC_TAKING")
    /\ HwBecomes(cancelLiveSnapshot(Hw))
    /\ Goto("RECORDING")
    /\ Reply("CANCEL_PICTURE", StateOf(m_channels["SNAPSHOT"] # "null"))
    /\ UNCHANGED <<mParameters, mPreviewWindow, picVars, evt_queue>>

VideoPicTakingOther ==
    /\ In("VIDEO_PIC_TAKING")
    /\ \/ SetParamsNoRestart
       \/ Query(TRUE, TRUE)
       \/ ReleaseFrame
       \/ FocusApis
       \/ Refuse({"SET_PREVIEW_WINDOW", "START_RECORDING", "START_PREVIEW",
                  "START_NODISPLAY_PREVIEW", "STOP_PREVIEW", "TAKE_PICTURE",
                  "RELEASE"})

(* procEvtPreviewPicTakingState                                              *)

PreviewPicTakingSetParams == In("PREVIEW_PIC_TAKING") /\ SetParamsRestart

PreviewPicTakingCancelPicture ==
    /\ In("PREVIEW_PIC_TAKING")
    /\ HwBecomes(cancelLiveSnapshot(Hw))
    /\ Goto("PREVIEWING")
    /\ Reply("CANCEL_PICTURE", StateOf(m_channels["SNAPSHOT"] # "null"))
    /\ UNCHANGED <<mParameters, mPreviewWindow, picVars, evt_queue>>

\* The snapshot channel stays: the machine goes on as if a still were shot.
PreviewPicTakingStopPreview ==
    /\ In("PREVIEW_PIC_TAKING")
    /\ HwBecomes(delChannels(stopAndDel(Hw, "PREVIEW"), {"VIDEO"}))
    /\ Goto("PIC_TAKING")
    /\ Reply("STOP_PREVIEW", "OK")
    /\ UNCHANGED <<mParameters, mPreviewWindow, picVars, evt_queue>>

\* The handler of START_RECORDING calls stopRecording().
PreviewPicTakingStartRecording ==
    /\ In("PREVIEW_PIC_TAKING")
    /\ LET ok == m_channels["VIDEO"] # "null"
       IN  /\ HwBecomes(stopRecording(Hw))
           /\ Goto(IF ok THEN "VIDEO_PIC_TAKING" ELSE "PREVIEW_PIC_TAKING")
           /\ Reply("START_RECORDING", StateOf(ok))
    /\ UNCHANGED <<mParameters, mPreviewWindow, picVars, evt_queue>>

PreviewPicTakingOther ==
    /\ In("PREVIEW_PIC_TAKING")
    /\ \/ SetParamsInPlace
       \/ Query(TRUE, FALSE)
       \/ ReleaseFrame
       \/ FocusApis
       \/ Refuse({"STOP_RECORDING", "START_PREVIEW", "START_NODISPLAY_PREVIEW",
                  "TAKE_PICTURE", "SET_PREVIEW_WINDOW", "RELEASE"})

-----------------------------------------------------------------------------
(* The notify thread of the postprocessor.  It serves pictures in the order  *)
(* they were started; a STOP reaches it asynchronously, so it may still post *)
(* the end of a picture the state machine has already given up.              *)

PostSnapshotDone ==
    /\ shooting # <<>>
    /\ evt_queue' = Append(evt_queue, Head(shooting))
    /\ shooting' = Tail(shooting)
    /\ UNCHANGED <<m_state, mParameters, mPreviewWindow, hwVars, pictures, apiResult>>

\* The STOP of a picture that is no longer wanted reaches the notify thread.
DropStoppedPicture ==
    /\ shooting # <<>>
    /\ ~postproc \/ Head(shooting) # pictures
    /\ shooting' = Tail(shooting)
    /\ UNCHANGED <<m_state, mParameters, mPreviewWindow, hwVars, pictures, evt_queue, apiResult>>

\* The state machine thread takes a SNAPSHOT_DONE off evt_queue.
SnapshotDone ==
    /\ evt_queue # <<>>
    /\ evt_queue' = Tail(evt_queue)
    /\ \/ /\ In("PIC_TAKING")
          /\ HwBecomes(cancelPicture(Hw))
          /\ Goto("PREVIEW_STOPPED")
       \/ /\ In("VIDEO_PIC_TAKING")
          /\ HwBecomes(cancelLiveSnapshot(Hw))
          /\ Goto("RECORDING")
       \/ /\ In("PREVIEW_PIC_TAKING")
          /\ HwBecomes(cancelLiveSnapshot(Hw))
          /\ Goto("PREVIEWING")
       \/ m_state \notin PicStates /\ UNCHANGED <<m_state, hwVars>>
    /\ UNCHANGED <<mParameters, mPreviewWindow, picVars, apiResult>>

-----------------------------------------------------------------------------

Init ==
    /\ m_state = "PREVIEW_STOPPED"
    /\ zslMode \in ZslModes
    /\ hintStored \in HintStores
    /\ quiet \in BOOLEAN
    /\ mPreviewWindow = FALSE
    /\ recordingHint = FALSE
    /\ m_channels = [c \in Channel |-> "null"]
    /\ orphans = {}
    /\ m_pHistBuf = FALSE
    /\ postproc = FALSE
    /\ pictures = 0
    /\ shooting = <<>>
    /\ evt_queue = <<>>
    /\ apiResult = [query |-> "NONE", status |-> "OK", enabled |-> FALSE]

StoppedState == \/ StoppedSetPreviewWindow
                \/ StoppedStartPreviewNoWindow
                \/ StoppedStartPreview
                \/ StoppedRelease
                \/ StoppedOther

ReadyState == ReadySetPreviewWindow \/ ReadyStopPreview \/ ReadyOther

PreviewingState == \/ PreviewingSetParams
                   \/ PreviewingStopPreview
                   \/ PreviewingStartRecording
                   \/ PreviewingTakePicture
                   \/ PreviewingOther

PicTakingState == PicTakingCancelPicture \/ PicTakingOther

RecordingState == RecordingTakePicture \/ RecordingStopRecording \/ RecordingOther

VideoPicTakingState == \/ VideoPicTakingStopRecording
                       \/ VideoPicTakingCancelPicture
                       \/ VideoPicTakingOther

PreviewPicTakingState == \/ PreviewPicTakingSetParams
                         \/ PreviewPicTakingCancelPicture
                         \/ PreviewPicTakingStopPreview
                         \/ PreviewPicTakingStartRecording
                         \/ PreviewPicTakingOther

Next == \/ StoppedState \/ ReadyState \/ PreviewingState \/ PicTakingState
        \/ RecordingState \/ VideoPicTakingState \/ PreviewPicTakingState
        \/ PlainApis
        \/ PostSnapshotDone \/ DropStoppedPicture \/ SnapshotDone

Spec == Init /\ [][Next]_vars

-----------------------------------------------------------------------------
(* Properties                                                                *)

\* Every variable has its type, the answer's flag included.
TypeOK ==
    /\ m_state \in State
    /\ zslMode \in BOOLEAN
    /\ hintStored \in BOOLEAN
    /\ quiet \in BOOLEAN
    /\ mPreviewWindow \in BOOLEAN
    /\ recordingHint \in BOOLEAN
    /\ m_channels \in [Channel -> ChannelState]
    /\ orphans \subseteq Channel
    /\ m_pHistBuf \in BOOLEAN
    /\ postproc \in BOOLEAN
    /\ pictures \in Nat
    /\ shooting \in Seq(Nat)
    /\ evt_queue \in Seq(Nat)
    /\ apiResult \in [query : Queries \cup {"NONE"}, status : Status, enabled : BOOLEAN]

PreviewStates == {"PREVIEWING", "RECORDING", "VIDEO_PIC_TAKING", "PREVIEW_PIC_TAKING"}

\* The preview and the capture stream never run together: whatever fails on the
\* way into or out of a picture, one is gone before the other starts.
PreviewAndCaptureExclusive ==
    ~(m_channels["PREVIEW"] = "active" /\ m_channels["CAPTURE"] = "active")

\* A stopped machine streams neither preview, stills nor video, whichever call
\* failed or which event ended the picture.  (A ZSL channel may: takePicture()
\* fails without stopping it.)
NothingStreamsWhenStopped ==
    m_state \in {"PREVIEW_STOPPED", "PREVIEW_READY"} =>
        \A c \in {"PREVIEW", "CAPTURE", "VIDEO"} : m_channels[c] # "active"

\* Video frames flow only in the two recording states.
VideoOnlyWhileRecording ==
    m_channels["VIDEO"] = "active" => m_state \in {"RECORDING", "VIDEO_PIC_TAKING"}

\* What streams agrees with the state, whichever calls failed on the way to it:
\* no stream is left behind by a picture, a recording or a preview that ended.
StreamsFitTheState ==
    PreviewAndCaptureExclusive /\ NothingStreamsWhenStopped /\ VideoOnlyWhileRecording

\* While a picture is being taken the postprocessor that must end it is running.
PictureHasPostprocessor == m_state \in PicStates => postproc

\* As long as no call fails and no parameter asks for a restart, a machine that
\* says it is previewing streams, and a recording, a live snapshot beside it
\* included, keeps the preview it began with.  (Not in ZSL mode: there
\* startRecording() stops no ZSL channel and preparePreview() deletes it.)
PreviewSurvives ==
    quiet /\ ~zslMode =>
        /\ m_state = "PREVIEWING" => m_channels[MainChannel] = "active"
        /\ m_state \in {"RECORDING", "VIDEO_PIC_TAKING"} => m_channels["PREVIEW"] = "active"

\* As long as no call fails, a stop command is given for every picture, however
\* it ends: the postprocessor is left running only in a picture state.
PostprocessorStoppedOutsidePictures == quiet /\ postproc => m_state \in PicStates

\* No channel object is deleted while its streams run.
NoOrphanedChannel == orphans = {}

\* To the postprocessor the state machine is what PictureNotifier expects: both
\* threads are started for every picture and no other time, and each picture's
\* end is taken once.
Notifier == INSTANCE PictureNotifier WITH done <- evt_queue
NotifiesPictures == Notifier!Spec
=============================================================================
