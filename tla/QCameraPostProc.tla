---------------------------- MODULE QCameraPostProc ----------------------------
(***************************************************************************)
(* The postprocessor of the QCamera2 HAL: QCameraPostProc.cpp with the      *)
(* command threads of QCameraCmdThread.cpp it runs on.  The data thread     *)
(* takes frames and has them encoded, the notify thread hands results to    *)
(* the application and posts SNAPSHOT_DONE, and the state machine thread    *)
(* starts and stops both and passes on the encoder's events.                *)
(*                                                                          *)
(* One step is one command of a thread, except that the data thread lets    *)
(* others in between handing a job to the encoder and remembering it, and   *)
(* that stop() takes a step per call that others can observe.  Queueing     *)
(* data and sending the command that goes with it is one step: a command is *)
(* taken only after its data is there, and data without a command is looked *)
(* at by nobody but a flush, which may as well come later.                  *)
(*                                                                          *)
(* Offline reprocessing is left out, as needOfflineReprocess() is FALSE in  *)
(* this source tree.  COMPRESSED_IMAGE messages are enabled, and memory     *)
(* does not run out.                                                        *)
(***************************************************************************)
EXTENDS Naturals, Sequences, FiniteSets

CONSTANTS
    NumSnapshots,  \* getNumOfSnapshots(): frames of a picture, ends expected
    JpegOpens,     \* may init() open the JPEG interface (mJpegClientHandle > 0)
    MaxPictures    \* bound on the pictures of one behaviour

ASSUME PostProcAssumption ==
    /\ NumSnapshots \in Nat \ {0}
    /\ JpegOpens \subseteq BOOLEAN
    /\ MaxPictures \in Nat

Picture == 1 .. MaxPictures
Frame   == Picture \X (1 .. NumSnapshots)   \* a job is named by its frame
None    == <<0, 0>>

VARIABLES
    mJpegClientHandle, \* did init() open the JPEG interface
    sm,                \* what the state machine thread is at
    started,           \* its last command here was start()
    pictures,          \* number of pictures so far; the last one's id
    frames,            \* frames of that picture handed over so far
    streaming,         \* a channel delivers frames
    held,              \* frames taken and not returned to their channel
    m_inputJpegQ,      \* frames to be encoded
    m_ongoingJpegQ,    \* jobs being encoded
    hand,              \* job started and not yet in m_ongoingJpegQ
    encoding,          \* jobs the encoder works on
    evt_queue,         \* events for the state machine
    proc_cmds,         \* m_dataProcTh.cmd_queue
    is_active,
    sync_sem,          \* m_dataProcTh.sync_sem
    overtaken,         \* history, read by no step: the last STOP taken there had
                       \* overtaken a START, which then activates the thread again
    notify_cmds,       \* m_dataNotifyTh.cmd_queue; a START has its picture
    isActive,
    notified,          \* the picture of the last START taken, and whether its
                       \* end is still to be posted
    numOfSnapshotRcvd,
    m_dataNotifyQ      \* length: its results are alike here

smVars     == <<mJpegClientHandle, sm, started, pictures, streaming>>
dataVars   == <<frames, held, m_inputJpegQ>>
jobVars    == <<m_ongoingJpegQ, hand, encoding>>
procVars   == <<proc_cmds, is_active, sync_sem, overtaken>>
notifyVars == <<notify_cmds, isActive, notified, numOfSnapshotRcvd>>
vars == <<smVars, dataVars, jobVars, evt_queue, procVars, notifyVars, m_dataNotifyQ>>

SmStep == {"idle", "picture", "failed", "stopping", "waiting", "closing"}

ProcCmd      == {"START", "STOP", "DO_NEXT"}
Plain(cmd)   == [cmd |-> cmd, picture |-> 0]
StartCmd(p)  == [cmd |-> "START", picture |-> p]
NotifyCmd    == [cmd : ProcCmd, picture : 0 .. MaxPictures]
JpegEvt(job) == [type |-> "JPEG", of |-> job]
DoneEvt(p)   == [type |-> "DONE", of |-> <<p, 0>>]
Evt == [type : {"JPEG"}, of : Frame] \cup [type : {"DONE"}, of : Picture \X {0}]

Elems(s) == {s[i] : i \in DOMAIN s}

-----------------------------------------------------------------------------
(* The state machine thread.                                                 *)

\* start(), and the channel the picture comes from.  If that cannot be started
\* the postprocessor is stopped, and if it cannot even be added it is not.
TakePicture ==
    /\ sm = "idle"
    /\ pictures < MaxPictures
    /\ pictures' = pictures + 1
    /\ sm' \in {"picture", "failed", "idle"}
    /\ streaming' = (sm' = "picture")
    /\ started' = TRUE
    /\ frames' = 0
    /\ proc_cmds' = Append(proc_cmds, "START")
    /\ notify_cmds' = Append(notify_cmds, StartCmd(pictures + 1))
    /\ UNCHANGED <<mJpegClientHandle, held, m_inputJpegQ, jobVars, evt_queue,
                   is_active, sync_sem, overtaken, isActive, notified,
                   numOfSnapshotRcvd, m_dataNotifyQ>>

\* stop() begins: the notify thread is told, and is not waited for.
StopNotify ==
    /\ sm' = "stopping"
    /\ started' = FALSE
    /\ notify_cmds' = <<Plain("STOP")>> \o notify_cmds
    /\ UNCHANGED <<mJpegClientHandle, pictures, streaming, dataVars, jobVars, procVars,
                   isActive, notified, numOfSnapshotRcvd, m_dataNotifyQ>>

CancelPicture ==
    /\ sm \in {"picture", "failed"}
    /\ StopNotify
    /\ UNCHANGED evt_queue

\* SNAPSHOT_DONE is taken: it ends a picture if one is being taken.
TakeDone ==
    /\ sm \in {"idle", "picture"}
    /\ evt_queue # <<>>
    /\ Head(evt_queue).type = "DONE"
    /\ evt_queue' = Tail(evt_queue)
    /\ \/ sm = "picture" /\ StopNotify
       \/ /\ sm = "idle"
          /\ UNCHANGED <<smVars, dataVars, jobVars, procVars, notifyVars, m_dataNotifyQ>>

StopProc ==
    /\ sm = "stopping"
    /\ sm' = "waiting"
    /\ proc_cmds' = <<"STOP">> \o proc_cmds
    /\ UNCHANGED <<mJpegClientHandle, started, pictures, streaming, dataVars, jobVars,
                   evt_queue, is_active, sync_sem, overtaken, notifyVars, m_dataNotifyQ>>

\* Planted error: the semaphore is not waited for.
StopAtOnce ==
    /\ sm = "waiting"
    /\ sm' = "closing"
    /\ UNCHANGED <<mJpegClientHandle, started, pictures, streaming, dataVars, jobVars,
                   evt_queue, procVars, notifyVars, m_dataNotifyQ>>

StopReturns ==
    /\ sm = "waiting"
    /\ sync_sem > 0
    /\ sync_sem' = sync_sem - 1
    /\ sm' = "closing"
    /\ UNCHANGED <<mJpegClientHandle, started, pictures, streaming, dataVars, jobVars,
                   evt_queue, proc_cmds, is_active, overtaken, notifyVars, m_dataNotifyQ>>

\* The channel is stopped after the postprocessor.
StopChannel ==
    /\ sm = "closing"
    /\ sm' = "idle"
    /\ streaming' = FALSE
    /\ UNCHANGED <<mJpegClientHandle, started, pictures, dataVars, jobVars, evt_queue,
                   procVars, notifyVars, m_dataNotifyQ>>

\* sendDataNotify()
SendDataNotify ==
    /\ m_dataNotifyQ' = m_dataNotifyQ + 1
    /\ notify_cmds' = Append(notify_cmds, Plain("DO_NEXT"))
    /\ UNCHANGED <<isActive, notified, numOfSnapshotRcvd>>

\* findJpegJobByJobId(): the head of the queue, whatever the id.
findJpegJobByJobId == IF m_ongoingJpegQ = <<>> THEN None ELSE Head(m_ongoingJpegQ)

\* Planted error: the data thread is not told to go on.
ProcessJpegEvtOnly ==
    /\ sm \in {"idle", "picture"}
    /\ evt_queue # <<>>
    /\ Head(evt_queue).type = "JPEG"
    /\ evt_queue' = Tail(evt_queue)
    /\ \/ /\ sm = "picture"
          /\ held' = held \ {findJpegJobByJobId}
          /\ m_ongoingJpegQ' = IF m_ongoingJpegQ = <<>> THEN <<>> ELSE Tail(m_ongoingJpegQ)
          /\ SendDataNotify
          /\ UNCHANGED <<hand, encoding, frames, m_inputJpegQ, procVars>>
       \/ /\ sm = "idle"
          /\ UNCHANGED <<dataVars, jobVars, procVars, notifyVars, m_dataNotifyQ>>
    /\ UNCHANGED smVars

\* processJpegEvt(): in a picture state; the other states drop the event.  A job
\* that is not found is an error too, and each outcome sends one notification.
ProcessJpegEvt ==
    /\ sm \in {"idle", "picture"}
    /\ evt_queue # <<>>
    /\ Head(evt_queue).type = "JPEG"
    /\ evt_queue' = Tail(evt_queue)
    /\ \/ /\ sm = "picture"
          /\ held' = held \ {findJpegJobByJobId}
          /\ m_ongoingJpegQ' = IF m_ongoingJpegQ = <<>> THEN <<>> ELSE Tail(m_ongoingJpegQ)
          /\ SendDataNotify
          /\ proc_cmds' = Append(proc_cmds, "DO_NEXT")
          /\ UNCHANGED <<hand, encoding, frames, m_inputJpegQ, is_active, sync_sem,
                         overtaken>>
       \/ /\ sm = "idle"
          /\ UNCHANGED <<dataVars, jobVars, procVars, notifyVars, m_dataNotifyQ>>
    /\ UNCHANGED smVars

-----------------------------------------------------------------------------
(* The channel's thread delivers a frame; the encoder finishes a job.        *)

ProcessData ==
    /\ streaming
    /\ frames < NumSnapshots
    /\ frames' = frames + 1
    /\ held' = held \cup {<<pictures, frames + 1>>}
    /\ m_inputJpegQ' = Append(m_inputJpegQ, <<pictures, frames + 1>>)
    /\ proc_cmds' = Append(proc_cmds, "DO_NEXT")
    /\ UNCHANGED <<smVars, jobVars, evt_queue, is_active, sync_sem, overtaken,
                   notifyVars, m_dataNotifyQ>>

\* jpegEvtHandle(), called by the JPEG interface
JpegEvtHandle(job) ==
    /\ encoding' = encoding \ {job}
    /\ evt_queue' = Append(evt_queue, JpegEvt(job))
    /\ UNCHANGED <<smVars, dataVars, m_ongoingJpegQ, hand, procVars, notifyVars,
                   m_dataNotifyQ>>

-----------------------------------------------------------------------------
(* dataProcessRoutine()                                                      *)

ProcTakes(cmd) ==
    /\ hand = None
    /\ proc_cmds # <<>>
    /\ Head(proc_cmds) = cmd
    /\ proc_cmds' = Tail(proc_cmds)

ProcStart ==
    /\ ProcTakes("START")
    /\ is_active' = TRUE
    /\ UNCHANGED <<smVars, dataVars, jobVars, evt_queue, sync_sem, overtaken,
                   notifyVars, m_dataNotifyQ>>

\* Planted error: the caller of stop() is not woken.
ProcStopSilently ==
    /\ ProcTakes("STOP")
    /\ is_active' = FALSE
    /\ held' = held \ (Elems(m_ongoingJpegQ) \cup Elems(m_inputJpegQ))
    /\ encoding' = encoding \ Elems(m_ongoingJpegQ)
    /\ m_ongoingJpegQ' = <<>>
    /\ m_inputJpegQ' = <<>>
    /\ overtaken' = ("START" \in Elems(Tail(proc_cmds)))
    /\ UNCHANGED <<smVars, frames, hand, evt_queue, sync_sem, notifyVars, m_dataNotifyQ>>

\* The ongoing jobs are aborted, the queues flushed, and the caller woken.
ProcStop ==
    /\ ProcTakes("STOP")
    /\ is_active' = FALSE
    /\ held' = held \ (Elems(m_ongoingJpegQ) \cup Elems(m_inputJpegQ))
    /\ encoding' = encoding \ Elems(m_ongoingJpegQ)
    /\ m_ongoingJpegQ' = <<>>
    /\ m_inputJpegQ' = <<>>
    /\ sync_sem' = sync_sem + 1
    /\ overtaken' = ("START" \in Elems(Tail(proc_cmds)))
    /\ UNCHANGED <<smVars, frames, hand, evt_queue, notifyVars, m_dataNotifyQ>>

\* Planted error: a frame that comes after STOP is dropped and not returned.
ProcDropFrame ==
    /\ ProcTakes("DO_NEXT")
    /\ ~is_active
    /\ m_inputJpegQ' = IF m_inputJpegQ = <<>> THEN <<>> ELSE Tail(m_inputJpegQ)
    /\ UNCHANGED <<smVars, frames, held, jobVars, evt_queue, is_active, sync_sem,
                   overtaken, notifyVars, m_dataNotifyQ>>

\* Not active: the frame is returned.
ProcReturnFrame ==
    /\ ProcTakes("DO_NEXT")
    /\ ~is_active
    /\ IF m_inputJpegQ = <<>> THEN UNCHANGED <<held, m_inputJpegQ>>
       ELSE /\ held' = held \ {Head(m_inputJpegQ)}
            /\ m_inputJpegQ' = Tail(m_inputJpegQ)
    /\ UNCHANGED <<smVars, frames, jobVars, evt_queue, is_active, sync_sem, overtaken,
                   notifyVars, m_dataNotifyQ>>

\* Active, but a job is ongoing or there is no frame.
ProcNothingToDo ==
    /\ ProcTakes("DO_NEXT")
    /\ is_active
    /\ m_ongoingJpegQ # <<>> \/ m_inputJpegQ = <<>>
    /\ UNCHANGED <<smVars, dataVars, jobVars, evt_queue, is_active, sync_sem, overtaken,
                   notifyVars, m_dataNotifyQ>>

ProcEncode ==
    /\ ProcTakes("DO_NEXT")
    /\ is_active
    /\ m_ongoingJpegQ = <<>>
    /\ m_inputJpegQ # <<>>
    /\ m_inputJpegQ' = Tail(m_inputJpegQ)
    /\ UNCHANGED <<smVars, frames, m_ongoingJpegQ, evt_queue, is_active, sync_sem,
                   overtaken>>

\* encodeData() fails, always so while the JPEG interface is not open.
ProcEncodeFails ==
    /\ ProcEncode
    /\ held' = held \ {Head(m_inputJpegQ)}
    /\ SendDataNotify
    /\ UNCHANGED <<hand, encoding>>

\* encodeData() starts a job of the encoder ...
ProcEncodeStarts ==
    /\ ProcEncode
    /\ mJpegClientHandle
    /\ hand' = Head(m_inputJpegQ)
    /\ encoding' = encoding \cup {Head(m_inputJpegQ)}
    /\ UNCHANGED <<held, notifyVars, m_dataNotifyQ>>

\* ... and then the job is remembered.
ProcRemember ==
    /\ hand # None
    /\ m_ongoingJpegQ' = Append(m_ongoingJpegQ, hand)
    /\ hand' = None
    /\ UNCHANGED <<smVars, dataVars, encoding, evt_queue, procVars, notifyVars,
                   m_dataNotifyQ>>

DataProcess == \/ ProcStart \/ ProcStop \/ ProcReturnFrame \/ ProcNothingToDo
               \/ ProcEncodeFails \/ ProcEncodeStarts \/ ProcRemember

-----------------------------------------------------------------------------
(* dataNotifyRoutine()                                                       *)

NotifyTakes(cmd) ==
    /\ notify_cmds # <<>>
    /\ Head(notify_cmds).cmd = cmd
    /\ notify_cmds' = Tail(notify_cmds)
    /\ UNCHANGED <<smVars, dataVars, jobVars, procVars>>

NotifyStart ==
    /\ NotifyTakes("START")
    /\ isActive' = TRUE
    /\ notified' = Head(notify_cmds).picture
    /\ numOfSnapshotRcvd' = 0
    /\ UNCHANGED <<evt_queue, m_dataNotifyQ>>

\* Whatever is in m_dataNotifyQ is flushed, also what came after the STOP.
NotifyStop ==
    /\ NotifyTakes("STOP")
    /\ isActive' = FALSE
    /\ numOfSnapshotRcvd' = 0
    /\ m_dataNotifyQ' = 0
    /\ UNCHANGED <<evt_queue, notified>>

\* Planted error: every notification from the expected one on ends the picture.
NotifyEveryFurther ==
    /\ NotifyTakes("DO_NEXT")
    /\ isActive
    /\ IF m_dataNotifyQ = 0 THEN UNCHANGED <<numOfSnapshotRcvd, m_dataNotifyQ, evt_queue>>
       ELSE /\ m_dataNotifyQ' = m_dataNotifyQ - 1
            /\ numOfSnapshotRcvd' = numOfSnapshotRcvd + 1
            /\ evt_queue' = IF numOfSnapshotRcvd' >= NumSnapshots
                            THEN Append(evt_queue, DoneEvt(notified)) ELSE evt_queue
    /\ UNCHANGED <<isActive, notified>>

\* The last notification expected ends the picture.
NotifyNext ==
    /\ NotifyTakes("DO_NEXT")
    /\ isActive
    /\ IF m_dataNotifyQ = 0 THEN UNCHANGED <<numOfSnapshotRcvd, m_dataNotifyQ, evt_queue>>
       ELSE /\ m_dataNotifyQ' = m_dataNotifyQ - 1
            /\ numOfSnapshotRcvd' = numOfSnapshotRcvd + 1
            /\ evt_queue' = IF numOfSnapshotRcvd' = NumSnapshots
                            THEN Append(evt_queue, DoneEvt(notified)) ELSE evt_queue
    /\ UNCHANGED <<isActive, notified>>

\* Not active: the result is dropped.
NotifyDrop ==
    /\ NotifyTakes("DO_NEXT")
    /\ ~isActive
    /\ m_dataNotifyQ' = IF m_dataNotifyQ = 0 THEN 0 ELSE m_dataNotifyQ - 1
    /\ UNCHANGED <<isActive, notified, numOfSnapshotRcvd, evt_queue>>

DataNotify == NotifyStart \/ NotifyStop \/ NotifyNext \/ NotifyDrop

-----------------------------------------------------------------------------

Init ==
    /\ mJpegClientHandle \in JpegOpens
    /\ sm = "idle"
    /\ started = FALSE
    /\ pictures = 0
    /\ frames = 0
    /\ streaming = FALSE
    /\ held = {}
    /\ m_inputJpegQ = <<>>
    /\ m_ongoingJpegQ = <<>>
    /\ hand = None
    /\ encoding = {}
    /\ evt_queue = <<>>
    /\ proc_cmds = <<>>
    /\ is_active = FALSE
    /\ sync_sem = 0
    /\ overtaken = FALSE
    /\ notify_cmds = <<>>
    /\ isActive = FALSE
    /\ notified = 0
    /\ numOfSnapshotRcvd = 0
    /\ m_dataNotifyQ = 0

StateMachine == \/ TakePicture \/ CancelPicture \/ TakeDone \/ ProcessJpegEvt
                \/ StopProc \/ StopReturns \/ StopChannel

Next == \/ StateMachine
        \/ ProcessData
        \/ \E job \in encoding : JpegEvtHandle(job)
        \/ DataProcess
        \/ DataNotify

\* Every thread that can run does, the camera delivers the frames of a picture
\* and the encoder finishes its jobs.  Nobody has to take or cancel a picture.
Fairness ==
    /\ WF_vars(TakeDone) /\ WF_vars(ProcessJpegEvt)
    /\ WF_vars(StopProc) /\ WF_vars(StopReturns) /\ WF_vars(StopChannel)
    /\ WF_vars(DataProcess)
    /\ WF_vars(DataNotify)
    /\ WF_vars(ProcessData)
    /\ WF_vars(\E job \in encoding : JpegEvtHandle(job))

Spec == Init /\ [][Next]_vars /\ Fairness

-----------------------------------------------------------------------------
(* Properties                                                                *)

\* Every variable has its type; in particular the semaphore stop() waits for is
\* never posted twice for one STOP.
TypeOK ==
    /\ mJpegClientHandle \in BOOLEAN
    /\ sm \in SmStep
    /\ started \in BOOLEAN
    /\ pictures \in 0 .. MaxPictures
    /\ frames \in 0 .. NumSnapshots
    /\ streaming \in BOOLEAN
    /\ held \subseteq Frame
    /\ m_inputJpegQ \in Seq(Frame)
    /\ m_ongoingJpegQ \in Seq(Frame)
    /\ hand \in Frame \cup {None}
    /\ encoding \subseteq Frame
    /\ evt_queue \in Seq(Evt)
    /\ proc_cmds \in Seq(ProcCmd)
    /\ is_active \in BOOLEAN
    /\ sync_sem \in {0, 1}
    /\ overtaken \in BOOLEAN
    /\ notify_cmds \in Seq(NotifyCmd)
    /\ isActive \in BOOLEAN
    /\ notified \in 0 .. MaxPictures
    /\ numOfSnapshotRcvd \in Nat
    /\ m_dataNotifyQ \in Nat

\* A frame handed to the postprocessor is in one of its queues until it is
\* returned, through every stop, failure and late event: none goes missing, and
\* no queue holds one that was returned.
FramesAccountedFor ==
    held = Elems(m_inputJpegQ) \cup Elems(m_ongoingJpegQ) \cup ({hand} \ {None})

DoNexts == Cardinality({i \in DOMAIN notify_cmds : notify_cmds[i].cmd = "DO_NEXT"})
NoResultStranded == m_dataNotifyQ <= DoNexts
JobAhead == m_ongoingJpegQ # <<>> \/ hand # None
NoFrameStranded ==
    m_inputJpegQ # <<>> => "DO_NEXT" \in Elems(proc_cmds) \/ (overtaken /\ JobAhead)

\* Nothing queued is left without the command that takes it out: a result has a
\* DO_NEXT of the notify thread on its way, and a frame one of the data thread,
\* through every stop, restart, late frame and late event.  What the frame part does
\* not promise: after a STOP that overtook the START of its picture, the thread is
\* active outside the picture, encodes a late frame of it, and the next picture's
\* frame may find that job ahead of it.  If the job's event comes in the next
\* picture, it sends the DO_NEXT; if it came before, the state machine dropped it,
\* and the frame waits until the next STOP.  And a picture has one frame: behind two
\* of them a failing encodeData() takes the last DO_NEXT and leaves the second.
NothingStranded == NoResultStranded /\ NoFrameStranded

\* stop() returns: the data thread always gets to the STOP it is waited for.
StopEnds == sm = "waiting" ~> sm # "waiting"

\* The pictures the notify thread still has to end, as PictureNotifier sees them:
\* the one it counts for, and those whose START it has not taken.
Counting == IF isActive /\ numOfSnapshotRcvd < NumSnapshots THEN <<notified>> ELSE <<>>
Starts == SelectSeq(notify_cmds, LAMBDA c : c.cmd = "START")
Dones  == SelectSeq(evt_queue, LAMBDA e : e.type = "DONE")
Notifier == INSTANCE PictureNotifier WITH
    postproc <- started,
    shooting <- Counting \o [i \in DOMAIN Starts |-> Starts[i].picture],
    done     <- [i \in DOMAIN Dones |-> Dones[i].of[1]]

\* Late, flushed and repeated notifications notwithstanding, the ends posted are
\* what PictureNotifier promises: each at most once, in order, and the picture in
\* progress is never given up by the notify thread.
NotifiesPictures == Notifier!Spec

\* A picture ends, by its own SNAPSHOT_DONE if nobody cancels it.
PictureEnds == sm = "picture" ~> sm # "picture"
=============================================================================
