---------------------- MODULE QCameraPostProc_proofs ----------------------
(***************************************************************************)
(* Proofs about QCameraPostProc: the types, that no frame is lost, and that *)
(* neither a result nor (in pictures of one frame) a frame is left without  *)
(* the command that takes it out of its queue.                              *)
(*                                                                          *)
(* The inductive invariant has four parts.  Typed says more than TypeOK: a  *)
(* STOP is at the front of the data thread's queue and somebody waits for   *)
(* it.  FramesInv adds to FramesAccountedFor that a frame is in one place.  *)
(* LoadInv bounds the frames in the queues by those of two pictures.        *)
(* ResultInv counts the commands of the notify thread.  For pictures of one *)
(* frame WaitingInv counts those of the data thread as well, and OwnInv says *)
(* that while no STOP has overtaken a START the data thread is active only  *)
(* for the frame of its picture: any other is returned before the START.    *)
(***************************************************************************)
EXTENDS QCameraPostProc, SequenceTheorems, FiniteSetTheorems, FunctionTheorems, TLAPS

-----------------------------------------------------------------------------
(* The parts of the inductive invariant                                      *)

\* What the state machine thread does: a channel delivers only frames of a picture, and
\* none once a stop has come to its end.
SmTyped ==
    /\ mJpegClientHandle \in BOOLEAN /\ started \in BOOLEAN /\ streaming \in BOOLEAN
    /\ sm \in SmStep
    /\ pictures \in 0 .. MaxPictures /\ frames \in 0 .. NumSnapshots
    /\ streaming => pictures \in Picture
    /\ sm = "idle" => ~streaming

\* The frames and the jobs.
JobTyped ==
    /\ held \subseteq Frame /\ encoding \subseteq Frame
    /\ m_inputJpegQ \in Seq(Frame) /\ m_ongoingJpegQ \in Seq(Frame)
    /\ hand \in Frame \cup {None}

\* A STOP in the data thread's queue is the one that the state machine thread waits
\* for, it is at the front, and the semaphore is posted when it is gone.
ProcTyped ==
    /\ is_active \in BOOLEAN
    /\ proc_cmds \in Seq(ProcCmd)
    /\ sync_sem \in {0, 1} /\ overtaken \in BOOLEAN
    /\ sync_sem = 1 => sm = "waiting"
    /\ \A i \in DOMAIN proc_cmds :
         proc_cmds[i] = "STOP" => i = 1 /\ sm = "waiting" /\ sync_sem = 0

\* The notify thread counts for a picture while it is active, and only a START has one.
NotifyCmds == [cmd : {"START"}, picture : Picture]
              \cup [cmd : {"STOP", "DO_NEXT"}, picture : {0}]
NotifyTyped ==
    /\ notify_cmds \in Seq(NotifyCmds)
    /\ isActive \in BOOLEAN
    /\ notified \in 0 .. MaxPictures
    /\ isActive => notified \in Picture
    /\ numOfSnapshotRcvd \in Nat /\ m_dataNotifyQ \in Nat

Typed == SmTyped /\ JobTyped /\ ProcTyped /\ NotifyTyped /\ evt_queue \in Seq(Evt)

\* No frame is twice in the postprocessor, and the next one that comes is new.
NoRepeat(s) == \A i, j \in DOMAIN s : s[i] = s[j] => i = j
Delivered(f) == f[1] < pictures \/ (f[1] = pictures /\ f[2] <= frames)
FramesInv ==
    /\ FramesAccountedFor
    /\ NoRepeat(m_inputJpegQ) /\ NoRepeat(m_ongoingJpegQ)
    /\ Elems(m_inputJpegQ) \cap Elems(m_ongoingJpegQ) = {}
    /\ hand \notin Elems(m_inputJpegQ) \cup Elems(m_ongoingJpegQ)
    /\ \A f \in held : Delivered(f)

\* One job is encoded at a time, and there are never more frames than those of two
\* pictures: the one in progress, and one whose stop had flushed the queues before the
\* channel delivered its last.
Load == Len(m_inputJpegQ) + Len(m_ongoingJpegQ) + (IF hand = None THEN 0 ELSE 1)
Coming == IF streaming THEN NumSnapshots - frames ELSE 0
Flushed == sm \in {"idle", "closing"} \/ (sm = "waiting" /\ sync_sem = 1)
LoadInv ==
    /\ Len(m_ongoingJpegQ) + (IF hand = None THEN 0 ELSE 1) <= 1
    /\ Load + Coming <= 2 * NumSnapshots
    /\ Flushed => Load + Coming <= NumSnapshots

\* With one frame in a picture a DO_NEXT is never spent on nothing while frames wait.
ProcDoNexts == Cardinality({i \in DOMAIN proc_cmds : proc_cmds[i] = "DO_NEXT"})
WaitingInv == m_ongoingJpegQ = <<>> /\ hand = None => Len(m_inputJpegQ) <= ProcDoNexts

\* A DO_NEXT comes before any START; and what holds until a STOP overtakes a START.
FirstDoNext(cmds) ==
    \E i \in DOMAIN cmds :
        cmds[i] = "DO_NEXT" /\ \A j \in DOMAIN cmds : j < i => cmds[j] # "START"
OwnInv ==
    ~overtaken =>
        /\ is_active => Load + Coming <= 1
        /\ ~is_active => Load = Len(m_inputJpegQ)
        /\ Load + Coming = 2 => FirstDoNext(proc_cmds)
        /\ Flushed => /\ is_active \/ "START" \in Elems(proc_cmds) => ~streaming
                      /\ is_active => Load = 0
                      /\ m_inputJpegQ # <<>> => FirstDoNext(proc_cmds)
-----------------------------------------------------------------------------
(* Sequences                                                                 *)

\* What a queue gives and takes, at either end.
LEMMA QueueTypes ==
  ASSUME NEW S, NEW q \in Seq(S)
  PROVE  /\ <<>> \in Seq(S)
         /\ \A x \in S : /\ Append(q, x) \in Seq(S) /\ Len(Append(q, x)) = Len(q) + 1
                         /\ \A i \in 1 .. Len(q) : Append(q, x)[i] = q[i]
                         /\ Append(q, x)[Len(q) + 1] = x
         /\ \A x \in S : /\ <<x>> \o q \in Seq(S) /\ Len(<<x>> \o q) = Len(q) + 1
                         /\ (<<x>> \o q)[1] = x
                         /\ \A i \in 1 .. Len(q) : (<<x>> \o q)[i + 1] = q[i]
         /\ q # <<>> => /\ Head(q) \in S /\ Head(q) = q[1] /\ Len(q) >= 1
                        /\ Tail(q) \in Seq(S) /\ Len(Tail(q)) = Len(q) - 1
                        /\ \A i \in 1 .. Len(q) - 1 : Tail(q)[i] = q[i + 1]
         /\ Len(q) \in Nat /\ DOMAIN q = 1 .. Len(q)
         /\ Len(q) = 0 <=> q = <<>>
<1>1. Len(q) \in Nat /\ DOMAIN q = 1 .. Len(q) /\ <<>> \in Seq(S) /\ (Len(q) = 0 <=> q = <<>>)
  BY LenProperties, EmptySeq
<1>2. ASSUME NEW x \in S
      PROVE  /\ Append(q, x) \in Seq(S) /\ Len(Append(q, x)) = Len(q) + 1
             /\ \A i \in 1 .. Len(q) : Append(q, x)[i] = q[i]
             /\ Append(q, x)[Len(q) + 1] = x
  BY AppendProperties
<1>3. ASSUME NEW x \in S
      PROVE  /\ <<x>> \o q \in Seq(S) /\ Len(<<x>> \o q) = Len(q) + 1
             /\ (<<x>> \o q)[1] = x
             /\ \A i \in 1 .. Len(q) : (<<x>> \o q)[i + 1] = q[i]
  <2>1. <<x>> \in Seq(S) /\ Len(<<x>>) = 1 /\ <<x>>[1] = x
    OBVIOUS
  <2>2. /\ <<x>> \o q \in Seq(S) /\ Len(<<x>> \o q) = Len(<<x>>) + Len(q)
        /\ \A i \in 1 .. Len(<<x>>) + Len(q) : (<<x>> \o q)[i] =
             IF i <= Len(<<x>>) THEN <<x>>[i] ELSE q[i - Len(<<x>>)]
    BY <2>1, ConcatProperties
  <2> QED
    BY <1>1, <2>1, <2>2
<1>4. ASSUME q # <<>>
      PROVE  /\ Head(q) \in S /\ Head(q) = q[1] /\ Len(q) >= 1
             /\ Tail(q) \in Seq(S) /\ Len(Tail(q)) = Len(q) - 1
             /\ \A i \in 1 .. Len(q) - 1 : Tail(q)[i] = q[i + 1]
  BY <1>1, <1>4, HeadTailProperties
<1> QED
  BY <1>1, <1>2, <1>3, <1>4

-----------------------------------------------------------------------------
(* The types                                                                 *)

\* The state machine thread.
LEMMA SmTypes ==
  ASSUME Typed, [Next]_vars
  PROVE  SmTyped'
<1> USE PostProcAssumption
    DEF Typed, SmTyped, SmStep, Picture, smVars, dataVars, jobVars, procVars, notifyVars
<1>1. CASE TakePicture
  BY <1>1 DEF TakePicture
<1>2. CASE CancelPicture
  BY <1>2 DEF CancelPicture, StopNotify
<1>3. CASE TakeDone
  <2>1. CASE StopNotify
    BY <2>1 DEF StopNotify
  <2>2. CASE UNCHANGED <<smVars, dataVars, jobVars, procVars, notifyVars, m_dataNotifyQ>>
    BY <2>2
  <2> QED
    BY <1>3, <2>1, <2>2 DEF TakeDone
<1>4. CASE ProcessJpegEvt
  BY <1>4 DEF ProcessJpegEvt, SendDataNotify
<1>5. CASE StopProc
  BY <1>5 DEF StopProc
<1>6. CASE StopReturns
  BY <1>6 DEF StopReturns
<1>7. CASE StopChannel
  BY <1>7 DEF StopChannel
<1>8. CASE ProcessData
  BY <1>8 DEF ProcessData
<1>9. ASSUME NEW job \in encoding, JpegEvtHandle(job) PROVE SmTyped'
  BY <1>9 DEF JpegEvtHandle
<1>10. CASE ProcStart
  BY <1>10 DEF ProcStart, ProcTakes
<1>11. CASE ProcStop
  BY <1>11 DEF ProcStop, ProcTakes
<1>12. CASE ProcReturnFrame
  BY <1>12 DEF ProcReturnFrame, ProcTakes
<1>13. CASE ProcNothingToDo
  BY <1>13 DEF ProcNothingToDo, ProcTakes
<1>14. CASE ProcEncodeFails
  BY <1>14 DEF ProcEncodeFails, ProcEncode, ProcTakes, SendDataNotify
<1>15. CASE ProcEncodeStarts
  BY <1>15 DEF ProcEncodeStarts, ProcEncode, ProcTakes
<1>16. CASE ProcRemember
  BY <1>16 DEF ProcRemember
<1>17. CASE NotifyStart
  BY <1>17 DEF NotifyStart, NotifyTakes
<1>18. CASE NotifyStop
  BY <1>18 DEF NotifyStop, NotifyTakes
<1>19. CASE NotifyNext
  BY <1>19 DEF NotifyNext, NotifyTakes
<1>20. CASE NotifyDrop
  BY <1>20 DEF NotifyDrop, NotifyTakes
<1>21. CASE UNCHANGED vars
  BY <1>21 DEF vars
<1> QED
  BY <1>1, <1>2, <1>3, <1>4, <1>5, <1>6, <1>7, <1>8, <1>9, <1>10, <1>11, <1>12, <1>13,
     <1>14, <1>15, <1>16, <1>17, <1>18, <1>19, <1>20, <1>21
     DEF Next, StateMachine, DataProcess, DataNotify

\* The frames.
LEMMA JobTypes ==
  ASSUME Typed, [Next]_vars
  PROVE  JobTyped'
<1> USE PostProcAssumption, QueueTypes
    DEF Typed, SmTyped, JobTyped, Frame, Picture, smVars, dataVars, jobVars, procVars,
            notifyVars
<1>1. CASE TakePicture
  BY <1>1 DEF TakePicture
<1>2. CASE CancelPicture
  BY <1>2 DEF CancelPicture, StopNotify
<1>3. CASE TakeDone
  BY <1>3 DEF TakeDone, StopNotify
<1>4. CASE ProcessJpegEvt
  <2>1. CASE UNCHANGED <<smVars, dataVars, jobVars, procVars, notifyVars, m_dataNotifyQ>>
    BY <2>1
  <2>2. CASE sm = "picture"
    <3>1. m_ongoingJpegQ # <<>> => Tail(m_ongoingJpegQ) \in Seq(Frame)
      BY QueueTypes
    <3>2. m_ongoingJpegQ' \in Seq(Frame)
      <4>1. m_ongoingJpegQ' = IF m_ongoingJpegQ = <<>> THEN <<>> ELSE Tail(m_ongoingJpegQ)
        BY <1>4, <2>2 DEF ProcessJpegEvt
      <4> QED
        BY <3>1, <4>1, QueueTypes
    <3> QED
      BY <1>4, <2>2, <3>2 DEF ProcessJpegEvt
  <2> QED
    BY <1>4, <2>1, <2>2 DEF ProcessJpegEvt
<1>5. CASE StopProc
  BY <1>5 DEF StopProc
<1>6. CASE StopReturns
  BY <1>6 DEF StopReturns
<1>7. CASE StopChannel
  BY <1>7 DEF StopChannel
<1>8. CASE ProcessData
  BY <1>8 DEF ProcessData
<1>9. ASSUME NEW job \in encoding, JpegEvtHandle(job) PROVE JobTyped'
  BY <1>9 DEF JpegEvtHandle
<1>10. CASE ProcStart
  BY <1>10 DEF ProcStart, ProcTakes
<1>11. CASE ProcStop
  BY <1>11 DEF ProcStop, ProcTakes
<1>12. CASE ProcReturnFrame
  <2>1. m_inputJpegQ # <<>> => Tail(m_inputJpegQ) \in Seq(Frame)
    BY QueueTypes
  <2>2. m_inputJpegQ' \in Seq(Frame)
    BY <1>12, <2>1 DEF ProcReturnFrame
  <2>3. held' \subseteq held
    BY <1>12 DEF ProcReturnFrame
  <2> QED
    BY <1>12, <2>2, <2>3 DEF ProcReturnFrame
<1>13. CASE ProcNothingToDo
  BY <1>13 DEF ProcNothingToDo, ProcTakes
<1>14. CASE ProcEncodeFails
  BY <1>14 DEF ProcEncodeFails, ProcEncode, ProcTakes, SendDataNotify
<1>15. CASE ProcEncodeStarts
  BY <1>15 DEF ProcEncodeStarts, ProcEncode, ProcTakes
<1>16. CASE ProcRemember
  BY <1>16 DEF ProcRemember
<1>17. CASE NotifyStart
  BY <1>17 DEF NotifyStart, NotifyTakes
<1>18. CASE NotifyStop
  BY <1>18 DEF NotifyStop, NotifyTakes
<1>19. CASE NotifyNext
  BY <1>19 DEF NotifyNext, NotifyTakes
<1>20. CASE NotifyDrop
  BY <1>20 DEF NotifyDrop, NotifyTakes
<1>21. CASE UNCHANGED vars
  BY <1>21 DEF vars
<1> QED
  BY <1>1, <1>2, <1>3, <1>4, <1>5, <1>6, <1>7, <1>8, <1>9, <1>10, <1>11, <1>12, <1>13,
     <1>14, <1>15, <1>16, <1>17, <1>18, <1>19, <1>20, <1>21
     DEF Next, StateMachine, DataProcess, DataNotify

\* The data thread.
LEMMA ProcTypes ==
  ASSUME Typed, [Next]_vars
  PROVE  ProcTyped'
<1> USE DEF Typed, ProcTyped, ProcCmd, smVars, dataVars, jobVars, procVars, notifyVars
<1>1. CASE TakePicture
  BY <1>1 DEF TakePicture
<1>2. CASE CancelPicture
  BY <1>2 DEF CancelPicture, StopNotify
<1>3. CASE TakeDone
  BY <1>3 DEF TakeDone, StopNotify
<1>4. CASE ProcessJpegEvt
  <2>1. CASE UNCHANGED <<smVars, dataVars, jobVars, procVars, notifyVars, m_dataNotifyQ>>
    BY <2>1
  <2>2. CASE sm = "picture"
    <3>1. proc_cmds' = Append(proc_cmds, "DO_NEXT") /\ UNCHANGED <<sm, is_active, sync_sem, overtaken>>
      BY <1>4, <2>2 DEF ProcessJpegEvt
    <3> QED
      BY <3>1
  <2> QED
    BY <1>4, <2>1, <2>2 DEF ProcessJpegEvt
<1>5. CASE StopProc
  BY <1>5 DEF StopProc
<1>6. CASE StopReturns
  BY <1>6 DEF StopReturns
<1>7. CASE StopChannel
  BY <1>7 DEF StopChannel
<1>8. CASE ProcessData
  BY <1>8 DEF ProcessData
<1>9. ASSUME NEW job \in encoding, JpegEvtHandle(job) PROVE ProcTyped'
  BY <1>9 DEF JpegEvtHandle
<1>10. CASE ProcStart
  BY <1>10 DEF ProcStart, ProcTakes
<1>11. CASE ProcStop
  <2>1. /\ proc_cmds # <<>> /\ Head(proc_cmds) = "STOP" /\ proc_cmds' = Tail(proc_cmds)
        /\ sync_sem' = sync_sem + 1 /\ UNCHANGED sm /\ is_active' = FALSE
        /\ overtaken' \in BOOLEAN
    BY <1>11 DEF ProcStop, ProcTakes
  <2>2. /\ Head(proc_cmds) = proc_cmds[1] /\ Len(proc_cmds) >= 1
        /\ DOMAIN proc_cmds = 1 .. Len(proc_cmds) /\ Len(proc_cmds) \in Nat
        /\ proc_cmds' \in Seq(ProcCmd) /\ DOMAIN proc_cmds' = 1 .. Len(proc_cmds) - 1
        /\ \A i \in 1 .. Len(proc_cmds) - 1 : proc_cmds'[i] = proc_cmds[i + 1]
    BY <2>1, QueueTypes, LenProperties
  <2>3. sm = "waiting" /\ sync_sem = 0
    BY <2>1, <2>2
  <2>4. ASSUME NEW i \in DOMAIN proc_cmds' PROVE proc_cmds'[i] # "STOP"
    <3>1. i + 1 \in DOMAIN proc_cmds /\ i + 1 # 1 /\ proc_cmds'[i] = proc_cmds[i + 1]
      BY <2>2
    <3> QED
      BY <3>1
  <2>5. sync_sem' = 1 /\ sm' = "waiting"
    BY <2>1, <2>3
  <2> QED
    BY <2>1, <2>2, <2>4, <2>5
<1>12. CASE ProcReturnFrame
  BY <1>12 DEF ProcReturnFrame, ProcTakes
<1>13. CASE ProcNothingToDo
  BY <1>13 DEF ProcNothingToDo, ProcTakes
<1>14. CASE ProcEncodeFails
  BY <1>14 DEF ProcEncodeFails, ProcEncode, ProcTakes, SendDataNotify
<1>15. CASE ProcEncodeStarts
  BY <1>15 DEF ProcEncodeStarts, ProcEncode, ProcTakes
<1>16. CASE ProcRemember
  BY <1>16 DEF ProcRemember
<1>17. CASE NotifyStart
  BY <1>17 DEF NotifyStart, NotifyTakes
<1>18. CASE NotifyStop
  BY <1>18 DEF NotifyStop, NotifyTakes
<1>19. CASE NotifyNext
  BY <1>19 DEF NotifyNext, NotifyTakes
<1>20. CASE NotifyDrop
  BY <1>20 DEF NotifyDrop, NotifyTakes
<1>21. CASE UNCHANGED vars
  BY <1>21 DEF vars
<1> QED
  BY <1>1, <1>2, <1>3, <1>4, <1>5, <1>6, <1>7, <1>8, <1>9, <1>10, <1>11, <1>12, <1>13,
     <1>14, <1>15, <1>16, <1>17, <1>18, <1>19, <1>20, <1>21
     DEF Next, StateMachine, DataProcess, DataNotify

\* The notify thread.
LEMMA NotifyTypes ==
  ASSUME Typed, [Next]_vars
  PROVE  NotifyTyped'
<1> USE PostProcAssumption
    DEF Typed, SmTyped, NotifyTyped, NotifyCmds, Picture, Plain, StartCmd, smVars,
            dataVars, jobVars, procVars, notifyVars
<1>1. CASE TakePicture
  BY <1>1 DEF TakePicture
<1>2. CASE CancelPicture
  BY <1>2 DEF CancelPicture, StopNotify
<1>3. CASE TakeDone
  <2>1. CASE StopNotify
    BY <2>1 DEF StopNotify
  <2>2. CASE UNCHANGED <<smVars, dataVars, jobVars, procVars, notifyVars, m_dataNotifyQ>>
    BY <2>2
  <2> QED
    BY <1>3, <2>1, <2>2 DEF TakeDone
<1>4. CASE ProcessJpegEvt
  <2>1. CASE UNCHANGED <<smVars, dataVars, jobVars, procVars, notifyVars, m_dataNotifyQ>>
    BY <2>1
  <2>2. CASE sm = "picture"
    <3>1. /\ notify_cmds' = Append(notify_cmds, Plain("DO_NEXT"))
          /\ m_dataNotifyQ' = m_dataNotifyQ + 1
          /\ UNCHANGED <<isActive, notified, numOfSnapshotRcvd>>
      BY <1>4, <2>2 DEF ProcessJpegEvt, SendDataNotify
    <3> QED
      BY <3>1
  <2> QED
    BY <1>4, <2>1, <2>2 DEF ProcessJpegEvt
<1>5. CASE StopProc
  BY <1>5 DEF StopProc
<1>6. CASE StopReturns
  BY <1>6 DEF StopReturns
<1>7. CASE StopChannel
  BY <1>7 DEF StopChannel
<1>8. CASE ProcessData
  BY <1>8 DEF ProcessData
<1>9. ASSUME NEW job \in encoding, JpegEvtHandle(job) PROVE NotifyTyped'
  BY <1>9 DEF JpegEvtHandle
<1>10. CASE ProcStart
  BY <1>10 DEF ProcStart, ProcTakes
<1>11. CASE ProcStop
  BY <1>11 DEF ProcStop, ProcTakes
<1>12. CASE ProcReturnFrame
  BY <1>12 DEF ProcReturnFrame, ProcTakes
<1>13. CASE ProcNothingToDo
  BY <1>13 DEF ProcNothingToDo, ProcTakes
<1>14. CASE ProcEncodeFails
  BY <1>14 DEF ProcEncodeFails, ProcEncode, ProcTakes, SendDataNotify
<1>15. CASE ProcEncodeStarts
  BY <1>15 DEF ProcEncodeStarts, ProcEncode, ProcTakes
<1>16. CASE ProcRemember
  BY <1>16 DEF ProcRemember
<1>17. CASE NotifyStart
  BY <1>17 DEF NotifyStart, NotifyTakes
<1>18. CASE NotifyStop
  <2>1. notify_cmds' \in Seq(NotifyCmds)
    BY <1>18, QueueTypes DEF NotifyStop, NotifyTakes
  <2>2. UNCHANGED notified /\ ~isActive' /\ isActive' \in BOOLEAN
        /\ numOfSnapshotRcvd' = 0 /\ m_dataNotifyQ' = 0
    BY <1>18 DEF NotifyStop
  <2> QED
    BY <2>1, <2>2
<1>19. CASE NotifyNext
  BY <1>19 DEF NotifyNext, NotifyTakes
<1>20. CASE NotifyDrop
  BY <1>20 DEF NotifyDrop, NotifyTakes
<1>21. CASE UNCHANGED vars
  BY <1>21 DEF vars
<1> QED
  BY <1>1, <1>2, <1>3, <1>4, <1>5, <1>6, <1>7, <1>8, <1>9, <1>10, <1>11, <1>12, <1>13,
     <1>14, <1>15, <1>16, <1>17, <1>18, <1>19, <1>20, <1>21
     DEF Next, StateMachine, DataProcess, DataNotify

\* The events.
LEMMA EvtTypes ==
  ASSUME Typed, [Next]_vars
  PROVE  evt_queue' \in Seq(Evt)
<1> USE DEF Typed, smVars, dataVars, jobVars, procVars, notifyVars
<1>1. CASE TakePicture
  BY <1>1 DEF TakePicture
<1>2. CASE CancelPicture
  BY <1>2 DEF CancelPicture, StopNotify
<1>3. CASE TakeDone
  BY <1>3 DEF TakeDone, StopNotify
<1>4. CASE ProcessJpegEvt
  BY <1>4 DEF ProcessJpegEvt, SendDataNotify
<1>5. CASE StopProc
  BY <1>5 DEF StopProc
<1>6. CASE StopReturns
  BY <1>6 DEF StopReturns
<1>7. CASE StopChannel
  BY <1>7 DEF StopChannel
<1>8. CASE ProcessData
  BY <1>8 DEF ProcessData
<1>9. ASSUME NEW job \in encoding, JpegEvtHandle(job) PROVE evt_queue' \in Seq(Evt)
  <2>1. JpegEvt(job) \in Evt
    BY DEF JobTyped, Evt, JpegEvt
  <2> QED
    BY <1>9, <2>1, QueueTypes DEF JpegEvtHandle
<1>10. CASE ProcStart
  BY <1>10 DEF ProcStart, ProcTakes
<1>11. CASE ProcStop
  BY <1>11 DEF ProcStop, ProcTakes
<1>12. CASE ProcReturnFrame
  BY <1>12 DEF ProcReturnFrame, ProcTakes
<1>13. CASE ProcNothingToDo
  BY <1>13 DEF ProcNothingToDo, ProcTakes
<1>14. CASE ProcEncodeFails
  BY <1>14 DEF ProcEncodeFails, ProcEncode, ProcTakes, SendDataNotify
<1>15. CASE ProcEncodeStarts
  BY <1>15 DEF ProcEncodeStarts, ProcEncode, ProcTakes
<1>16. CASE ProcRemember
  BY <1>16 DEF ProcRemember
<1>17. CASE NotifyStart
  BY <1>17 DEF NotifyStart, NotifyTakes
<1>18. CASE NotifyStop
  BY <1>18 DEF NotifyStop, NotifyTakes
<1>19. CASE NotifyNext
  <2>1. isActive => DoneEvt(notified) \in Evt
    BY DEF NotifyTyped, Evt, DoneEvt
  <2> QED
    BY <1>19, <2>1, QueueTypes DEF NotifyNext
<1>20. CASE NotifyDrop
  BY <1>20 DEF NotifyDrop, NotifyTakes
<1>21. CASE UNCHANGED vars
  BY <1>21 DEF vars
<1> QED
  BY <1>1, <1>2, <1>3, <1>4, <1>5, <1>6, <1>7, <1>8, <1>9, <1>10, <1>11, <1>12, <1>13,
     <1>14, <1>15, <1>16, <1>17, <1>18, <1>19, <1>20, <1>21
     DEF Next, StateMachine, DataProcess, DataNotify

-----------------------------------------------------------------------------
(* No frame is lost                                                          *)

\* What is in a sequence.
LEMMA ElemsOf ==
  ASSUME NEW S, NEW q \in Seq(S)
  PROVE  /\ Elems(q) \subseteq S
         /\ Elems(<<>>) = {} /\ NoRepeat(<<>>)
         /\ \A x \in S : /\ Elems(Append(q, x)) = Elems(q) \cup {x}
                         /\ NoRepeat(q) /\ x \notin Elems(q) => NoRepeat(Append(q, x))
         /\ q # <<>> => /\ Elems(q) = Elems(Tail(q)) \cup {Head(q)}
                        /\ NoRepeat(q) => Head(q) \notin Elems(Tail(q)) /\ NoRepeat(Tail(q))
<1>0. Len(q) \in Nat /\ DOMAIN q = 1 .. Len(q)
  BY LenProperties
<1>1. Elems(q) \subseteq S
  BY <1>0, ElementOfSeq DEF Elems
<1>2. Elems(<<>>) = {} /\ NoRepeat(<<>>)
  BY DEF Elems, NoRepeat
<1>3. ASSUME NEW x \in S
      PROVE  /\ Elems(Append(q, x)) = Elems(q) \cup {x}
             /\ NoRepeat(q) /\ x \notin Elems(q) => NoRepeat(Append(q, x))
  <2>1. /\ DOMAIN Append(q, x) = 1 .. Len(q) + 1
        /\ \A i \in 1 .. Len(q) : Append(q, x)[i] = q[i]
        /\ Append(q, x)[Len(q) + 1] = x
    BY QueueTypes, AppendProperties, LenProperties
  <2>2. Elems(Append(q, x)) = Elems(q) \cup {x}
    BY <1>0, <2>1 DEF Elems
  <2>3. ASSUME NoRepeat(q), x \notin Elems(q),
               NEW i \in DOMAIN Append(q, x), NEW j \in DOMAIN Append(q, x),
               Append(q, x)[i] = Append(q, x)[j]
        PROVE  i = j
    BY <1>0, <2>1, <2>3 DEF NoRepeat, Elems
  <2> QED
    BY <2>2, <2>3 DEF NoRepeat
<1>4. ASSUME q # <<>>
      PROVE  /\ Elems(q) = Elems(Tail(q)) \cup {Head(q)}
             /\ NoRepeat(q) => Head(q) \notin Elems(Tail(q)) /\ NoRepeat(Tail(q))
  <2>1. /\ Head(q) = q[1] /\ Len(q) >= 1 /\ DOMAIN Tail(q) = 1 .. Len(q) - 1
        /\ \A i \in 1 .. Len(q) - 1 : Tail(q)[i] = q[i + 1]
    BY <1>4, QueueTypes, LenProperties
  <2>2. ASSUME NEW x \in Elems(q) PROVE x \in Elems(Tail(q)) \cup {Head(q)}
    <3>1. PICK i \in 1 .. Len(q) : x = q[i]
      BY <1>0 DEF Elems
    <3>2. CASE i = 1
      BY <2>1, <3>1, <3>2
    <3>3. CASE i # 1
      <4>1. i - 1 \in 1 .. Len(q) - 1 /\ Tail(q)[i - 1] = x
        <5>1. i - 1 \in 1 .. Len(q) - 1 /\ (i - 1) + 1 = i
          BY <1>0, <3>3
        <5> QED
          BY <2>1, <3>1, <5>1
      <4> QED
        BY <2>1, <4>1 DEF Elems
    <3> QED
      BY <3>2, <3>3
  <2>3. ASSUME NEW x \in Elems(Tail(q)) PROVE x \in Elems(q)
    BY <1>0, <2>1 DEF Elems
  <2>4. Head(q) \in Elems(q)
    BY <1>0, <2>1 DEF Elems
  <2>5. ASSUME NoRepeat(q) PROVE Head(q) \notin Elems(Tail(q)) /\ NoRepeat(Tail(q))
    <3>1. ASSUME NEW i \in 1 .. Len(q) - 1
          PROVE  i + 1 \in DOMAIN q /\ i + 1 # 1 /\ 1 \in DOMAIN q
      BY <1>0, <2>1
    <3>2. Head(q) \notin Elems(Tail(q))
      BY <2>1, <2>5, <3>1 DEF NoRepeat, Elems
    <3>3. ASSUME NEW i \in 1 .. Len(q) - 1, NEW j \in 1 .. Len(q) - 1, Tail(q)[i] = Tail(q)[j]
          PROVE  i = j
      <4>1. i + 1 = j + 1
        BY <2>1, <2>5, <3>1, <3>3 DEF NoRepeat
      <4> QED
        BY <1>0, <4>1
    <3> QED
      BY <2>1, <3>2, <3>3 DEF NoRepeat
  <2> QED
    BY <2>2, <2>3, <2>4, <2>5
<1> QED
  BY <1>1, <1>2, <1>3, <1>4

\* No frame has the name of none.
LEMMA NoneIsNoFrame == None \notin Frame
BY PostProcAssumption DEF None, Frame, Picture

-----------------------------------------------------------------------------
(* The frames                                                                *)

\* The parts of the frames' bookkeeping.
frameVars == <<pictures, frames, held, m_inputJpegQ, m_ongoingJpegQ, hand>>

\* A frame that is taken out of a queue is nowhere else.
LEMMA FramesApart ==
  ASSUME Typed, FramesInv
  PROVE  /\ m_inputJpegQ # <<>> =>
              /\ Head(m_inputJpegQ) \in Frame
              /\ Tail(m_inputJpegQ) \in Seq(Frame) /\ NoRepeat(Tail(m_inputJpegQ))
              /\ Elems(m_inputJpegQ) = Elems(Tail(m_inputJpegQ)) \cup {Head(m_inputJpegQ)}
              /\ Head(m_inputJpegQ) \notin Elems(Tail(m_inputJpegQ))
              /\ Head(m_inputJpegQ) \notin Elems(m_ongoingJpegQ) \cup {hand}
         /\ m_ongoingJpegQ # <<>> =>
              /\ Head(m_ongoingJpegQ) \in Frame
              /\ Tail(m_ongoingJpegQ) \in Seq(Frame) /\ NoRepeat(Tail(m_ongoingJpegQ))
              /\ Elems(m_ongoingJpegQ) = Elems(Tail(m_ongoingJpegQ)) \cup {Head(m_ongoingJpegQ)}
              /\ Head(m_ongoingJpegQ) \notin Elems(Tail(m_ongoingJpegQ))
              /\ Head(m_ongoingJpegQ) \notin Elems(m_inputJpegQ) \cup {hand}
         /\ Elems(<<>>) = {} /\ NoRepeat(<<>>) /\ None \notin held
<1>1. m_inputJpegQ \in Seq(Frame) /\ m_ongoingJpegQ \in Seq(Frame)
  BY DEF Typed, JobTyped
<1>2. Elems(<<>>) = {} /\ NoRepeat(<<>>)
  BY <1>1, ElemsOf
<1>3. None \notin held
  BY NoneIsNoFrame DEF Typed, JobTyped
<1>4. ASSUME m_inputJpegQ # <<>>
      PROVE  /\ Head(m_inputJpegQ) \in Frame
             /\ Tail(m_inputJpegQ) \in Seq(Frame) /\ NoRepeat(Tail(m_inputJpegQ))
             /\ Elems(m_inputJpegQ) = Elems(Tail(m_inputJpegQ)) \cup {Head(m_inputJpegQ)}
             /\ Head(m_inputJpegQ) \notin Elems(Tail(m_inputJpegQ))
             /\ Head(m_inputJpegQ) \notin Elems(m_ongoingJpegQ) \cup {hand}
  <2>1. /\ Head(m_inputJpegQ) \in Frame /\ Tail(m_inputJpegQ) \in Seq(Frame)
    BY <1>1, <1>4, QueueTypes
  <2>2. /\ Elems(m_inputJpegQ) = Elems(Tail(m_inputJpegQ)) \cup {Head(m_inputJpegQ)}
        /\ NoRepeat(Tail(m_inputJpegQ)) /\ Head(m_inputJpegQ) \notin Elems(Tail(m_inputJpegQ))
    BY <1>1, <1>4, ElemsOf DEF FramesInv
  <2> QED
    BY <2>1, <2>2 DEF FramesInv
<1>5. ASSUME m_ongoingJpegQ # <<>>
      PROVE  /\ Head(m_ongoingJpegQ) \in Frame
             /\ Tail(m_ongoingJpegQ) \in Seq(Frame) /\ NoRepeat(Tail(m_ongoingJpegQ))
             /\ Elems(m_ongoingJpegQ) = Elems(Tail(m_ongoingJpegQ)) \cup {Head(m_ongoingJpegQ)}
             /\ Head(m_ongoingJpegQ) \notin Elems(Tail(m_ongoingJpegQ))
             /\ Head(m_ongoingJpegQ) \notin Elems(m_inputJpegQ) \cup {hand}
  <2>1. /\ Head(m_ongoingJpegQ) \in Frame /\ Tail(m_ongoingJpegQ) \in Seq(Frame)
    BY <1>1, <1>5, QueueTypes
  <2>2. /\ Elems(m_ongoingJpegQ) = Elems(Tail(m_ongoingJpegQ)) \cup {Head(m_ongoingJpegQ)}
        /\ NoRepeat(Tail(m_ongoingJpegQ))
        /\ Head(m_ongoingJpegQ) \notin Elems(Tail(m_ongoingJpegQ))
    BY <1>1, <1>5, ElemsOf DEF FramesInv
  <2> QED
    BY <2>1, <2>2 DEF FramesInv
<1> QED
  BY <1>2, <1>3, <1>4, <1>5

\* The head of a queue is returned or goes on, and the queue keeps the rest.
LEMMA InputLeaves ==
  ASSUME Typed, FramesInv, m_inputJpegQ # <<>>, m_inputJpegQ' = Tail(m_inputJpegQ),
         UNCHANGED <<pictures, frames, m_ongoingJpegQ>>,
         \/ held' = held \ {Head(m_inputJpegQ)} /\ UNCHANGED hand
         \/ UNCHANGED held /\ hand = None /\ hand' = Head(m_inputJpegQ)
  PROVE  FramesInv'
<1> DEFINE h == Head(m_inputJpegQ)
<1>1. /\ h \in Frame /\ NoRepeat(m_inputJpegQ')
      /\ Elems(m_inputJpegQ) = Elems(m_inputJpegQ') \cup {h}
      /\ h \notin Elems(m_inputJpegQ') /\ h \notin Elems(m_ongoingJpegQ) \cup {hand}
      /\ h # None
  BY FramesApart, NoneIsNoFrame
<1> HIDE DEF h
<1>2. held' = Elems(m_inputJpegQ') \cup Elems(m_ongoingJpegQ) \cup ({hand'} \ {None})
  BY <1>1 DEF FramesInv, FramesAccountedFor, h
<1>3. held' \subseteq held /\ \A f \in held' : Delivered(f)'
  BY DEF FramesInv, Delivered
<1>4. hand' \notin Elems(m_inputJpegQ') \cup Elems(m_ongoingJpegQ)
  BY <1>1 DEF FramesInv, h
<1> QED
  BY <1>1, <1>2, <1>3, <1>4 DEF FramesInv, FramesAccountedFor

\* A frame comes, is encoded, returned, flushed or its job ends: the queues have what
\* the channel has not got back.
LEMMA FramesKeep ==
  ASSUME Typed, FramesInv, [Next]_vars
  PROVE  FramesInv'
<1>1. ASSUME UNCHANGED frameVars PROVE FramesInv'
  BY <1>1 DEF FramesInv, FramesAccountedFor, Delivered, frameVars
<1>2. CASE \/ CancelPicture \/ TakeDone \/ StopProc \/ StopReturns \/ StopChannel
           \/ ProcStart \/ ProcNothingToDo \/ DataNotify \/ UNCHANGED vars
           \/ \E job \in encoding : JpegEvtHandle(job)
  <2>1. UNCHANGED frameVars
    BY <1>2 DEF CancelPicture, TakeDone, StopNotify, StopProc, StopReturns, StopChannel,
                ProcStart, ProcNothingToDo, DataNotify, NotifyStart, NotifyStop, NotifyNext,
                NotifyDrop, NotifyTakes, JpegEvtHandle, vars, frameVars, smVars, dataVars, jobVars
  <2> QED
    BY <1>1, <2>1
<1>3. CASE TakePicture
  <2>1. /\ pictures' = pictures + 1 /\ UNCHANGED <<held, m_inputJpegQ, m_ongoingJpegQ, hand>>
    BY <1>3 DEF TakePicture, jobVars
  <2>2. ASSUME NEW f \in held PROVE Delivered(f)'
    <3>1. f[1] \in Nat /\ pictures \in Nat /\ Delivered(f)
      BY PostProcAssumption DEF FramesInv, Typed, SmTyped, JobTyped, Frame, Picture
    <3> QED
      BY <2>1, <3>1 DEF Delivered
  <2> QED
    BY <2>1, <2>2 DEF FramesInv, FramesAccountedFor
<1>4. CASE ProcessJpegEvt
  <2>1. CASE UNCHANGED <<dataVars, jobVars>> /\ UNCHANGED smVars
    BY <1>1, <2>1 DEF frameVars, dataVars, jobVars, smVars
  <2>2. CASE sm = "picture"
    <3>1. /\ UNCHANGED <<pictures, frames, m_inputJpegQ, hand>>
          /\ held' = held \ {findJpegJobByJobId}
          /\ m_ongoingJpegQ' = IF m_ongoingJpegQ = <<>> THEN <<>> ELSE Tail(m_ongoingJpegQ)
      BY <1>4, <2>2 DEF ProcessJpegEvt, smVars
    <3>2. CASE m_ongoingJpegQ = <<>>
      <4>1. held' = held /\ UNCHANGED m_ongoingJpegQ
        BY <3>1, <3>2, FramesApart DEF findJpegJobByJobId
      <4> QED
        BY <1>1, <3>1, <4>1 DEF frameVars
    <3>3. CASE m_ongoingJpegQ # <<>>
      <4>1. /\ NoRepeat(m_ongoingJpegQ')
            /\ Elems(m_ongoingJpegQ) = Elems(m_ongoingJpegQ') \cup {findJpegJobByJobId}
            /\ findJpegJobByJobId \notin Elems(m_ongoingJpegQ')
            /\ findJpegJobByJobId \notin Elems(m_inputJpegQ) \cup {hand}
        BY <3>1, <3>3, FramesApart DEF findJpegJobByJobId
      <4> QED
        BY <3>1, <4>1 DEF FramesInv, FramesAccountedFor, Delivered
    <3> QED
      BY <3>2, <3>3
  <2> QED
    BY <1>4, <2>1, <2>2 DEF ProcessJpegEvt
<1>5. CASE ProcessData
  <2> DEFINE f == <<pictures, frames + 1>>
  <2>1. /\ streaming /\ frames < NumSnapshots /\ frames' = frames + 1 /\ held' = held \cup {f}
        /\ m_inputJpegQ' = Append(m_inputJpegQ, f)
        /\ UNCHANGED <<pictures, m_ongoingJpegQ, hand>>
    BY <1>5 DEF ProcessData, smVars, jobVars
  <2>2. f \in Frame /\ pictures \in Nat /\ frames \in Nat
    BY <2>1, PostProcAssumption DEF Typed, SmTyped, Frame, Picture
  <2>3. f \notin held
    <3>1. ~Delivered(f)
      BY <2>2 DEF Delivered
    <3> QED
      BY <3>1 DEF FramesInv
  <2>4. ASSUME NEW g \in held' PROVE Delivered(g)'
    <3>1. CASE g = f
      BY <2>1, <2>2, <3>1 DEF Delivered
    <3>2. CASE g \in held
      <4>1. g[1] \in Nat /\ g[2] \in Nat /\ Delivered(g)
        BY <3>2, PostProcAssumption DEF FramesInv, Typed, JobTyped, Frame, Picture
      <4> QED
        BY <2>1, <2>2, <4>1 DEF Delivered
    <3> QED
      BY <2>1, <3>1, <3>2
  <2> HIDE DEF f
  <2>5. f \notin Elems(m_inputJpegQ) /\ f \notin Elems(m_ongoingJpegQ) /\ f # hand
    BY <2>2, <2>3, NoneIsNoFrame DEF FramesInv, FramesAccountedFor
  <2>6. /\ Elems(m_inputJpegQ') = Elems(m_inputJpegQ) \cup {f}
        /\ NoRepeat(m_inputJpegQ')
    BY <2>1, <2>2, <2>5, ElemsOf DEF Typed, JobTyped, FramesInv
  <2> QED
    BY <2>1, <2>4, <2>5, <2>6 DEF FramesInv, FramesAccountedFor
<1>6. CASE ProcStop
  <2>1. /\ held' = held \ (Elems(m_ongoingJpegQ) \cup Elems(m_inputJpegQ))
        /\ m_ongoingJpegQ' = <<>> /\ m_inputJpegQ' = <<>>
        /\ hand = None /\ UNCHANGED <<hand, pictures, frames>>
    BY <1>6 DEF ProcStop, ProcTakes, smVars
  <2> QED
    BY <2>1, FramesApart DEF FramesInv, FramesAccountedFor, Delivered
<1>7. CASE ProcReturnFrame
  <2>1. UNCHANGED <<pictures, frames, m_ongoingJpegQ, hand>>
    BY <1>7 DEF ProcReturnFrame, smVars, jobVars
  <2>2. CASE m_inputJpegQ = <<>>
    BY <1>1, <1>7, <2>1, <2>2 DEF ProcReturnFrame, frameVars
  <2>3. CASE m_inputJpegQ # <<>>
    <3>1. held' = held \ {Head(m_inputJpegQ)} /\ m_inputJpegQ' = Tail(m_inputJpegQ)
      BY <1>7, <2>3 DEF ProcReturnFrame
    <3> QED
      BY <2>1, <2>3, <3>1, InputLeaves
  <2> QED
    BY <2>2, <2>3
<1>8. CASE ProcEncodeFails \/ ProcEncodeStarts
  <2>1. /\ UNCHANGED <<pictures, frames, m_ongoingJpegQ>> /\ hand = None
        /\ m_inputJpegQ # <<>> /\ m_inputJpegQ' = Tail(m_inputJpegQ)
        /\ \/ held' = held \ {Head(m_inputJpegQ)} /\ UNCHANGED hand
           \/ UNCHANGED held /\ hand' = Head(m_inputJpegQ)
    BY <1>8 DEF ProcEncodeFails, ProcEncodeStarts, ProcEncode, ProcTakes, smVars
  <2> QED
    BY <2>1, InputLeaves
<1>9. CASE ProcRemember
  <2>1. /\ UNCHANGED <<pictures, frames, held, m_inputJpegQ>> /\ hand # None /\ hand' = None
        /\ m_ongoingJpegQ' = Append(m_ongoingJpegQ, hand)
    BY <1>9 DEF ProcRemember, smVars, dataVars
  <2>2. hand \in Frame /\ m_ongoingJpegQ \in Seq(Frame) /\ m_inputJpegQ \in Seq(Frame)
    BY <2>1 DEF Typed, JobTyped
  <2>3. /\ Elems(m_ongoingJpegQ') = Elems(m_ongoingJpegQ) \cup {hand}
        /\ NoRepeat(m_ongoingJpegQ')
    BY <2>1, <2>2, ElemsOf DEF FramesInv
  <2>4. Elems(m_inputJpegQ) \subseteq Frame /\ Elems(m_ongoingJpegQ) \subseteq Frame
    BY <2>2, ElemsOf
  <2> QED
    BY <2>1, <2>2, <2>3, <2>4, NoneIsNoFrame DEF FramesInv, FramesAccountedFor, Delivered
<1> QED
  BY <1>2, <1>3, <1>4, <1>5, <1>6, <1>7, <1>8, <1>9 DEF Next, StateMachine, DataProcess

-----------------------------------------------------------------------------
(* Counting in sequences                                                     *)

\* Where something is in a sequence, and how often.
PlacesOf(s, e) == {i \in DOMAIN s : s[i] = e}
Count(s, e) == Cardinality(PlacesOf(s, e))

\* A set of places in a sequence is finite.
LEMMA Places ==
  ASSUME NEW n \in Nat, NEW P \in SUBSET (1 .. n)
  PROVE  IsFiniteSet(P) /\ Cardinality(P) \in Nat
<1>1. IsFiniteSet(1 .. n)
  BY FS_Interval
<1> QED
  BY <1>1, FS_Subset, FS_CardinalityType

\* B has the places that A has, one place further to the front.
MovedUp(n, A, B) ==
    /\ n \in Nat
    /\ A \in SUBSET (2 .. n + 1) /\ B \in SUBSET (1 .. n)
    /\ \A i \in 1 .. n : i \in B <=> i + 1 \in A

\* As many places.
LEMMA AsMany ==
  ASSUME NEW n, NEW A, NEW B, MovedUp(n, A, B)
  PROVE  Cardinality(B) = Cardinality(A)
<1> USE DEF MovedUp
<1> DEFINE f == [i \in B |-> i + 1]
<1>1. f \in [B -> A]
  OBVIOUS
<1>2. ASSUME NEW i \in B, NEW j \in B, f[i] = f[j] PROVE i = j
  BY <1>2
<1>3. ASSUME NEW a \in A PROVE \E i \in B : f[i] = a
  <2>1. a - 1 \in 1 .. n /\ (a - 1) + 1 = a
    OBVIOUS
  <2>2. a - 1 \in B
    BY <2>1
  <2> QED
    BY <2>1, <2>2
<1>4. f \in Bijection(B, A)
  BY <1>1, <1>2, <1>3 DEF Bijection, Injection, Surjection, IsInjective
<1>5. ExistsBijection(B, A)
  BY <1>4 DEF ExistsBijection
<1>6. IsFiniteSet(B)
  BY Places
<1> QED
  BY <1>5, <1>6, FS_Bijection

\* p is the sequence q with one more element at the front.
InFront(S, p, q) ==
    /\ p \in Seq(S) /\ q \in Seq(S)
    /\ Len(p) = Len(q) + 1
    /\ \A i \in 1 .. Len(q) : p[i + 1] = q[i]

\* That element counts once more.
LEMMA FrontCount ==
  ASSUME NEW S, NEW p, NEW q, NEW e, InFront(S, p, q)
  PROVE  Count(p, e) = Count(q, e) + (IF p[1] = e THEN 1 ELSE 0)
<1> USE DEF InFront
<1>1. /\ Len(q) \in Nat /\ DOMAIN q = 1 .. Len(q)
      /\ DOMAIN p = 1 .. Len(q) + 1
  BY LenProperties
<1> DEFINE rest == PlacesOf(p, e) \ {1}
<1>2. MovedUp(Len(q), rest, PlacesOf(q, e))
  BY <1>1 DEF MovedUp, PlacesOf
<1>3. Cardinality(PlacesOf(q, e)) = Cardinality(rest)
  BY <1>2, AsMany
<1>4. IsFiniteSet(PlacesOf(p, e)) /\ Cardinality(PlacesOf(p, e)) \in Nat
  <2>1. Len(q) + 1 \in Nat /\ PlacesOf(p, e) \in SUBSET (1 .. Len(q) + 1)
    BY <1>1 DEF PlacesOf
  <2> QED
    BY <2>1, Places
<1>5. 1 \in PlacesOf(p, e) <=> p[1] = e
  BY <1>1 DEF PlacesOf
<1>6. Cardinality(rest) = IF 1 \in PlacesOf(p, e) THEN Cardinality(PlacesOf(p, e)) - 1
                                                  ELSE Cardinality(PlacesOf(p, e))
  BY <1>4, FS_RemoveElement
<1> QED
  BY <1>3, <1>4, <1>5, <1>6 DEF Count

\* What a queue gives and takes, at either end, it has once less or once more.
LEMMA QueueCounts ==
  ASSUME NEW S, NEW q \in Seq(S), NEW e
  PROVE  /\ Count(q, e) \in Nat
         /\ Count(<<>>, e) = 0
         /\ \A x \in S : Count(Append(q, x), e) = Count(q, e) + (IF x = e THEN 1 ELSE 0)
         /\ \A x \in S : Count(<<x>> \o q, e) = Count(q, e) + (IF x = e THEN 1 ELSE 0)
         /\ q # <<>> => Count(q, e) = Count(Tail(q), e) + (IF Head(q) = e THEN 1 ELSE 0)
         /\ e \notin Elems(q) => Count(q, e) = 0
<1>1. Len(q) \in Nat /\ DOMAIN q = 1 .. Len(q)
  BY LenProperties
<1>2. IsFiniteSet(PlacesOf(q, e)) /\ Count(q, e) \in Nat
  BY <1>1, Places DEF PlacesOf, Count
<1>3. Count(<<>>, e) = 0
  <2>1. PlacesOf(<<>>, e) = {}
    BY DEF PlacesOf
  <2> QED
    BY <2>1, FS_EmptySet DEF Count
<1>4. ASSUME NEW x \in S
      PROVE  Count(Append(q, x), e) = Count(q, e) + (IF x = e THEN 1 ELSE 0)
  <2>1. /\ DOMAIN Append(q, x) = 1 .. Len(q) + 1
        /\ \A i \in 1 .. Len(q) : Append(q, x)[i] = q[i]
        /\ Append(q, x)[Len(q) + 1] = x
    BY QueueTypes, AppendProperties, LenProperties
  <2>2. Len(q) + 1 \notin PlacesOf(q, e)
    BY <1>1 DEF PlacesOf
  <2>3. CASE x = e
    <3>1. PlacesOf(Append(q, x), e) = PlacesOf(q, e) \cup {Len(q) + 1}
      BY <1>1, <2>1, <2>3 DEF PlacesOf
    <3> QED
      BY <1>2, <2>2, <2>3, <3>1, FS_AddElement DEF Count
  <2>4. CASE x # e
    <3>1. PlacesOf(Append(q, x), e) = PlacesOf(q, e)
      BY <1>1, <2>1, <2>4 DEF PlacesOf
    <3> QED
      BY <1>2, <2>4, <3>1 DEF Count
  <2> QED
    BY <2>3, <2>4
<1>5. ASSUME NEW x \in S
      PROVE  Count(<<x>> \o q, e) = Count(q, e) + (IF x = e THEN 1 ELSE 0)
  <2>1. /\ <<x>> \o q \in Seq(S) /\ Len(<<x>> \o q) = Len(q) + 1 /\ (<<x>> \o q)[1] = x
        /\ \A i \in 1 .. Len(q) : (<<x>> \o q)[i + 1] = q[i]
    BY QueueTypes
  <2> DEFINE p == <<x>> \o q
  <2> HIDE DEF p
  <2>2. InFront(S, p, q)
    BY <2>1 DEF InFront, p
  <2>3. Count(p, e) = Count(q, e) + (IF p[1] = e THEN 1 ELSE 0)
    BY <2>2, FrontCount
  <2> QED
    BY <2>1, <2>3 DEF p
<1>6. ASSUME q # <<>>
      PROVE  Count(q, e) = Count(Tail(q), e) + (IF Head(q) = e THEN 1 ELSE 0)
  <2>1. /\ Tail(q) \in Seq(S) /\ Len(q) = Len(Tail(q)) + 1 /\ Head(q) = q[1]
        /\ \A i \in 1 .. Len(Tail(q)) : q[i + 1] = Tail(q)[i]
    BY <1>1, <1>6, QueueTypes
  <2>2. InFront(S, q, Tail(q))
    BY <2>1 DEF InFront
  <2> QED
    BY <2>1, <2>2, FrontCount
<1>7. ASSUME e \notin Elems(q) PROVE Count(q, e) = 0
  <2>1. PlacesOf(q, e) = {}
    BY <1>7 DEF PlacesOf, Elems
  <2> QED
    BY <2>1, FS_EmptySet DEF Count
<1> QED
  BY <1>2, <1>3, <1>4, <1>5, <1>6, <1>7

-----------------------------------------------------------------------------
(* How many frames there are at most                                         *)

\* The lengths of the queues are numbers.
LEMMA Lengths ==
  ASSUME Typed
  PROVE  /\ Len(m_inputJpegQ) \in Nat /\ Len(m_ongoingJpegQ) \in Nat /\ Len(<<>>) = 0
         /\ m_inputJpegQ # <<>> => Len(Tail(m_inputJpegQ)) = Len(m_inputJpegQ) - 1
         /\ m_inputJpegQ # <<>> => Len(m_inputJpegQ) >= 1
         /\ m_inputJpegQ = <<>> <=> Len(m_inputJpegQ) = 0
         /\ m_ongoingJpegQ = <<>> <=> Len(m_ongoingJpegQ) = 0
         /\ m_ongoingJpegQ # <<>> => Len(Tail(m_ongoingJpegQ)) = Len(m_ongoingJpegQ) - 1
         /\ m_inputJpegQ # <<>> => Head(m_inputJpegQ) \in Frame /\ Head(m_inputJpegQ) # None
<1> USE DEF Typed, JobTyped
<1>1. m_inputJpegQ # <<>> => Head(m_inputJpegQ) \in Frame
  BY QueueTypes
<1>2. ASSUME NEW f \in Frame PROVE f # None
  <2>1. f[1] \in 1 .. MaxPictures
    BY DEF Frame, Picture
  <2>2. None[1] = 0 /\ ~(0 \in 1 .. MaxPictures)
    BY PostProcAssumption DEF None
  <2> QED
    BY <2>1, <2>2
<1>3. /\ Len(m_inputJpegQ) \in Nat /\ Len(m_ongoingJpegQ) \in Nat
      /\ m_inputJpegQ # <<>> => Len(Tail(m_inputJpegQ)) = Len(m_inputJpegQ) - 1
      /\ m_inputJpegQ # <<>> => Len(m_inputJpegQ) >= 1
      /\ m_ongoingJpegQ # <<>> => Len(Tail(m_ongoingJpegQ)) = Len(m_ongoingJpegQ) - 1
  BY QueueTypes
<1>4. Len(<<>>) = 0
  OBVIOUS
<1>5. m_inputJpegQ = <<>> <=> Len(m_inputJpegQ) = 0
  BY EmptySeq
<1>6. m_ongoingJpegQ = <<>> <=> Len(m_ongoingJpegQ) = 0
  BY EmptySeq
<1> QED
  BY <1>1, <1>2, <1>3, <1>4, <1>5, <1>6

\* The frames of two pictures at most.
LEMMA LoadBound ==
  ASSUME Typed, LoadInv, [Next]_vars
  PROVE  LoadInv'
<1> USE PostProcAssumption, Lengths
    DEF Typed, SmTyped, JobTyped, ProcTyped, Picture, LoadInv, Load, Coming, Flushed,
            smVars, dataVars, jobVars, procVars, notifyVars
<1>1. CASE TakePicture
  <2>1. /\ sm = "idle" /\ frames' = 0 /\ streaming' = (sm' = "picture")
        /\ sm' \in {"picture", "failed", "idle"}
        /\ UNCHANGED <<m_inputJpegQ, m_ongoingJpegQ, hand, sync_sem>>
    BY <1>1 DEF TakePicture
  <2> QED
    BY <2>1
<1>2. CASE CancelPicture
  BY <1>2 DEF CancelPicture, StopNotify
<1>3. CASE TakeDone
  <2>1. UNCHANGED <<m_inputJpegQ, m_ongoingJpegQ, hand, frames, streaming, sync_sem>>
        /\ sm' \in {sm, "stopping"}
    BY <1>3 DEF TakeDone, StopNotify
  <2> QED
    BY <2>1
<1>4. CASE ProcessJpegEvt
  <2>1. CASE UNCHANGED <<smVars, dataVars, jobVars, procVars, notifyVars, m_dataNotifyQ>>
    BY <2>1
  <2>2. CASE sm = "picture"
    <3>1. /\ Len(m_ongoingJpegQ') <= Len(m_ongoingJpegQ) /\ Len(m_ongoingJpegQ') \in Nat
          /\ UNCHANGED <<m_inputJpegQ, hand, frames, streaming, sm, sync_sem>>
      BY <1>4, <2>2 DEF ProcessJpegEvt
    <3> QED
      BY <2>2, <3>1
  <2> QED
    BY <1>4, <2>1, <2>2 DEF ProcessJpegEvt
<1>5. CASE StopProc
  BY <1>5 DEF StopProc
<1>6. CASE StopReturns
  BY <1>6 DEF StopReturns
<1>7. CASE StopChannel
  BY <1>7 DEF StopChannel
<1>8. CASE ProcessData
  <2>1. /\ Len(m_inputJpegQ') = Len(m_inputJpegQ) + 1
        /\ streaming /\ frames < NumSnapshots /\ frames' = frames + 1
        /\ UNCHANGED <<m_ongoingJpegQ, hand, streaming, sm, sync_sem>>
    <3>1. m_inputJpegQ' = Append(m_inputJpegQ, <<pictures, frames + 1>>)
      BY <1>8 DEF ProcessData
    <3>2. streaming /\ frames < NumSnapshots /\ frames' = frames + 1
          /\ UNCHANGED <<m_ongoingJpegQ, hand, streaming, sm, sync_sem>>
      BY <1>8 DEF ProcessData
    <3>3. pictures \in Picture /\ frames + 1 \in 1 .. NumSnapshots
      BY <3>2
    <3>4. <<pictures, frames + 1>> \in Frame
      BY <3>3 DEF Frame
    <3> QED
      BY <3>1, <3>2, <3>4, QueueTypes
  <2> QED
    BY <2>1
<1>9. ASSUME NEW job \in encoding, JpegEvtHandle(job) PROVE LoadInv'
  BY <1>9 DEF JpegEvtHandle
<1>10. CASE ProcStart
  BY <1>10 DEF ProcStart, ProcTakes
<1>11. CASE ProcStop
  <2>1. /\ hand = None /\ Len(m_ongoingJpegQ') = 0 /\ Len(m_inputJpegQ') = 0
        /\ UNCHANGED <<hand, frames, streaming, sm>>
    BY <1>11 DEF ProcStop, ProcTakes
  <2>2. Load' = 0 /\ Coming' = Coming /\ Coming \in Nat /\ Coming <= NumSnapshots
    BY <2>1
  <2>3. Len(m_ongoingJpegQ') + (IF hand' = None THEN 0 ELSE 1) <= 1
    BY <2>1
  <2> HIDE DEF Load, Coming, Flushed, Typed, SmTyped, JobTyped, ProcTyped
  <2>4. Load' + Coming' <= NumSnapshots /\ Load' + Coming' <= 2 * NumSnapshots
    BY <2>2
  <2> QED
    BY <2>3, <2>4
<1>12. CASE ProcReturnFrame
  <2>1. /\ Len(m_inputJpegQ') <= Len(m_inputJpegQ) /\ Len(m_inputJpegQ') \in Nat
        /\ UNCHANGED <<m_ongoingJpegQ, hand, frames, streaming, sm, sync_sem>>
    BY <1>12 DEF ProcReturnFrame
  <2> QED
    BY <2>1
<1>13. CASE ProcNothingToDo
  BY <1>13 DEF ProcNothingToDo, ProcTakes
<1>14. CASE ProcEncodeFails
  <2>1. /\ Len(m_inputJpegQ') = Len(m_inputJpegQ) - 1
        /\ UNCHANGED <<m_ongoingJpegQ, hand, frames, streaming, sm, sync_sem>>
    BY <1>14 DEF ProcEncodeFails, ProcEncode
  <2> QED
    BY <2>1
<1>15. CASE ProcEncodeStarts
  <2>1. /\ Len(m_inputJpegQ') = Len(m_inputJpegQ) - 1
        /\ hand = None /\ hand' # None /\ Len(m_ongoingJpegQ) = 0
        /\ UNCHANGED <<m_ongoingJpegQ, frames, streaming, sm, sync_sem>>
    BY <1>15 DEF ProcEncodeStarts, ProcEncode, ProcTakes
  <2> QED
    BY <2>1
<1>16. CASE ProcRemember
  <2>1. /\ Len(m_ongoingJpegQ') = Len(m_ongoingJpegQ) + 1
        /\ hand # None /\ hand' = None
        /\ UNCHANGED <<m_inputJpegQ, frames, streaming, sm, sync_sem>>
    BY <1>16, QueueTypes DEF ProcRemember
  <2> QED
    BY <2>1
<1>17. CASE NotifyStart
  BY <1>17 DEF NotifyStart, NotifyTakes
<1>18. CASE NotifyStop
  BY <1>18 DEF NotifyStop, NotifyTakes
<1>19. CASE NotifyNext
  BY <1>19 DEF NotifyNext, NotifyTakes
<1>20. CASE NotifyDrop
  BY <1>20 DEF NotifyDrop, NotifyTakes
<1>21. CASE UNCHANGED vars
  BY <1>21 DEF vars
<1> QED
  BY <1>1, <1>2, <1>3, <1>4, <1>5, <1>6, <1>7, <1>8, <1>9, <1>10, <1>11, <1>12, <1>13,
     <1>14, <1>15, <1>16, <1>17, <1>18, <1>19, <1>20, <1>21
     DEF Next, StateMachine, DataProcess, DataNotify

-----------------------------------------------------------------------------
(* Results and their commands                                                *)

\* The DO_NEXT commands of the notify thread are all alike.
LEMMA DoNextsCount ==
  ASSUME NEW q \in Seq(NotifyCmds)
  PROVE  Cardinality({i \in DOMAIN q : q[i].cmd = "DO_NEXT"}) = Count(q, Plain("DO_NEXT"))
<1>1. ASSUME NEW i \in DOMAIN q PROVE q[i].cmd = "DO_NEXT" <=> q[i] = Plain("DO_NEXT")
  <2>1. q[i] \in NotifyCmds
    BY ElementOfSeq, LenProperties
  <2>2. CASE q[i] \in [cmd : {"START"}, picture : Picture]
    BY <2>2 DEF Plain
  <2>3. CASE q[i] \in [cmd : {"STOP", "DO_NEXT"}, picture : {0}]
    <3>1. q[i] = [cmd |-> q[i].cmd, picture |-> 0]
      BY <2>3
    <3> QED
      BY <3>1 DEF Plain
  <2> QED
    BY <2>1, <2>2, <2>3 DEF NotifyCmds
<1>2. {i \in DOMAIN q : q[i].cmd = "DO_NEXT"} = PlacesOf(q, Plain("DO_NEXT"))
  BY <1>1 DEF PlacesOf
<1> QED
  BY <1>2 DEF Count

\* A result has a command on its way, by the count of those.
Result == Plain("DO_NEXT")
ResultInv == m_dataNotifyQ <= Count(notify_cmds, Result)

\* What a command at either end of the notify thread's queue changes of the count.
LEMMA NotifyCounts ==
  ASSUME Typed
  PROVE  /\ Count(notify_cmds, Result) \in Nat
         /\ \A x \in NotifyCmds :
              /\ Count(Append(notify_cmds, x), Result)
                 = Count(notify_cmds, Result) + (IF x = Result THEN 1 ELSE 0)
              /\ Count(<<x>> \o notify_cmds, Result)
                 = Count(notify_cmds, Result) + (IF x = Result THEN 1 ELSE 0)
         /\ notify_cmds # <<>> =>
              /\ Head(notify_cmds) \in NotifyCmds
              /\ Count(notify_cmds, Result)
                 = Count(Tail(notify_cmds), Result) + (IF Head(notify_cmds) = Result THEN 1 ELSE 0)
         /\ Result \in NotifyCmds /\ Result.cmd = "DO_NEXT"
         /\ Plain("STOP") \in NotifyCmds /\ Plain("STOP") # Result
         /\ \A p \in Picture : StartCmd(p) \in NotifyCmds /\ StartCmd(p) # Result
<1>1. notify_cmds \in Seq(NotifyCmds)
  BY DEF Typed, NotifyTyped
<1>2. /\ Result \in NotifyCmds /\ Result.cmd = "DO_NEXT"
      /\ Plain("STOP") \in NotifyCmds /\ Plain("STOP") # Result
  BY DEF Result, Plain, NotifyCmds
<1>3. ASSUME NEW p \in Picture PROVE StartCmd(p) \in NotifyCmds /\ StartCmd(p) # Result
  BY DEF Result, Plain, StartCmd, NotifyCmds
<1>4. notify_cmds # <<>> => Head(notify_cmds) \in NotifyCmds
  BY <1>1, QueueTypes
<1> QED
  BY <1>1, <1>2, <1>3, <1>4, QueueCounts

\* Every result has its command.
LEMMA ResultsKeep ==
  ASSUME Typed, ResultInv, [Next]_vars
  PROVE  ResultInv'
<1> USE DEF Typed, NotifyTyped, ResultInv, smVars, dataVars, jobVars, procVars, notifyVars
<1>1. CASE TakePicture
  <2>1. /\ notify_cmds' = Append(notify_cmds, StartCmd(pictures + 1)) /\ UNCHANGED m_dataNotifyQ
        /\ pictures + 1 \in Picture
    BY <1>1, PostProcAssumption DEF TakePicture, SmTyped, Picture
  <2>2. Count(notify_cmds', Result) = Count(notify_cmds, Result)
    <3>1. StartCmd(pictures + 1) \in NotifyCmds /\ StartCmd(pictures + 1) # Result
      BY <2>1, NotifyCounts
    <3>2. Count(Append(notify_cmds, StartCmd(pictures + 1)), Result)
          = Count(notify_cmds, Result) + 0
      BY <3>1, NotifyCounts
    <3>3. Count(notify_cmds, Result) \in Nat
      BY NotifyCounts
    <3> QED
      BY <2>1, <3>2, <3>3
  <2> QED
    BY <2>1, <2>2
<1>2. CASE CancelPicture
  <2>1. notify_cmds' = <<Plain("STOP")>> \o notify_cmds /\ UNCHANGED m_dataNotifyQ
    BY <1>2 DEF CancelPicture, StopNotify
  <2>2. Count(notify_cmds', Result) = Count(notify_cmds, Result)
    BY <2>1, NotifyCounts
  <2> QED
    BY <2>1, <2>2
<1>3. CASE TakeDone
  <2>1. CASE StopNotify
    <3>1. notify_cmds' = <<Plain("STOP")>> \o notify_cmds /\ UNCHANGED m_dataNotifyQ
      BY <2>1 DEF StopNotify
    <3>2. Count(notify_cmds', Result) = Count(notify_cmds, Result)
      BY <3>1, NotifyCounts
    <3> QED
      BY <3>1, <3>2
  <2>2. CASE UNCHANGED <<smVars, dataVars, jobVars, procVars, notifyVars, m_dataNotifyQ>>
    BY <2>2
  <2> QED
    BY <1>3, <2>1, <2>2 DEF TakeDone
<1>4. CASE ProcessJpegEvt
  <2>1. CASE UNCHANGED <<smVars, dataVars, jobVars, procVars, notifyVars, m_dataNotifyQ>>
    BY <2>1
  <2>2. CASE sm = "picture"
    <3>1. /\ m_dataNotifyQ' = m_dataNotifyQ + 1
          /\ notify_cmds' = Append(notify_cmds, Result)
      BY <1>4, <2>2 DEF ProcessJpegEvt, SendDataNotify, Result
    <3>2. Count(notify_cmds', Result) = Count(notify_cmds, Result) + 1
          /\ Count(notify_cmds, Result) \in Nat
      BY <3>1, NotifyCounts
    <3> QED
      BY <3>1, <3>2
  <2> QED
    BY <1>4, <2>1, <2>2 DEF ProcessJpegEvt
<1>5. CASE StopProc
  <2>1. UNCHANGED <<m_dataNotifyQ, notify_cmds>>
    BY <1>5 DEF StopProc
  <2> QED
    BY <2>1
<1>6. CASE StopReturns
  <2>1. UNCHANGED <<m_dataNotifyQ, notify_cmds>>
    BY <1>6 DEF StopReturns
  <2> QED
    BY <2>1
<1>7. CASE StopChannel
  <2>1. UNCHANGED <<m_dataNotifyQ, notify_cmds>>
    BY <1>7 DEF StopChannel
  <2> QED
    BY <2>1
<1>8. CASE ProcessData
  <2>1. UNCHANGED <<m_dataNotifyQ, notify_cmds>>
    BY <1>8 DEF ProcessData
  <2> QED
    BY <2>1
<1>9. ASSUME NEW job \in encoding, JpegEvtHandle(job) PROVE ResultInv'
  <2>1. UNCHANGED <<m_dataNotifyQ, notify_cmds>>
    BY <1>9 DEF JpegEvtHandle
  <2> QED
    BY <2>1
<1>10. CASE ProcStart
  <2>1. UNCHANGED <<m_dataNotifyQ, notify_cmds>>
    BY <1>10 DEF ProcStart, ProcTakes
  <2> QED
    BY <2>1
<1>11. CASE ProcStop
  <2>1. UNCHANGED <<m_dataNotifyQ, notify_cmds>>
    BY <1>11 DEF ProcStop, ProcTakes
  <2> QED
    BY <2>1
<1>12. CASE ProcReturnFrame
  <2>1. UNCHANGED <<m_dataNotifyQ, notify_cmds>>
    BY <1>12 DEF ProcReturnFrame, ProcTakes
  <2> QED
    BY <2>1
<1>13. CASE ProcNothingToDo
  <2>1. UNCHANGED <<m_dataNotifyQ, notify_cmds>>
    BY <1>13 DEF ProcNothingToDo, ProcTakes
  <2> QED
    BY <2>1
<1>14. CASE ProcEncodeFails
  <2>1. /\ m_dataNotifyQ' = m_dataNotifyQ + 1
        /\ notify_cmds' = Append(notify_cmds, Result)
    BY <1>14 DEF ProcEncodeFails, SendDataNotify, Result
  <2>2. Count(notify_cmds', Result) = Count(notify_cmds, Result) + 1
        /\ Count(notify_cmds, Result) \in Nat
    BY <2>1, NotifyCounts
  <2> QED
    BY <2>1, <2>2
<1>15. CASE ProcEncodeStarts
  <2>1. UNCHANGED <<m_dataNotifyQ, notify_cmds>>
    BY <1>15 DEF ProcEncodeStarts, ProcEncode, ProcTakes
  <2> QED
    BY <2>1
<1>16. CASE ProcRemember
  <2>1. UNCHANGED <<m_dataNotifyQ, notify_cmds>>
    BY <1>16 DEF ProcRemember
  <2> QED
    BY <2>1
<1>17. CASE NotifyStart
  <2>1. /\ notify_cmds # <<>> /\ Head(notify_cmds).cmd = "START"
        /\ notify_cmds' = Tail(notify_cmds)
        /\ UNCHANGED m_dataNotifyQ
    BY <1>17 DEF NotifyStart, NotifyTakes
  <2>2. Count(notify_cmds', Result) = Count(notify_cmds, Result)
    <3>1. Head(notify_cmds) # Result
      BY <2>1, NotifyCounts
    <3>2. Count(notify_cmds, Result) = Count(Tail(notify_cmds), Result) + 0
      BY <2>1, <3>1, NotifyCounts
    <3>3. Count(notify_cmds', Result) \in Nat
      BY NotifyTypes, QueueCounts
    <3> QED
      BY <2>1, <3>2, <3>3
  <2> QED
    BY <2>1, <2>2
<1>18. CASE NotifyStop
  <2>1. m_dataNotifyQ' = 0
    BY <1>18 DEF NotifyStop
  <2>2. Count(notify_cmds', Result) \in Nat
    BY NotifyTypes, QueueCounts
  <2> QED
    BY <2>1, <2>2
<1>19. CASE NotifyNext
  <2>1. /\ notify_cmds # <<>> /\ notify_cmds' = Tail(notify_cmds)
        /\ m_dataNotifyQ' = IF m_dataNotifyQ = 0 THEN 0 ELSE m_dataNotifyQ - 1
    BY <1>19 DEF NotifyNext, NotifyTakes
  <2>2. Count(notify_cmds', Result) \in Nat
    BY NotifyTypes, QueueCounts
  <2>3. /\ Count(notify_cmds, Result) \in Nat
        /\ Count(notify_cmds, Result) <= Count(notify_cmds', Result) + 1
    BY <2>1, <2>2, NotifyCounts
  <2> QED
    BY <2>1, <2>2, <2>3
<1>20. CASE NotifyDrop
  <2>1. /\ notify_cmds # <<>> /\ notify_cmds' = Tail(notify_cmds)
        /\ m_dataNotifyQ' = IF m_dataNotifyQ = 0 THEN 0 ELSE m_dataNotifyQ - 1
    BY <1>20 DEF NotifyDrop, NotifyTakes
  <2>2. Count(notify_cmds', Result) \in Nat
    BY NotifyTypes, QueueCounts
  <2>3. /\ Count(notify_cmds, Result) \in Nat
        /\ Count(notify_cmds, Result) <= Count(notify_cmds', Result) + 1
    BY <2>1, <2>2, NotifyCounts
  <2> QED
    BY <2>1, <2>2, <2>3
<1>21. CASE UNCHANGED vars
  BY <1>21 DEF vars
<1> QED
  BY <1>1, <1>2, <1>3, <1>4, <1>5, <1>6, <1>7, <1>8, <1>9, <1>10, <1>11, <1>12, <1>13,
     <1>14, <1>15, <1>16, <1>17, <1>18, <1>19, <1>20, <1>21
     DEF Next, StateMachine, DataProcess, DataNotify

-----------------------------------------------------------------------------
(* Frames and their commands                                                 *)

\* The DO_NEXT commands of the data thread.
LEMMA ProcCounts ==
  ASSUME Typed
  PROVE  /\ ProcDoNexts = Count(proc_cmds, "DO_NEXT")
         /\ ProcDoNexts \in Nat
         /\ ProcDoNexts > 0 => "DO_NEXT" \in Elems(proc_cmds)
         /\ Count(Append(proc_cmds, "START"), "DO_NEXT") = ProcDoNexts
         /\ Count(Append(proc_cmds, "DO_NEXT"), "DO_NEXT") = ProcDoNexts + 1
         /\ Count(<<"STOP">> \o proc_cmds, "DO_NEXT") = ProcDoNexts
         /\ proc_cmds # <<>> =>
              ProcDoNexts = Count(Tail(proc_cmds), "DO_NEXT")
                            + (IF Head(proc_cmds) = "DO_NEXT" THEN 1 ELSE 0)
<1>1. proc_cmds \in Seq(ProcCmd)
  BY DEF Typed, ProcTyped
<1>2. ProcDoNexts = Count(proc_cmds, "DO_NEXT")
  BY DEF ProcDoNexts, Count, PlacesOf
<1>3. "START" \in ProcCmd /\ "DO_NEXT" \in ProcCmd /\ "STOP" \in ProcCmd
  BY DEF ProcCmd
<1>4. /\ Count(proc_cmds, "DO_NEXT") \in Nat
      /\ "DO_NEXT" \notin Elems(proc_cmds) => Count(proc_cmds, "DO_NEXT") = 0
  BY <1>1, QueueCounts
<1>5. ASSUME NEW x \in ProcCmd
      PROVE  /\ Count(Append(proc_cmds, x), "DO_NEXT")
                = Count(proc_cmds, "DO_NEXT") + (IF x = "DO_NEXT" THEN 1 ELSE 0)
             /\ Count(<<x>> \o proc_cmds, "DO_NEXT")
                = Count(proc_cmds, "DO_NEXT") + (IF x = "DO_NEXT" THEN 1 ELSE 0)
  BY <1>1, QueueCounts
<1>7. /\ Count(Append(proc_cmds, "START"), "DO_NEXT") = Count(proc_cmds, "DO_NEXT")
      /\ Count(<<"STOP">> \o proc_cmds, "DO_NEXT") = Count(proc_cmds, "DO_NEXT")
      /\ Count(Append(proc_cmds, "DO_NEXT"), "DO_NEXT") = Count(proc_cmds, "DO_NEXT") + 1
  <2>1. /\ Count(Append(proc_cmds, "START"), "DO_NEXT") = Count(proc_cmds, "DO_NEXT") + 0
        /\ Count(<<"STOP">> \o proc_cmds, "DO_NEXT") = Count(proc_cmds, "DO_NEXT") + 0
        /\ Count(Append(proc_cmds, "DO_NEXT"), "DO_NEXT") = Count(proc_cmds, "DO_NEXT") + 1
    BY <1>3, <1>5
  <2> QED
    BY <1>4, <2>1
<1>6. proc_cmds # <<>> =>
        Count(proc_cmds, "DO_NEXT") = Count(Tail(proc_cmds), "DO_NEXT")
                                      + (IF Head(proc_cmds) = "DO_NEXT" THEN 1 ELSE 0)
  BY <1>1, QueueCounts
<1> QED
  BY <1>2, <1>4, <1>6, <1>7

\* The types together.
LEMMA TypedKeeps ==
  ASSUME Typed, [Next]_vars
  PROVE  Typed'
BY SmTypes, JobTypes, ProcTypes, NotifyTypes, EvtTypes DEF Typed

\* A waiting frame has its command, in pictures of one frame.
LEMMA WaitingKeeps ==
  ASSUME NumSnapshots = 1, Typed, LoadInv, WaitingInv, [Next]_vars
  PROVE  WaitingInv'
<1>a. /\ ProcDoNexts = Count(proc_cmds, "DO_NEXT") /\ ProcDoNexts \in Nat
      /\ Count(Append(proc_cmds, "START"), "DO_NEXT") = ProcDoNexts
      /\ Count(Append(proc_cmds, "DO_NEXT"), "DO_NEXT") = ProcDoNexts + 1
      /\ Count(<<"STOP">> \o proc_cmds, "DO_NEXT") = ProcDoNexts
      /\ proc_cmds # <<>> =>
           ProcDoNexts = Count(Tail(proc_cmds), "DO_NEXT")
                         + (IF Head(proc_cmds) = "DO_NEXT" THEN 1 ELSE 0)
  BY ProcCounts
<1>b. ProcDoNexts' = Count(proc_cmds', "DO_NEXT") /\ ProcDoNexts' \in Nat
  <2>1. proc_cmds' \in Seq(ProcCmd)
    BY ProcTypes DEF ProcTyped
  <2>2. ProcDoNexts' = Count(proc_cmds', "DO_NEXT")
    BY DEF ProcDoNexts, Count, PlacesOf
  <2>3. Count(proc_cmds', "DO_NEXT") \in Nat
    BY <2>1, QueueCounts
  <2> QED
    BY <2>2, <2>3
<1>c. /\ Len(m_inputJpegQ) \in Nat /\ Len(m_ongoingJpegQ) \in Nat /\ Len(<<>>) = 0
      /\ m_inputJpegQ # <<>> => Len(Tail(m_inputJpegQ)) = Len(m_inputJpegQ) - 1
      /\ m_inputJpegQ = <<>> <=> Len(m_inputJpegQ) = 0
      /\ m_ongoingJpegQ = <<>> <=> Len(m_ongoingJpegQ) = 0
      /\ m_inputJpegQ # <<>> => Head(m_inputJpegQ) # None
  BY Lengths
<1>1. CASE TakePicture
  <2>1. proc_cmds' = Append(proc_cmds, "START") /\ UNCHANGED <<m_inputJpegQ, m_ongoingJpegQ, hand>>
    BY <1>1 DEF TakePicture, jobVars
  <2> QED
    BY <2>1, <1>a, <1>b DEF WaitingInv
<1>2. CASE CancelPicture
  <2>1. UNCHANGED <<m_inputJpegQ, m_ongoingJpegQ, hand, proc_cmds>>
    BY <1>2 DEF CancelPicture, StopNotify, smVars, dataVars, jobVars, procVars
  <2> QED
    BY <2>1, <1>a, <1>b DEF WaitingInv
<1>3. CASE TakeDone
  <2>1. UNCHANGED <<m_inputJpegQ, m_ongoingJpegQ, hand, proc_cmds>>
    BY <1>3 DEF TakeDone, StopNotify, smVars, dataVars, jobVars, procVars
  <2> QED
    BY <2>1, <1>a, <1>b DEF WaitingInv
<1>4. CASE ProcessJpegEvt
  <2>1. CASE UNCHANGED <<smVars, dataVars, jobVars, procVars, notifyVars, m_dataNotifyQ>>
    <3>1. UNCHANGED <<m_inputJpegQ, m_ongoingJpegQ, hand, proc_cmds>>
      BY <2>1 DEF dataVars, jobVars, procVars
    <3> QED
      BY <3>1, <1>a, <1>b DEF WaitingInv
  <2>2. CASE sm = "picture"
    <3>1. /\ proc_cmds' = Append(proc_cmds, "DO_NEXT")
          /\ UNCHANGED <<m_inputJpegQ, hand>>
          /\ m_ongoingJpegQ' = IF m_ongoingJpegQ = <<>> THEN <<>> ELSE Tail(m_ongoingJpegQ)
      BY <1>4, <2>2 DEF ProcessJpegEvt
    <3>2. CASE m_ongoingJpegQ = <<>>
      BY <3>1, <3>2, <1>a, <1>b, <1>c DEF WaitingInv
    <3>3. CASE m_ongoingJpegQ # <<>>
      <4>1. Len(m_inputJpegQ) <= 1
        <5>1. /\ Len(m_ongoingJpegQ) >= 1
              /\ Load + Coming <= 2 /\ Coming \in Nat
          BY <3>3, <1>c, PostProcAssumption DEF LoadInv, Coming, Typed, SmTyped
        <5> QED
          BY <5>1, <1>c DEF Load
      <4> QED
        BY <3>1, <4>1, <1>a, <1>b, <1>c DEF WaitingInv
    <3> QED
      BY <3>2, <3>3
  <2> QED
    BY <1>4, <2>1, <2>2 DEF ProcessJpegEvt
<1>5. CASE StopProc
  <2>1. proc_cmds' = <<"STOP">> \o proc_cmds /\ UNCHANGED <<m_inputJpegQ, m_ongoingJpegQ, hand>>
    BY <1>5 DEF StopProc, dataVars, jobVars
  <2> QED
    BY <2>1, <1>a, <1>b DEF WaitingInv
<1>6. CASE StopReturns
  <2>1. UNCHANGED <<m_inputJpegQ, m_ongoingJpegQ, hand, proc_cmds>>
    BY <1>6 DEF StopReturns, smVars, dataVars, jobVars, procVars
  <2> QED
    BY <2>1, <1>a, <1>b DEF WaitingInv
<1>7. CASE StopChannel
  <2>1. UNCHANGED <<m_inputJpegQ, m_ongoingJpegQ, hand, proc_cmds>>
    BY <1>7 DEF StopChannel, smVars, dataVars, jobVars, procVars
  <2> QED
    BY <2>1, <1>a, <1>b DEF WaitingInv
<1>8. CASE ProcessData
  <2>1. /\ proc_cmds' = Append(proc_cmds, "DO_NEXT")
        /\ UNCHANGED <<m_ongoingJpegQ, hand>>
        /\ Len(m_inputJpegQ') = Len(m_inputJpegQ) + 1
    <3>1. /\ m_inputJpegQ' = Append(m_inputJpegQ, <<pictures, frames + 1>>)
          /\ streaming /\ frames < NumSnapshots
      BY <1>8 DEF ProcessData
    <3>2. <<pictures, frames + 1>> \in Frame
      BY <3>1, PostProcAssumption DEF Typed, SmTyped, Frame, Picture
    <3> QED
      BY <1>8, <3>1, <3>2, QueueTypes DEF ProcessData, jobVars, Typed, JobTyped
  <2> QED
    BY <2>1, <1>a, <1>b, <1>c DEF WaitingInv
<1>9. ASSUME NEW job \in encoding, JpegEvtHandle(job) PROVE WaitingInv'
  <2>1. UNCHANGED <<m_inputJpegQ, m_ongoingJpegQ, hand, proc_cmds>>
    BY <1>9 DEF JpegEvtHandle, smVars, dataVars, jobVars, procVars
  <2> QED
    BY <2>1, <1>a, <1>b DEF WaitingInv
<1>10. CASE ProcStart
  <2>1. /\ proc_cmds # <<>> /\ Head(proc_cmds) = "START"
        /\ proc_cmds' = Tail(proc_cmds) /\ UNCHANGED <<m_inputJpegQ, m_ongoingJpegQ, hand>>
    BY <1>10 DEF ProcStart, ProcTakes, dataVars, jobVars
  <2> QED
    BY <2>1, <1>a, <1>b DEF WaitingInv
<1>11. CASE ProcStop
  <2>1. Len(m_inputJpegQ') = 0
    BY <1>11 DEF ProcStop
  <2> QED
    BY <2>1, <1>a, <1>b DEF WaitingInv
<1>12. CASE ProcReturnFrame
  <2>1. /\ proc_cmds # <<>> /\ proc_cmds' = Tail(proc_cmds)
        /\ Len(m_inputJpegQ') = IF Len(m_inputJpegQ) = 0 THEN 0 ELSE Len(m_inputJpegQ) - 1
        /\ UNCHANGED <<m_ongoingJpegQ, hand>>
    BY <1>12, <1>c DEF ProcReturnFrame, ProcTakes, jobVars
  <2> QED
    BY <2>1, <1>a, <1>b, <1>c DEF WaitingInv
<1>13. CASE ProcNothingToDo
  <2>1. /\ m_ongoingJpegQ # <<>> \/ Len(m_inputJpegQ) = 0
        /\ UNCHANGED <<m_inputJpegQ, m_ongoingJpegQ, hand>>
    BY <1>13, <1>c DEF ProcNothingToDo, dataVars, jobVars
  <2> QED
    BY <2>1, <1>a, <1>b DEF WaitingInv
<1>14. CASE ProcEncodeFails
  <2>1. /\ proc_cmds # <<>> /\ proc_cmds' = Tail(proc_cmds)
        /\ Len(m_inputJpegQ') = Len(m_inputJpegQ) - 1
        /\ UNCHANGED <<m_ongoingJpegQ, hand>>
    BY <1>14, <1>c DEF ProcEncodeFails, ProcEncode, ProcTakes
  <2> QED
    BY <2>1, <1>a, <1>b, <1>c DEF WaitingInv
<1>15. CASE ProcEncodeStarts
  <2>1. hand' # None
    BY <1>15, <1>c DEF ProcEncodeStarts, ProcEncode
  <2> QED
    BY <2>1 DEF WaitingInv
<1>16. CASE ProcRemember
  <2>1. m_ongoingJpegQ' # <<>>
    <3>1. Len(m_ongoingJpegQ') = Len(m_ongoingJpegQ) + 1
      BY <1>16, QueueTypes DEF ProcRemember, Typed, JobTyped
    <3> QED
      BY <3>1, <1>c
  <2> QED
    BY <2>1 DEF WaitingInv
<1>17. CASE NotifyStart
  <2>1. UNCHANGED <<m_inputJpegQ, m_ongoingJpegQ, hand, proc_cmds>>
    BY <1>17 DEF NotifyStart, NotifyTakes, smVars, dataVars, jobVars, procVars
  <2> QED
    BY <2>1, <1>a, <1>b DEF WaitingInv
<1>18. CASE NotifyStop
  <2>1. UNCHANGED <<m_inputJpegQ, m_ongoingJpegQ, hand, proc_cmds>>
    BY <1>18 DEF NotifyStop, NotifyTakes, smVars, dataVars, jobVars, procVars
  <2> QED
    BY <2>1, <1>a, <1>b DEF WaitingInv
<1>19. CASE NotifyNext
  <2>1. UNCHANGED <<m_inputJpegQ, m_ongoingJpegQ, hand, proc_cmds>>
    BY <1>19 DEF NotifyNext, NotifyTakes, smVars, dataVars, jobVars, procVars
  <2> QED
    BY <2>1, <1>a, <1>b DEF WaitingInv
<1>20. CASE NotifyDrop
  <2>1. UNCHANGED <<m_inputJpegQ, m_ongoingJpegQ, hand, proc_cmds>>
    BY <1>20 DEF NotifyDrop, NotifyTakes, smVars, dataVars, jobVars, procVars
  <2> QED
    BY <2>1, <1>a, <1>b DEF WaitingInv
<1>21. CASE UNCHANGED vars
  BY <1>21, <1>a, <1>b DEF vars, dataVars, jobVars, procVars, WaitingInv
<1> QED
  BY <1>1, <1>2, <1>3, <1>4, <1>5, <1>6, <1>7, <1>8, <1>9, <1>10, <1>11, <1>12, <1>13,
     <1>14, <1>15, <1>16, <1>17, <1>18, <1>19, <1>20, <1>21
     DEF Next, StateMachine, DataProcess, DataNotify

\* A DO_NEXT before any START stays so, whatever is queued, and until it is taken.
LEMMA FirstStays ==
  ASSUME NEW q \in Seq(ProcCmd)
  PROVE  /\ \A c \in ProcCmd : FirstDoNext(q) => FirstDoNext(Append(q, c))
         /\ "START" \notin Elems(q) => FirstDoNext(Append(q, "DO_NEXT"))
         /\ FirstDoNext(q) => FirstDoNext(<<"STOP">> \o q)
         /\ q # <<>> /\ Head(q) = "START" => ~FirstDoNext(q)
<1>1. Len(q) \in Nat /\ DOMAIN q = 1 .. Len(q)
  BY QueueTypes
<1>2. ASSUME NEW c \in ProcCmd
      PROVE  /\ DOMAIN Append(q, c) = 1 .. Len(q) + 1
             /\ \A i \in 1 .. Len(q) : Append(q, c)[i] = q[i]
             /\ Append(q, c)[Len(q) + 1] = c
  BY QueueTypes, AppendProperties, LenProperties
<1>3. ASSUME NEW c \in ProcCmd, FirstDoNext(q) PROVE FirstDoNext(Append(q, c))
  <2>1. PICK i \in 1 .. Len(q) : q[i] = "DO_NEXT" /\ \A j \in DOMAIN q : j < i => q[j] # "START"
    BY <1>1, <1>3 DEF FirstDoNext
  <2>2. i \in DOMAIN Append(q, c) /\ Append(q, c)[i] = "DO_NEXT"
    BY <1>1, <1>2, <2>1
  <2>3. ASSUME NEW j \in DOMAIN Append(q, c), j < i PROVE Append(q, c)[j] # "START"
    BY <1>1, <1>2, <2>1, <2>3
  <2> QED
    BY <2>2, <2>3 DEF FirstDoNext
<1>4. ASSUME "START" \notin Elems(q) PROVE FirstDoNext(Append(q, "DO_NEXT"))
  <2>1. "DO_NEXT" \in ProcCmd
    BY DEF ProcCmd
  <2>2. /\ Len(q) + 1 \in DOMAIN Append(q, "DO_NEXT")
        /\ Append(q, "DO_NEXT")[Len(q) + 1] = "DO_NEXT"
    BY <1>1, <1>2, <2>1
  <2>3. ASSUME NEW j \in DOMAIN Append(q, "DO_NEXT"), j < Len(q) + 1
        PROVE  Append(q, "DO_NEXT")[j] # "START"
    BY <1>1, <1>2, <1>4, <2>1, <2>3 DEF Elems
  <2> QED
    BY <2>2, <2>3 DEF FirstDoNext
<1>5. ASSUME FirstDoNext(q) PROVE FirstDoNext(<<"STOP">> \o q)
  <2>1. PICK i \in 1 .. Len(q) : q[i] = "DO_NEXT" /\ \A j \in DOMAIN q : j < i => q[j] # "START"
    BY <1>1, <1>5 DEF FirstDoNext
  <2> DEFINE r == <<"STOP">> \o q
  <2>2. /\ DOMAIN r = 1 .. Len(q) + 1 /\ r[1] = "STOP"
        /\ \A k \in 1 .. Len(q) : r[k + 1] = q[k]
    BY QueueTypes, LenProperties DEF ProcCmd
  <2>3. i + 1 \in DOMAIN r /\ r[i + 1] = "DO_NEXT"
    BY <1>1, <2>1, <2>2
  <2>4. ASSUME NEW j \in DOMAIN r, j < i + 1 PROVE r[j] # "START"
    <3>1. CASE j = 1
      BY <2>2, <3>1
    <3>2. CASE j # 1
      <4>1. j - 1 \in 1 .. Len(q) /\ j - 1 < i /\ (j - 1) + 1 = j
        BY <1>1, <2>1, <2>2, <2>4, <3>2
      <4> QED
        BY <1>1, <2>1, <2>2, <4>1
    <3> QED
      BY <3>1, <3>2
  <2> QED
    BY <2>3, <2>4 DEF FirstDoNext
<1>6. ASSUME q # <<>>, Head(q) = "START", FirstDoNext(q) PROVE FALSE
  <2>1. q[1] = "START" /\ 1 \in DOMAIN q
    BY <1>1, <1>6, QueueTypes
  <2>2. PICK i \in 1 .. Len(q) : q[i] = "DO_NEXT" /\ \A j \in DOMAIN q : j < i => q[j] # "START"
    BY <1>1, <1>6 DEF FirstDoNext
  <2> QED
    BY <1>1, <2>1, <2>2
<1> QED
  BY <1>3, <1>4, <1>5, <1>6

\* Until a STOP overtakes a START, the thread is active only for its own picture.
LEMMA OwnKeeps ==
  ASSUME NumSnapshots = 1, Typed, LoadInv, OwnInv, [Next]_vars
  PROVE  OwnInv'
<1> SUFFICES ASSUME ~overtaken'
             PROVE  /\ is_active' => Load' + Coming' <= 1
                    /\ ~is_active' => Load' = Len(m_inputJpegQ')
                    /\ Load' + Coming' = 2 => FirstDoNext(proc_cmds')
                    /\ Flushed' => /\ is_active' \/ "START" \in Elems(proc_cmds') => ~streaming'
                                   /\ is_active' => Load' = 0
                                   /\ m_inputJpegQ' # <<>> => FirstDoNext(proc_cmds')
  BY DEF OwnInv
<1>a. /\ Len(m_inputJpegQ) \in Nat /\ Len(m_ongoingJpegQ) \in Nat /\ Len(<<>>) = 0
      /\ m_inputJpegQ # <<>> => Len(Tail(m_inputJpegQ)) = Len(m_inputJpegQ) - 1
      /\ m_inputJpegQ = <<>> <=> Len(m_inputJpegQ) = 0
      /\ m_ongoingJpegQ = <<>> <=> Len(m_ongoingJpegQ) = 0
      /\ m_inputJpegQ # <<>> => Head(m_inputJpegQ) # None
  BY Lengths
<1>b. /\ Load \in Nat /\ Coming \in {0, 1} /\ (~streaming => Coming = 0)
      /\ Load + Coming <= 2 /\ (Flushed => Load + Coming <= 1)
  BY <1>a, PostProcAssumption DEF LoadInv, Load, Coming, Typed, SmTyped
<1>c. /\ is_active \in BOOLEAN /\ streaming \in BOOLEAN
      /\ sm = "idle" => ~streaming
      /\ sync_sem \in {0, 1} /\ (sync_sem = 1 => sm = "waiting")
  BY DEF Typed, SmTyped, ProcTyped
<1>d. ASSUME UNCHANGED <<m_inputJpegQ, m_ongoingJpegQ, hand>>
      PROVE  Load' = Load
  BY <1>d DEF Load
<1>e. ASSUME UNCHANGED <<frames, streaming>>
      PROVE  Coming' = Coming
  BY <1>e DEF Coming
<1>f. /\ proc_cmds \in Seq(ProcCmd) /\ "START" \in ProcCmd /\ "DO_NEXT" \in ProcCmd
      /\ \A c \in ProcCmd : Elems(Append(proc_cmds, c)) = Elems(proc_cmds) \cup {c}
      /\ proc_cmds # <<>> => Elems(proc_cmds) = Elems(Tail(proc_cmds)) \cup {Head(proc_cmds)}
  BY ElemsOf DEF Typed, ProcTyped, ProcCmd
<1>g. ASSUME ~overtaken
      PROVE  /\ is_active => Load + Coming <= 1
             /\ ~is_active => Load = Len(m_inputJpegQ)
             /\ Load + Coming = 2 => FirstDoNext(proc_cmds)
             /\ Flushed => /\ is_active \/ "START" \in Elems(proc_cmds) => ~streaming
                           /\ is_active => Load = 0
                           /\ m_inputJpegQ # <<>> => FirstDoNext(proc_cmds)
  BY <1>g DEF OwnInv
<1>h. ASSUME UNCHANGED <<m_inputJpegQ, m_ongoingJpegQ, hand, frames, streaming, proc_cmds,
                         is_active, overtaken, sm, sync_sem>>
      PROVE  OwnInv'
  <2>1. Load' = Load /\ Coming' = Coming /\ Flushed' = Flushed
    BY <1>d, <1>e, <1>h DEF Flushed
  <2> QED
    BY <1>h, <2>1 DEF OwnInv
<1>i. ASSUME OwnInv'
      PROVE  /\ is_active' => Load' + Coming' <= 1
             /\ ~is_active' => Load' = Len(m_inputJpegQ')
             /\ Load' + Coming' = 2 => FirstDoNext(proc_cmds')
             /\ Flushed' => /\ is_active' \/ "START" \in Elems(proc_cmds') => ~streaming'
                            /\ is_active' => Load' = 0
                            /\ m_inputJpegQ' # <<>> => FirstDoNext(proc_cmds')
  BY <1>i DEF OwnInv
<1>1. CASE TakePicture
  <2>1. /\ proc_cmds' = Append(proc_cmds, "START") /\ sm = "idle"
        /\ streaming' = (sm' = "picture") /\ frames' = 0
        /\ UNCHANGED <<m_inputJpegQ, m_ongoingJpegQ, hand, is_active, overtaken, sync_sem>>
    BY <1>1 DEF TakePicture, jobVars
  <2>2. Flushed /\ Load' = Load /\ Coming' \in {0, 1}
    BY <1>d, <2>1, PostProcAssumption DEF Flushed, Coming
  <2>3. is_active => Load = 0
    BY <1>g, <2>1, <2>2
  <2>4. m_inputJpegQ # <<>> => FirstDoNext(proc_cmds')
    BY <1>f, <1>g, <2>1, <2>2, FirstStays
  <2>5. Load <= 1 /\ (~is_active => Load = Len(m_inputJpegQ))
    BY <1>b, <1>g, <2>1, <2>2
  <2>6. Flushed' => sm' # "picture"
    BY <2>1, <1>c DEF Flushed
  <2>7. ASSUME Load' + Coming' = 2 PROVE FirstDoNext(proc_cmds')
    <3>1. Load = 1
      <4>1. Load \in Nat /\ Load <= 1 /\ Load + Coming' = 2
        BY <1>b, <2>2, <2>5, <2>7
      <4>2. CASE Coming' = 0
        BY <4>1, <4>2
      <4>3. CASE Coming' = 1
        BY <4>1, <4>3
      <4> QED
        BY <2>2, <4>2, <4>3
    <3>2. ~is_active
      BY <2>3, <3>1
    <3>3. m_inputJpegQ # <<>>
      BY <1>a, <2>5, <3>1, <3>2
    <3> QED
      BY <2>4, <3>3
  <2>8. is_active' => Load' + Coming' <= 1
    <3>1. ASSUME is_active' PROVE Load' + Coming' <= 1
      <4>1. Load' = 0 /\ Coming' \in {0, 1}
        BY <2>1, <2>2, <2>3, <3>1
      <4> QED
        BY <4>1 DEF Coming
    <3> QED
      BY <3>1
  <2>9. ~is_active' => Load' = Len(m_inputJpegQ')
    BY <2>1, <2>2, <2>5
  <2>10. Flushed' => ~streaming' /\ (is_active' => Load' = 0)
    BY <2>1, <2>2, <2>3, <2>6
  <2> QED
    BY <2>1, <2>4, <2>7, <2>8, <2>9, <2>10
<1>2. ASSUME StopNotify PROVE OwnInv'
  <2>1. /\ sm' = "stopping"
        /\ UNCHANGED <<m_inputJpegQ, m_ongoingJpegQ, hand, frames, streaming, proc_cmds,
                       is_active, overtaken>>
    BY <1>2 DEF StopNotify, dataVars, jobVars, procVars
  <2>2. Load' = Load /\ Coming' = Coming /\ ~Flushed'
    BY <1>d, <1>e, <2>1 DEF Flushed
  <2> QED
    BY <2>1, <2>2 DEF OwnInv
<1>3. CASE CancelPicture
  BY <1>2, <1>3, <1>i DEF CancelPicture
<1>4. CASE TakeDone
  <2>1. CASE UNCHANGED <<smVars, dataVars, jobVars, procVars, notifyVars, m_dataNotifyQ>>
    BY <1>h, <1>i, <2>1 DEF smVars, dataVars, jobVars, procVars
  <2> QED
    BY <1>2, <1>4, <1>i, <2>1 DEF TakeDone
<1>5. CASE ProcessJpegEvt
  <2>1. CASE UNCHANGED <<smVars, dataVars, jobVars, procVars, notifyVars, m_dataNotifyQ>>
    BY <1>h, <1>i, <2>1 DEF smVars, dataVars, jobVars, procVars
  <2>2. CASE sm = "picture"
    <3>1. CASE /\ proc_cmds' = Append(proc_cmds, "DO_NEXT")
               /\ m_ongoingJpegQ' = IF m_ongoingJpegQ = <<>> THEN <<>> ELSE Tail(m_ongoingJpegQ)
               /\ UNCHANGED <<m_inputJpegQ, hand, frames, streaming, is_active, overtaken, sm>>
      <4>1. /\ ~overtaken /\ ~Flushed' /\ Coming' = Coming /\ Load' <= Load
            /\ Len(m_ongoingJpegQ') <= Len(m_ongoingJpegQ) /\ Len(m_ongoingJpegQ') \in Nat
            /\ Load' \in Nat
        <5>1. Len(m_ongoingJpegQ') <= Len(m_ongoingJpegQ) /\ Len(m_ongoingJpegQ') \in Nat
          <6>1. m_ongoingJpegQ # <<>> => Len(Tail(m_ongoingJpegQ)) = Len(m_ongoingJpegQ) - 1
            BY Lengths
          <6> QED
            BY <1>a, <3>1, <6>1
        <5>2. Load' <= Load /\ Load' \in Nat
          <6>1. /\ Len(m_inputJpegQ') = Len(m_inputJpegQ)
                /\ (IF hand' = None THEN 0 ELSE 1) = (IF hand = None THEN 0 ELSE 1)
            BY <3>1
          <6> QED
            BY <1>a, <5>1, <6>1 DEF Load
        <5> QED
          BY <1>e, <2>2, <3>1, <5>1, <5>2 DEF Flushed
      <4>2. ~is_active => Load' = Len(m_inputJpegQ')
        <5>1. ASSUME ~is_active PROVE Load' = Len(m_inputJpegQ')
          <6>1. Load = Len(m_inputJpegQ)
            BY <1>g, <4>1, <5>1
          <6>2. m_ongoingJpegQ = <<>>
            BY <1>a, <6>1 DEF Load
          <6>3. UNCHANGED <<m_inputJpegQ, m_ongoingJpegQ, hand>>
            BY <3>1, <6>2
          <6> QED
            BY <1>d, <6>1, <6>3
        <5> QED
          BY <5>1
      <4>3. FirstDoNext(proc_cmds) => FirstDoNext(proc_cmds')
        BY <1>f, <3>1, FirstStays
      <4>4. is_active' => Load' + Coming' <= 1
        <5>1. ASSUME is_active' PROVE Load' + Coming' <= 1
          <6>1. Load + Coming <= 1
            BY <1>g, <3>1, <4>1, <5>1
          <6>2. Load \in Nat /\ Coming \in Nat /\ Load' \in Nat /\ Load' <= Load
                /\ Coming' = Coming
            BY <1>b, <4>1
          <6> QED
            BY <6>1, <6>2 DEF Load, Coming
        <5> QED
          BY <5>1
      <4>5. ASSUME Load' + Coming' = 2 PROVE FirstDoNext(proc_cmds')
        <5>1. Load + Coming = 2
          <6>1. Load \in Nat /\ Coming \in Nat /\ Load' \in Nat /\ Load' <= Load
                /\ Coming' = Coming /\ Load + Coming <= 2
            BY <1>b, <4>1
          <6> QED
            BY <4>5, <6>1 DEF Load, Coming
        <5> QED
          BY <1>g, <4>1, <4>3, <5>1
      <4>6. ~is_active' => Load' = Len(m_inputJpegQ')
        BY <3>1, <4>2
      <4> QED
        BY <4>1, <4>4, <4>5, <4>6
    <3> QED
      BY <1>5, <2>2, <3>1 DEF ProcessJpegEvt, smVars
  <2> QED
    BY <1>5, <2>1, <2>2 DEF ProcessJpegEvt
<1>6. CASE StopProc
  <2>1. /\ sm = "stopping" /\ sm' = "waiting" /\ proc_cmds' = <<"STOP">> \o proc_cmds
        /\ UNCHANGED <<m_inputJpegQ, m_ongoingJpegQ, hand, frames, streaming, is_active,
                       overtaken, sync_sem>>
    BY <1>6 DEF StopProc, dataVars, jobVars
  <2>2. Load' = Load /\ Coming' = Coming /\ ~Flushed'
    BY <1>c, <1>d, <1>e, <2>1 DEF Flushed
  <2>3. FirstDoNext(proc_cmds) => FirstDoNext(proc_cmds')
    BY <1>f, <2>1, FirstStays
  <2> QED
    BY <1>g, <2>1, <2>2, <2>3
<1>7. CASE StopReturns
  <2>1. /\ sm = "waiting" /\ sm' = "closing" /\ sync_sem > 0
        /\ UNCHANGED <<m_inputJpegQ, m_ongoingJpegQ, hand, frames, streaming, is_active,
                       overtaken, proc_cmds>>
    BY <1>7 DEF StopReturns, dataVars, jobVars
  <2>2. Load' = Load /\ Coming' = Coming /\ Flushed
    BY <1>c, <1>d, <1>e, <2>1 DEF Flushed
  <2> QED
    BY <1>g, <2>1, <2>2
<1>8. CASE StopChannel
  <2>1. /\ sm = "closing" /\ sm' = "idle" /\ streaming' = FALSE
        /\ UNCHANGED <<m_inputJpegQ, m_ongoingJpegQ, hand, is_active, overtaken, proc_cmds>>
    BY <1>8 DEF StopChannel, dataVars, jobVars, procVars
  <2>2. Load' = Load /\ Coming' = 0 /\ Flushed
    BY <1>d, <2>1 DEF Flushed, Coming
  <2> QED
    BY <1>b, <1>g, <2>1, <2>2
<1>9. CASE ProcessData
  <2>1. /\ streaming /\ frames < NumSnapshots /\ frames' = frames + 1
        /\ m_inputJpegQ' = Append(m_inputJpegQ, <<pictures, frames + 1>>)
        /\ proc_cmds' = Append(proc_cmds, "DO_NEXT")
        /\ UNCHANGED <<m_ongoingJpegQ, hand, streaming, is_active, overtaken, sm, sync_sem>>
    BY <1>9 DEF ProcessData, smVars, jobVars
  <2>2. Len(m_inputJpegQ') = Len(m_inputJpegQ) + 1
    <3>1. <<pictures, frames + 1>> \in Frame
      BY <2>1, PostProcAssumption DEF Typed, SmTyped, Frame, Picture
    <3> QED
      BY <2>1, <3>1, QueueTypes DEF Typed, JobTyped
  <2>3. Load' = Load + 1
    BY <1>a, <2>1, <2>2 DEF Load
  <2>4. Coming = 1 /\ Coming' = 0
    <3>1. frames = 0
      BY <2>1 DEF Typed, SmTyped
    <3> QED
      BY <2>1, <3>1 DEF Coming
  <2>5. FirstDoNext(proc_cmds) => FirstDoNext(proc_cmds')
    BY <1>f, <2>1, FirstStays
  <2>6. Flushed' = Flushed /\ ~overtaken
    BY <2>1 DEF Flushed
  <2>7. ASSUME Flushed
        PROVE  /\ ~is_active' /\ "START" \notin Elems(proc_cmds') /\ FirstDoNext(proc_cmds')
    <3>1. ~is_active /\ "START" \notin Elems(proc_cmds)
      BY <1>g, <2>1, <2>6, <2>7
    <3> QED
      BY <1>f, <2>1, <3>1, FirstStays
  <2> HIDE DEF Load, Coming
  <2> QED
    BY <1>a, <1>b, <1>c, <1>g, <2>1, <2>2, <2>3, <2>4, <2>5, <2>6, <2>7
<1>10. ASSUME NEW job \in encoding, JpegEvtHandle(job) PROVE OwnInv'
  BY <1>10, <1>h DEF JpegEvtHandle, smVars, dataVars, procVars
<1>11. CASE ProcStart
  <2>1. /\ proc_cmds # <<>> /\ Head(proc_cmds) = "START" /\ proc_cmds' = Tail(proc_cmds)
        /\ is_active' = TRUE
        /\ UNCHANGED <<m_inputJpegQ, m_ongoingJpegQ, hand, frames, streaming, overtaken, sm,
                       sync_sem>>
    BY <1>11 DEF ProcStart, ProcTakes, smVars, dataVars, jobVars
  <2>2. Load' = Load /\ Coming' = Coming /\ Flushed' = Flushed
    BY <1>d, <1>e, <2>1 DEF Flushed
  <2>3. ~FirstDoNext(proc_cmds) /\ "START" \in Elems(proc_cmds)
    BY <1>f, <2>1, FirstStays
  <2>4. Load + Coming <= 1
    BY <1>b, <1>g, <2>1, <2>3
  <2>5. Flushed => m_inputJpegQ = <<>> /\ Load = 0 /\ ~streaming
    BY <1>a, <1>g, <2>1, <2>3
  <2> QED
    BY <1>b, <2>1, <2>2, <2>4, <2>5
<1>12. CASE ProcStop
  <2>1. /\ proc_cmds # <<>> /\ proc_cmds' = Tail(proc_cmds) /\ is_active' = FALSE
        /\ m_inputJpegQ' = <<>> /\ m_ongoingJpegQ' = <<>> /\ hand' = None
        /\ Len(m_inputJpegQ') = 0 /\ Len(m_ongoingJpegQ') = 0
        /\ overtaken' = ("START" \in Elems(Tail(proc_cmds)))
        /\ UNCHANGED <<frames, streaming>>
    BY <1>12 DEF ProcStop, ProcTakes, smVars
  <2>2. Load' = 0
    BY <2>1 DEF Load
  <2>3. Coming' = Coming /\ "START" \notin Elems(proc_cmds')
    BY <1>e, <2>1
  <2> QED
    BY <1>b, <2>1, <2>2, <2>3
<1>13. CASE ProcReturnFrame
  <2>1. /\ proc_cmds # <<>> /\ proc_cmds' = Tail(proc_cmds) /\ ~is_active
        /\ m_inputJpegQ' = IF m_inputJpegQ = <<>> THEN <<>> ELSE Tail(m_inputJpegQ)
        /\ UNCHANGED <<m_ongoingJpegQ, hand, frames, streaming, is_active, overtaken, sm,
                       sync_sem>>
    BY <1>13 DEF ProcReturnFrame, ProcTakes, smVars, jobVars
  <2>2. Coming' = Coming /\ Flushed' = Flushed /\ Load = Len(m_inputJpegQ)
    BY <1>e, <1>g, <2>1 DEF Flushed
  <2>3. Len(m_inputJpegQ') = IF m_inputJpegQ = <<>> THEN 0 ELSE Len(m_inputJpegQ) - 1
    BY <1>a, <2>1
  <2>4. Load' = Len(m_inputJpegQ')
    <3>1. Len(m_ongoingJpegQ) = 0 /\ hand = None
      BY <1>a, <2>2 DEF Load
    <3>2. Len(m_ongoingJpegQ') = 0 /\ hand' = None /\ Len(m_inputJpegQ') \in Nat
      BY <1>a, <2>1, <2>3, <3>1
    <3> QED
      BY <3>2 DEF Load
  <2>5. Load' + Coming' # 2 /\ (Flushed => Len(m_inputJpegQ') = 0)
    BY <1>a, <1>b, <2>2, <2>3, <2>4
  <2>6. "START" \in Elems(proc_cmds') => "START" \in Elems(proc_cmds)
    BY <1>f, <2>1
  <2>7. Len(m_inputJpegQ') = 0 => m_inputJpegQ' = <<>>
    <3>1. m_inputJpegQ' \in Seq(Frame)
      BY JobTypes DEF JobTyped
    <3> QED
      BY <3>1, EmptySeq
  <2> QED
    BY <1>g, <2>1, <2>2, <2>4, <2>5, <2>6, <2>7
<1>14. CASE ProcNothingToDo
  <2>1. /\ proc_cmds # <<>> /\ proc_cmds' = Tail(proc_cmds) /\ is_active
        /\ UNCHANGED <<m_inputJpegQ, m_ongoingJpegQ, hand, frames, streaming, is_active,
                       overtaken, sm, sync_sem>>
    BY <1>14 DEF ProcNothingToDo, ProcTakes, smVars, dataVars, jobVars
  <2>2. Load' = Load /\ Coming' = Coming /\ Flushed' = Flushed
    BY <1>d, <1>e, <2>1 DEF Flushed
  <2>3. Load = 0 => m_inputJpegQ = <<>>
    BY <1>a DEF Load
  <2> QED
    BY <1>b, <1>g, <2>1, <2>2, <2>3
<1>15. ASSUME ProcEncode PROVE is_active /\ m_inputJpegQ # <<>> /\ (~overtaken => ~Flushed)
  <2>1. is_active /\ m_inputJpegQ # <<>>
    BY <1>15 DEF ProcEncode
  <2>2. Load # 0
    BY <1>a, <2>1 DEF Load
  <2> QED
    BY <1>g, <2>1, <2>2
<1>16. CASE ProcEncodeFails
  <2>1. /\ ProcEncode /\ Len(m_inputJpegQ') = Len(m_inputJpegQ) - 1
        /\ UNCHANGED <<m_ongoingJpegQ, hand, frames, streaming, is_active, overtaken, sm,
                       sync_sem>>
    BY <1>16, <1>a DEF ProcEncodeFails, ProcEncode, ProcTakes, smVars
  <2>2. Load' = Load - 1 /\ Coming' = Coming /\ Flushed' = Flushed
    BY <1>a, <1>e, <2>1 DEF Load, Flushed
  <2> QED
    BY <1>15, <1>b, <1>g, <2>1, <2>2
<1>17. CASE ProcEncodeStarts
  <2>1. /\ ProcEncode /\ Len(m_inputJpegQ') = Len(m_inputJpegQ) - 1
        /\ hand = None /\ hand' # None
        /\ UNCHANGED <<m_ongoingJpegQ, frames, streaming, is_active, overtaken, sm, sync_sem>>
    BY <1>17, <1>a DEF ProcEncodeStarts, ProcEncode, ProcTakes, smVars
  <2>2. Load' = Load /\ Coming' = Coming /\ Flushed' = Flushed
    BY <1>a, <1>e, <2>1 DEF Load, Flushed
  <2> QED
    BY <1>15, <1>b, <1>g, <2>1, <2>2
<1>18. CASE ProcRemember
  <2>1. /\ hand # None /\ hand' = None /\ Len(m_ongoingJpegQ') = Len(m_ongoingJpegQ) + 1
        /\ UNCHANGED <<m_inputJpegQ, frames, streaming, proc_cmds, is_active, overtaken, sm,
                       sync_sem>>
    BY <1>18, QueueTypes DEF ProcRemember, smVars, dataVars, procVars, Typed, JobTyped
  <2>2. Load' = Load /\ Coming' = Coming /\ Flushed' = Flushed /\ Load >= 1
        /\ Load # Len(m_inputJpegQ)
    BY <1>a, <1>e, <2>1 DEF Load, Flushed
  <2> QED
    BY <1>b, <1>g, <2>1, <2>2
<1>19. CASE DataNotify
  <2>1. UNCHANGED <<smVars, dataVars, jobVars, procVars>>
    BY <1>19 DEF DataNotify, NotifyStart, NotifyStop, NotifyNext, NotifyDrop, NotifyTakes
  <2> QED
    BY <1>h, <1>i, <2>1 DEF smVars, dataVars, jobVars, procVars
<1>20. CASE UNCHANGED vars
  BY <1>20, <1>h, <1>i DEF vars, smVars, dataVars, jobVars, procVars
<1> QED
  BY <1>1, <1>3, <1>4, <1>5, <1>6, <1>7, <1>8, <1>9, <1>10, <1>11, <1>12, <1>13, <1>14,
     <1>16, <1>17, <1>18, <1>19, <1>20, <1>i
     DEF Next, StateMachine, DataProcess

-----------------------------------------------------------------------------
(* The inductive invariant                                                   *)

IInv == Typed /\ FramesInv /\ LoadInv /\ ResultInv

\* It holds at the start ...
LEMMA Start == Init => IInv /\ WaitingInv /\ OwnInv
<1> SUFFICES ASSUME Init PROVE IInv /\ WaitingInv /\ OwnInv
  OBVIOUS
<1>1. Typed
  <2>1. SmTyped
    <3>1. 0 \in 0 .. MaxPictures /\ 0 \in 0 .. NumSnapshots /\ JpegOpens \subseteq BOOLEAN
      BY PostProcAssumption
    <3> QED
      BY <3>1 DEF Init, SmTyped, SmStep
  <2>2. JobTyped
    BY EmptySeq DEF Init, JobTyped
  <2>3. ProcTyped
    <3>1. is_active = FALSE /\ sync_sem = 0 /\ overtaken = FALSE /\ proc_cmds = <<>>
      BY DEF Init
    <3>2. proc_cmds \in Seq(ProcCmd)
      BY <3>1, EmptySeq
    <3>3. is_active \in BOOLEAN /\ overtaken \in BOOLEAN
      BY <3>1
    <3>4. DOMAIN proc_cmds = {}
      BY <3>1
    <3> QED
      BY <3>1, <3>2, <3>3, <3>4 DEF ProcTyped
  <2>4. NotifyTyped
    <3>1. /\ isActive = FALSE /\ notify_cmds = <<>>
          /\ notified = 0 /\ numOfSnapshotRcvd = 0 /\ m_dataNotifyQ = 0
      BY DEF Init
    <3>2. notify_cmds \in Seq(NotifyCmds) /\ notified \in 0 .. MaxPictures
      BY <3>1, EmptySeq, PostProcAssumption
    <3> QED
      BY <3>1, <3>2 DEF NotifyTyped
  <2>5. evt_queue \in Seq(Evt)
    BY EmptySeq DEF Init
  <2> QED
    BY <2>1, <2>2, <2>3, <2>4, <2>5 DEF Typed
<1>2. FramesInv
  BY DEF Init, FramesInv, FramesAccountedFor, NoRepeat, Elems
<1>3. LoadInv
  BY PostProcAssumption DEF Init, LoadInv, Load, Coming, Flushed
<1>4. ResultInv
  <2>1. m_dataNotifyQ = 0 /\ notify_cmds = <<>> /\ <<>> \in Seq(NotifyCmds)
    BY EmptySeq DEF Init
  <2>2. Count(notify_cmds, Result) \in Nat
    BY <2>1, QueueCounts
  <2> QED
    BY <2>1, <2>2 DEF ResultInv
<1>5. WaitingInv
  <2>1. Len(m_inputJpegQ) = 0 /\ proc_cmds = <<>> /\ <<>> \in Seq(ProcCmd)
    BY EmptySeq DEF Init
  <2>2. ProcDoNexts = Count(proc_cmds, "DO_NEXT")
    BY DEF ProcDoNexts, Count, PlacesOf
  <2>3. Count(proc_cmds, "DO_NEXT") \in Nat
    BY <2>1, QueueCounts
  <2> QED
    BY <2>1, <2>2, <2>3 DEF WaitingInv
<1>6. OwnInv
  <2>1. /\ is_active = FALSE /\ streaming = FALSE /\ hand = None
        /\ m_inputJpegQ = <<>> /\ Len(m_inputJpegQ) = 0 /\ Len(m_ongoingJpegQ) = 0
    BY DEF Init
  <2>2. Load = 0 /\ Coming = 0
    BY <2>1 DEF Load, Coming
  <2> QED
    BY <2>1, <2>2 DEF OwnInv
<1> QED
  BY <1>1, <1>2, <1>3, <1>4, <1>5, <1>6 DEF IInv

\* ... and every step keeps it.
LEMMA Invariance == Spec => []IInv
<1>1. ASSUME IInv, [Next]_vars PROVE IInv'
  BY <1>1, TypedKeeps, FramesKeep, LoadBound, ResultsKeep DEF IInv
<1>2. Init => IInv
  BY Start
<1> QED
  BY <1>1, <1>2, PTL DEF Spec

-----------------------------------------------------------------------------

\* Every variable has its type.  Above all a STOP is posted for once: another is sent
\* only when the last was answered and its answer taken.
THEOREM TypeCorrect == Spec => []TypeOK
<1>1. ASSUME IInv PROVE TypeOK
  <2>1. Typed
    BY <1>1 DEF IInv
  <2>2. NotifyCmds \subseteq NotifyCmd
    BY PostProcAssumption DEF NotifyCmds, NotifyCmd, ProcCmd, Picture
  <2>3. notify_cmds \in Seq(NotifyCmd)
    BY <2>1, <2>2, SeqMonotonic DEF Typed, NotifyTyped
  <2> QED
    BY <2>1, <2>3 DEF TypeOK, Typed, SmTyped, JobTyped, ProcTyped, NotifyTyped
<1> QED
  BY <1>1, Invariance, PTL

\* A frame handed to the postprocessor is in one of its queues until it is returned,
\* whatever is stopped, fails or comes late.
THEOREM FramesNeverLost == Spec => []FramesAccountedFor
<1>1. IInv => FramesAccountedFor
  BY DEF IInv, FramesInv
<1> QED
  BY <1>1, Invariance, PTL

\* A result has a command on its way that takes it out, whatever a STOP that overtakes
\* others has flushed.
THEOREM ResultsAreTaken == Spec => []NoResultStranded
<1>1. ASSUME IInv PROVE NoResultStranded
  <2>1. DoNexts = Count(notify_cmds, Result)
    BY <1>1, DoNextsCount DEF IInv, Typed, NotifyTyped, DoNexts, Result
  <2> QED
    BY <1>1, <2>1 DEF IInv, ResultInv, NoResultStranded
<1> QED
  BY <1>1, Invariance, PTL

\* While every picture has one frame, a frame that waits has a command on its way, and
\* only after a STOP that overtook a START may it have a job ahead of it instead.  Until
\* then the thread is active for one picture's frame only; and at most one frame is left
\* of the picture before, so that the end of a job sends as many commands as there can
\* be frames behind it.
THEOREM NothingIsStranded == NumSnapshots = 1 => (Spec => []NothingStranded)
<1> SUFFICES ASSUME NumSnapshots = 1 PROVE Spec => []NothingStranded
  OBVIOUS
<1>1. Init => WaitingInv /\ OwnInv
  BY Start
<1>2. IInv /\ WaitingInv /\ OwnInv /\ [Next]_vars => WaitingInv' /\ OwnInv'
  BY WaitingKeeps, OwnKeeps DEF IInv
<1>3. ASSUME IInv, WaitingInv, OwnInv PROVE NoFrameStranded
  <2>1. Typed /\ LoadInv
    BY <1>3 DEF IInv
  <2>2. ASSUME m_inputJpegQ # <<>>, ~JobAhead
        PROVE  "DO_NEXT" \in Elems(proc_cmds)
    <3>1. Len(m_inputJpegQ) >= 1 /\ Len(m_inputJpegQ) \in Nat /\ ProcDoNexts \in Nat
      BY <2>1, <2>2, Lengths, ProcCounts
    <3>2. Len(m_inputJpegQ) <= ProcDoNexts
      BY <1>3, <2>2 DEF WaitingInv, JobAhead
    <3> QED
      BY <2>1, <3>1, <3>2, ProcCounts
  <2>3. ASSUME m_inputJpegQ # <<>>, JobAhead PROVE overtaken
    <3>1. /\ Len(m_inputJpegQ) >= 1 /\ Len(m_inputJpegQ) \in Nat /\ Len(m_ongoingJpegQ) \in Nat
          /\ m_ongoingJpegQ # <<>> => Len(m_ongoingJpegQ) # 0
      BY <2>1, <2>3, Lengths
    <3>2. Load >= 2 /\ Load # Len(m_inputJpegQ)
      BY <2>3, <3>1 DEF Load, JobAhead
    <3>3. Coming \in {0, 1}
      BY <2>1 DEF Coming, Typed, SmTyped
    <3>4. Load \in Nat /\ is_active \in BOOLEAN /\ overtaken \in BOOLEAN
      BY <2>1, <3>1 DEF Load, Typed, ProcTyped
    <3> QED
      BY <1>3, <3>2, <3>3, <3>4 DEF OwnInv
  <2> QED
    BY <2>2, <2>3 DEF NoFrameStranded
<1>4. IInv /\ WaitingInv /\ OwnInv => NoFrameStranded
  BY <1>3
<1>5. Spec => []NoFrameStranded
  BY <1>1, <1>2, <1>4, Invariance, PTL DEF Spec
<1>6. NoResultStranded /\ NoFrameStranded => NothingStranded
  BY DEF NothingStranded
<1> QED
  BY <1>5, <1>6, ResultsAreTaken, PTL
==============================================================================
