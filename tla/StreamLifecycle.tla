---------------------------- MODULE StreamLifecycle ----------------------------
(***************************************************************************)
(* One life of a channel with its streams: QCameraChannel and QCameraStream *)
(* of the HAL on mm_camera_channel.c and mm_camera_stream.c of the stack,    *)
(* with all their threads.  A stream's frames are read by the poll thread    *)
(* (PollThread) and go through the stream's command thread to the HAL's      *)
(* thread of that stream; those of a bundled channel also through the        *)
(* channel's command thread, which makes super buffers of them, and the      *)
(* callback thread.  Who has a frame returns it by a qbuf that takes no      *)
(* channel lock.                                                             *)
(*                                                                           *)
(* Which frames make a super buffer is left open (SuperbufQueue says which). *)
(* The kernel, the display, the encoder and the application are external: a  *)
(* frame that was handed on is "held" and may be returned at any time.       *)
(* What is done with memory that was freed is undefined and not a step, and  *)
(* nothing is modelled of a channel that was deleted but its threads.        *)
(*                                                                           *)
(* One step is what a thread does between two points at which it waits or    *)
(* gives up a lock; what the call under ch_lock does to a stream no other    *)
(* thread reads meanwhile is one step.                                       *)
(***************************************************************************)
EXTENDS PollThread

CONSTANTS
    Kinds,        \* channels to look at: "zsl", "capture", "video"
    Bufs,         \* buffers of a stream, numbers from 1 ...
    BundleBufs,   \* ... and those of a stream in a bundle
    InitialReg,   \* sets of buffers that initial_reg_flag may name
    MaxStarts,    \* bound on the starts of the channel
    Faults        \* what may fail: "add", "get", "reg", "on", "put"

ASSUME StreamAssumption ==
    /\ Kinds \subseteq {"zsl", "capture", "video"}
    /\ Kinds \subseteq {"video"} \/ MaxStreams >= 2
    /\ Bufs \subseteq Nat \ {0} /\ IsFiniteSet(Bufs)
    /\ BundleBufs \subseteq Bufs
    /\ InitialReg \subseteq SUBSET Bufs
    /\ MaxStarts \in Nat
    /\ Faults \subseteq {"add", "get", "reg", "on", "put"}

VARIABLES
    kind,          \* the channel: bundled with two streams, not bundled with
                   \* two, or with one that may be started again
    ch,            \* MM_CHANNEL_STATE_* of the channel, and "deleted"
    state,         \* MM_STREAM_STATE_* of a stream
    allocated,     \* streams whose buf and buf_status are there
    buf_refcnt,
    kernel,        \* buffers the kernel has to fill
    streaming,     \* streams that are on
    hal,           \* the call the HAL's state machine thread is in
    starts,        \* number of starts so far
    cb,            \* the stream the poll thread calls, and the frame it read
    strQ, strT,    \* queue and state of a stream's command thread
    chQ, chT,      \* of the channel's command thread
    matching,      \* frames in the super buffer queue
    cbQ, cbT,      \* of the channel's callback thread
    mDataQ,        \* frames for the HAL's thread of a stream ...
    jobs, exits,   \* ... the commands in its queue, EXIT coming first
    cmd_pid,       \* the thread of a stream that was launched last
    procs, procBuf,\* what a thread is at, and the frame it has
    held,          \* frames that were handed on
    returning,     \* frames whose qbuf has seen an active stream
    upsets         \* which of the events that break promises there were

bufVars    == <<state, allocated, buf_refcnt, kernel, streaming>>
strVars    == <<strQ, strT>>
bundleVars == <<chQ, chT, matching, cbQ, cbT>>
procVars   == <<mDataQ, jobs, exits, cmd_pid, procs, procBuf>>
vars == <<pollVars, kind, ch, bufVars, hal, starts, cb, strVars, bundleVars, procVars,
          held, returning, upsets>>

Stream == IF kind = "video" THEN {1} ELSE {1, 2}
Last   == IF kind = "video" THEN 1 ELSE 2
Bundled == kind = "zsl"
Thread == 1 .. MaxStarts
None   == 0
Idle   == [op |-> "none", pc |-> "none", i |-> 0, last |-> 0]

NoStream == [i |-> None, b |-> None]

Elems(s) == {s[n] : n \in DOMAIN s}
Buf     == IF Bundled THEN BundleBufs ELSE Bufs
AllBufs(n) == [b \in Bufs |-> n]

Init ==
    /\ PollInit
    /\ kind \in Kinds
    /\ ch = "NOTUSED"
    /\ state = [i \in Index |-> "NOTUSED"]
    /\ allocated = {} /\ streaming = {}
    /\ buf_refcnt = [i \in Index |-> AllBufs(0)]
    /\ kernel = [i \in Index |-> {}]
    /\ hal = Idle /\ starts = 0
    /\ cb = NoStream
    /\ strQ = [i \in Index |-> <<>>] /\ strT = [i \in Index |-> "none"]
    /\ chQ = <<>> /\ chT = "none" /\ matching = {} /\ cbQ = <<>> /\ cbT = "none"
    /\ mDataQ = [i \in Index |-> <<>>]
    /\ jobs = [i \in Index |-> 0] /\ exits = [i \in Index |-> 0]
    /\ cmd_pid = [i \in Index |-> None]
    /\ procs = [i \in Index |-> [k \in Thread |-> "none"]]
    /\ procBuf = [i \in Index |-> [k \in Thread |-> None]]
    /\ held = {} /\ returning = {} /\ upsets = {}

\* Where the HAL's call is, and where it goes on.
At(pc)        == hal.pc = pc
Goto(pc)      == hal' = [hal EXCEPT !.pc = pc]
GotoNext(pc)  == hal' = [hal EXCEPT !.pc = pc, !.i = @ + 1]
CallReturns   == hal' = Idle
SigDone       == ~sig_wait

\* An event a stream's state does not know is answered OK and does nothing.
InState(i, s) == state[i] = s
Become(i, s)  == state' = [state EXCEPT ![i] = s]

-----------------------------------------------------------------------------
(* Adding the channel and its streams                                        *)

AddChannel ==
    /\ hal = Idle /\ ch = "NOTUSED"
    /\ LaunchPoll
    /\ hal' = [Idle EXCEPT !.op = "add", !.pc = "launch"]
    /\ UNCHANGED <<kind, ch, bufVars, starts, cb, strVars, bundleVars, procVars, held,
                   returning, upsets>>

ChannelAdded ==
    /\ At("launch") /\ SigDone
    /\ ch' = "STOPPED"
    /\ hal' = [hal EXCEPT !.pc = "acquire", !.i = 1]
    /\ UNCHANGED <<pollVars, kind, bufVars, starts, cb, strVars, bundleVars, procVars, held,
                   returning, upsets>>

\* QCameraStream::init(): add_stream(), then config_stream(), and the stream is
\* deleted again if that fails.  A HAL that cannot add a stream deletes the
\* channel.
AcquireStream ==
    /\ At("acquire")
    /\ \/ /\ Become(hal.i, "ACQUIRED")
          /\ Goto("config")
       \/ /\ "add" \in Faults
          /\ Goto("delete")
          /\ UNCHANGED state
    /\ UNCHANGED <<pollVars, kind, ch, allocated, buf_refcnt, kernel, streaming, starts, cb,
                   strVars, bundleVars, procVars, held, returning, upsets>>

ConfigStream ==
    /\ At("config")
    /\ \/ /\ Become(hal.i, "CFG")
          /\ IF hal.i = Last THEN CallReturns ELSE GotoNext("acquire")
       \/ /\ "add" \in Faults
          /\ Become(hal.i, "NOTUSED")
          /\ Goto("delete")
    /\ UNCHANGED <<pollVars, kind, ch, allocated, buf_refcnt, kernel, streaming, starts, cb,
                   strVars, bundleVars, procVars, held, returning, upsets>>

-----------------------------------------------------------------------------
(* Starting: QCameraChannel::start() and mm_channel_start()                  *)

\* The HAL's threads are launched, then the bundle's; nobody joins those that
\* an earlier start left, which may have a frame of it.
StartChannel ==
    /\ hal = Idle /\ ch = "STOPPED"
    /\ starts < MaxStarts
    /\ starts = 0 \/ kind = "video"
    /\ starts' = starts + 1
    /\ cmd_pid' = [i \in Index |-> IF i \in Stream THEN starts' ELSE None]
    /\ procs' = [i \in Index |->
                    IF i \in Stream THEN [procs[i] EXCEPT ![starts'] = "wait"] ELSE procs[i]]
    /\ IF Bundled
       THEN chT' = "run" /\ cbT' = "run"
       ELSE UNCHANGED <<chT, cbT>>
    /\ hal' = [op |-> "start", pc |-> "get", i |-> 1, last |-> Last]
    /\ upsets' = IF \E i \in Stream : \E k \in Thread : procBuf[i][k] # None
                 THEN upsets \cup {"stale"} ELSE upsets
    /\ UNCHANGED <<pollVars, kind, ch, bufVars, cb, strVars, chQ, matching, cbQ, mDataQ,
                   jobs, exits, procBuf, held, returning>>

\* The start fails at a stream: those up to it are stopped and unregistered.
Undo == hal' = [op |-> "undo", pc |-> "stop", i |-> 1, last |-> hal.i]

\* MM_STREAM_EVT_GET_BUF
GetBuf ==
    /\ At("get")
    /\ \/ /\ InState(hal.i, "CFG")
          /\ Become(hal.i, "BUFFED")
          /\ allocated' = allocated \cup {hal.i}
          /\ buf_refcnt' = [buf_refcnt EXCEPT ![hal.i] = AllBufs(0)]
          /\ Goto("reg")
       \/ /\ InState(hal.i, "CFG")
          /\ "get" \in Faults
          /\ Undo
          /\ UNCHANGED <<state, allocated, buf_refcnt>>
       \/ /\ ~InState(hal.i, "CFG")
          /\ Goto("reg")
          /\ UNCHANGED <<state, allocated, buf_refcnt>>
    /\ UNCHANGED <<pollVars, kind, ch, kernel, streaming, starts, cb, strVars, bundleVars,
                   procVars, held, returning, upsets>>

\* MM_STREAM_EVT_REG_BUF: a buffer is queued, or held by the upper layer.  It
\* may fail at any buffer or before the first.
RegBuf ==
    /\ At("reg")
    /\ hal.i \in allocated
    /\ \E R \in {S \cap Buf : S \in InitialReg} :
          \/ /\ Become(hal.i, "REG")
             /\ kernel' = [kernel EXCEPT ![hal.i] = R]
             /\ buf_refcnt' = [buf_refcnt EXCEPT ![hal.i] =
                                  [b \in Bufs |-> IF b \in Buf \ R THEN 1 ELSE 0]]
             /\ Goto("start")
             /\ UNCHANGED upsets
          \/ /\ "reg" \in Faults
             /\ \E failed \in R \cup {0} :
                   /\ kernel' = [kernel EXCEPT ![hal.i] = {b \in R : b < failed}]
                   /\ buf_refcnt' = [buf_refcnt EXCEPT ![hal.i] =
                                        [b \in Bufs |-> IF b \in Buf \ R /\ b < failed
                                                        THEN 1 ELSE 0]]
             /\ upsets' = upsets \cup {"reg"}
             /\ Undo
             /\ UNCHANGED state
    /\ UNCHANGED <<pollVars, kind, ch, allocated, streaming, starts, cb, strVars, bundleVars,
                   procVars, held, returning>>

\* MM_STREAM_EVT_START: the command thread, the poll entry, VIDIOC_STREAMON.
StartStream ==
    /\ At("start")
    /\ strT' = [strT EXCEPT ![hal.i] = "run"]
    /\ AddPollFd(hal.i)
    /\ Goto("added")
    /\ UNCHANGED <<kind, ch, bufVars, starts, cb, strQ, bundleVars, procVars, held,
                   returning, upsets>>

StreamOn ==
    /\ At("added") /\ SigDone
    /\ streaming' = streaming \cup {hal.i}
    /\ Goto("on")
    /\ UNCHANGED <<pollVars, kind, ch, state, allocated, buf_refcnt, kernel, starts, cb,
                   strVars, bundleVars, procVars, held, returning, upsets>>

\* From now on the display may give back, for a frame, what it holds already.
Held(path, i, b) == [path |-> path, i |-> i, b |-> b, start |-> starts]
StreamActive ==
    /\ At("on")
    /\ Become(hal.i, "ACTIVE")
    /\ held' = held \cup {Held("stream", hal.i, b) : b \in {c \in Bufs : buf_refcnt[hal.i][c] > 0}}
    /\ IF hal.i = hal.last
       THEN CallReturns /\ ch' = "ACTIVE"
       ELSE GotoNext("get") /\ UNCHANGED ch
    /\ UNCHANGED <<pollVars, kind, allocated, buf_refcnt, kernel, streaming, starts, cb,
                   strVars, bundleVars, procVars, returning, upsets>>

\* VIDIOC_STREAMON fails: the poll entry goes, then the command thread.
StreamOnFails ==
    /\ At("added") /\ SigDone
    /\ "on" \in Faults
    /\ DelPollFd(hal.i)
    /\ Goto("notadded")
    /\ UNCHANGED <<kind, ch, bufVars, starts, cb, strVars, bundleVars, procVars, held,
                   returning, upsets>>

ReleaseStrT ==
    /\ At("notadded") /\ SigDone
    /\ strT' = [strT EXCEPT ![hal.i] = "exiting"]
    /\ Goto("joinfailed")
    /\ UNCHANGED <<pollVars, kind, ch, bufVars, starts, cb, strQ, bundleVars, procVars, held,
                   returning, upsets>>

StartFails ==
    /\ At("joinfailed")
    /\ strT[hal.i] = "none"
    /\ Undo
    /\ UNCHANGED <<pollVars, kind, ch, bufVars, starts, cb, strVars, bundleVars, procVars,
                   held, returning, upsets>>

Start == \/ GetBuf \/ RegBuf \/ StartStream \/ StreamOn \/ StreamActive
         \/ StreamOnFails \/ ReleaseStrT \/ StartFails

-----------------------------------------------------------------------------
(* Stopping: mm_channel_stop(), the cleaning up of mm_channel_start(), and    *)
(* QCameraChannel::stop()                                                    *)

\* The stack stops a channel that is active; the HAL's threads exit anyway.
StopChannel ==
    /\ hal = Idle /\ ch \in {"STOPPED", "ACTIVE"} /\ starts > 0
    /\ hal' = [op |-> "stop", pc |-> IF ch = "ACTIVE" THEN "stop" ELSE "exit", i |-> 1,
               last |-> Last]
    /\ UNCHANGED <<pollVars, kind, ch, bufVars, starts, cb, strVars, bundleVars, procVars,
                   held, returning, upsets>>

\* MM_STREAM_EVT_STOP of an active stream: the poll entry, VIDIOC_STREAMOFF,
\* the command thread, which has first to empty its queue.
StopStream ==
    /\ At("stop")
    /\ IF InState(hal.i, "ACTIVE")
       THEN DelPollFd(hal.i) /\ Goto("off")
       ELSE UNCHANGED pollVars /\ Goto("unreg")
    /\ UNCHANGED <<kind, ch, bufVars, starts, cb, strVars, bundleVars, procVars, held,
                   returning, upsets>>

\* Mutant: the poll thread is not waited for.
StreamOffAtOnce ==
    /\ At("off")
    /\ streaming' = streaming \ {hal.i}
    /\ kernel' = [kernel EXCEPT ![hal.i] = {}]
    /\ strT' = [strT EXCEPT ![hal.i] = "exiting"]
    /\ Goto("join")
    /\ UNCHANGED <<pollVars, kind, ch, state, allocated, buf_refcnt, starts, cb, strQ,
                   bundleVars, procVars, held, returning, upsets>>

StreamOff ==
    /\ At("off") /\ SigDone
    /\ streaming' = streaming \ {hal.i}
    /\ kernel' = [kernel EXCEPT ![hal.i] = {}]
    /\ strT' = [strT EXCEPT ![hal.i] = "exiting"]
    /\ Goto("join")
    /\ UNCHANGED <<pollVars, kind, ch, state, allocated, buf_refcnt, starts, cb, strQ,
                   bundleVars, procVars, held, returning, upsets>>

StreamStopped ==
    /\ At("join")
    /\ strT[hal.i] = "none"
    /\ Become(hal.i, "REG")
    /\ Goto("unreg")
    /\ UNCHANGED <<pollVars, kind, ch, allocated, buf_refcnt, kernel, streaming, starts, cb,
                   strVars, bundleVars, procVars, held, returning, upsets>>

\* MM_STREAM_EVT_UNREG_BUF, which only a registered stream knows.
UnregBuf ==
    /\ At("unreg")
    /\ IF InState(hal.i, "REG")
       THEN /\ Become(hal.i, "BUFFED")
            /\ buf_refcnt' = [buf_refcnt EXCEPT ![hal.i] = AllBufs(0)]
            /\ kernel' = [kernel EXCEPT ![hal.i] = {}]
       ELSE UNCHANGED <<state, buf_refcnt, kernel>>
    /\ CASE hal.op = "undo"     -> Goto("putone")
         [] hal.op = "stop" /\ hal.i < hal.last -> GotoNext("stop")
         [] hal.op = "stop" /\ hal.i = hal.last -> Goto("bundle")
    /\ UNCHANGED <<pollVars, kind, ch, allocated, streaming, starts, cb, strVars, bundleVars,
                   procVars, held, returning, upsets>>

\* MM_STREAM_EVT_PUT_BUF gives the buffers of the streams in S back; of those
\* in failed it could not be undone completely, and they stay as they are.
PutBuf(S, failed) ==
    LET put == {i \in S : InState(i, "BUFFED")}
    IN  /\ failed \subseteq put
        /\ failed # {} => "put" \in Faults
        /\ allocated' = allocated \ put
        /\ state' = [i \in Index |-> IF i \in put \ failed THEN "CFG" ELSE state[i]]
        /\ upsets' = upsets \cup (IF failed # {} THEN {"put"} ELSE {})
                            \cup (IF hal.op = "undo" THEN {"start"} ELSE {})

\* The last of a start that failed; the bundle's threads are not stopped.
StreamUndone ==
    /\ At("putone")
    /\ \E failed \in SUBSET {hal.i} :
          IF hal.i < hal.last
          THEN PutBuf({hal.i}, failed) /\ GotoNext("stop")
          ELSE /\ PutBuf({hal.i}, failed)
               /\ CallReturns
    /\ UNCHANGED <<pollVars, kind, ch, buf_refcnt, kernel, streaming, starts, cb, strVars,
                   bundleVars, procVars, held, returning>>

StopCmdThread ==
    /\ At("bundle")
    /\ IF Bundled
       THEN chT' = "exiting" /\ Goto("joincmd")
       ELSE UNCHANGED chT /\ Goto("put")
    /\ UNCHANGED <<pollVars, kind, ch, bufVars, starts, cb, strVars, chQ, matching, cbQ, cbT,
                   procVars, held, returning, upsets>>

StopCbThread ==
    /\ At("joincmd") /\ chT = "none"
    /\ cbT' = "exiting"
    /\ Goto("joincb")
    /\ UNCHANGED <<pollVars, kind, ch, bufVars, starts, cb, strVars, chQ, chT, matching, cbQ,
                   procVars, held, returning, upsets>>

BundleStopped ==
    /\ At("joincb") /\ cbT = "none"
    /\ matching' = {}
    /\ Goto("put")
    /\ UNCHANGED <<pollVars, kind, ch, bufVars, starts, cb, strVars, chQ, chT, cbQ, cbT,
                   procVars, held, returning, upsets>>

\* All streams are stopped: their buffers are given back.
PutBufs ==
    /\ At("put")
    /\ \E failed \in SUBSET Stream : PutBuf(Stream, failed)
    /\ ch' = "STOPPED"
    /\ hal' = [hal EXCEPT !.pc = "exit", !.i = 1]
    /\ UNCHANGED <<pollVars, kind, buf_refcnt, kernel, streaming, starts, cb, strVars,
                   bundleVars, procVars, held, returning>>

\* QCameraStream::stop(): mProcTh.exit(), of a thread that was launched.
NextStream == IF hal.i = hal.last THEN CallReturns ELSE GotoNext("exit")
\* Mutant: the thread is told to exit and not joined.
ExitProcUnjoined ==
    /\ At("exit")
    /\ NextStream
    /\ exits' = IF cmd_pid[hal.i] = None THEN exits ELSE [exits EXCEPT ![hal.i] = @ + 1]
    /\ UNCHANGED <<pollVars, kind, ch, bufVars, starts, cb, strVars, bundleVars, mDataQ, jobs,
                   cmd_pid, procs, procBuf, held, returning, upsets>>

ExitProc ==
    /\ At("exit")
    /\ IF cmd_pid[hal.i] = None
       THEN NextStream /\ UNCHANGED exits
       ELSE exits' = [exits EXCEPT ![hal.i] = @ + 1] /\ Goto("joinproc")
    /\ UNCHANGED <<pollVars, kind, ch, bufVars, starts, cb, strVars, bundleVars, mDataQ, jobs,
                   cmd_pid, procs, procBuf, held, returning, upsets>>

ProcJoined ==
    /\ At("joinproc")
    /\ procs[hal.i][cmd_pid[hal.i]] = "gone"
    /\ cmd_pid' = [cmd_pid EXCEPT ![hal.i] = None]
    /\ NextStream
    /\ UNCHANGED <<pollVars, kind, ch, bufVars, starts, cb, strVars, bundleVars, mDataQ, jobs,
                   exits, procs, procBuf, held, returning, upsets>>

Stop == \/ StopStream \/ StreamOff \/ StreamStopped \/ UnregBuf \/ StreamUndone
        \/ StopCmdThread \/ StopCbThread \/ BundleStopped \/ PutBufs
        \/ ExitProc \/ ProcJoined

-----------------------------------------------------------------------------
(* Deleting: ~QCameraChannel()                                               *)

\* The streams are deleted, MM_STREAM_EVT_RELEASE, then the channel.
DeleteStreams ==
    state' = [i \in Index |-> IF state[i] \in {"ACQUIRED", "CFG"} THEN "NOTUSED" ELSE state[i]]

Delete ==
    /\ DeleteStreams
    /\ ReleasePoll
    /\ IF poll_state = "STOPPED"
       THEN CallReturns /\ ch' = "deleted" /\ upsets' = upsets \cup {"abandoned"}
       ELSE /\ hal' = [Idle EXCEPT !.op = "delete", !.pc = "release"]
            /\ UNCHANGED <<ch, upsets>>
    /\ UNCHANGED <<kind, allocated, buf_refcnt, kernel, streaming, starts, cb, strVars,
                   bundleVars, procVars, held, returning>>

DeleteChannel   == hal = Idle /\ ch = "STOPPED" /\ Delete
DeleteUnstarted == At("delete") /\ Delete

\* The poll thread has been joined.
ChannelDeleted ==
    /\ At("release") /\ SigDone /\ poll_pc = "gone"
    /\ ch' = "deleted"
    /\ CallReturns
    /\ UNCHANGED <<pollVars, kind, bufVars, starts, cb, strVars, bundleVars, procVars, held,
                   returning, upsets>>

CallContinues == \/ ChannelAdded \/ AcquireStream \/ ConfigStream
                 \/ Start \/ Stop \/ DeleteUnstarted \/ ChannelDeleted

-----------------------------------------------------------------------------
(* The poll thread: mm_stream_data_notify()                                  *)

PollAt(pc)   == poll_pc = pc
PollGoto(pc) == /\ poll_pc' = pc
                /\ UNCHANGED <<poll_entries, poll_fds, pipe, poll_state, ready, sig_wait>>
CbVars == <<kind, ch, hal, starts, procVars, held, returning, upsets>>

Poll ==
    /\ PollLoop \/ PollData({i \in streaming : kernel[i] # {}})
    /\ UNCHANGED <<CbVars, bufVars, cb, strVars, bundleVars>>

CallStream ==
    /\ Scan
    /\ cb' = [i |-> IF poll_pc' = "notify" THEN NextReady ELSE None, b |-> None]
    /\ UNCHANGED <<CbVars, bufVars, strVars, bundleVars>>

\* The state is looked at without a lock ...
CheckState ==
    /\ PollAt("notify")
    /\ IF InState(cb.i, "ACTIVE")
       THEN PollGoto("read") /\ UNCHANGED cb
       ELSE PollGoto("scan") /\ cb' = NoStream
    /\ UNCHANGED <<CbVars, bufVars, strVars, bundleVars>>

\* Mutant: the super buffer queue has no reference of its own.
OneReference == 1

\* ... VIDIOC_DQBUF and the references come under buf_lock ...
References == IF Bundled THEN 2 ELSE 1
ReadFrame ==
    /\ PollAt("read")
    /\ IF kernel[cb.i] = {}
       THEN PollGoto("scan") /\ cb' = NoStream /\ UNCHANGED <<kernel, buf_refcnt>>
       ELSE \E b \in kernel[cb.i] :
               /\ kernel' = [kernel EXCEPT ![cb.i] = @ \ {b}]
               /\ buf_refcnt' = [buf_refcnt EXCEPT ![cb.i][b] = @ + References]
               /\ cb' = [cb EXCEPT !.b = b]
               /\ PollGoto("queue")
    /\ UNCHANGED <<CbVars, state, allocated, streaming, strVars, bundleVars>>

\* ... and mm_stream_handle_rcvd_buf() after it.
QueueFrame ==
    /\ PollAt("queue")
    /\ chQ' = IF Bundled THEN Append(chQ, <<cb.i, cb.b>>) ELSE chQ
    /\ strQ' = [strQ EXCEPT ![cb.i] = Append(@, cb.b)]
    /\ cb' = NoStream
    /\ PollGoto("scan")
    /\ UNCHANGED <<CbVars, bufVars, strT, chT, matching, cbQ, cbT>>

PollThreadSteps == Poll \/ CallStream \/ CheckState \/ ReadFrame \/ QueueFrame

-----------------------------------------------------------------------------
(* The command threads, mm_camera_cmd_thread()                               *)

ThreadVars == <<pollVars, kind, ch, hal, starts, cb, upsets>>

\* Mutant: the thread is only woken for a queue that was empty.
DispatchAppDataToEmpty(i) ==
    /\ strT[i] # "none" /\ strQ[i] # <<>>
    /\ strQ' = [strQ EXCEPT ![i] = Tail(@)]
    /\ mDataQ' = [mDataQ EXCEPT ![i] = Append(@, Head(strQ[i]))]
    /\ jobs' = IF mDataQ[i] = <<>> THEN [jobs EXCEPT ![i] = @ + 1] ELSE jobs
    /\ UNCHANGED <<ThreadVars, bufVars, strT, bundleVars, exits, cmd_pid, procs, procBuf,
                   held, returning>>

\* mm_stream_dispatch_app_data() calls QCameraStream::dataNotifyCB().
DispatchAppData(i) ==
    /\ strT[i] # "none" /\ strQ[i] # <<>>
    /\ strQ' = [strQ EXCEPT ![i] = Tail(@)]
    /\ mDataQ' = [mDataQ EXCEPT ![i] = Append(@, Head(strQ[i]))]
    /\ jobs' = [jobs EXCEPT ![i] = @ + 1]
    /\ UNCHANGED <<ThreadVars, bufVars, strT, bundleVars, exits, cmd_pid, procs, procBuf,
                   held, returning>>

StrExits(i) ==
    /\ strT[i] = "exiting" /\ strQ[i] = <<>>
    /\ strT' = [strT EXCEPT ![i] = "none"]
    /\ UNCHANGED <<ThreadVars, bufVars, strQ, bundleVars, procVars, held, returning>>

\* Mutant: the count is taken down unseen.
BufDoneUnchecked(i, b) ==
    /\ buf_refcnt' = [buf_refcnt EXCEPT ![i][b] = @ - 1]
    /\ kernel' = IF buf_refcnt[i][b] = 1 THEN [kernel EXCEPT ![i] = @ \cup {b}] ELSE kernel

\* mm_stream_buf_done() of an active stream: the last reference gone, the
\* buffer is the kernel's.
BufDone(i, b) ==
    IF buf_refcnt[i][b] = 0
    THEN UNCHANGED <<buf_refcnt, kernel>>
    ELSE /\ buf_refcnt' = [buf_refcnt EXCEPT ![i][b] = @ - 1]
         /\ kernel' = IF buf_refcnt[i][b] = 1
                      THEN [kernel EXCEPT ![i] = @ \cup {b}] ELSE kernel

\* mm_channel_process_stream_buf(): a frame is queued; some frame may then be
\* returned, or a frame of every stream be passed on.
Unused(M) ==
    \E f \in M : /\ matching' = M \ {f}
                 /\ IF InState(f[1], "ACTIVE")
                    THEN BufDone(f[1], f[2])
                    ELSE UNCHANGED <<buf_refcnt, kernel>>
                 /\ UNCHANGED cbQ
SuperBuf(M) ==
    \E s \in [Stream -> Buf] :
        /\ \A i \in Stream : <<i, s[i]>> \in M
        /\ matching' = M \ {<<i, s[i]>> : i \in Stream}
        /\ cbQ' = Append(cbQ, s)
        /\ UNCHANGED <<buf_refcnt, kernel>>
Kept(M) == matching' = M /\ UNCHANGED <<buf_refcnt, kernel, cbQ>>

ProcessStreamBuf ==
    /\ chT # "none" /\ chQ # <<>>
    /\ chQ' = Tail(chQ)
    /\ LET M == matching \cup {Head(chQ)} IN Unused(M) \/ SuperBuf(M) \/ Kept(M)
    /\ UNCHANGED <<ThreadVars, state, allocated, streaming, strVars, chT, cbT, procVars, held,
                   returning>>

\* A request for super buffers has the same thread pass one on.
ServeRequest ==
    /\ chT = "run"
    /\ SuperBuf(matching)
    /\ UNCHANGED <<ThreadVars, state, allocated, streaming, strVars, chQ, chT, cbT, procVars,
                   held, returning>>

CmdExits ==
    /\ chT = "exiting" /\ chQ = <<>>
    /\ chT' = "none"
    /\ UNCHANGED <<ThreadVars, bufVars, strVars, chQ, matching, cbQ, cbT, procVars, held,
                   returning>>

\* mm_channel_dispatch_super_buf(): the HAL has the frames.
DispatchSuperBuf ==
    /\ cbT # "none" /\ cbQ # <<>>
    /\ cbQ' = Tail(cbQ)
    /\ held' = held \cup {Held("super", i, Head(cbQ)[i]) : i \in Stream}
    /\ UNCHANGED <<ThreadVars, bufVars, strVars, chQ, chT, matching, cbT, procVars, returning>>

CbExits ==
    /\ cbT = "exiting" /\ cbQ = <<>>
    /\ cbT' = "none"
    /\ UNCHANGED <<ThreadVars, bufVars, strVars, chQ, chT, matching, cbQ, procVars, held,
                   returning>>

Bundle == ProcessStreamBuf \/ CmdExits \/ DispatchSuperBuf \/ CbExits

-----------------------------------------------------------------------------
(* The HAL's thread of a stream, QCameraStream::dataProcRoutine()            *)

TakeFrame(i, k) ==
    /\ procs[i][k] = "wait" /\ exits[i] = 0 /\ jobs[i] > 0
    /\ jobs' = [jobs EXCEPT ![i] = @ - 1]
    /\ IF mDataQ[i] = <<>>
       THEN UNCHANGED <<mDataQ, procs, procBuf>>
       ELSE /\ mDataQ' = [mDataQ EXCEPT ![i] = Tail(@)]
            /\ procs' = [procs EXCEPT ![i][k] = "busy"]
            /\ procBuf' = [procBuf EXCEPT ![i][k] = Head(mDataQ[i])]
    /\ UNCHANGED <<ThreadVars, bufVars, strVars, bundleVars, exits, cmd_pid, held, returning>>

\* The callback mDataCB() hands the frame on, unless its memory is gone.
FrameDone(i, k) ==
    /\ procs[i][k] = "busy"
    /\ procs' = [procs EXCEPT ![i][k] = "wait"]
    /\ procBuf' = [procBuf EXCEPT ![i][k] = None]
    /\ held' = IF i \in allocated THEN held \cup {Held("stream", i, procBuf[i][k])} ELSE held
    /\ UNCHANGED <<ThreadVars, bufVars, strVars, bundleVars, mDataQ, jobs, exits, cmd_pid,
                   returning>>

\* EXIT, which was queued first: the frames are forgotten, the commands stay.
ProcExits(i, k) ==
    /\ procs[i][k] = "wait" /\ exits[i] > 0
    /\ exits' = [exits EXCEPT ![i] = @ - 1]
    /\ mDataQ' = [mDataQ EXCEPT ![i] = <<>>]
    /\ procs' = [procs EXCEPT ![i][k] = "gone"]
    /\ UNCHANGED <<ThreadVars, bufVars, strVars, bundleVars, jobs, cmd_pid, procBuf, held,
                   returning>>

Proc(i, k) == TakeFrame(i, k) \/ FrameDone(i, k) \/ ProcExits(i, k)

-----------------------------------------------------------------------------
(* Returning a frame, mm_camera_qbuf(): without ch_lock                      *)

\* The stream's state is looked at: only an active stream knows the event ...
Qbuf(f) ==
    /\ f \in held
    /\ ch # "deleted"
    /\ held' = held \ {f}
    /\ returning' = IF InState(f.i, "ACTIVE") THEN returning \cup {f} ELSE returning
    /\ UNCHANGED <<ThreadVars, bufVars, strVars, bundleVars, procVars>>

\* ... and then buf_lock taken.
QbufEnds(f) ==
    /\ f \in returning
    /\ f.i \in allocated
    /\ returning' = returning \ {f}
    /\ BufDone(f.i, f.b)
    /\ upsets' = IF f.start # starts THEN upsets \cup {"stale"} ELSE upsets
    /\ UNCHANGED <<pollVars, kind, ch, hal, starts, cb, state, allocated, streaming, strVars,
                   bundleVars, procVars, held>>

ReturnFrame(i, b) ==
    \E f \in {g \in held \cup returning : g.i = i /\ g.b = b} : Qbuf(f) \/ QbufEnds(f)

-----------------------------------------------------------------------------
Next == \/ AddChannel \/ StartChannel \/ StopChannel \/ DeleteChannel
        \/ CallContinues
        \/ PollThreadSteps
        \/ \E i \in Index : DispatchAppData(i) \/ StrExits(i)
        \/ \E i \in Index, k \in Thread : Proc(i, k)
        \/ Bundle \/ ServeRequest
        \/ \E i \in Index, b \in Bufs : ReturnFrame(i, b)

Spec == Init /\ [][Next]_vars

\* Every thread that can go on does, and who holds a frame returns it.
Fairness ==
    /\ WF_vars(CallContinues)
    /\ WF_vars(PollThreadSteps)
    /\ WF_vars(Bundle)
    /\ \A i \in Index : WF_vars(DispatchAppData(i) \/ StrExits(i))
    /\ \A i \in Index, k \in Thread : WF_vars(Proc(i, k))
    /\ \A i \in Index, b \in Bufs : WF_vars(ReturnFrame(i, b))

FairSpec == Spec /\ Fairness

-----------------------------------------------------------------------------
(* Properties                                                                *)

Frame == [path : {"stream", "super"}, i : Index, b : Bufs, start : Thread]
CallPcs == {"none", "launch", "acquire", "config", "delete", "get", "reg", "start", "added", "on",
            "notadded", "joinfailed", "stop", "off", "join", "unreg", "putone", "bundle",
            "joincmd", "joincb", "put", "exit", "joinproc", "release"}
\* Every variable has its type.
TypeOK ==
    /\ PollTypeOK
    /\ kind \in Kinds /\ ch \in {"NOTUSED", "STOPPED", "ACTIVE", "deleted"}
    /\ state \in [Index -> {"NOTUSED", "ACQUIRED", "CFG", "BUFFED", "REG", "ACTIVE"}]
    /\ allocated \subseteq Index /\ streaming \subseteq Index
    /\ buf_refcnt \in [Index -> [Bufs -> 0 .. 2]]
    /\ kernel \in [Index -> SUBSET Bufs]
    /\ hal \in [op : {"none", "add", "start", "undo", "stop", "delete"}, pc : CallPcs,
                i : 0 .. 2, last : 0 .. 2]
    /\ starts \in 0 .. MaxStarts
    /\ cb \in [i : Index \cup {None}, b : Bufs \cup {None}]
    /\ strQ \in [Index -> Seq(Bufs)] /\ strT \in [Index -> {"none", "run", "exiting"}]
    /\ chQ \in Seq(Index \X Bufs) /\ chT \in {"none", "run", "exiting"}
    /\ matching \subseteq Index \X Bufs
    /\ cbQ \in Seq([Stream -> Bufs]) /\ cbT \in {"none", "run", "exiting"}
    /\ mDataQ \in [Index -> Seq(Bufs)]
    /\ jobs \in [Index -> Nat] /\ exits \in [Index -> 0 .. 1]
    /\ cmd_pid \in [Index -> Thread \cup {None}]
    /\ procs \in [Index -> [Thread -> {"none", "wait", "busy", "gone"}]]
    /\ procBuf \in [Index -> [Thread -> Bufs \cup {None}]]
    /\ held \subseteq Frame /\ returning \subseteq Frame
    /\ upsets \subseteq {"start", "reg", "put", "stale", "abandoned"}

Met(events) == upsets \cap events # {}

\* Where a buffer of a stream that is on has been read to and not returned from:
\* its places on the way to the HAL's thread of the stream and to the super
\* buffers, and who holds it.
HeldNow(path, i, b) == Held(path, i, b) \in held \cup returning
InStream(i, b) ==
    \/ b \in Elems(strQ[i]) \/ b \in Elems(mDataQ[i])
    \/ \E k \in Thread : procBuf[i][k] = b
    \/ HeldNow("stream", i, b)
InBundle(i, b) ==
    \/ <<i, b>> \in Elems(chQ) \/ <<i, b>> \in matching
    \/ \E n \in DOMAIN cbQ : cbQ[n][i] = b
    \/ HeldNow("super", i, b)
BeingQueued(i, b) == PollAt("queue") /\ cb = [i |-> i, b |-> b]
Holders(i, b) ==
    IF BeingQueued(i, b) THEN References
    ELSE (IF InStream(i, b) THEN 1 ELSE 0) + (IF InBundle(i, b) THEN 1 ELSE 0)

\* The references of a buffer are those who have it, and the kernel has it if
\* there are none: it is filled by the kernel while nobody reads it, and never
\* lost.  Only a frame of an earlier start breaks this, that is returned late or
\* that a thread left by a failed start still has.
BuffersAccountedFor ==
    \A i \in Stream, b \in Buf :
        InState(i, "ACTIVE") /\ i \in streaming /\ ~Met({"stale"})
        => /\ buf_refcnt[i][b] = Holders(i, b)
           /\ b \in kernel[i] <=> buf_refcnt[i][b] = 0

\* Whatever has a way to a stream's buffers from below or inside the stack is
\* gone when the buffers are given back: the kernel, the poll thread, the
\* queues and threads of the stack.  Exceptions are a registration that failed
\* half way, which is not undone, and a bundle whose start failed.
StackLetsGo ==
    \A i \in Stream \ allocated :
        /\ kernel[i] # {} => Met({"reg"})
        /\ i \notin poll_entries \cup streaming
        /\ cb.i # i
        /\ strQ[i] = <<>> /\ strT[i] = "none"
        /\ (\E b \in Bufs : <<i, b>> \in Elems(chQ) \cup matching) \/ cbQ # <<>>
           => Met({"start"})

\* A frame is only queued for a command thread that is there to take it.
NoFrameForADeadThread ==
    /\ \A i \in Stream : strQ[i] # <<>> => strT[i] # "none"
    /\ chQ # <<>> => chT # "none"
    /\ cbQ # <<>> => cbT # "none"

\* A channel that is stopped has all of its streams where the next start, or
\* the deletion, takes them from, also after a start that failed anywhere;
\* only buffers that cannot be given back leave a stream behind.
StoppedStreamsAreConfigured ==
    hal = Idle /\ ch = "STOPPED" /\ ~Met({"put"}) => \A i \in Stream : InState(i, "CFG")

\* Deleting a channel leaves no thread of it, unless a start of it failed, or
\* the poll thread had answered its launch and not yet set its state.
NoThreadOutlivesTheChannel ==
    ch = "deleted" /\ ~Met({"start"})
    => /\ poll_pc = "gone" \/ Met({"abandoned"})
       /\ chT = "none" /\ cbT = "none"
       /\ \A i \in Index : \A k \in Thread : procs[i][k] \in {"none", "gone"}
       /\ \A i \in Index : strT[i] = "none"

\* Stopping and deleting are complete: of the streams, of the threads, and of
\* the frames on their way to them.
NothingLeftBehind ==
    StoppedStreamsAreConfigured /\ NoThreadOutlivesTheChannel /\ NoFrameForADeadThread

\* Every call of the HAL returns.  After a start that failed two threads may
\* wait for the same EXIT, and the one that is joined not get it; with buffers
\* that were not given back the next start uses what was freed.
CallsReturn == (hal # Idle) ~> (hal = Idle \/ Met({"start", "put"}))

\* A frame of a channel without super buffers comes back to the kernel, or its
\* stream goes off, as long as those return it that it is handed to.
FramesComeBack ==
    \A i \in Index, b \in Bufs :
        (~Bundled /\ buf_refcnt[i][b] > 0) ~> (buf_refcnt[i][b] = 0 \/ i \notin streaming)
=============================================================================
