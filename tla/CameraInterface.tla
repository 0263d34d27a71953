---------------------------- MODULE CameraInterface ----------------------------
(***************************************************************************)
(* The entries of the QCamera2 camera stack: mm_camera_interface.c and       *)
(* mm_camera.c.  A call finds its camera under g_intf_lock, takes cam_lock   *)
(* before it gives g_intf_lock up, and a call on a channel takes ch_lock     *)
(* before it gives cam_lock up.  Mapping or unmapping a buffer, which        *)
(* starting and stopping a channel does too, waits for the server's answer,  *)
(* which the camera's event poll thread stores; other events go to the event *)
(* thread, which calls the client.  Closing joins both threads, the poll     *)
(* thread only if it has got as far as polling, and frees the camera.        *)
(*                                                                          *)
(* The clients: of each camera an owner, the thread that opens and closes    *)
(* it and adds, starts, stops and deletes its channel; of the busy ones also *)
(* another thread, with calls on the camera and buffers to return, and the   *)
(* callback thread of the channel, which returns buffers and which stopping  *)
(* the channel joins.  The owner deletes channels before it closes, and      *)
(* neither while the other thread returns a buffer: nothing in the stack     *)
(* makes that safe (see QCameraStream.cpp, whose threads are joined first).   *)
(* The other thread's calls on the camera may meet the closing of it.  The   *)
(* owner may open a camera that is open.  Buffers are mapped by it only:      *)
(* there is one slot for an answer.  So are all other calls on the channel:   *)
(* a second thread, waiting for ch_lock while the channel is being stopped,   *)
(* would keep cam_lock, which the callback thread needs to return its buffer. *)
(* The callback thread is that of a channel's streams; the threads that the   *)
(* failed start of a bundle leaves behind are in StreamLifecycle.             *)
(*                                                                          *)
(* One step is what a thread does between two points at which it waits.      *)
(***************************************************************************)
EXTENDS Naturals, FiniteSets

CONSTANTS
    Cameras,     \* indices of the cameras
    Busy,        \* those with a channel and three threads
    MaxOpens,    \* bound on the times a busy camera is opened; the others once
    MaxChannels, \* bound on the channels added in one life of a camera
    MaxEvents,   \* bound on the focus and zoom events of a busy camera
    Faults       \* what may fail of a busy camera: "open", "sub", "send", "start"

ASSUME CameraInterfaceAssumption ==
    /\ IsFiniteSet(Cameras) /\ Busy \subseteq Cameras
    /\ {MaxOpens, MaxChannels, MaxEvents} \subseteq Nat
    /\ Faults \subseteq {"open", "sub", "send", "start"}

Threads == {t \in Cameras \X {"owner", "other", "callback"} :
                t[2] = "owner" \/ t[1] \in Busy}
CamOf(t) == t[1]
NoOne    == <<"none", "none">>

CameraOps  == {"camera", "register", "map", "add_channel"}
ChannelOps == {"channel", "map_stream", "start", "stop", "delete"}
Ops        == CameraOps \cup ChannelOps \cup {"open", "close", "qbuf"}
Requests   == {"map", "map_stream", "start", "unmap"}

VARIABLES
    g_intf_lock,
    cam_obj,   \* g_cam_ctrl: which of a camera's objects is in the table, or 0
    cam,       \* the camera's last object
    server,    \* the request the server has not answered
    events,    \* number of focus and zoom events so far
    hal,       \* the handles the clients of a camera share
    thr        \* where a thread is, and the call it is in ("unmap": the end of one)

vars == <<g_intf_lock, cam_obj, cam, server, events, hal, thr>>

NoObject == [n |-> 0, freed |-> TRUE, ref_count |-> 0, cam_lock |-> NoOne,
             cb_lock |-> NoOne, evt |-> FALSE, evt_rcvd |-> "none", evt_queue |-> 0,
             evt_thread |-> "gone", evt_poll |-> "gone", sub |-> FALSE, streams |-> FALSE,
             ch_state |-> "NOTUSED", ch_hdl |-> 0, ch_lock |-> NoOne, handlers |-> 0]
Idle == [pc |-> "idle", op |-> "none", obj |-> 0, ch |-> 0]

Init ==
    /\ g_intf_lock = NoOne
    /\ cam_obj = [c \in Cameras |-> 0]
    /\ cam = [c \in Cameras |-> NoObject]
    /\ server = [c \in Cameras |-> "none"]
    /\ events = [c \in Cameras |-> 0]
    /\ hal = [c \in Cameras |-> [table |-> 0, chan |-> 0]]
    /\ thr = [t \in Threads |-> Idle]

-----------------------------------------------------------------------------
(* Helpers                                                                   *)

At(t, pc) == thr[t].pc = pc
In(t, op) == thr[t].op = op
Goes(t, pc) == thr' = [thr EXCEPT ![t].pc = pc]
Returns(t)  == thr' = [thr EXCEPT ![t] = Idle]

\* A request and its answer carry the call that made it, which the code does
\* not store.
Request(t) == thr[t].op

-----------------------------------------------------------------------------
(* The clients                                                               *)

Returning(c) == \E t \in Threads : t = <<c, "other">> /\ In(t, "qbuf")

MayOpen(c) ==
    /\ cam_obj[c] = 0 => cam[c].n < IF c \in Busy THEN MaxOpens ELSE 1
    /\ cam_obj[c] # 0 => c \in Busy /\ cam[c].ref_count < 2

MayCall(t, op) ==
    LET c == CamOf(t) IN
    CASE t[2] = "owner" ->
           \/ op = "open" /\ MayOpen(c)
           \/ /\ hal[c].table # 0
              /\ \/ op = "camera"
                 \/ op \in {"register", "map"} /\ c \in Busy
                 \/ /\ op = "add_channel" /\ c \in Busy
                    /\ hal[c].chan = 0 /\ cam[c].handlers < MaxChannels
                 \/ op \in {"channel", "map_stream"} /\ hal[c].chan # 0
                 \/ op = "start" /\ hal[c].chan # 0 /\ cam[c].ch_state = "STOPPED"
                 \/ op = "stop" /\ hal[c].chan # 0 /\ cam[c].ch_state = "ACTIVE"
                 \/ op = "delete" /\ hal[c].chan # 0 /\ cam[c].ch_state = "STOPPED" /\ ~Returning(c)
                 \/ op = "close" /\ hal[c].chan = 0 /\ ~Returning(c)
      [] t[2] = "other" ->
           /\ hal[c].table # 0 /\ ~cam[c].freed
           /\ \/ op = "camera"
              \/ /\ op = "qbuf" /\ hal[c].chan # 0
                 /\ thr[<<c, "owner">>].op \notin {"delete", "close"}
      [] t[2] = "callback" ->
           op = "qbuf" /\ hal[c].chan # 0 /\ cam[c].streams

Call(t, op) ==
    /\ At(t, "idle")
    /\ MayCall(t, op)
    /\ thr' = [thr EXCEPT ![t] = [pc |-> "intf", op |-> op, obj |-> hal[CamOf(t)].table,
                                  ch |-> hal[CamOf(t)].chan]]
    /\ UNCHANGED <<g_intf_lock, cam_obj, cam, server, events, hal>>

-----------------------------------------------------------------------------
(* g_intf_lock and cam_lock                                                  *)

\* Mutant: the object is allocated without a reference.
NewObjectUncounted(c) ==
    [NoObject EXCEPT !.n = cam[c].n + 1, !.freed = FALSE,
                     !.evt_thread = "idle", !.evt_poll = "starting"]

\* A new object and its two threads.  The poll thread has signalled that it is
\* up; it is "starting" until it has set its state to POLL.
NewObject(c) ==
    [NoObject EXCEPT !.n = cam[c].n + 1, !.freed = FALSE, !.ref_count = 1,
                     !.evt_thread = "idle", !.evt_poll = "starting"]

\* camera_open() and mm_camera_open(), under g_intf_lock all the time, the
\* retries included.  A camera that is open already only gets a reference:
\* what is returned for it is not a usable table.
Open(t) ==
    LET c == CamOf(t) IN
    /\ At(t, "intf") /\ In(t, "open")
    /\ g_intf_lock = NoOne
    /\ \/ /\ cam_obj[c] # 0
          /\ cam' = [cam EXCEPT ![c].ref_count = @ + 1]
          /\ Returns(t)
          /\ UNCHANGED <<g_intf_lock, cam_obj>>
       \/ /\ cam_obj[c] = 0 /\ "open" \in Faults /\ c \in Busy
          /\ Returns(t)
          /\ UNCHANGED <<g_intf_lock, cam_obj, cam>>
       \/ /\ cam_obj[c] = 0
          /\ cam' = [cam EXCEPT ![c] = NewObject(c)]
          /\ cam_obj' = [cam_obj EXCEPT ![c] = cam[c].n + 1]
          /\ g_intf_lock' = t
          /\ Goes(t, "sub")
    /\ UNCHANGED <<server, events, hal>>

\* mm_camera_evt_sub(), at the end of it: the poll thread has to take the new
\* entry before the call returns.  A failure is not looked at, and then nothing
\* waits for the poll thread.
Subscribe(t) ==
    LET c == CamOf(t) IN
    /\ At(t, "sub")
    /\ \/ /\ cam[c].evt_poll = "deaf"
          /\ cam' = [cam EXCEPT ![c].evt_poll = "polls", ![c].sub = TRUE]
       \/ /\ "sub" \in Faults /\ c \in Busy
          /\ UNCHANGED cam
    /\ hal' = [hal EXCEPT ![c].table = cam[c].n]
    /\ g_intf_lock' = NoOne
    /\ Returns(t)
    /\ UNCHANGED <<cam_obj, server, events>>

\* The handle of the call is that of the camera in the table.
Found(t) == cam_obj[CamOf(t)] = thr[t].obj

\* Mutant: g_intf_lock is given up before cam_lock is taken.
LookupLettingGo(t) ==
    /\ At(t, "intf") /\ ~In(t, "open") /\ (Found(t) => ~In(t, "close"))
    /\ g_intf_lock = NoOne
    /\ IF Found(t) THEN Goes(t, "cam") ELSE Returns(t)
    /\ UNCHANGED <<g_intf_lock, cam_obj, cam, server, events, hal>>

\* Every mm_camera_intf_*(): the camera of the handle, or an error.
Lookup(t) ==
    /\ At(t, "intf") /\ ~In(t, "open") /\ (Found(t) => ~In(t, "close"))
    /\ g_intf_lock = NoOne
    /\ IF Found(t)
       THEN g_intf_lock' = t /\ Goes(t, "cam")
       ELSE UNCHANGED g_intf_lock /\ Returns(t)
    /\ UNCHANGED <<cam_obj, cam, server, events, hal>>

\* mm_camera_intf_close() of a camera that was opened more than once.
CloseReference(t) ==
    LET c == CamOf(t) IN
    /\ At(t, "intf") /\ In(t, "close")
    /\ g_intf_lock = NoOne
    /\ Found(t) /\ cam[c].ref_count > 1
    /\ cam' = [cam EXCEPT ![c].ref_count = @ - 1]
    /\ hal' = [hal EXCEPT ![c].table = 0]
    /\ Returns(t)
    /\ UNCHANGED <<g_intf_lock, cam_obj, server, events>>

\* The last close takes the object out of the table first.
CloseLast(t) ==
    LET c == CamOf(t) IN
    /\ At(t, "intf") /\ In(t, "close")
    /\ g_intf_lock = NoOne
    /\ Found(t) /\ cam[c].ref_count <= 1
    /\ cam' = [cam EXCEPT ![c].ref_count = @ - 1]
    /\ cam_obj' = [cam_obj EXCEPT ![c] = 0]
    /\ g_intf_lock' = t
    /\ Goes(t, "cam")
    /\ UNCHANGED <<server, events, hal>>

\* The hand-over: g_intf_lock is held until cam_lock is taken.
LockCamera(t) ==
    LET c == CamOf(t) IN
    /\ At(t, "cam")
    /\ cam[c].cam_lock = NoOne
    /\ cam' = [cam EXCEPT ![c].cam_lock = t]
    /\ g_intf_lock' = NoOne
    /\ Goes(t, "in")
    /\ UNCHANGED <<cam_obj, server, events, hal>>

-----------------------------------------------------------------------------
(* Under cam_lock                                                            *)

\* Querying, setting and getting parameters, focusing, preparing a snapshot: an
\* ioctl each.
CameraOp(t) ==
    /\ At(t, "in") /\ In(t, "camera")
    /\ cam' = [cam EXCEPT ![CamOf(t)].cam_lock = NoOne]
    /\ Returns(t)
    /\ UNCHANGED <<g_intf_lock, cam_obj, server, events, hal>>

\* mm_camera_register_event_notify() registers or unregisters, and waits for the
\* event thread's callbacks.
Register(t) ==
    LET c == CamOf(t) IN
    /\ At(t, "in") /\ In(t, "register")
    /\ cam[c].cb_lock = NoOne
    /\ cam' = [cam EXCEPT ![c].cam_lock = NoOne, ![c].evt = ~@]
    /\ Returns(t)
    /\ UNCHANGED <<g_intf_lock, cam_obj, server, events, hal>>

\* mm_camera_add_channel() takes a slot that is NOTUSED: there always is one,
\* since the clients keep one of the sixteen (without, NULL would be used).
AddChannel(t) ==
    LET c == CamOf(t)
        h == cam[c].handlers + 1
    IN
    /\ At(t, "in") /\ In(t, "add_channel")
    /\ cam[c].ch_state = "NOTUSED"
    /\ cam' = [cam EXCEPT ![c].cam_lock = NoOne, ![c].ch_lock = NoOne,
                          ![c].ch_state = "STOPPED", ![c].ch_hdl = h, ![c].handlers = h]
    /\ hal' = [hal EXCEPT ![c].chan = h]
    /\ Returns(t)
    /\ UNCHANGED <<g_intf_lock, cam_obj, server, events>>

\* mm_camera_qbuf() looks the channel up and takes no lock of it.
FindForBuf(t) ==
    LET c == CamOf(t) IN
    /\ At(t, "in") /\ In(t, "qbuf")
    /\ cam' = [cam EXCEPT ![c].cam_lock = NoOne]
    /\ IF cam[c].ch_hdl = thr[t].ch THEN Goes(t, "use") ELSE Returns(t)
    /\ UNCHANGED <<g_intf_lock, cam_obj, server, events, hal>>

QueueBuf(t) ==
    /\ At(t, "use")
    /\ Returns(t)
    /\ UNCHANGED <<g_intf_lock, cam_obj, cam, server, events, hal>>

-----------------------------------------------------------------------------
(* Under ch_lock                                                             *)

FindChannel(t) ==
    LET c == CamOf(t) IN
    /\ At(t, "in") /\ thr[t].op \in ChannelOps
    /\ IF cam[c].ch_hdl = thr[t].ch
       THEN Goes(t, "ch") /\ UNCHANGED cam
       ELSE Returns(t) /\ cam' = [cam EXCEPT ![c].cam_lock = NoOne]
    /\ UNCHANGED <<g_intf_lock, cam_obj, server, events, hal>>

\* Mutant: cam_lock is kept for the time of the channel's operation.
LockChannelKeepingCamera(t) ==
    LET c == CamOf(t) IN
    /\ At(t, "ch")
    /\ cam[c].ch_lock = NoOne
    /\ cam' = [cam EXCEPT ![c].ch_lock = t]
    /\ Goes(t, "chan")
    /\ UNCHANGED <<g_intf_lock, cam_obj, server, events, hal>>

\* The second hand-over: cam_lock is held until ch_lock is taken.
LockChannel(t) ==
    LET c == CamOf(t) IN
    /\ At(t, "ch")
    /\ cam[c].ch_lock = NoOne
    /\ cam' = [cam EXCEPT ![c].cam_lock = NoOne, ![c].ch_lock = t]
    /\ Goes(t, "chan")
    /\ UNCHANGED <<g_intf_lock, cam_obj, server, events, hal>>

\* mm_channel_fsm_fn(): streams added, deleted and configured, parameters,
\* actions and requests change nothing kept here; nor does starting a channel
\* that is ACTIVE or stopping one that is STOPPED, which it refuses.
ChannelOp(t) ==
    /\ At(t, "chan") /\ In(t, "channel")
    /\ cam' = [cam EXCEPT ![CamOf(t)].ch_lock = NoOne]
    /\ Returns(t)
    /\ UNCHANGED <<g_intf_lock, cam_obj, server, events, hal>>

\* mm_channel_start(): the buffers of each stream are mapped (SendMsg), any
\* number of them, and a stream that is on may call the client back while the
\* next one's are.
StreamOn(t) ==
    LET c == CamOf(t) IN
    /\ At(t, "chan") /\ In(t, "start")
    /\ ~cam[c].streams
    /\ cam' = [cam EXCEPT ![c].streams = TRUE]
    /\ UNCHANGED <<g_intf_lock, cam_obj, server, events, hal, thr>>

StartEnds(t) ==
    LET c == CamOf(t) IN
    /\ At(t, "chan") /\ In(t, "start")
    /\ cam[c].streams
    /\ cam' = [cam EXCEPT ![c].ch_lock = NoOne, ![c].ch_state = "ACTIVE"]
    /\ Returns(t)
    /\ UNCHANGED <<g_intf_lock, cam_obj, server, events, hal>>

\* A message that is not sent, a mapping that is refused, a stream that does
\* not start: what was started is stopped and unmapped.
StartFails(t) ==
    /\ At(t, "chan") /\ In(t, "start")
    /\ {"send", "start"} \cap Faults # {}
    /\ thr' = [thr EXCEPT ![t].op = "stop"]
    /\ UNCHANGED <<g_intf_lock, cam_obj, cam, server, events, hal>>

\* mm_channel_stop() turns the streams off and joins the threads that call the
\* client back before the buffers are unmapped.
StopStreams(t) ==
    LET c == CamOf(t) IN
    /\ At(t, "chan") /\ In(t, "stop")
    /\ At(<<c, "callback">>, "idle")
    /\ cam' = [cam EXCEPT ![c].streams = FALSE]
    /\ thr' = [thr EXCEPT ![t].op = "unmap"]
    /\ UNCHANGED <<g_intf_lock, cam_obj, server, events, hal>>

\* The end of mm_channel_stop() and of a failed mm_channel_start().  That a
\* buffer could not be unmapped is not looked at.
StopEnds(t) ==
    LET c == CamOf(t) IN
    /\ At(t, "chan") /\ In(t, "unmap")
    /\ cam' = [cam EXCEPT ![c].ch_lock = NoOne, ![c].ch_state = "STOPPED"]
    /\ Returns(t)
    /\ UNCHANGED <<g_intf_lock, cam_obj, server, events, hal>>

\* mm_camera_del_channel(): the channel is NOTUSED before it is wiped, and
\* between the two its lock is not held.
DeleteChannel(t) ==
    LET c == CamOf(t) IN
    /\ At(t, "chan") /\ In(t, "delete")
    /\ cam' = [cam EXCEPT ![c].ch_lock = NoOne,
                          ![c].ch_state = IF @ = "STOPPED" THEN "NOTUSED" ELSE @]
    /\ Goes(t, "wipe")
    /\ UNCHANGED <<g_intf_lock, cam_obj, server, events, hal>>

WipeChannel(t) ==
    LET c == CamOf(t) IN
    /\ At(t, "wipe")
    /\ cam' = [cam EXCEPT ![c].ch_lock = NoOne, ![c].ch_state = "NOTUSED", ![c].ch_hdl = 0]
    /\ hal' = [hal EXCEPT ![c].chan = 0]
    /\ Returns(t)
    /\ UNCHANGED <<g_intf_lock, cam_obj, server, events>>

-----------------------------------------------------------------------------
(* Mapping                                                                   *)

HeldWhileMapping(t) == IF In(t, "map") THEN "cam_lock" ELSE "ch_lock"

\* mm_camera_util_sendmsg(), under cam_lock for the camera's own buffers and
\* under ch_lock for those of a stream.
SendMsg(t) ==
    LET c == CamOf(t) IN
    /\ \/ At(t, "in") /\ In(t, "map")
       \/ At(t, "chan") /\ thr[t].op \in {"map_stream", "start", "unmap"}
    /\ server' = [server EXCEPT ![c] = Request(t)]
    /\ Goes(t, "answer")
    /\ UNCHANGED <<g_intf_lock, cam_obj, cam, events, hal>>

\* A client's own map or unmap call returns its failure; see StartFails and
\* StopEnds for the others.
SendMsgFails(t) ==
    LET c == CamOf(t) IN
    /\ "send" \in Faults
    /\ \/ At(t, "in") /\ In(t, "map")
       \/ At(t, "chan") /\ In(t, "map_stream")
    /\ cam' = [cam EXCEPT ![c][HeldWhileMapping(t)] = NoOne]
    /\ Returns(t)
    /\ UNCHANGED <<g_intf_lock, cam_obj, server, events, hal>>

\* Mutant: the answer stays where it was received.
AnsweredKeepingIt(t) ==
    LET c == CamOf(t) IN
    \/ /\ thr[t].op \in {"map", "map_stream"}
       /\ cam' = [cam EXCEPT ![c][HeldWhileMapping(t)] = NoOne]
       /\ Returns(t)
    \/ /\ thr[t].op \in {"start", "unmap"}
       /\ UNCHANGED cam
       /\ Goes(t, "chan")

\* The call a mapping belongs to: the client's own, which ends with it, or the
\* start or stop of a channel, which goes on.
Answered(t) ==
    LET c == CamOf(t) IN
    \/ /\ thr[t].op \in {"map", "map_stream"}
       /\ cam' = [cam EXCEPT ![c][HeldWhileMapping(t)] = NoOne, ![c].evt_rcvd = "none"]
       /\ Returns(t)
    \/ /\ thr[t].op \in {"start", "unmap"}
       /\ cam' = [cam EXCEPT ![c].evt_rcvd = "none"]
       /\ Goes(t, "chan")

\* mm_camera_util_wait_for_event() takes whatever answer is there.
WaitForEvent(t) ==
    /\ At(t, "answer")
    /\ cam[CamOf(t)].evt_rcvd # "none"
    /\ Answered(t)
    /\ UNCHANGED <<g_intf_lock, cam_obj, server, events, hal>>

-----------------------------------------------------------------------------
(* Events                                                                    *)

\* mm_camera_poll_thread() sets the state POLL after it has signalled that it
\* is up.
PollEnters(c) ==
    /\ cam[c].evt_poll = "starting" /\ ~cam[c].freed
    /\ cam' = [cam EXCEPT ![c].evt_poll = "deaf"]
    /\ UNCHANGED <<g_intf_lock, cam_obj, server, events, hal, thr>>

\* mm_camera_event_notify() on the poll thread: MAP_UNMAP_DONE.
MapDone(c) ==
    /\ server[c] # "none"
    /\ cam[c].evt_poll = "polls"
    /\ cam' = [cam EXCEPT ![c].evt_rcvd = server[c]]
    /\ server' = [server EXCEPT ![c] = "none"]
    /\ UNCHANGED <<g_intf_lock, cam_obj, events, hal, thr>>

\* The same of a focus or zoom event, which is for the event thread.
QueueEvent(c) ==
    /\ c \in Busy /\ events[c] < MaxEvents
    /\ cam[c].evt_poll = "polls"
    /\ events' = [events EXCEPT ![c] = @ + 1]
    /\ cam' = [cam EXCEPT ![c].evt_queue = @ + 1]
    /\ UNCHANGED <<g_intf_lock, cam_obj, server, hal, thr>>

\* mm_camera_dispatch_app_event() calls whoever is registered under cb_lock.
Dispatch(c) ==
    /\ cam[c].evt_thread = "idle" /\ cam[c].evt_queue > 0
    /\ cam[c].cb_lock = NoOne
    /\ cam' = [cam EXCEPT ![c].evt_queue = @ - 1,
                          ![c].evt_thread = IF cam[c].evt THEN "callback" ELSE "idle",
                          ![c].cb_lock = IF cam[c].evt THEN <<c, "evt">> ELSE NoOne]
    /\ UNCHANGED <<g_intf_lock, cam_obj, server, events, hal, thr>>

CallbackEnds(c) ==
    /\ cam[c].evt_thread = "callback"
    /\ cam' = [cam EXCEPT ![c].cb_lock = NoOne, ![c].evt_thread = "idle"]
    /\ UNCHANGED <<g_intf_lock, cam_obj, server, events, hal, thr>>

-----------------------------------------------------------------------------
(* mm_camera_close()                                                         *)

\* Events are unsubscribed and the poll thread is joined, but not one whose
\* state is not POLL yet: mm_camera_poll_thread_release() takes it for one that
\* does not run.
CloseEvents(t) ==
    LET c == CamOf(t) IN
    /\ At(t, "in") /\ In(t, "close")
    /\ cam' = [cam EXCEPT ![c].evt_poll = IF @ = "starting" THEN @ ELSE "gone"]
    /\ Goes(t, "join")
    /\ UNCHANGED <<g_intf_lock, cam_obj, server, events, hal>>

\* The event thread serves what is queued before it is joined.
JoinEvents(t) ==
    LET c == CamOf(t) IN
    /\ At(t, "join")
    /\ cam[c].evt_thread = "idle" /\ cam[c].evt_queue = 0
    /\ cam' = [cam EXCEPT ![c].evt_thread = "gone"]
    /\ Goes(t, "free")
    /\ UNCHANGED <<g_intf_lock, cam_obj, server, events, hal>>

\* cam_lock is given up and destroyed, and the object freed.
FreeCamera(t) ==
    LET c == CamOf(t) IN
    /\ At(t, "free")
    /\ cam' = [cam EXCEPT ![c].cam_lock = NoOne, ![c].freed = TRUE]
    /\ hal' = [hal EXCEPT ![c].table = 0]
    /\ Returns(t)
    /\ UNCHANGED <<g_intf_lock, cam_obj, server, events>>

-----------------------------------------------------------------------------
(* Specification                                                             *)

Close(t) == CloseEvents(t) \/ JoinEvents(t) \/ FreeCamera(t)
UnderCamLock(t) ==
    CameraOp(t) \/ Register(t) \/ AddChannel(t) \/ FindForBuf(t) \/ QueueBuf(t)
UnderChLock(t) ==
    \/ FindChannel(t) \/ LockChannel(t) \/ ChannelOp(t) \/ StreamOn(t) \/ StartEnds(t)
    \/ StartFails(t) \/ StopStreams(t) \/ StopEnds(t) \/ DeleteChannel(t) \/ WipeChannel(t)
Mapping(t) == SendMsg(t) \/ SendMsgFails(t) \/ WaitForEvent(t)
Continue(t) ==
    \/ Open(t) \/ Subscribe(t) \/ Lookup(t) \/ CloseReference(t) \/ CloseLast(t) \/ LockCamera(t)
    \/ UnderCamLock(t) \/ UnderChLock(t) \/ Mapping(t) \/ Close(t)

Event(c) == PollEnters(c) \/ MapDone(c) \/ Dispatch(c) \/ CallbackEnds(c)

Next ==
    \/ \E t \in Threads : Continue(t) \/ \E op \in Ops : Call(t, op)
    \/ \E c \in Cameras : Event(c) \/ QueueEvent(c)

Spec == Init /\ [][Next]_vars

-----------------------------------------------------------------------------
(* Properties                                                                *)

CameraObject ==
    [n : Nat, freed : BOOLEAN, ref_count : Nat, cam_lock : Threads \cup {NoOne},
     cb_lock : (Cameras \X {"evt"}) \cup {NoOne}, evt : BOOLEAN,
     evt_rcvd : Requests \cup {"none"}, sub : BOOLEAN, streams : BOOLEAN,
     evt_queue : Nat, evt_thread : {"gone", "idle", "callback"},
     evt_poll : {"gone", "starting", "deaf", "polls"}, ch_state : {"NOTUSED", "STOPPED", "ACTIVE"},
     ch_hdl : Nat, ch_lock : Threads \cup {NoOne}, handlers : Nat]
ThreadState ==
    [pc : {"idle", "intf", "sub", "cam", "in", "ch", "chan", "wipe", "use", "answer", "join",
           "free"},
     op : Ops \cup {"none", "unmap"}, obj : Nat, ch : Nat]

\* Every variable has its type; no reference is given back twice.
TypeOK ==
    /\ g_intf_lock \in Threads \cup {NoOne}
    /\ cam_obj \in [Cameras -> Nat]
    /\ cam \in [Cameras -> CameraObject]
    /\ server \in [Cameras -> Requests \cup {"none"}]
    /\ events \in [Cameras -> 0 .. MaxEvents]
    /\ hal \in [Cameras -> [table : Nat, chan : Nat]]
    /\ thr \in [Threads -> ThreadState]

HasCamera  == {"cam", "in", "ch", "chan", "wipe", "use", "answer", "join", "free"}
HasChannel == {"ch", "chan", "wipe", "use"}

\* A thread that has found a camera or a channel works on one that is still
\* there, whoever closes the camera or deletes the channel in the meantime
\* (the two hand-overs of locks), and a camera is not freed under its event
\* thread, nor under its poll thread once the subscription has waited for that
\* thread (the joins of mm_camera_close()).  Without a subscription nothing
\* keeps a close that follows at once from freeing the poll thread's object
\* before that thread has set its state: nothing is said of it then.
NobodyUsesAFreedObject ==
    /\ \A t \in Threads :
         /\ thr[t].pc \in HasCamera =>
              ~cam[CamOf(t)].freed /\ cam[CamOf(t)].n = thr[t].obj
         /\ thr[t].pc \in HasChannel \/ (At(t, "answer") /\ ~In(t, "map")) =>
              cam[CamOf(t)].ch_hdl = thr[t].ch
    /\ \A c \in Cameras : cam[c].freed =>
         cam[c].evt_thread = "gone" /\ (cam[c].sub => cam[c].evt_poll = "gone")

\* The answer that mm_camera_util_wait_for_event() finds is the one to the
\* request it was called for, although evt_rcvd has no more than a type and a
\* status: as long as a thread waits, either its request is with the server
\* and evt_rcvd is empty, or the answer is there and nothing with the server.
AnswerIsForThisRequest ==
    \A t \in Threads : At(t, "answer") =>
        \/ server[CamOf(t)] = Request(t) /\ cam[CamOf(t)].evt_rcvd = "none"
        \/ server[CamOf(t)] = "none" /\ cam[CamOf(t)].evt_rcvd = Request(t)

\* The threads a thread waits for: the holder of the lock it wants, and the
\* callback thread it joins.  The server, the event thread and the poll thread
\* are not among them: they wait for none of these.
WaitsFor(t) ==
    LET c == CamOf(t) IN
    {u \in Threads :
        \/ At(t, "intf") /\ g_intf_lock = u
        \/ At(t, "cam") /\ cam[c].cam_lock = u
        \/ At(t, "ch") /\ cam[c].ch_lock = u
        \/ At(t, "chan") /\ In(t, "stop") /\ u = <<c, "callback">> /\ ~At(u, "idle")}

\* No calls wait for each other in a circle: not for the three locks, which
\* are each kept until the next one is taken, and not when stopping a channel
\* joins a thread that is returning a buffer ("in order to avoid deadlock, we
\* are not locking ch_lock for qbuf").
NobodyWaitsInACircle ==
    \A S \in (SUBSET Threads) \ {{}} : \E t \in S : WaitsFor(t) \cap S = {}
=============================================================================
