# A verification project for the QCamera2 camera HAL

TLA+ modules that model the control core of the QCamera2 HAL, of the camera
and JPEG stack below it (`src/QCamera2`) and of the oldest HAL of the tree
(`src/QualcommCameraHardware.cpp`), TLC runs that check them on small
instances, and TLAPS proofs of what matters most for every instance.

## 1. Inventory

### 1.1 Components

The repository holds three generations of a camera HAL. QCamera2 is the one
this project is mostly about. Of its predecessors for older boards the first,
a single file, is modelled as well; the other (`src/QCamera`, and a copy of it
at the root of the tree) is not.

| component | source | state it keeps | operations | module |
|---|---|---|---|---|
| HAL state machine | `HAL/QCameraStateMachine.cpp` | `m_state`, `api_queue`, `evt_queue`, `cmd_sem` | one handler per state for every API and event | `QCameraStateMachine` |
| HAL interface | `HAL/QCamera2HWI.cpp` | `m_channels[]`, `m_apiResult`, `m_lock`, `m_cond`, `mPreviewWindow`, `m_pHistBuf` | the camera API; preparePreview, startPreview, startRecording, takePicture, ... for the handlers | `ApiHandshake`, `QCameraStateMachine` |
| Postprocessor | `HAL/QCameraPostProc.cpp` | five queues, the active flags and snapshot counters of its two threads | start, stop, processData, processPPData, processJpegEvt | `QCameraPostProc`, `PictureNotifier` |
| Command thread, queue | `HAL/QCameraCmdThread.cpp`, `QCameraQueue.cpp` | a command queue and two semaphores | sendCmd (priority, synchronous), getCmd, exit | `QCameraPostProc`, `StreamLifecycle` |
| Channel and stream wrappers | `HAL/QCameraChannel.cpp`, `QCameraStream.cpp` | the streams of a channel, one thread per stream | start, stop, bufDone | `StreamLifecycle` |
| Interface of the camera stack | `mm_camera_interface.c`, `mm_camera.c` | the table of cameras, their locks, event slot and threads | open, close, channel calls, qbuf, map | `CameraInterface` |
| Channel of the stack | `mm_camera_channel.c` | channel state, bundle, super buffer queue, `pending_cnt` | start, stop, request; matching of frames by the cmd thread, delivery by the cb thread | `StreamLifecycle`, `SuperbufQueue` |
| Stream of the stack | `mm_camera_stream.c` | stream state, `buf_status[]` | acquire ... start, stop, release; frame delivery; qbuf | `StreamLifecycle` |
| Poll and cmd threads | `mm_camera_thread.c` | poll entries, a pipe, a command queue | launch, release, notify | `PollThread`, `StreamLifecycle` |
| JPEG interface | `mm-jpeg-interface/src` | job, ongoing and callback queues, `job_sem`, the encoder's last event | open, start_job, abort_job, close; job manager, encoder callbacks, notify threads | `MmJpeg` |
| Oldest HAL | `QualcommCameraHardware.cpp` | a flag, a lock and a condition for each of its threads, frame queues | the camera API of its time | `QualcommCameraHardware` |
| Parameters | `HAL/QCameraParameters.cpp` | a table of strings | updateParameters, commitParameters | not modelled, see 7 |
| Memory, callbacks, test application | | | | not modelled, see 7 |

### 1.2 How they interact

The framework calls one of the `camera_device_ops`; the call locks `m_lock`,
queues the request for the state machine thread and sleeps on `m_cond`. The
thread runs the handler of the current state, which calls the operations of
the interface, and stores the answer. The postprocessor's notify thread and
the event callbacks of the stack queue events for the same thread and do not
wait. The operations create, start, stop and delete channels through the
table of the stack's interface, whose entries hand over three locks from one to
the next. A channel of the stack has a poll thread that reads the frames of its
streams and a command thread per stream; a bundled one has also a cmd thread
that matches the frames and a cb thread that hands the super buffers to the
HAL; the HAL gives them to the postprocessor or returns their buffers. The
postprocessor hands frames to the JPEG interface, whose job manager gives them
one at a time to an OMX encoder.

### 1.3 What is hard here

* Two queues behind one semaphore, with API calls before events: events are
  late, and then answer for something that is over (`SNAPSHOT_DONE`).
* Operations made of several calls to the stack, any of which fails, and a
  state that must fit what is left of the channels.
* Cancelling: `STOP` to the notify thread is asynchronous and has priority.
* Frames of several streams arriving independently, with drops, to be joined
  into super buffers of one exposure without losing a buffer.
* Synchronous calls made of queue, semaphore, mutex and condition variable.
* Reference counts of buffers that go two ways at once, through a start that
  fails half way and a stop while frames are on their way.
* Objects freed with the lock that protects them, and locks kept while threads
  are joined that need others.
* Wake-ups counted by a semaphore and used up by a thread that cannot act.
* In the oldest HAL: detached threads, each known by a flag.

`PROJECT.json` lists each such place with its line ("hazards").

### 1.4 What makes each component correct

* State machine: the state says which channels stream (preview and capture
  never together, nothing in the stopped states, video only while recording),
  a picture state has a postprocessor that can end it, and an event ends only
  what it belongs to.
* API handshake: a call returns, with the answer to itself; a sleeper is
  never forgotten; queued work is never left behind a semaphore at zero.
* Super buffers: all frames of one exposure, delivered in order; every buffer
  out of the kernel is on its way back; the loops on the queue end.
* Postprocessor: a frame it takes is in one of its queues until it is
  returned, no frame and no result waits for a command that is not coming,
  stopping it returns, and each picture ends once or is given up, in order.
* Streams: a buffer goes back to the kernel when its last reference goes, and
  stopping, deleting and a failed start leave nothing behind that may still
  touch what is given back.
* Interface of the stack: nobody works on an object that is gone, an answer
  goes to its request, calls do not wait for each other in a circle.
* JPEG: a job is in one place, its result is its own, and its client is told.
* Oldest HAL: the threads of one preview are gone before the next, a record
  buffer gets a second owner only where the code hands it out twice and is never
  lost, a capture finds the thread it goes to.

## 2. Plan

Done: the ten modules of section 3, and proofs about eight of them (section
8): all safety invariants of `QCameraStateMachine`, `ApiHandshake`, `SuperbufQueue`,
`QCameraPostProc`, `StreamLifecycle` with `PollThread`, `CameraInterface`, `MmJpeg` and
`QualcommCameraHardware`, and the refinement of `PictureNotifier` by the state machine.
What a next step would take up, in this order:

1. The refinement of `PictureNotifier` by `QCameraPostProc`: the notify thread's
   commands in the order of the pictures they are for.
2. More abstract specifications: a synchronous call service that
   `ApiHandshake` implements, and a source of super buffers that `SuperbufQueue`
   implements and `StreamLifecycle` uses.
3. The first-generation HAL, whose calls and threads differ from both modelled
   ones.

Composition: `QCameraStateMachine` takes its events one at a time, which is
what `ApiHandshake` shows of the thread; the two meet in the handlers, which
are one step (`SmHandle`) there and the whole module here. The state machine and
the postprocessor meet in `PictureNotifier`: each has its own view of the
other, and both views implement that module. `StreamLifecycle` extends
`PollThread` and composes it with the threads of a channel and of its streams;
it leaves open which frames make a super buffer, which is what `SuperbufQueue`
says. `CameraInterface` stands between the HAL and the channels: a channel is one
state there, and one call of it, made under `ch_lock`, is what
`StreamLifecycle` takes apart. `MmJpeg` is the encoder of `QCameraPostProc`.

## 3. The modules

### 3.1 `QCameraStateMachine`

One step is one event taken by the state machine thread, with everything its
handler calls. The actions are named `<State><Event>` after the case labels
of the seven `procEvt...State` functions; `<State>Other` gathers the events a
state answers without changing anything. The operations of the interface are
operators on a record `Hw` (hint, channels, orphans, histogram buffer,
postprocessor) that return it as the call leaves it, so that a handler reads
as in the code: `HwBecomes(startPreview(stopPreview(Hw), bad))`.

* `m_channels` says of each channel whether its object exists and whether the
  stack's channel is active.
* `orphans` collects the channels whose object was deleted while it streamed.
* `pictures`, `shooting` and `evt_queue` follow the end of a picture as
  `PictureNotifier` has it: the notify thread has yet to finish or drop the pictures in `shooting`, and a
  `SNAPSHOT_DONE` on `evt_queue` is kept with the picture that posted it,
  which the code does not know.
* Failures are inputs: the set `Faults` says which kinds of calls may fail
  (adding a channel, starting one or allocating the histogram buffer, a ZSL
  request, the parameters).

Two inputs are stubs in this source tree and the model has both readings.
`setRecordingHintValue()` (`QCameraParameters.cpp:1534`) stores nothing;
its header (`QCameraParameters.h:295`) says it does. With `HintStores =
{FALSE}`, today's build, no recording ever starts, and the three recording
states are unreachable; with `TRUE` they are what the handlers were written
for. `updateParameters()` always answers that no restart is needed (a TODO
at `QCameraParameters.cpp:701`); `NeedRestarts` has `TRUE` where the handlers'
restart path is to be checked.

### 3.2 `ApiHandshake`

The caller's steps are those of any `camera_device_ops` entry (lockAPI,
processAPI, waitAPIResult, unlockAPI), the thread's those of
`smEvtProcRoutine()`. A step is what happens between two points where another
thread can get in: queueing a request and posting the semaphore are two, and
a critical section that does not sleep is one. The answer is kept with the
number of the call it belongs to, which the code does not store: that is how
`AnswerIsForThisCall` can be stated. Spurious wake-ups, a request that cannot
be allocated, events at any time, and the deletion of the object with the join
of its thread are included.

### 3.3 `SuperbufQueue`

Frames arrive per stream in increasing order with any gaps, as long as the
kernel has a buffer of that stream. A command of the cmd thread is one step
(`process_stream_buf` on the record `Queue`), delivery by the cb thread and
the return of a buffer are steps of their own. `outside` is the set of
buffers with a reference; `lost` those whose command node could not be
allocated, which the code never gives back before the stream stops.

### 3.4 `QCameraPostProc`

The data thread (`dataProcessRoutine`), the notify thread
(`dataNotifyRoutine`) and the state machine thread as far as it drives them.
A command of a thread is one step; the data thread can be interrupted between
`start_job()` and remembering the job (`hand`), because the encoder's callback
may come first. `stop()` is three steps: telling the notify thread (not waited
for), telling the data thread, and its answer on `sync_sem`; the channel is
stopped afterwards, so frames may still arrive behind the `STOP`.

* A frame is named by its picture and its number, and a job by its frame.
* `held` is the ghost of who owns a super buffer: the frames taken and not
  given back to their channel.
* `overtaken` is a history variable, which no step reads: the last `STOP` the
  data thread took had overtaken a `START`, which activates the thread again
  outside the picture. It may then encode a late frame, and the end of that job,
  if it comes before the next picture, is dropped by the state machine and sends
  no `DO_NEXT`: the next picture's frame, which found the job ahead of it, waits
  until the next `STOP`. `NothingStranded` says that this is the only way a
  frame is left without a command.
* A `START` for the notify thread carries its picture's number, which the code
  does not; that is how it can be said which picture a `SNAPSHOT_DONE` is of.
* A result is not told from another one, so `m_dataNotifyQ` is a number. Whether
  `processJpegEvt()` succeeds makes no difference here: each outcome sends one
  notification (in this source tree always the error, because the check
  after allocating the JPEG memory, `QCameraPostProc.cpp:360`, is inverted).
* `JpegOpens` has `FALSE` for this tree, where `jpeg_open()` is disabled
  (`QCameraPostProc.cpp:97`) and no job ever starts, and `TRUE` for what
  the rest of the code was written for.

### 3.5 `PictureNotifier`

Abstract: `pictures`, whether the postprocessor is started, the pictures
whose end is open (`shooting`) and the ends posted (`done`). An end is posted
at most once and in order, and the notify thread gives a picture up only when
it was stopped or another one was started. In `QCameraStateMachine` the mapping
is the identity but for the name of the event queue; in `QCameraPostProc`
`shooting` is the picture the notify thread counts for and those whose
`START` it has not taken, and `done` the `SNAPSHOT_DONE`s of the event queue.

### 3.6 `PollThread` and `StreamLifecycle`

`PollThread` is the data poll thread of a channel. Its users' entries and the
commands they write into its pipe are operators that their actions use; a
command is waited for (`sig_wait`) until the thread has served it. The thread
adds its pipe, signals that it is up, and only then says that it polls: a
release in between leaves it running (`mm_camera_thread.c:284`), which the
model has as `abandoned` in `upsets`.

`StreamLifecycle` is one life of a channel. The HAL's call is in `hal`: an
operation, the step it is at and the stream it works on; `add`, `start`,
`undo` (what a failed start takes back), `stop` and `delete` go through the
streams one by one as the code does, with a failure possible wherever the code
looks at a result. Each stream has its state, the reference counts of its
buffers and the set of buffers the kernel has; frames travel from the poll
thread over the stream's command thread to the HAL's thread of the stream, and
in a bundled channel over the channel's two threads as well. `held` are the
frames somebody outside has, `returning` those whose `qbuf` has already passed
the test of the stream's state.

`upsets` remembers which of the events happened that break a promise, so that
a property can say exactly on what it depends: a failed start of a bundle
(`start`), a registration that failed half way (`reg`), buffers that could not
be given back (`put`), a frame of an earlier start that is returned, or that a
thread left by a failed start still has (`stale`),
and `abandoned`.

### 3.7 `CameraInterface`

Every entry of `mm_camera_ops` looks its camera up under `g_intf_lock`, takes
`cam_lock` and then gives `g_intf_lock` up; the calls on a channel do the same
once more with `ch_lock`. A thread's call is a record with the step it is at
and the handles it was made with: `intf` and `cam` stand before the two
locks, `in` under `cam_lock`, `ch` before `ch_lock`, `chan` under it. Closing takes the
object out of the table, joins its two threads and frees it with its locks.

A camera's last object is kept with a number (`n`), which stands for the handle
generated for it, and `freed`. Its channel is a handle, one state, and whether its
streams call the client back (`streams`). Mapping a
buffer sends a request and waits in `answer`, with its lock held, for the one
slot `evt_rcvd`; the model keeps with an answer which call asked for it, which
the code does not. Starting a channel maps the buffers of its streams and
stopping it unmaps them: both make such exchanges under `ch_lock`, any number of
them, a start before and after its first stream is on, a stop after the callback
thread is joined; a start that fails goes the way of a stop.

The event poll thread signals that it is up (`starting`) before it sets its state
(`PollEnters`: `deaf`), and serves answers once it has an entry (`polls`).
Subscribing waits for it, but `mm_camera_open()` does not look at a
subscription that failed. A close that follows then finds the thread as it is;
before `PollEnters` it takes it for one that does not run
(`mm_camera_thread.c:433`), does not join it and frees the object under it.
`sub` says whether the camera was subscribed; `NobodyUsesAFreedObject` speaks of
the poll thread only of those that were, and of the event thread of all.

The clients are as disciplined as the HAL: see the head of the module. One of the
rules is worth a word. `mm_camera_qbuf()` takes no `ch_lock` "in order to avoid
deadlock" with a stop that joins the thread that returns the buffer. That is
enough as long as one thread makes all the other calls on a channel. A second
thread that waits for `ch_lock` during the stop keeps `cam_lock`, a third in
`mm_camera_qbuf()` waits for it with `g_intf_lock` held, and all three stand
still, with every call on any camera behind them.

### 3.8 `MmJpeg`

`mm_jpeg_interface.c`, `mm_jpeg.c` and `mm_jpeg_queue.c` with the encoder as an
external component that answers each command by events of one thread, in order.
`intf` is the call that holds `g_intf_lock`; `jobmgr` is where the job manager's
thread is: waiting for `job_sem`, for `job_lock`, or for one of the two states
that start the encoder. `abort_job()` and `close()` go through the ongoing queue
(flushing the encoder), the jobs to do, and the callbacks that are running,
which they join. A job that ended has a thread that calls its client. A refused job
(`BadConfigs`) ends with an error and posts no wake-up.

`upsets` says whether a job was refused, or an ongoing one aborted or closed:
after those the code leaves jobs waiting, and `JobsEnd` and `CallsReturn`
promise nothing.

### 3.9 `QualcommCameraHardware`

The HAL of the oldest chips. A call holds `mLock` from beginning to end, so
that `call` is one record; `cancelPicture()` and `releaseRecordingFrame()` are
the two that do not take it. The frame, preview, video and snapshot threads are
detached; each is known by a flag, set where it is created and cleared where it
ends, and waited for under the flag's lock. `frame` and `preview` are where the
first two stand, `snapshot` and `capture` are the thread of a picture and what
the camera library will bring next. `video` is a sequence because there may be more
than one video thread; each goes through the steps of its loop, which has no
lock from taking a frame on: looking whether the message is enabled, tracking
the frame, delivering it.

The record buffers are counted where they are: `free` (how often with the
driver), the busy queue, a video thread, `app` (the application), `releasing` (a call of
`releaseRecordingFrame()`). A frame that a video thread took is `tracked` until it
is released. `startRecording()` runs beside all this without the queue's
mutex, and in steps: it empties the busy queue frame by frame (`DrainFrame`),
then goes through the tracked buffers one by one and gives each to the driver
before it clears its mark (`ReclaimDangling`, `ClearDangling`). A buffer that
somebody outside still has gets a second owner by this, and the same happens
when a preview begins while an old video thread or a call of
`releaseRecordingFrame()` has one. `shared` counts per buffer how often.
Such a call keeps the frame thread from ending, by a lock, which `takePicture()`
unlocks without having taken it (`LaunchSnapshot`, line 5979).

A picture's raw callback ends in two steps, because it clears the thread's flag and
the snapshot mode in critical sections of their own (`ReceiveRawPicture`,
`LeaveSnapshotMode`), and may return before the second when a buffer of the
display cannot be unlocked. A frame timeout makes the next stop skip the
driver (`CamframeTimeout`).

`Abandoned` names the states in which nobody will do what a call waits for.
Each call on the busy queue and on the library's queue of free frames is
one step: those are outside the sources. What two threads do inside
one of them at the same time, where the code holds no lock, is not modelled.

### 3.10 Quiet behaviours

`quiet` of `QCameraStateMachine` is chosen at the beginning: in a quiet
behaviour no call fails and no parameter asks for a restart. Some promises of
the state machine hold only there, because its handlers do not clean up after
every failure; the run has both kinds and the properties say which they
speak of.

## 4. The runs

| run | bounds | shows |
|---|---|---|
| `hal_state_machine` | both modes, both readings of the stubs, all faults, 3 pictures, quiet or not | what streams fits the state (`StreamsFitTheState`: preview and capture exclusive, stopped states quiet, video only while recording); a picture has a postprocessor; implements `PictureNotifier`; in quiet behaviours `PREVIEWING` streams, a recording keeps its preview and the postprocessor is stopped outside pictures |
| `postproc` | pictures of 1 frame, with and without the encoder, 3 pictures | frames accounted for; nothing stranded but for a frame behind the job of an overtaken `START`; `stop()` returns; implements `PictureNotifier` |
| `api_handshake` | 1 caller, 2 APIs, 3 calls, 2 events, 1 spurious wake-up | the handshake's safety, and liveness under fairness |
| `superbuf_queue` | 2 streams of 3 buffers, frames 1..5, both notify modes, 1 request of 2, 1 failed allocation | synchronised, in order, nothing lost, no spinning, an idle HAL leaves every stream a buffer in the kernel |
| `stream` | a bundle of 2 streams of 1 buffer, or 2 starts of 1 stream of 2 buffers; 5 kinds of failure | buffers where their counts say; the stack lets go of what is given back; nothing is left by stop, delete and a failed start; calls return and frames come back |
| `interface` | 2 cameras, one of them with three threads, opened twice; 1 channel per life, 1 event, 4 kinds of failure (1.3 million states) | no use after free or wipe, but for the poll thread of a camera without a subscription; answers go to their request, those of starting and stopping included; no circular wait |
| `jpeg` | 2 clients, 2 jobs, 1 abort, jobs refused or not | jobs accounted for; a result is its job's; jobs end and calls return where the code makes them |
| `legacy` | 1 record buffer, 2 events (recordings, pictures, a frame timeout), 7 kinds of failure (0.8 million states) | previews do not overlap; a buffer has an owner more than it was handed out twice, and is never lost; a capture has its thread; calls return but for the named cases |
| `picture_ends` | no encoder, 2 pictures, fair | expected violation: see 6 |
| `channels_stopped_before_deleted` | no faults | expected violation: see 6 |
| `jpeg_result_comes` | 1 client, 3 jobs, no abort, fair | expected violation: see 6 |
| `legacy_one_video_thread` | no faults | expected violation: see 6 |

Why the bounds are enough. The state machine's only unbounded variable is
the number of pictures; an event can be late by one picture or by two, so 2
shows the first and 3 the second. Three calls of two APIs have an answer of
the same and of another API left over from an earlier call; two events and
one API are one post more than a round of the thread takes. Two streams are
the least that can disagree, four frames let a super buffer be opened,
refused, replaced and completed on both sides of `post_frame_skip`; three
buffers are one more than `water_mark` plus the open super buffer, and five
frames are what it takes to use up all three (1, 3 and 5, as `post_frame_skip`
is 2). A request of 2 may be met in one go or one by one; the properties also
hold with one of 1 and with a cancelled one (0). Three pictures let a command, a result or an end of one be late by one
and by two pictures. Pictures have one frame because `getNumOfSnapshots()`
(`QCameraParameters.cpp:1540`) answers 1; all properties of `postproc` also
hold with two frames and two pictures, except the part of `NothingStranded` about
frames, which relies on it (see its comment). One caller is assumed in
`api_handshake` because the framework serialises its calls; with two, the
answer slot and `pthread_cond_signal()` are not enough and the run fails.

A stream is started twice so that a frame, a command or a thread of the first
start can be met by the second; the safety properties also hold with three
starts, where a thread that a failed start left carries a frame of the second
into the third, and all properties with an unbundled pair of streams (`capture`).
The second of two streams is the first one
that can fail after another was started. One buffer of a bundle has both of its
references to lose; a stream of its own has two, one of which may not be
registered at the start. A camera is opened twice for a call of the first life
to find the object of the second, and the second camera is there to wait for
`g_intf_lock`. Two jobs are one that is ongoing and one that is not; the third,
which loses its wake-up, is in `jpeg_result_comes`. Two events are two
recordings, what a video thread can outlive, or a recording and a picture, or one of
them and a timeout. The buffers of a recording are alike, and one can already be
with two owners; the invariant of the proof, and with it the safety properties,
was also checked with two buffers and with three events.

`CHECK_DEADLOCK FALSE` stands where the system may stop: after the object is
deleted or the calls are used up, when no frame id is left, when the last
picture or job is over, and in `stream`, `jpeg`, `interface` and `legacy` also
where a call waits for ever in one of the cases the properties name.

## 5. Fairness

`QCameraPostProc`: its two threads and the steps of the state machine thread
that wait for nothing are weakly fair, the camera delivers the frames of a
picture that streams and the encoder finishes its jobs. Taking and cancelling
pictures is the application's choice. `StopEnds` needs this fairness, and
`PictureEnds` is refuted in spite of it.

`ApiHandshake`: each caller, the thread that
posts an event it has queued, and the state machine thread are weakly fair:
the scheduler runs every thread that can run. Weak fairness is enough for
`m_lock` because nobody but a waiting caller and the thread competes for it.
Nobody has to call, to post an event, to wake a sleeper spuriously or to
delete the object.

`StreamLifecycle`: the call that is in progress, the poll thread, the threads of
the channel and those of each stream are weakly fair, and who holds a frame
returns it, as the display, the encoder and the application do. No frame has to
come and no call to be made.

`MmJpeg`: the call in progress, the job manager, the encoder with its thread and
each notify thread are weakly fair. Nobody has to start, abort or close.
`ResultComes` is refuted in spite of it.

`QualcommCameraHardware`: the steps of a call, the frame and snapshot threads
and the library's answer to a capture are weakly fair together, the preview
thread and a call of `releaseRecordingFrame()` that has its lock each for itself:
they are what the frame thread waits for. Neither a frame nor the end of the
video thread is needed for a call to return. `startRecording()` empties a queue that
the driver fills; that it ever finds it empty is not assumed, and `CallsReturn`
says nothing of a call that is at this with frames in the queue.

`QCameraStateMachine`, `SuperbufQueue` and `CameraInterface` are checked for
safety only. That no calls wait for each other in `CameraInterface` is the
invariant `NobodyWaitsInACircle`; that they return would need a server that
answers and locks that are granted in order.

## 6. What the runs found

Each of these is a run that expects the violation; `PROJECT.json` quotes the
line of the repository it contradicts:

* Starting a recording, and a preview after a picture, delete a metadata
  channel that still streams (`channels_stopped_before_deleted`).
* The `STOP` of a cancelled picture, taken late by the notify thread, throws
  away the result of the next picture, which then never ends (`picture_ends`).
* A job behind a refused one is never looked at again, because the wake-up meant
  for it was used up while another was ongoing (`jpeg_result_comes`).
* In the oldest HAL a second video thread is started while the first goes on
  (`legacy_one_video_thread`).

Seen while modelling, kept in the models as the code has it, and given no run:

* A late `SNAPSHOT_DONE` ends the picture after the one it belongs to
  (`QCameraStateMachine.cpp:1268`).
* Setting the window of a machine in `PREVIEW_READY` cannot start the preview,
  although `QCameraStateMachine.h:145` suggests it.
* `START_RECORDING` during a live snapshot stops the recording and answers OK
  (`QCameraStateMachine.cpp:2045`; latent while the hint is a stub).
* The recording hint is never stored, so recording always fails
  (`QCameraParameters.cpp:1534`).
* `camera_open()` of an open camera returns the address of a member of a NULL
  object (`mm_camera_interface.c:1197`), and the reference it adds is never
  given back.
* A failed event subscription makes the first mapping of a buffer wait for ever
  with the locks of all cameras behind it (`mm_camera.c:322`).
* With no free channel left `mm_camera_add_channel()` initialises NULL
  (`mm_camera.c:701`).
* The HAL's threads of a stream are joined after its buffers were given back: a
  frame in their hands points into memory that is gone (`QCameraChannel::stop()`).
* Stopping a bundle leaves `is_bundled` set (`mm_camera_channel.c:924`), and
  `QCameraChannel::start()` overwrites the result of starting its threads
  (`QCameraChannel.cpp:125`).
* Requests overwrite `pending_cnt` instead of adding to it
  (`mm_camera_channel.c:205`), and a frame whose command node cannot be
  allocated is lost until the stream stops (`mm_camera_stream.c:231`).
* `QCameraChannel::bufDone()` looks up the stream of `bufs[i]` and returns
  `bufs[j]`: wrong when the streams and the buffers are in different orders
  (`QCameraChannel.cpp:155`).
* A frame of a cancelled picture, encoded because its `START` came after the
  `STOP`, can leave the next picture's frame without a command until that picture
  is cancelled (`QCameraPostProc.cpp:1142`).
* A camera closed right after an open whose subscription failed is freed under
  its event poll thread (`mm_camera_thread.c:433`).
* In the oldest HAL a recording takes back buffers that the application is still
  about to release (`QualcommCameraHardware.cpp:7135`), `takePicture()` unlocks a
  lock it has not taken (`:5979`), and a raw callback that returns early leaves the
  snapshot mode set, for which the next `startPreview()` waits for ever (`:7639`).
* A ZSL `takePicture()` that fails leaves the ZSL channel streaming in
  `PREVIEW_STOPPED` (`QCamera2HWI.cpp:1144`).

## 7. Not modelled, and why

Parameters (string conversion), memory (ION I/O), data callbacks (no state of
their own), the test application, the first-generation HAL and its copy at the
root (a third variant of the same tasks, with threads and a stack of its own;
a later step), vendor code and headers. Inside the modelled components: dumping,
logging, the notify queue to the framework, sensor and LED commands; offline
reprocessing, which `needOfflineReprocess()` switches off; the launch and
exit of the postprocessor's threads; allocation failures in the
postprocessor; the formats and layout of buffers; stream parameters and actions,
which are one ioctl each; thumbnails and Exif; in the oldest HAL parameters,
histogram, focus, ZSL and 3D. What is done with memory after it was freed is
undefined and no model has steps for it; the HAL destroying itself while an
event is being handled (`QCamera2HWI.cpp:584`) falls under this.

## 8. Proofs

Eight components have theorems, each in a module of its own that extends the
component's: `QCameraStateMachine_proofs`, `ApiHandshake_proofs`,
`SuperbufQueue_proofs`, `QCameraPostProc_proofs`, `StreamLifecycle_proofs`,
`CameraInterface_proofs`, `MmJpeg_proofs` and `QualcommCameraHardware_proofs`. They
hold for every value of the constants that the
`ASSUME`s of the component's module admit: any faults, any number of pictures,
cameras, clients, streams, buffers and jobs, and any bound. Those assumptions say
no more than what kind of value a constant is, that a few marks
(`Free`, `NoApi`, `NoBuf`) are none of the values they stand beside, and that an
instance of `StreamLifecycle` with a channel of two streams has two (`MaxStreams`). Two
theorems have a hypothesis of their own, named below with what justifies it.

| module | theorems (`Spec => []...`) |
|---|---|
| `QCameraStateMachine` | `TypeCorrect` (`TypeOK`), `PreviewCaptureExclusion`, `StoppedIsQuiet`, `VideoInRecording` and the three together, `StreamsFit` (`StreamsFitTheState`); `PictureCanEnd` (`PictureHasPostprocessor`); `PostprocessorStopped` (`PostprocessorStoppedOutsidePictures`); `PreviewGoesOn` (`PreviewSurvives`); `Refinement` (`Spec => NotifiesPictures`) |
| `ApiHandshake` | `TypeCorrect`; `AnswersMatch` (`AnswerIsForThisCall`), with one caller |
| `SuperbufQueue` | `TypeCorrect`; `InStep` (`SuperBufsInStep`); `NoBufferLeaks` (`BuffersAccountedFor`); `LoopsEnd` (`NeverSpins`); `SensorIsFed` (`IdleHalLeavesBuffers`) |
| `QCameraPostProc` | `TypeCorrect`; `FramesNeverLost` (`FramesAccountedFor`); `ResultsAreTaken` (the results' part of `NothingStranded`); `NothingIsStranded` (all of it), with one frame in a picture |
| `StreamLifecycle`, `PollThread` | `TypeCorrect`; `BuffersNeverLost` (`BuffersAccountedFor`); `BuffersGivenBackAreLetGo` (`StackLetsGo`); `StoppingIsComplete` (`NothingLeftBehind`) |
| `CameraInterface` | `TypeCorrect`; `ObjectsStay` (`NobodyUsesAFreedObject`); `AnswersMatch` (`AnswerIsForThisRequest`); `NoDeadlock` (`NobodyWaitsInACircle`) |
| `MmJpeg` | `TypeCorrect`; `JobsInOnePlace` (`JobsAccountedFor`); `ResultsMatch` (`ResultIsOfTheJob`) |
| `QualcommCameraHardware` | `TypeCorrect`; `PreviewsApart` (`PreviewsDoNotOverlap`); `OneOwnerEach` (`RecordBuffersHaveOneOwner`); `CapturesHaveTheirThread` (`CaptureHasItsThread`) |

Every proof has the same frame. An inductive invariant `IInv`, a conjunction
of named parts, implies the property; it holds at the start; a lemma per action
says that the action keeps it; the theorem puts these together. The
invariants were first checked with TLC on the instances of the runs. Why
each is needed:

**`QCameraStateMachine`.** A capture channel could start beside a preview channel
if a state that starts captures could have a second one, so `IInv` says, per
state, which channels may be active, and per mode, which exist at all. The
proof first describes each operation of the interface by a lemma (which channels
it changes, and to what). `QuietInv` is what holds besides in quiet
behaviours: outside ZSL mode every state with a preview, the ones that take a
picture beside it included, has a preview channel that streams, and outside
the picture states the postprocessor is stopped. `PreviewSurvives` itself speaks
of fewer states and is not inductive: a recording keeps the preview it found, and
a live snapshot the one it hands back.

`Refinement`: every step of the state machine's specification is a step
of `PictureNotifier` or leaves its variables alone. Most actions change none of
`pictures`, `postproc`, `shooting` and the event queue; a lemma per kind of
action maps the rest: taking a picture to `Start`, cancelling to `Stop`, the two
steps of the notify thread to `Post` and `GiveUp`, and `SNAPSHOT_DONE` to `Take`.
It needs `TypeCorrect` and nothing more.

**`ApiHandshake`.** For each program counter of the caller the invariant says where
its request is: not made, on its way (in `api_queue` or with the thread,
never in both), or answered by a result of this very call; and that `m_lock` is
the caller's from `lockAPI()` to `unlockAPI()` but for its sleep. `AnswersMatch`
assumes `OneCaller`: the framework's camera service makes its calls one at a
time, and without that the property is false (section 4). `TypeCorrect` does
not need it.

**`SuperbufQueue`.** `match_cnt` is `Ready`, the number of super buffers before the
first that is not complete, and only the last in the queue may not be; so the
trimming loops, which count on it, end. Super buffers, those on their way to the
HAL in front, are of one exposure each, in order and `post_frame_skip` apart; the
frames the cmd thread has still to see are newer than any in a super buffer,
stream by stream; a buffer out of the kernel is in one place only; and the queue
is at most one longer than `water_mark`, from which `SensorIsFed` follows.

**`QCameraPostProc`.** No frame is twice in the queues, and the ones that are
coming are new (`FramesInv`). At most one job is with the encoder and there are
never more frames in the postprocessor than those of two pictures (`LoadInv`).
`ResultInv` counts: a result in the output queue has a command that will take
it. `WaitingInv` is the same for the frames in the input queue while there is no job; that a
`DO_NEXT` is never spent on nothing rests on `LoadInv` with one frame in a
picture. `OwnInv` is about a job that is there: while no `STOP` has overtaken a `START`,
an active data thread has the frame of its own picture only, and what is left of
the picture before is returned by a `DO_NEXT` that comes before any `START`. So a frame that
finds a job ahead of it has a `DO_NEXT` on its way as well, unless `overtaken`.
`NothingIsStranded` assumes `NumSnapshots = 1`, which is what
`getNumOfSnapshots()` answers (`QCameraParameters.cpp:1540`); with two frames a
`DO_NEXT` can be spent on nothing while a frame waits, and TLC finds it.

**`StreamLifecycle`.** What must be known of a buffer is where it is, and that depends
on how far each call and each thread has come. `CallInv` says at which step of which
call on which stream the HAL can be; `StateInv` the state of every stream by then: in
an undo, for one, the streams before the one that failed are stopped from the first
on. `PartsInv` gives for each such state what the stream has: frames on, an entry in
the poll thread, a command thread. `PollInv` allows for a command the poll thread has
not taken yet, so that what it polls differs from what it was told by one stream at
most, and `CbInv` for the frame it has in hand. `ProcInv`, `JoinInv` and `BundleInv` say
which threads live and when their queues are empty.
`AccountInv` is what `BuffersAccountedFor` rests on: the count of
a buffer is the number of its two ways it is on only if it is at one place of
each way at most (`OnceInStream`, `OnceInBundle`), so that a frame that is
returned, or a super buffer that is dropped, leaves a way for good; and a stream that comes on has
nothing on either way (`FreshInv`), because the stop before it emptied the queues and
joined their threads. The exceptions in the properties are needed here too: a frame
returned after a restart, a registration that failed half way and a start that
failed after the bundle's threads were launched each break one of the parts, and
the invariant says so (`Met`).

**`CameraInterface`.** `CameraInv` says for each camera and each place a thread can be
at which call it is in (`CallOf`), that it holds just the locks of that place
(`Locks`), that an object leaves the table only with its owner's close, which
frees it last (`Objects`), that a channel is there as long as any call on it goes
on, because its callback thread is joined before the deletion (`Channels`), that
the event thread, and the poll thread of a camera that was subscribed, end before
the object does (`Joined`) and that
there is one request or one answer at most (`Answers`). An action of a
thread disturbs the camera of that thread alone; a lemma reduces each action to
that camera. `NoDeadlock` then shows that in any set of threads one waits for
nobody in the set. Threads wait at three places: for `g_intf_lock`, whose
holder stands before a `cam_lock`; for a `cam_lock`, whose holder is past both and
waits for nobody; and, stopping a channel, for its callback thread, which never
stops one. Nobody waits for a `ch_lock`: only the owner's calls take it.

**`MmJpeg`.** `LockInv` ties `job_lock` to the job manager and to the call that goes
through the queues, so that one job is not taken by both; `PlaceInv` says where
each job is (`IsAt`, one of six places or, before its start, none); `OwnerInv`
that every job not yet over belongs to a client that is open, which is why
`Deinit`, which throws the queues away, throws away no job; `CallInv` that a
call that closes a client has left none of its jobs by the time it gives up
the lock. `EncoderInv` says what the encoder has still to say while it has
a buffer (nothing, the buffer's return, or that and the end of the flush), and
`StateInv` that the state the job manager waits for is the last of its events:
that is why no buffer of an old job can be taken for that of a new one. `Others` is
written by ranks and not with `SelectSeq`, a recursive operator about which
nothing could be proved; the lemmas `Ranks` and `OthersStay` say what it returns.

**`QualcommCameraHardware`.** Which threads there are depends on how far the call has
come (`PreviewInv`, `StreamingInv`, `PictureInv`); the last says that a capture has
a snapshot thread, which has its buffers. A record buffer is counted
wherever it is (`Owners`). `Accounted` says of it, while a preview is
initialized: it has at most one owner and one for each time it was handed out
twice; if it is tracked and nobody outside has it, the count is one lower, which is
what lets `startRecording()` take it back; and it is not lost: it is tracked,
or on a way that ends with the driver (`Kept`), or with a video thread that is
about to track it (`Tracking`). A buffer that `startRecording()` has just given to the
driver is kept until its mark is cleared, also when another video thread takes it and
tracks it in between: that thread will deliver it, because a recording begins
with its message enabled (`Carried`, `StreamingInv`). `Inherited` is what
holds before the driver gets the buffers of a new preview: what the last one left
outside is all counted in `shared`. The property is the first and third part of
`Accounted`, and nothing is left out of it but what is said: the hand-outs it counts.

What stays with TLC:

* Liveness (`CallsReturn`, `JobsEnd` and the like): fairness and ENABLED are out
  of the prover's reach.
* The refinement of `QCameraPostProc` to `PictureNotifier`. It needs a
  strengthening that relates the notify thread's queue to the stops that went
  before, beyond what `IInv` has; a next step.
* `PictureEnds`, `NoOrphanedChannel`, `ResultComes` and `OneVideoThread`, the
  properties of the runs that expect a violation, do not hold (section 6).
* `AnswerIsForThisCall` and the frames of `NothingStranded` without their
  hypotheses are false, as said above.

No module here declares a RECURSIVE operator, and no theorem needs an
induction over data: where the code loops (trimming the queue, looking for a
super buffer) the model says what the loop leaves, and that is what is
reasoned about.
