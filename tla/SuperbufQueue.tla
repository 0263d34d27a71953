----------------------------- MODULE SuperbufQueue -----------------------------
(***************************************************************************)
(* The super buffers of a bundled channel (mm_camera_channel.c): the streams*)
(* of the channel deliver frames, the channel's cmd thread matches those of *)
(* one exposure into a super buffer, and its cb thread hands the matched    *)
(* ones to the HAL, which returns every buffer when it is done with it.     *)
(*                                                                          *)
(* One step of the cmd thread is one command with all it leads to.  Nobody  *)
(* else touches the queue, the counters or expected_frame_id while the      *)
(* channel is started, and giving a buffer back commutes with the steps of  *)
(* the other threads.  Frame ids start at 1: 0 is how the code marks a slot *)
(* that holds no frame.                                                     *)
(***************************************************************************)
EXTENDS Naturals, Sequences, SequencesExt, FiniteSets

CONSTANTS
    NumStreams,    \* num_streams of the bundle
    NumBufs,       \* buffers of each stream
    NotifyModes,   \* what attr.notify_mode may be
    WaterMark,     \* attr.water_mark
    LookBack,      \* attr.look_back
    PostFrameSkip, \* attr.post_frame_skip
    MaxFrame,      \* bound on the frame ids
    Requests,      \* how many super buffers a request may ask for
    MaxRequests,   \* bound on the requests of one behaviour
    MaxFaults      \* bound on the allocations that fail

ASSUME SuperbufAssumption ==
    /\ NumStreams \in Nat \ {0}
    /\ NumBufs \in Nat \ {0}
    /\ NotifyModes \subseteq {"BURST", "CONTINUOUS"}
    /\ WaterMark \in Nat /\ LookBack \in Nat /\ PostFrameSkip \in Nat
    /\ MaxFrame \in Nat /\ Requests \subseteq Nat /\ MaxRequests \in Nat
    /\ MaxFaults \in Nat

Streams == 1 .. NumStreams     \* bundled_streams[], in its order
FrameId == 1 .. MaxFrame
Empty   == 0                   \* frame_idx of a slot without a frame

VARIABLES
    notify_mode,       \* attr.notify_mode, fixed when the channel is added
    lastFrame,         \* the last frame id each stream has seen
    outside,           \* the buffers out of the kernel (buf_refcnt > 0), each
                       \* named by its stream and the frame it holds
    cmd_queue,         \* commands for the cmd thread
    superbuf_queue,    \* nodes of the queue: a slot per stream, and matched
    expected_frame_id,
    match_cnt,
    pending_cnt,
    spinning,          \* the cmd thread loops for ever on the queue's lock
    cb_queue,          \* super buffers for the cb thread
    held,              \* buffers the HAL has
    lost,              \* buffers whose queue node could not be allocated
    requests,          \* number of requests so far
    faults             \* number of failed allocations so far

queueVars == <<superbuf_queue, expected_frame_id, match_cnt, pending_cnt, spinning>>
vars == <<notify_mode, lastFrame, outside, cmd_queue, queueVars, cb_queue, held,
          lost, requests, faults>>

Node == [bufs : [Streams -> FrameId \cup {Empty}], matched : BOOLEAN]
Buf  == Streams \X FrameId

DataCmd(s, f) == [type |-> "DATA_CB", stream |-> s, frame |-> f]
\* A request has no stream: it uses neither field of a frame.
ReqCmd(n) == [type |-> "REQ_DATA_CB", num |-> n]
Cmd == [type : {"DATA_CB"}, stream : Streams, frame : FrameId]
       \cup [type : {"REQ_DATA_CB"}, num : Nat]

\* The buffers of a super buffer.
BufsOf(node) == {<<s, node.bufs[s]>> : s \in {t \in Streams : node.bufs[t] # Empty}}
BufsOfAll(nodes) == UNION {BufsOf(nodes[i]) : i \in DOMAIN nodes}

-----------------------------------------------------------------------------
(* The queue as the cmd thread works on it: a record, with the buffers given  *)
(* back so far (done) and the super buffers ready to be dispatched (out).     *)

Queue == [que |-> superbuf_queue, expected |-> expected_frame_id,
          cnt |-> match_cnt, pending |-> pending_cnt, spin |-> spinning,
          done |-> {}, out |-> <<>>]

Alone(s, f) == [t \in Streams |-> IF t = s THEN f ELSE Empty]
Complete(bufs) == \A t \in Streams : bufs[t] # Empty

\* mm_channel_qbuf() of some buffers
qbuf(q, bufs) == [q EXCEPT !.done = @ \cup bufs]

\* A node that holds f has become matched, or not.
Matched(q, f, matched) ==
    IF matched THEN [q EXCEPT !.expected = f + PostFrameSkip, !.cnt = @ + 1] ELSE q

NewNode(q, s, f) ==
    LET matched == NumStreams = 1
    IN  Matched([q EXCEPT !.que = Append(@, [bufs |-> Alone(s, f), matched |-> matched])],
                f, matched)

\* Planted error: the scan for older frames is left out.
FillSlotKeepingOlder(q, i, s, f) ==
    LET filled == [q.que[i].bufs EXCEPT ![s] = f]
    IN  Matched([q EXCEPT !.que[i] = [bufs |-> filled, matched |-> Complete(filled)]],
                f, Complete(filled))

\* The slot of s is empty.  The slots are scanned in order: older frames are given
\* back, the first one that is not older ends the scan, and a newer one there
\* refuses the frame.
FillSlot(q, i, s, f) ==
    LET bufs    == q.que[i].bufs
        stops   == {t \in Streams : bufs[t] # Empty /\ bufs[t] >= f}
        isNew   == \A t \in stops : bufs[t] > f => \E u \in stops : u < t
        cleared == {t \in Streams : bufs[t] # Empty /\ bufs[t] < f
                                    /\ \A u \in stops : t < u}
        kept    == [t \in Streams |-> IF t \in cleared THEN Empty ELSE bufs[t]]
        filled  == [kept EXCEPT ![s] = f]
        older   == {<<t, bufs[t]>> : t \in cleared}
    IN  IF isNew
        THEN Matched(qbuf([q EXCEPT !.que[i] = [bufs |-> filled, matched |-> Complete(filled)]],
                          older),
                     f, Complete(filled))
        ELSE qbuf([q EXCEPT !.que[i].bufs = kept], older \cup {<<s, f>>})

\* Planted error: the dropped frames are not given back.
ReplaceSlotSilently(q, i, s, f) ==
    IF q.que[i].bufs[s] < f THEN [q EXCEPT !.que[i].bufs = Alone(s, f)]
                            ELSE qbuf(q, {<<s, f>>})

\* The slot of s is taken: a newer frame drops all of the super buffer.
ReplaceSlot(q, i, s, f) ==
    IF q.que[i].bufs[s] < f
    THEN qbuf([q EXCEPT !.que[i].bufs = Alone(s, f)], BufsOf(q.que[i]))
    ELSE qbuf(q, {<<s, f>>})

\* mm_channel_superbuf_comp_and_enqueue()
superbuf_comp_and_enqueue(q, s, f, noMemory) ==
    LET unmatched == {i \in DOMAIN q.que : ~q.que[i].matched}
        first     == CHOOSE i \in unmatched : \A j \in unmatched : i <= j
    IN  CASE f < q.expected                    -> qbuf(q, {<<s, f>>})
          [] f >= q.expected /\ unmatched = {} -> IF noMemory THEN qbuf(q, {<<s, f>>})
                                                  ELSE NewNode(q, s, f)
          [] OTHER -> IF q.que[first].bufs[s] = Empty THEN FillSlot(q, first, s, f)
                                                      ELSE ReplaceSlot(q, first, s, f)

\* Only a matched node is ever dequeued, and only at the head.
MatchedUpTo(q, n) == n <= Len(q.que) /\ \A i \in 1 .. n : q.que[i].matched

\* Planted errors: match_cnt is not decremented, or by the caller once more.
DequeueUncounted(q, n) == [q EXCEPT !.que = SubSeq(@, n + 1, Len(@))]
DequeueCountedTwice(q, n) ==
    [q EXCEPT !.que = SubSeq(@, n + 1, Len(@)), !.cnt = @ - 2 * n]

\* The first n nodes leave the queue.
Dequeue(q, n) == [q EXCEPT !.que = SubSeq(@, n + 1, Len(@)), !.cnt = @ - n]

\* The loop of superbuf_bufdone_overflow() and of superbuf_skip(): it ends when
\* match_cnt is down to limit, and dequeues nothing while the head is unmatched.
TrimTo(q, limit) ==
    LET excess == q.cnt - limit
    IN  CASE q.cnt <= limit         -> q
          [] q.cnt > limit /\ MatchedUpTo(q, excess) ->
                 qbuf(Dequeue(q, excess), BufsOfAll(SubSeq(q.que, 1, excess)))
          [] OTHER                  -> [q EXCEPT !.spin = TRUE]

\* Planted error: the overflow is never looked at.
NoOverflowCheck(q) == q

superbuf_bufdone_overflow(q) == IF notify_mode = "CONTINUOUS" THEN q ELSE TrimTo(q, WaterMark)
superbuf_skip(q)             == IF notify_mode = "CONTINUOUS" THEN q ELSE TrimTo(q, LookBack)

\* How many super buffers the dispatch loop takes off the queue.
Dispatched(q) ==
    CHOOSE n \in 0 .. Len(q.que) :
        /\ MatchedUpTo(q, n)
        /\ notify_mode = "BURST" => n <= q.pending
        /\ \/ ~MatchedUpTo(q, n + 1)
           \/ notify_mode = "BURST" /\ n = q.pending

DispatchReady(q) ==
    LET n == Dispatched(q)
    IN  [Dequeue(q, n) EXCEPT !.out = SubSeq(q.que, 1, n),
                              !.pending = IF notify_mode = "BURST" THEN @ - n ELSE @]

\* mm_channel_process_stream_buf()
process_stream_buf(q, cmd, noMemory) ==
    LET taken == IF cmd.type = "DATA_CB"
                 THEN superbuf_comp_and_enqueue(q, cmd.stream, cmd.frame, noMemory)
                 ELSE superbuf_skip([q EXCEPT !.pending = cmd.num])
        kept  == superbuf_bufdone_overflow(taken)
    IN  IF taken.spin THEN taken ELSE IF kept.spin THEN kept ELSE DispatchReady(kept)

-----------------------------------------------------------------------------

Init ==
    /\ notify_mode \in NotifyModes
    /\ lastFrame = [s \in Streams |-> 0]
    /\ outside = {}
    /\ cmd_queue = <<>>
    /\ superbuf_queue = <<>>
    /\ expected_frame_id = 0
    /\ match_cnt = 0
    /\ pending_cnt = 0
    /\ spinning = FALSE
    /\ cb_queue = <<>>
    /\ held = {}
    /\ lost = {}
    /\ requests = 0
    /\ faults = 0

InKernel(s) == NumBufs - Cardinality({p \in outside : p[1] = s})

\* mm_stream_data_notify(): the poll thread takes a frame from the kernel and
\* queues it.  A stream without buffers in the kernel misses frames, and the
\* hardware may drop them too.
DataNotify(s) ==
    /\ InKernel(s) > 0
    /\ \E f \in lastFrame[s] + 1 .. MaxFrame :
         /\ lastFrame' = [lastFrame EXCEPT ![s] = f]
         /\ outside' = outside \cup {<<s, f>>}
         /\ \/ /\ cmd_queue' = Append(cmd_queue, DataCmd(s, f))
               /\ UNCHANGED <<lost, faults>>
            \/ /\ faults < MaxFaults           \* no memory for the command
               /\ faults' = faults + 1
               /\ lost' = lost \cup {<<s, f>>}
               /\ UNCHANGED cmd_queue
    /\ UNCHANGED <<notify_mode, queueVars, cb_queue, held, requests>>

\* mm_channel_request_super_buf(); cancelling a request is requesting none.
RequestSuperBuf(n) ==
    /\ requests < MaxRequests
    /\ requests' = requests + 1
    /\ cmd_queue' = Append(cmd_queue, ReqCmd(n))
    /\ UNCHANGED <<notify_mode, lastFrame, outside, queueVars, cb_queue, held,
                   lost, faults>>

\* The cmd thread takes a command.
ProcessStreamBuf ==
    /\ ~spinning
    /\ cmd_queue # <<>>
    /\ cmd_queue' = Tail(cmd_queue)
    /\ \E noMemory \in IF faults < MaxFaults THEN BOOLEAN ELSE {FALSE} :
         LET q == process_stream_buf(Queue, Head(cmd_queue), noMemory)
         IN  /\ superbuf_queue' = q.que
             /\ expected_frame_id' = q.expected
             /\ match_cnt' = q.cnt
             /\ pending_cnt' = q.pending
             /\ spinning' = q.spin
             /\ \/ /\ cb_queue' = cb_queue \o q.out
                   /\ outside' = outside \ q.done
                   /\ UNCHANGED lost
                \/ /\ noMemory        \* for cb_node: its buffers are given back
                   /\ \E i \in DOMAIN q.out :
                        /\ cb_queue' = cb_queue \o RemoveAt(q.out, i)
                        /\ \/ /\ outside' = outside \ (q.done \cup BufsOf(q.out[i]))
                              /\ UNCHANGED lost
                           \/ /\ outside' = outside \ q.done    \* for its queue node
                              /\ lost' = lost \cup BufsOf(q.out[i])
             /\ faults' = IF noMemory THEN faults + 1 ELSE faults
    /\ UNCHANGED <<notify_mode, lastFrame, held, requests>>

\* mm_channel_dispatch_super_buf(): the cb thread calls the HAL.
DispatchSuperBuf ==
    /\ cb_queue # <<>>
    /\ cb_queue' = Tail(cb_queue)
    /\ held' = held \cup BufsOf(Head(cb_queue))
    /\ UNCHANGED <<notify_mode, lastFrame, outside, cmd_queue, queueVars, lost,
                   requests, faults>>

\* The HAL returns a buffer, mm_camera_qbuf().
BufDone(p) ==
    /\ held' = held \ {p}
    /\ outside' = outside \ {p}
    /\ UNCHANGED <<notify_mode, lastFrame, cmd_queue, queueVars, cb_queue, lost,
                   requests, faults>>

Next == \/ \E s \in Streams : DataNotify(s)
        \/ \E n \in Requests : RequestSuperBuf(n)
        \/ ProcessStreamBuf
        \/ DispatchSuperBuf
        \/ \E p \in held : BufDone(p)

Spec == Init /\ [][Next]_vars

-----------------------------------------------------------------------------
(* Properties                                                                *)

\* Every variable has its type.
TypeOK ==
    /\ notify_mode \in {"BURST", "CONTINUOUS"}
    /\ lastFrame \in [Streams -> Nat]
    /\ outside \subseteq Buf
    /\ cmd_queue \in Seq(Cmd)
    /\ superbuf_queue \in Seq(Node)
    /\ expected_frame_id \in Nat
    /\ match_cnt \in Nat
    /\ pending_cnt \in Nat
    /\ spinning \in BOOLEAN
    /\ cb_queue \in Seq(Node)
    /\ held \subseteq Buf
    /\ lost \subseteq Buf
    /\ requests \in Nat
    /\ faults \in Nat

Synchronised(node) == \E f \in FrameId : \A s \in Streams : node.bufs[s] = f
FrameOf(node) == node.bufs[1]
Earlier(node, later) ==
    /\ FrameOf(node) < FrameOf(later)
    /\ FrameOf(node) + PostFrameSkip <= FrameOf(later)
SuperBufsInOrder ==
    LET ready == {j \in DOMAIN superbuf_queue : superbuf_queue[j].matched}
    IN  /\ \A i, j \in DOMAIN cb_queue : i < j => Earlier(cb_queue[i], cb_queue[j])
        /\ \A i, j \in ready : i < j => Earlier(superbuf_queue[i], superbuf_queue[j])
        /\ \A i \in DOMAIN cb_queue, j \in ready : Earlier(cb_queue[i], superbuf_queue[j])

\* What the HAL is promised, however frames were dropped, requests repeated or
\* memory missing: a super buffer has a frame of every stream of the bundle, all
\* of the same exposure, and super buffers come in the order of their frames,
\* post_frame_skip apart.
SuperBufsInStep == SuperBufsInOrder /\ \A i \in DOMAIN cb_queue : Synchronised(cb_queue[i])

\* A buffer out of the kernel is always somewhere on its way back: waiting for
\* the cmd thread, in the queue, on its way to the HAL or with it.  And what is
\* on that way really is out of the kernel: nobody touches a buffer given back.
InCmdQueue ==
    LET frames == {i \in DOMAIN cmd_queue : cmd_queue[i].type = "DATA_CB"}
    IN  {<<cmd_queue[i].stream, cmd_queue[i].frame>> : i \in frames}
BuffersAccountedFor ==
    outside = InCmdQueue \cup BufsOfAll(superbuf_queue) \cup BufsOfAll(cb_queue)
              \cup held \cup lost

\* The loops that trim the queue end: match_cnt is never more than what can be
\* dequeued, or the thread would hold the queue's lock for ever.
NeverSpins == ~spinning

\* In burst mode the queue keeps no more than water_mark super buffers and one
\* that is still incomplete, so that an idle HAL never starves the sensor.
IdleHalLeavesBuffers ==
    (cmd_queue = <<>> /\ cb_queue = <<>> /\ held = {} /\ lost = {}
     /\ NumBufs > WaterMark + 1) =>
        \A s \in Streams : InKernel(s) > 0
=============================================================================
