-------------------------- MODULE SuperbufQueue_proofs --------------------------
(***************************************************************************)
(* Proofs about SuperbufQueue, for every number of streams and every limit: *)
(* the types, that super buffers are complete and in order, that no buffer  *)
(* is forgotten or given back twice, that the loops which trim the queue    *)
(* end, and that the queue of an idle HAL leaves buffers to the kernel.     *)
(*                                                                          *)
(* The inductive invariant has six parts.  Typed bounds the frame ids seen. *)
(* QueueInv says what the queue looks like between two commands: all super  *)
(* buffers but the last are matched, each is ahead of the next, a super     *)
(* buffer has frames of one exposure only, and match_cnt counts the matched *)
(* ones.  ReadyInv says the same of the super buffers the cb thread has, and*)
(* that they are ahead of the queue's.  FrameInv says that the frames which *)
(* wait are newer than all these.  PlaceInv says that a buffer is in one    *)
(* place, and LengthInv that the queue is short.                            *)
(*                                                                          *)
(* The operators of the queue are dealt with one by one, on the record the  *)
(* cmd thread works on; the steps of the threads come after them.           *)
(***************************************************************************)
EXTENDS SuperbufQueue, SequenceTheorems, FiniteSetTheorems, FunctionTheorems,
        WellFoundedInduction, TLAPS

-----------------------------------------------------------------------------
(* The parts of the inductive invariant                                      *)

\* A super buffer in the queue holds frames of one exposure, and is matched when it has
\* one of every stream.
NodeOK(n) ==
    /\ n \in Node
    /\ \A s, t \in Streams : n.bufs[s] # Empty /\ n.bufs[t] # Empty => n.bufs[s] = n.bufs[t]
    /\ n.matched <=> Complete(n.bufs)

\* What n holds is older than what m holds, post_frame_skip apart.
Ahead(n, m) ==
    \A s, t \in Streams :
        n.bufs[s] # Empty /\ m.bufs[t] # Empty =>
            n.bufs[s] < m.bufs[t] /\ n.bufs[s] + PostFrameSkip <= m.bufs[t]
Sorted(ns) == \A i, j \in DOMAIN ns : i < j => Ahead(ns[i], ns[j])
AllAhead(ns, ms) == \A i \in DOMAIN ns, j \in DOMAIN ms : Ahead(ns[i], ms[j])

\* Frames from e on may come after n.
Through(n, e) == \A s \in Streams : n.bufs[s] # Empty => n.bufs[s] + PostFrameSkip <= e

\* The super buffers at the head of the queue that are matched: all but the last one at
\* most.
Ready(que) == IF que # <<>> /\ ~que[Len(que)].matched THEN Len(que) - 1 ELSE Len(que)

QueueRec == [que : Seq(Node), expected : Nat, cnt : Nat, pending : Nat,
             spin : BOOLEAN, done : SUBSET Buf, out : Seq(Node)]

\* The super buffers of the queue.
Line(que) ==
    /\ que \in Seq(Node)
    /\ \A i \in DOMAIN que : NodeOK(que[i])
    /\ \A i \in 1 .. Len(que) - 1 : que[i].matched
    /\ Sorted(que)

\* The queue as the cmd thread leaves it after each of its steps.
MatchedThrough(que, e) == \A i \in DOMAIN que : que[i].matched => Through(que[i], e)
QueueInv(q) ==
    /\ q \in QueueRec /\ q.spin = FALSE
    /\ Line(q.que)
    /\ q.cnt = Ready(q.que)
    /\ MatchedThrough(q.que, q.expected)

\* Super buffers on their way to the HAL, ahead of those in the queue.
Handed(out, que, e) ==
    /\ out \in Seq(Node) /\ Sorted(out) /\ AllAhead(out, que)
    /\ \A i \in DOMAIN out : NodeOK(out[i]) /\ out[i].matched /\ Through(out[i], e)
ReadyInv == Handed(cb_queue, superbuf_queue, expected_frame_id)

\* The frames for the cmd thread: every stream's are in the order it saw them, and newer
\* than any in a super buffer.
FramesOf(cq) == {i \in DOMAIN cq : cq[i].type = "DATA_CB"}
Waiting(cq)  == {<<cq[i].stream, cq[i].frame>> : i \in FramesOf(cq)}
InOrder(cq)  == \A i, j \in FramesOf(cq) :
                    i < j /\ cq[i].stream = cq[j].stream => cq[i].frame < cq[j].frame
NewerThan(cq, bufs) == \A i \in FramesOf(cq), p \in bufs :
                           p[1] = cq[i].stream => p[2] < cq[i].frame
FrameInv ==
    /\ InOrder(cmd_queue)
    /\ NewerThan(cmd_queue, BufsOfAll(superbuf_queue))
    /\ NewerThan(cmd_queue, BufsOfAll(cb_queue))

\* Every buffer out of the kernel is in one place.
OnTheWay == Waiting(cmd_queue) \cup BufsOfAll(superbuf_queue) \cup BufsOfAll(cb_queue)
PlaceInv ==
    /\ outside = OnTheWay \cup held \cup lost
    /\ OnTheWay \cap (held \cup lost) = {}
    /\ held \cap lost = {}
    /\ \A p \in outside : p[2] <= lastFrame[p[1]]

\* The queue is short.
LengthInv == Len(superbuf_queue) <= WaterMark + 1

Typed ==
    /\ notify_mode \in {"BURST", "CONTINUOUS"}
    /\ lastFrame \in [Streams -> 0 .. MaxFrame]
    /\ outside \subseteq Buf /\ held \subseteq Buf /\ lost \subseteq Buf
    /\ cmd_queue \in Seq(Cmd)
    /\ requests \in Nat /\ faults \in Nat
IInv == Typed /\ QueueInv(Queue) /\ ReadyInv /\ FrameInv /\ PlaceInv /\ LengthInv

-----------------------------------------------------------------------------
(* Sequences of super buffers                                                *)

\* A sequence in two parts, the first of length n.
Parts(s, n, a, b) == n \in 0 .. Len(s) /\ a = SubSeq(s, 1, n) /\ b = SubSeq(s, n + 1, Len(s))

\* What is in the parts.
LEMMA SplitAt ==
  ASSUME NEW S, NEW s \in Seq(S), NEW n, NEW a, NEW b, Parts(s, n, a, b)
  PROVE  /\ a \in Seq(S) /\ Len(a) = n /\ DOMAIN a = 1 .. n
         /\ \A i \in 1 .. n : a[i] = s[i] /\ i \in DOMAIN s
         /\ b \in Seq(S) /\ Len(b) = Len(s) - n /\ DOMAIN b = 1 .. Len(s) - n
         /\ \A i \in 1 .. Len(s) - n : b[i] = s[n + i] /\ n + i \in DOMAIN s
<1> USE DEF Parts
<1>0. Len(s) \in Nat /\ DOMAIN s = 1 .. Len(s) /\ \A i \in 1 .. Len(s) : s[i] \in S
  BY LenProperties, ElementOfSeq
<1>1. a \in Seq(S) /\ Len(a) = n /\ \A i \in 1 .. n : a[i] = s[i]
  <2>1. \A i \in 1 .. n : s[i] \in S
    BY <1>0
  <2>2. /\ SubSeq(s, 1, n) \in Seq(S)
        /\ Len(SubSeq(s, 1, n)) = IF 1 <= n THEN n - 1 + 1 ELSE 0
        /\ \A i \in 1 .. n - 1 + 1 : SubSeq(s, 1, n)[i] = s[1 + i - 1]
    BY <2>1, SubSeqProperties
  <2> QED
    BY <2>2
<1>2. b \in Seq(S) /\ Len(b) = Len(s) - n /\ \A i \in 1 .. Len(s) - n : b[i] = s[n + i]
  <2>1. \A i \in n + 1 .. Len(s) : s[i] \in S
    BY <1>0
  <2>2. /\ SubSeq(s, n + 1, Len(s)) \in Seq(S)
        /\ Len(SubSeq(s, n + 1, Len(s))) =
             IF n + 1 <= Len(s) THEN Len(s) - (n + 1) + 1 ELSE 0
        /\ \A i \in 1 .. Len(s) - (n + 1) + 1 : SubSeq(s, n + 1, Len(s))[i] = s[(n + 1) + i - 1]
    BY <1>0, <2>1, SubSeqProperties
  <2>3. b = SubSeq(s, n + 1, Len(s)) /\ n \in 0 .. Len(s)
    OBVIOUS
  <2> HIDE DEF Parts
  <2>4. Len(b) = Len(s) - n
    <3>1. Len(b) = IF n + 1 <= Len(s) THEN Len(s) - (n + 1) + 1 ELSE 0
      BY <2>2, <2>3
    <3>2. Len(s) \in Nat /\ n \in Nat /\ n <= Len(s)
      BY <1>0, <2>3
    <3> QED
      BY <3>1, <3>2
  <2>5. ASSUME NEW i \in 1 .. Len(s) - n PROVE b[i] = s[n + i]
    <3>1. i \in 1 .. Len(s) - (n + 1) + 1 /\ (n + 1) + i - 1 = n + i
      BY <1>0, <2>3
    <3> QED
      BY <2>2, <2>3, <3>1
  <2> QED
    BY <2>2, <2>3, <2>4, <2>5
<1>3. /\ \A i \in 1 .. n : i \in DOMAIN s
      /\ \A i \in 1 .. Len(s) - n : n + i \in DOMAIN s
  BY <1>0
<1>4. DOMAIN a = 1 .. n /\ DOMAIN b = 1 .. Len(s) - n
  BY <1>1, <1>2, LenProperties
<1> HIDE DEF Parts
<1> QED
  BY <1>1, <1>2, <1>3, <1>4

\* The buffers of a super buffer.
LEMMA NodeBufs ==
  ASSUME NEW n \in Node
  PROVE  /\ BufsOf(n) \subseteq Buf
         /\ \A p : p \in BufsOf(n) <=>
              p[1] \in Streams /\ p = <<p[1], n.bufs[p[1]]>> /\ n.bufs[p[1]] # Empty
         /\ \A t \in Streams : n.bufs[t] \in Nat /\ (n.bufs[t] = Empty \/ n.bufs[t] \in FrameId)
<1>1. n.bufs \in [Streams -> FrameId \cup {Empty}]
  BY DEF Node
<1>2. ASSUME NEW t \in Streams
      PROVE  n.bufs[t] \in Nat /\ (n.bufs[t] = Empty \/ n.bufs[t] \in FrameId)
  BY <1>1, SuperbufAssumption DEF FrameId, Empty
<1>3. ASSUME NEW p
      PROVE  p \in BufsOf(n) <=>
               p[1] \in Streams /\ p = <<p[1], n.bufs[p[1]]>> /\ n.bufs[p[1]] # Empty
  BY DEF BufsOf
<1>4. BufsOf(n) \subseteq Buf
  BY <1>2 DEF BufsOf, Buf
<1> QED
  BY <1>2, <1>3, <1>4

\* A buffer of some super buffers is one of one of them.
LEMMA AllBufs ==
  ASSUME NEW ns, NEW p
  PROVE  p \in BufsOfAll(ns) <=> \E i \in DOMAIN ns : p \in BufsOf(ns[i])
BY DEF BufsOfAll

\* Super buffers ahead of others have no buffer of theirs.
LEMMA AheadApart ==
  ASSUME NEW ns \in Seq(Node), NEW ms \in Seq(Node), AllAhead(ns, ms)
  PROVE  BufsOfAll(ns) \cap BufsOfAll(ms) = {}
<1> SUFFICES ASSUME NEW p, p \in BufsOfAll(ns), p \in BufsOfAll(ms) PROVE FALSE
  OBVIOUS
<1>1. PICK i \in DOMAIN ns : p \in BufsOf(ns[i])
  BY AllBufs
<1>2. PICK j \in DOMAIN ms : p \in BufsOf(ms[j])
  BY AllBufs
<1>3. ns[i] \in Node /\ ms[j] \in Node
  BY ElementOfSeq, LenProperties
<1>4. /\ p[1] \in Streams /\ ns[i].bufs[p[1]] # Empty /\ ms[j].bufs[p[1]] # Empty
      /\ ns[i].bufs[p[1]] = ms[j].bufs[p[1]] /\ ns[i].bufs[p[1]] \in Nat
  BY <1>1, <1>2, <1>3, NodeBufs
<1>5. ns[i].bufs[p[1]] < ms[j].bufs[p[1]]
  BY <1>4 DEF AllAhead, Ahead
<1> QED
  BY <1>4, <1>5

\* The parts of a queue.
LEMMA LineParts ==
  ASSUME NEW que, Line(que), NEW n, NEW a, NEW b, Parts(que, n, a, b)
  PROVE  /\ a \in Seq(Node) /\ Line(b) /\ Sorted(a) /\ AllAhead(a, b)
         /\ \A i \in DOMAIN a : NodeOK(a[i])
         /\ BufsOfAll(que) = BufsOfAll(a) \cup BufsOfAll(b)
         /\ BufsOfAll(a) \cap BufsOfAll(b) = {}
<1>0. /\ que \in Seq(Node) /\ Len(que) \in Nat /\ DOMAIN que = 1 .. Len(que)
      /\ n \in 0 .. Len(que)
  BY LenProperties DEF Line, Parts
<1>1. /\ a \in Seq(Node) /\ Len(a) = n /\ DOMAIN a = 1 .. n
      /\ \A i \in 1 .. n : a[i] = que[i] /\ i \in DOMAIN que
      /\ b \in Seq(Node) /\ Len(b) = Len(que) - n /\ DOMAIN b = 1 .. Len(que) - n
      /\ \A i \in 1 .. Len(que) - n : b[i] = que[n + i] /\ n + i \in DOMAIN que
  BY <1>0, SplitAt, Zenon
<1>2. Sorted(a)
  BY <1>1 DEF Line, Sorted
<1>3. Line(b)
  <2>1. \A i \in DOMAIN b : NodeOK(b[i])
    BY <1>1 DEF Line
  <2>2. ASSUME NEW i \in 1 .. Len(b) - 1 PROVE b[i].matched
    <3>1. n + i \in 1 .. Len(que) - 1 /\ i \in 1 .. Len(que) - n
      BY <1>0, <1>1
    <3> QED
      BY <1>1, <3>1 DEF Line
  <2>3. Sorted(b)
    <3>1. ASSUME NEW i \in DOMAIN b, NEW j \in DOMAIN b, i < j PROVE Ahead(b[i], b[j])
      <4>1. n + i < n + j
        BY <1>0, <1>1, <3>1
      <4> QED
        BY <1>1, <4>1 DEF Line, Sorted
    <3> QED
      BY <3>1 DEF Sorted
  <2> QED
    BY <1>1, <2>1, <2>2, <2>3 DEF Line
<1>4. AllAhead(a, b)
  <2>1. ASSUME NEW i \in DOMAIN a, NEW j \in DOMAIN b PROVE Ahead(a[i], b[j])
    <3>1. i < n + j
      BY <1>0, <1>1
    <3> QED
      BY <1>1, <3>1 DEF Line, Sorted
  <2> QED
    BY <2>1 DEF AllAhead
<1>5. \A i \in DOMAIN a : NodeOK(a[i])
  BY <1>1 DEF Line
<1>6. BufsOfAll(que) = BufsOfAll(a) \cup BufsOfAll(b)
  <2>1. ASSUME NEW p, p \in BufsOfAll(que) PROVE p \in BufsOfAll(a) \cup BufsOfAll(b)
    <3>1. PICK i \in DOMAIN que : p \in BufsOf(que[i])
      BY <2>1, AllBufs
    <3>2. CASE i <= n
      <4>1. i \in DOMAIN a /\ a[i] = que[i]
        BY <1>0, <1>1, <3>2
      <4> QED
        BY <3>1, <4>1, AllBufs
    <3>3. CASE ~(i <= n)
      <4>1. i - n \in 1 .. Len(que) - n /\ n + (i - n) = i
        BY <1>0, <3>3
      <4>2. b[i - n] = que[i] /\ i - n \in DOMAIN b
        BY <1>1, <4>1
      <4> QED
        BY <3>1, <4>2, AllBufs
    <3> QED
      BY <3>2, <3>3
  <2>2. ASSUME NEW p, p \in BufsOfAll(a) PROVE p \in BufsOfAll(que)
    BY <1>1, <2>2, AllBufs
  <2>3. ASSUME NEW p, p \in BufsOfAll(b) PROVE p \in BufsOfAll(que)
    <3>1. PICK i \in DOMAIN b : p \in BufsOf(b[i])
      BY <2>3, AllBufs
    <3>2. n + i \in DOMAIN que /\ p \in BufsOf(que[n + i])
      BY <1>1, <3>1
    <3> QED
      BY <3>2, AllBufs
  <2> QED
    BY <2>1, <2>2, <2>3
<1>7. BufsOfAll(a) \cap BufsOfAll(b) = {}
  BY <1>1, <1>4, AheadApart
<1> QED
  BY <1>1, <1>2, <1>3, <1>4, <1>5, <1>6, <1>7

\* Appended super buffers.
LEMMA Joined ==
  ASSUME NEW ns \in Seq(Node), NEW ms \in Seq(Node)
  PROVE  /\ ns \o ms \in Seq(Node)
         /\ BufsOfAll(ns \o ms) = BufsOfAll(ns) \cup BufsOfAll(ms)
         /\ Sorted(ns) /\ Sorted(ms) /\ AllAhead(ns, ms) => Sorted(ns \o ms)
         /\ \A k \in DOMAIN (ns \o ms) : \/ \E i \in DOMAIN ns : (ns \o ms)[k] = ns[i]
                                         \/ \E j \in DOMAIN ms : (ns \o ms)[k] = ms[j]
<1> DEFINE u == ns \o ms
<1>0. /\ Len(ns) \in Nat /\ DOMAIN ns = 1 .. Len(ns)
      /\ Len(ms) \in Nat /\ DOMAIN ms = 1 .. Len(ms)
  BY LenProperties
<1>1. /\ u \in Seq(Node) /\ Len(u) = Len(ns) + Len(ms) /\ DOMAIN u = 1 .. Len(ns) + Len(ms)
      /\ \A i \in 1 .. Len(ns) + Len(ms) :
           u[i] = IF i <= Len(ns) THEN ns[i] ELSE ms[i - Len(ns)]
  BY ConcatProperties, LenProperties
<1> HIDE DEF u
<1>2. ASSUME NEW k \in DOMAIN u
      PROVE  \/ k \in DOMAIN ns /\ u[k] = ns[k]
             \/ k - Len(ns) \in DOMAIN ms /\ ~(k <= Len(ns)) /\ u[k] = ms[k - Len(ns)]
  BY <1>0, <1>1
<1>3. ASSUME NEW i \in DOMAIN ns PROVE i \in DOMAIN u /\ u[i] = ns[i]
  BY <1>0, <1>1
<1>4. ASSUME NEW j \in DOMAIN ms PROVE Len(ns) + j \in DOMAIN u /\ u[Len(ns) + j] = ms[j]
  <2>1. /\ Len(ns) + j \in 1 .. Len(ns) + Len(ms)
        /\ ~(Len(ns) + j <= Len(ns)) /\ (Len(ns) + j) - Len(ns) = j
    BY <1>0
  <2> QED
    BY <1>1, <2>1
<1>5. BufsOfAll(u) = BufsOfAll(ns) \cup BufsOfAll(ms)
  <2>1. ASSUME NEW p, p \in BufsOfAll(u) PROVE p \in BufsOfAll(ns) \cup BufsOfAll(ms)
    BY <1>2, <2>1, AllBufs
  <2>2. ASSUME NEW p, p \in BufsOfAll(ns) PROVE p \in BufsOfAll(u)
    BY <1>3, <2>2, AllBufs
  <2>3. ASSUME NEW p, p \in BufsOfAll(ms) PROVE p \in BufsOfAll(u)
    BY <1>4, <2>3, AllBufs
  <2> QED
    BY <2>1, <2>2, <2>3
<1>6. ASSUME Sorted(ns), Sorted(ms), AllAhead(ns, ms), NEW i \in DOMAIN u, NEW j \in DOMAIN u, i < j
      PROVE  Ahead(u[i], u[j])
  <2>1. CASE i <= Len(ns) /\ j <= Len(ns)
    BY <1>0, <1>1, <1>6, <2>1 DEF Sorted
  <2>2. CASE i <= Len(ns) /\ ~(j <= Len(ns))
    BY <1>2, <1>6, <2>2 DEF AllAhead
  <2>3. CASE ~(i <= Len(ns)) /\ ~(j <= Len(ns))
    <3>1. i - Len(ns) \in DOMAIN ms /\ j - Len(ns) \in DOMAIN ms /\ i - Len(ns) < j - Len(ns)
      BY <1>0, <1>1, <1>6, <2>3
    <3> QED
      BY <1>1, <1>6, <2>3, <3>1 DEF Sorted
  <2> QED
    BY <1>0, <1>1, <1>6, <2>1, <2>2, <2>3
<1>7. Sorted(ns) /\ Sorted(ms) /\ AllAhead(ns, ms) => Sorted(u)
  BY <1>6 DEF Sorted
<1> QED
  BY <1>1, <1>2, <1>5, <1>7 DEF u

-----------------------------------------------------------------------------
(* Taking super buffers off the queue                                        *)

\* The matched super buffers are at the head.
LEMMA ReadyOnes ==
  ASSUME NEW que, Line(que)
  PROVE  /\ Len(que) \in Nat /\ DOMAIN que = 1 .. Len(que)
         /\ Ready(que) \in Nat /\ Ready(que) <= Len(que) /\ Len(que) <= Ready(que) + 1
         /\ \A i \in 1 .. Ready(que) : i \in DOMAIN que /\ que[i].matched
         /\ Ready(que) < Len(que) => ~que[Len(que)].matched /\ Ready(que) = Len(que) - 1
         /\ Ready(que) = Len(que) => \A i \in DOMAIN que : que[i].matched
<1>0. /\ que \in Seq(Node) /\ Len(que) \in Nat /\ DOMAIN que = 1 .. Len(que)
      /\ (que # <<>> => Len(que) >= 1)
  BY LenProperties, EmptySeq DEF Line
<1>1. \A i \in 1 .. Len(que) - 1 : que[i].matched
  BY DEF Line
<1>2. CASE que # <<>> /\ ~que[Len(que)].matched
  <2>1. Ready(que) = Len(que) - 1
    BY <1>2 DEF Ready
  <2>2. Len(que) \in Nat /\ Len(que) >= 1
    BY <1>0, <1>2
  <2>3. Ready(que) \in Nat /\ Ready(que) <= Len(que) /\ Len(que) <= Ready(que) + 1
        /\ Ready(que) # Len(que)
    BY <2>1, <2>2
  <2>4. ASSUME NEW i \in 1 .. Ready(que) PROVE i \in DOMAIN que /\ que[i].matched
    <3>1. i \in 1 .. Len(que) - 1 /\ i \in 1 .. Len(que)
      BY <2>1, <2>2
    <3> QED
      BY <1>0, <1>1, <3>1
  <2> QED
    BY <1>0, <1>2, <2>1, <2>3, <2>4, Zenon
<1>3. CASE que = <<>>
  BY <1>0, <1>3 DEF Ready
<1>4. CASE que # <<>> /\ que[Len(que)].matched
  <2>1. ASSUME NEW i \in 1 .. Len(que) PROVE que[i].matched
    <3>1. i = Len(que) \/ i \in 1 .. Len(que) - 1
      <4>1. Len(que) \in Nat
        BY <1>0
      <4> QED
        BY <4>1
    <3> QED
      BY <1>1, <1>4, <3>1
  <2> QED
    BY <1>0, <1>4, <2>1 DEF Ready
<1> QED
  BY <1>2, <1>3, <1>4

\* So they can be dequeued up to their number, and no further.
LEMMA MatchedOnes ==
  ASSUME NEW q, Line(q.que), NEW n \in Nat
  PROVE  MatchedUpTo(q, n) <=> n <= Ready(q.que)
<1>1. ASSUME n <= Ready(q.que) PROVE MatchedUpTo(q, n)
  BY <1>1, ReadyOnes DEF MatchedUpTo
<1>2. ASSUME MatchedUpTo(q, n) PROVE n <= Ready(q.que)
  <2> SUFFICES ASSUME ~(n <= Ready(q.que)) PROVE FALSE
    OBVIOUS
  <2>1. n <= Len(q.que) /\ \A i \in 1 .. n : q.que[i].matched
    BY <1>2 DEF MatchedUpTo
  <2>2. n = Len(q.que) /\ Ready(q.que) < Len(q.que) /\ n >= 1
    BY <2>1, ReadyOnes
  <2> QED
    BY <2>1, <2>2, ReadyOnes
<1> QED
  BY <1>1, <1>2

\* What is left when some of the matched ones are taken.
LEMMA Shortened ==
  ASSUME NEW que, Line(que), NEW n, n <= Ready(que), NEW a, NEW b, Parts(que, n, a, b)
  PROVE  /\ Ready(b) = Ready(que) - n
         /\ \A i \in DOMAIN a : a[i].matched
         /\ \A e : MatchedThrough(que, e) =>
              MatchedThrough(b, e) /\ \A i \in DOMAIN a : Through(a[i], e)
<1>0. /\ que \in Seq(Node) /\ Len(que) \in Nat /\ DOMAIN que = 1 .. Len(que)
      /\ n \in Nat /\ n <= Len(que)
  BY LenProperties DEF Line, Parts
<1>1. /\ a \in Seq(Node) /\ Len(a) = n /\ DOMAIN a = 1 .. n
      /\ \A i \in 1 .. n : a[i] = que[i] /\ i \in DOMAIN que
      /\ b \in Seq(Node) /\ Len(b) = Len(que) - n /\ DOMAIN b = 1 .. Len(que) - n
      /\ \A i \in 1 .. Len(que) - n : b[i] = que[n + i] /\ n + i \in DOMAIN que
  BY <1>0, SplitAt, Zenon
<1>2. /\ Ready(que) \in Nat /\ Ready(que) <= Len(que)
      /\ \A i \in 1 .. Ready(que) : i \in DOMAIN que /\ que[i].matched
      /\ Ready(que) < Len(que) => ~que[Len(que)].matched /\ Ready(que) = Len(que) - 1
      /\ Ready(que) = Len(que) => \A i \in DOMAIN que : que[i].matched
  BY ReadyOnes
<1>3. \A i \in DOMAIN a : a[i].matched
  <2>1. \A i \in 1 .. n : que[i].matched
    BY <1>0, <1>2
  <2> QED
    BY <1>1, <2>1
<1>4. Ready(b) = Ready(que) - n
  <2>1. b = <<>> <=> Len(que) = n
    BY <1>0, <1>1, EmptySeq
  <2>2. ASSUME b # <<>> PROVE b[Len(b)] = que[Len(que)]
    <3>1. Len(que) - n \in 1 .. Len(que) - n /\ n + (Len(que) - n) = Len(que)
      <4>1. Len(que) \in Nat /\ n \in Nat /\ n <= Len(que) /\ Len(que) # n
        BY <1>0, <2>1, <2>2, Zenon
      <4> QED
        BY <4>1
    <3> QED
      BY <1>1, <3>1
  <2>3. CASE b = <<>>
    <3>1. Ready(que) = n
      BY <1>0, <1>2, <2>1, <2>3
    <3>2. Ready(b) = Len(que) - n
      BY <1>1, <2>3 DEF Ready
    <3> QED
      BY <1>0, <2>1, <2>3, <3>1, <3>2
  <2>4. CASE b # <<>> /\ ~que[Len(que)].matched
    <3>1. Ready(que) = Len(que) - 1
      <4>1. Len(que) \in DOMAIN que
        <5>1. Len(que) \in Nat /\ n \in Nat /\ n <= Len(que) /\ Len(que) # n
          BY <1>0, <2>1, <2>4, Zenon
        <5>2. Len(que) \in 1 .. Len(que)
          BY <5>1
        <5> QED
          BY <1>0, <5>2
      <4> QED
        BY <1>0, <1>2, <2>4, <4>1
    <3>2. Ready(b) = (Len(que) - n) - 1
      BY <1>1, <2>2, <2>4 DEF Ready
    <3> QED
      BY <1>0, <3>1, <3>2
  <2>5. CASE b # <<>> /\ que[Len(que)].matched
    <3>1. Ready(que) = Len(que)
      BY <1>0, <1>2, <2>5
    <3>2. Ready(b) = Len(que) - n
      BY <1>1, <2>2, <2>5 DEF Ready
    <3> QED
      BY <3>1, <3>2
  <2> QED
    BY <2>3, <2>4, <2>5
<1>5. ASSUME NEW e, MatchedThrough(que, e)
      PROVE  MatchedThrough(b, e) /\ \A i \in DOMAIN a : Through(a[i], e)
  <2>1. MatchedThrough(b, e)
    BY <1>1, <1>5 DEF MatchedThrough
  <2>2. \A i \in DOMAIN a : Through(a[i], e)
    BY <1>1, <1>3, <1>5 DEF MatchedThrough
  <2> QED
    BY <2>1, <2>2
<1> QED
  BY <1>3, <1>4, <1>5

\* r is what is left of q when n super buffers, those of a, are dequeued.
Dequeues(q, n, a, b, r) ==
    n <= Ready(q.que) /\ Parts(q.que, n, a, b) /\ r = Dequeue(q, n)

\* That keeps the queue in order, and touches nothing else.
LEMMA Dequeued ==
  ASSUME NEW q, QueueInv(q), NEW n, NEW a, NEW b, NEW r, Dequeues(q, n, a, b, r)
  PROVE  /\ QueueInv(r) /\ r.que = b /\ r.cnt = Ready(q.que) - n
         /\ r.expected = q.expected /\ r.pending = q.pending
         /\ r.done = q.done /\ r.out = q.out
<1>0. q \in QueueRec /\ q.spin = FALSE /\ Line(q.que) /\ q.cnt = Ready(q.que)
      /\ MatchedThrough(q.que, q.expected)
  BY DEF QueueInv
<1>1. /\ b = SubSeq(q.que, n + 1, Len(q.que)) /\ n \in 0 .. Len(q.que)
      /\ n <= Ready(q.que) /\ Parts(q.que, n, a, b)
  BY DEF Dequeues, Parts
<1>2. r = [q EXCEPT !.que = b, !.cnt = @ - n]
  BY <1>1 DEF Dequeue, Dequeues
<1>3. /\ r.que = b /\ r.cnt = q.cnt - n /\ r.expected = q.expected /\ r.pending = q.pending
      /\ r.done = q.done /\ r.out = q.out /\ r.spin = q.spin
  BY <1>0, <1>2 DEF QueueRec
<1>4. Line(b) /\ b \in Seq(Node)
  BY <1>0, <1>1, LineParts, SMTT(30) DEF Line
<1>5. Ready(b) = Ready(q.que) - n /\ MatchedThrough(b, q.expected)
  BY <1>0, <1>1, Shortened
<1>6. r \in QueueRec
  <2>1. q.cnt - n \in Nat
    <3>1. Ready(q.que) \in Nat /\ n \in Nat
      BY <1>0, <1>1, ReadyOnes
    <3> QED
      BY <1>0, <1>1, <3>1
  <2> QED
    BY <1>0, <1>2, <1>4, <2>1 DEF QueueRec
<1> QED
  BY <1>0, <1>3, <1>4, <1>5, <1>6 DEF QueueInv

\* Of the buffers X the queue r has some, and has given the others back.
Sorts(q, X, r) ==
    /\ QueueInv(r) /\ r.out = <<>>
    /\ BufsOfAll(r.que) \subseteq X
    /\ r.done = q.done \cup (X \ BufsOfAll(r.que))

\* mm_channel_qbuf() changes nothing but what is given back.
LEMMA GivenBack ==
  ASSUME NEW q, QueueInv(q), NEW bufs \in SUBSET Buf, NEW r, r = qbuf(q, bufs)
  PROVE  /\ QueueInv(r) /\ r.que = q.que /\ r.cnt = q.cnt /\ r.expected = q.expected
         /\ r.pending = q.pending /\ r.out = q.out /\ r.done = q.done \cup bufs
<1>1. q \in QueueRec
  BY DEF QueueInv
<1>2. r = [q EXCEPT !.done = @ \cup bufs]
  BY DEF qbuf
<1>3. /\ r.que = q.que /\ r.cnt = q.cnt /\ r.expected = q.expected /\ r.spin = q.spin
      /\ r.pending = q.pending /\ r.out = q.out /\ r.done = q.done \cup bufs
  BY <1>1, <1>2 DEF QueueRec
<1>4. r \in QueueRec
  BY <1>1, <1>2 DEF QueueRec
<1> QED
  BY <1>3, <1>4 DEF QueueInv

\* The loops that trim the queue end, with no more matched super buffers than allowed.
LEMMA Trimmed ==
  ASSUME NEW q, QueueInv(q), q.out = <<>>, NEW limit \in Nat, NEW r, r = TrimTo(q, limit)
  PROVE  /\ Sorts(q, BufsOfAll(q.que), r)
         /\ r.expected = q.expected /\ r.pending = q.pending /\ r.cnt <= limit
<1>0. /\ q \in QueueRec /\ Line(q.que) /\ q.cnt = Ready(q.que) /\ q.cnt \in Nat
      /\ q.que \in Seq(Node)
  BY ReadyOnes DEF QueueInv, Line
<1>1. CASE q.cnt <= limit
  <2>1. r = q
    BY <1>0, <1>1 DEF TrimTo
  <2> QED
    BY <1>1, <2>1 DEF Sorts
<1>2. CASE ~(q.cnt <= limit)
  <2> DEFINE n == q.cnt - limit
             a == SubSeq(q.que, 1, n)
             b == SubSeq(q.que, n + 1, Len(q.que))
             d == Dequeue(q, n)
  <2>1. n \in Nat /\ n <= Ready(q.que) /\ n <= Len(q.que) /\ Ready(q.que) - n = limit
    <3>1. Ready(q.que) <= Len(q.que) /\ Len(q.que) \in Nat
      BY <1>0, ReadyOnes
    <3> QED
      BY <1>0, <1>2, <3>1
  <2> HIDE DEF n
  <2>2. MatchedUpTo(q, n)
    BY <1>0, <2>1, MatchedOnes
  <2>3. r = qbuf(d, BufsOfAll(a))
    BY <1>0, <1>2, <2>2 DEF TrimTo, n
  <2>4. Parts(q.que, n, a, b)
    BY <2>1 DEF Parts
  <2> HIDE DEF a, b, d
  <2>5. /\ QueueInv(d) /\ d.que = b /\ d.cnt = Ready(q.que) - n
        /\ d.expected = q.expected /\ d.pending = q.pending
        /\ d.done = q.done /\ d.out = q.out
    <3>1. Dequeues(q, n, a, b, d)
      BY <2>1, <2>4 DEF d, Dequeues
    <3> QED
      BY <3>1, Dequeued
  <2>6. /\ BufsOfAll(q.que) = BufsOfAll(a) \cup BufsOfAll(b)
        /\ BufsOfAll(a) \cap BufsOfAll(b) = {} /\ a \in Seq(Node)
    BY <1>0, <2>4, LineParts
  <2>7. BufsOfAll(a) \in SUBSET Buf
    <3>1. ASSUME NEW p, p \in BufsOfAll(a) PROVE p \in Buf
      <4>1. PICK i \in DOMAIN a : p \in BufsOf(a[i])
        BY <3>1, AllBufs
      <4>2. a[i] \in Node
        BY <2>6, ElementOfSeq, LenProperties
      <4> QED
        BY <4>1, <4>2, NodeBufs
    <3> QED
      BY <3>1
  <2>8. /\ QueueInv(r) /\ r.que = d.que /\ r.cnt = d.cnt /\ r.expected = d.expected
        /\ r.pending = d.pending /\ r.out = d.out /\ r.done = d.done \cup BufsOfAll(a)
    BY <2>3, <2>5, <2>7, GivenBack
  <2>9. r.done = q.done \cup (BufsOfAll(q.que) \ BufsOfAll(r.que))
    BY <2>5, <2>6, <2>8
  <2> QED
    BY <2>1, <2>5, <2>6, <2>8, <2>9 DEF Sorts
<1> QED
  BY <1>1, <1>2

\* One after the other.
LEMMA SortsOn ==
  ASSUME NEW q, NEW X, NEW r, Sorts(q, X, r), NEW t, Sorts(r, BufsOfAll(r.que), t)
  PROVE  Sorts(q, X, t)
<1>1. BufsOfAll(t.que) \subseteq X
  BY DEF Sorts
<1>2. t.done = q.done \cup (X \ BufsOfAll(t.que))
  BY DEF Sorts
<1> QED
  BY <1>1, <1>2 DEF Sorts

\* How many are dispatched: in burst mode no more than were asked for, and else all.
LEMMA DispatchedOnes ==
  ASSUME NEW q, QueueInv(q), notify_mode \in {"BURST", "CONTINUOUS"}
  PROVE  /\ Dispatched(q) \in Nat /\ Dispatched(q) <= Ready(q.que)
         /\ notify_mode = "BURST" => Dispatched(q) <= q.pending
         /\ notify_mode = "CONTINUOUS" => Dispatched(q) = Ready(q.que)
<1>0. /\ Line(q.que) /\ q.pending \in Nat
      /\ Ready(q.que) \in Nat /\ Len(q.que) \in Nat /\ Ready(q.que) <= Len(q.que)
  BY ReadyOnes DEF QueueInv, QueueRec
<1> DEFINE ok(n) == /\ MatchedUpTo(q, n)
                    /\ notify_mode = "BURST" => n <= q.pending
                    /\ \/ ~MatchedUpTo(q, n + 1)
                       \/ notify_mode = "BURST" /\ n = q.pending
<1>1. ASSUME NEW n \in Nat
      PROVE  ok(n) <=> /\ n <= Ready(q.que)
                       /\ notify_mode = "BURST" => n <= q.pending
                       /\ n = Ready(q.que) \/ (notify_mode = "BURST" /\ n = q.pending)
  <2>1. MatchedUpTo(q, n) <=> n <= Ready(q.que)
    BY <1>0, MatchedOnes
  <2>2. MatchedUpTo(q, n + 1) <=> n + 1 <= Ready(q.que)
    <3>1. n + 1 \in Nat
      OBVIOUS
    <3> QED
      BY <1>0, <3>1, MatchedOnes
  <2>3. n = Ready(q.que) <=> n <= Ready(q.que) /\ ~(n + 1 <= Ready(q.que))
    BY <1>0
  <2> QED
    BY <2>1, <2>2, <2>3
<1>2. \E n \in 0 .. Len(q.que) : ok(n)
  <2> HIDE DEF ok
  <2>1. CASE notify_mode = "BURST" /\ q.pending <= Ready(q.que)
    <3>1. q.pending \in 0 .. Len(q.que)
      BY <1>0, <2>1
    <3>2. ok(q.pending)
      BY <1>0, <1>1, <2>1
    <3> QED
      BY <3>1, <3>2
  <2>2. CASE ~(notify_mode = "BURST" /\ q.pending <= Ready(q.que))
    <3>1. Ready(q.que) \in 0 .. Len(q.que)
      BY <1>0
    <3>2. notify_mode = "BURST" => Ready(q.que) <= q.pending
      BY <1>0, <2>2
    <3>3. ok(Ready(q.que))
      BY <1>0, <1>1, <3>2
    <3> QED
      BY <3>1, <3>3
  <2> QED
    BY <2>1, <2>2
<1>3. Dispatched(q) = CHOOSE n \in 0 .. Len(q.que) : ok(n)
  BY DEF Dispatched
<1> HIDE DEF ok
<1>4. Dispatched(q) \in 0 .. Len(q.que) /\ ok(Dispatched(q))
  BY <1>2, <1>3
<1>5. Dispatched(q) \in Nat
  BY <1>0, <1>4
<1> QED
  BY <1>1, <1>4, <1>5

\* The dispatch loop.
LEMMA DispatchedReady ==
  ASSUME NEW q, QueueInv(q), notify_mode \in {"BURST", "CONTINUOUS"},
         NEW r, r = DispatchReady(q)
  PROVE  /\ QueueInv(r) /\ Handed(r.out, r.que, r.expected)
         /\ r.expected = q.expected /\ r.done = q.done /\ r.cnt <= q.cnt
         /\ notify_mode = "CONTINUOUS" => r.cnt = 0
         /\ BufsOfAll(q.que) = BufsOfAll(r.out) \cup BufsOfAll(r.que)
         /\ BufsOfAll(r.out) \cap BufsOfAll(r.que) = {}
<1> DEFINE n == Dispatched(q)
           a == SubSeq(q.que, 1, n)
           b == SubSeq(q.que, n + 1, Len(q.que))
           d == Dequeue(q, n)
<1>1. /\ n \in Nat /\ n <= Ready(q.que)
      /\ notify_mode = "BURST" => n <= q.pending
      /\ notify_mode = "CONTINUOUS" => n = Ready(q.que)
  BY DispatchedOnes
<1>2. r = [d EXCEPT !.out = a, !.pending = IF notify_mode = "BURST" THEN @ - n ELSE @]
  BY DEF DispatchReady
<1>3. /\ Line(q.que) /\ q.pending \in Nat /\ q.cnt = Ready(q.que)
      /\ MatchedThrough(q.que, q.expected)
      /\ Ready(q.que) \in Nat /\ Len(q.que) \in Nat /\ Ready(q.que) <= Len(q.que)
  BY ReadyOnes DEF QueueInv, QueueRec
<1> HIDE DEF n
<1>4. Parts(q.que, n, a, b)
  BY <1>1, <1>3 DEF Parts
<1>5. Dequeues(q, n, a, b, d)
  BY <1>1, <1>4 DEF Dequeues
<1> HIDE DEF a, b, d
<1>6. /\ QueueInv(d) /\ d.que = b /\ d.cnt = Ready(q.que) - n
      /\ d.expected = q.expected /\ d.pending = q.pending
      /\ d.done = q.done
  BY <1>5, Dequeued
<1>7. /\ a \in Seq(Node) /\ Sorted(a) /\ AllAhead(a, b)
      /\ \A i \in DOMAIN a : NodeOK(a[i])
      /\ BufsOfAll(q.que) = BufsOfAll(a) \cup BufsOfAll(b)
      /\ BufsOfAll(a) \cap BufsOfAll(b) = {}
  BY <1>3, <1>4, LineParts
<1>8. \A i \in DOMAIN a : a[i].matched /\ Through(a[i], q.expected)
  BY <1>1, <1>3, <1>4, Shortened
<1>9. /\ d \in QueueRec /\ d.spin = FALSE /\ Line(d.que) /\ d.cnt = Ready(d.que)
      /\ MatchedThrough(d.que, d.expected)
  BY <1>6 DEF QueueInv
<1>10. /\ r.que = b /\ r.out = a /\ r.expected = q.expected /\ r.done = q.done
       /\ r.cnt = d.cnt /\ r.spin = FALSE
  BY <1>2, <1>6, <1>9 DEF QueueRec
<1>11. r \in QueueRec
  <2>1. (IF notify_mode = "BURST" THEN d.pending - n ELSE d.pending) \in Nat
    BY <1>1, <1>3, <1>6
  <2> QED
    BY <1>2, <1>7, <1>9, <2>1 DEF QueueRec
<1>12. QueueInv(r)
  BY <1>6, <1>9, <1>10, <1>11 DEF QueueInv
<1>13. Handed(r.out, r.que, r.expected)
  BY <1>7, <1>8, <1>10 DEF Handed
<1>14. r.cnt <= q.cnt /\ (notify_mode = "CONTINUOUS" => r.cnt = 0)
  BY <1>1, <1>3, <1>6, <1>10
<1> QED
  BY <1>6, <1>7, <1>10, <1>12, <1>13, <1>14

-----------------------------------------------------------------------------
(* A frame comes to the queue                                                *)

\* A set of natural numbers has a least one.
LEMMA Least ==
  ASSUME NEW T \in SUBSET Nat, T # {}
  PROVE  \E x \in T : \A y \in T : x <= y
<1>1. PICK x \in T : \A y \in T : <<y, x>> \notin OpToRel(<, Nat)
  BY NatLessThanWellFounded, WFMin, Zenon
<1>2. ASSUME NEW y \in T PROVE ~(y < x)
  BY <1>1 DEF OpToRel
<1> QED
  BY <1>2

\* A new frame of a stream: newer than the stream's others in the queue.
Fresh(que, s, f) ==
    /\ s \in Streams /\ f \in FrameId
    /\ \A i \in DOMAIN que : que[i].bufs[s] < f

\* A super buffer with a frame of one stream.
LEMMA AloneNode ==
  ASSUME NEW s \in Streams, NEW f \in FrameId, NEW x, x.bufs = Alone(s, f), x \in Node
  PROVE  /\ BufsOf(x) = {<<s, f>>}
         /\ \A t \in Streams : x.bufs[t] \in {Empty, f}
         /\ \A t, u \in Streams :
              x.bufs[t] # Empty /\ x.bufs[u] # Empty => x.bufs[t] = x.bufs[u]
         /\ Complete(x.bufs) <=> NumStreams = 1
<1>0. f # Empty
  BY SuperbufAssumption DEF FrameId, Empty
<1>1. \A t \in Streams : x.bufs[t] = IF t = s THEN f ELSE Empty
  BY DEF Alone
<1>2. BufsOf(x) = {<<s, f>>}
  BY <1>0, <1>1 DEF BufsOf
<1>3. Complete(x.bufs) => NumStreams = 1
  <2>1. ASSUME NumStreams # 1 PROVE ~Complete(x.bufs)
    <3>1. PICK t \in Streams : t # s
      <4>1. 1 \in Streams /\ 2 \in Streams
        BY <2>1, SuperbufAssumption DEF Streams
      <4> QED
        BY <4>1
    <3> QED
      BY <1>1, <3>1 DEF Complete
  <2> QED
    BY <2>1
<1>4. NumStreams = 1 => Complete(x.bufs)
  BY <1>0, <1>1 DEF Complete, Streams
<1> QED
  BY <1>0, <1>1, <1>2, <1>3, <1>4

\* A matched super buffer of the queue is ahead of one with nothing but the new frame,
\* if that is not refused.
LEMMA NewestLast ==
  ASSUME NEW que, Line(que), NEW e \in Nat, MatchedThrough(que, e),
         NEW s, NEW f, Fresh(que, s, f), e <= f,
         NEW i \in DOMAIN que, que[i].matched,
         NEW x, \A t \in Streams : x.bufs[t] \in {Empty, f}
  PROVE  Ahead(que[i], x)
<1>1. NodeOK(que[i]) /\ Through(que[i], e)
  BY DEF Line, MatchedThrough
<1>2. /\ que[i] \in Node /\ Complete(que[i].bufs)
      /\ \A t, u \in Streams :
           que[i].bufs[t] # Empty /\ que[i].bufs[u] # Empty => que[i].bufs[t] = que[i].bufs[u]
  BY <1>1 DEF NodeOK
<1>3. s \in Streams /\ f \in Nat /\ que[i].bufs[s] < f
  BY DEF Fresh, FrameId
<1>4. ASSUME NEW t \in Streams, que[i].bufs[t] # Empty
      PROVE  que[i].bufs[t] < f /\ que[i].bufs[t] + PostFrameSkip <= f
  <2>1. que[i].bufs[t] = que[i].bufs[s] /\ que[i].bufs[t] \in Nat
    BY <1>2, <1>3, <1>4, NodeBufs DEF Complete
  <2>2. que[i].bufs[t] + PostFrameSkip <= e
    BY <1>1, <1>4 DEF Through
  <2> QED
    BY <1>3, <2>1, <2>2, SuperbufAssumption
<1> QED
  BY <1>4 DEF Ahead

\* que2 is que with x for its last super buffer, which was not matched.
NewLast(que, x, que2) ==
    /\ Len(que) \in DOMAIN que /\ ~que[Len(que)].matched
    /\ NodeOK(x)
    /\ \A i \in 1 .. Len(que) - 1 : Ahead(que[i], x)
    /\ que2 = [que EXCEPT ![Len(que)] = x]

\* It is in order as well.
LEMMA LastReplaced ==
  ASSUME NEW que, Line(que), NEW x, NEW que2, NewLast(que, x, que2)
  PROVE  /\ Line(que2) /\ Len(que2) = Len(que)
         /\ Ready(que2) = Ready(que) + (IF x.matched THEN 1 ELSE 0)
         /\ \A e : MatchedThrough(que, e) /\ (x.matched => Through(x, e)) =>
              MatchedThrough(que2, e)
         /\ BufsOfAll(que2) = (BufsOfAll(que) \ BufsOf(que[Len(que)])) \cup BufsOf(x)
         /\ BufsOf(que[Len(que)]) \subseteq BufsOfAll(que)
<1> DEFINE l == Len(que)
<1>0. /\ que \in Seq(Node) /\ l \in Nat /\ DOMAIN que = 1 .. l /\ l >= 1
      /\ l \in DOMAIN que /\ ~que[l].matched /\ NodeOK(x) /\ x \in Node
  BY LenProperties DEF Line, NewLast, NodeOK
<1>1. /\ que2 \in Seq(Node) /\ Len(que2) = l /\ DOMAIN que2 = 1 .. l
      /\ que2[l] = x
      /\ \A i \in 1 .. l : i # l => que2[i] = que[i]
  <2>1. l \in 1 .. Len(que)
    BY <1>0
  <2>2. que2 = [que EXCEPT ![l] = x]
    BY DEF NewLast
  <2>3. /\ que2 \in Seq(Node) /\ Len(que2) = Len(que)
        /\ \A i \in 1 .. Len(que) : que2[i] = IF i = l THEN x ELSE que[i]
    BY <1>0, <2>1, <2>2, ExceptSeq
  <2> QED
    BY <1>0, <2>3, LenProperties, Zenon
<1> HIDE DEF l
<1>2. \A i \in 1 .. l - 1 : i \in 1 .. l /\ i # l /\ i < l
  BY <1>0
<1>3. Line(que2)
  <2>1. \A i \in DOMAIN que2 : NodeOK(que2[i])
    BY <1>0, <1>1 DEF Line
  <2>2. \A i \in 1 .. Len(que2) - 1 : que2[i].matched
    BY <1>1, <1>2, Zenon DEF Line, l
  <2>3. ASSUME NEW i \in DOMAIN que2, NEW j \in DOMAIN que2, i < j PROVE Ahead(que2[i], que2[j])
    <3>1. i # l /\ i \in 1 .. l - 1
      BY <1>0, <1>1, <2>3
    <3>2. CASE j = l
      BY <1>1, <3>1, <3>2, Zenon DEF NewLast, l
    <3>3. CASE j # l
      BY <1>0, <1>1, <2>3, <3>1, <3>3 DEF Line, Sorted
    <3> QED
      BY <3>2, <3>3
  <2> QED
    BY <1>1, <2>1, <2>2, <2>3 DEF Line, Sorted
<1>4. Ready(que2) = Ready(que) + (IF x.matched THEN 1 ELSE 0)
  <2>1. que # <<>> /\ que2 # <<>>
    BY <1>0, <1>1
  <2>2. Ready(que) = l - 1
    BY <1>0, <2>1 DEF Ready, l
  <2>3. Ready(que2) = IF x.matched THEN l ELSE l - 1
    BY <1>1, <2>1 DEF Ready
  <2> QED
    BY <1>0, <2>2, <2>3
<1>5. ASSUME NEW e, MatchedThrough(que, e), x.matched => Through(x, e)
      PROVE  MatchedThrough(que2, e)
  BY <1>0, <1>1, <1>5 DEF MatchedThrough
<1>6. BufsOf(que[l]) \subseteq BufsOfAll(que)
  BY <1>0, AllBufs
<1>7. BufsOfAll(que2) = (BufsOfAll(que) \ BufsOf(que[l])) \cup BufsOf(x)
  <2>1. ASSUME NEW i \in 1 .. l, i # l, NEW p, p \in BufsOf(que[i]) PROVE p \notin BufsOf(que[l])
    <3>1. que[i] \in Node /\ que[l] \in Node
      BY <1>0, <2>1, ElementOfSeq, Zenon DEF l
    <3>2. i < l
      BY <1>0, <2>1
    <3>3. Ahead(que[i], que[l])
      BY <1>0, <2>1, <3>2 DEF Line, Sorted
    <3>4. ASSUME p \in BufsOf(que[l]) PROVE FALSE
      <4>1. /\ p[1] \in Streams /\ que[i].bufs[p[1]] # Empty /\ que[l].bufs[p[1]] # Empty
            /\ que[i].bufs[p[1]] = que[l].bufs[p[1]] /\ que[i].bufs[p[1]] \in Nat
        BY <2>1, <3>1, <3>4, NodeBufs
      <4>2. que[i].bufs[p[1]] < que[l].bufs[p[1]]
        BY <3>3, <4>1 DEF Ahead
      <4> QED
        BY <4>1, <4>2
    <3> QED
      BY <3>4
  <2>2. ASSUME NEW p, p \in BufsOfAll(que2)
        PROVE  p \in (BufsOfAll(que) \ BufsOf(que[l])) \cup BufsOf(x)
    <3>1. PICK i \in DOMAIN que2 : p \in BufsOf(que2[i])
      BY <2>2, AllBufs
    <3>2. CASE i = l
      BY <1>1, <3>1, <3>2
    <3>3. CASE i # l
      <4>1. p \in BufsOf(que[i]) /\ i \in DOMAIN que /\ i \in 1 .. l
        BY <1>0, <1>1, <3>1, <3>3
      <4>2. p \in BufsOfAll(que) /\ p \notin BufsOf(que[l])
        BY <2>1, <3>3, <4>1, AllBufs
      <4> QED
        BY <4>2
    <3> QED
      BY <3>2, <3>3
  <2>3. ASSUME NEW p, p \in BufsOf(x) PROVE p \in BufsOfAll(que2)
    <3>1. l \in DOMAIN que2 /\ p \in BufsOf(que2[l])
      BY <1>0, <1>1, <2>3
    <3> QED
      BY <3>1, AllBufs
  <2>4. ASSUME NEW p, p \in BufsOfAll(que), p \notin BufsOf(que[l]) PROVE p \in BufsOfAll(que2)
    <3>1. PICK i \in DOMAIN que : p \in BufsOf(que[i])
      BY <2>4, AllBufs
    <3>2. i # l /\ i \in DOMAIN que2 /\ p \in BufsOf(que2[i])
      BY <1>0, <1>1, <2>4, <3>1
    <3> QED
      BY <3>2, AllBufs
  <2> QED
    BY <2>2, <2>3, <2>4
<1> QED
  BY <1>1, <1>3, <1>4, <1>5, <1>6, <1>7, Zenon DEF l


\* r is q with the queue que2, which has one more matched or not, and with bufs given back.
Becomes(q, f, que2, matched, bufs, r) ==
    r = [q EXCEPT !.que = que2,
                  !.expected = IF matched THEN f + PostFrameSkip ELSE @,
                  !.cnt = IF matched THEN @ + 1 ELSE @,
                  !.done = @ \cup bufs]
GoodQueue(q, f, que2, matched, bufs) ==
    /\ QueueInv(q) /\ f \in FrameId /\ q.expected <= f
    /\ Line(que2) /\ matched \in BOOLEAN /\ bufs \in SUBSET Buf
    /\ Ready(que2) = Ready(q.que) + (IF matched THEN 1 ELSE 0)
    /\ MatchedThrough(que2, IF matched THEN f + PostFrameSkip ELSE q.expected)

\* r is q with a queue in order that took the frame f.
Renews(q, f, que2, matched, bufs, r) ==
    GoodQueue(q, f, que2, matched, bufs) /\ Becomes(q, f, que2, matched, bufs, r)

\* That keeps the queue in order.
LEMMA NewQueue ==
  ASSUME NEW q, NEW f, NEW que2, NEW matched, NEW bufs, NEW r,
         Renews(q, f, que2, matched, bufs, r)
  PROVE  /\ QueueInv(r) /\ r.que = que2 /\ r.done = q.done \cup bufs /\ r.out = q.out
         /\ r.expected >= q.expected /\ r.pending = q.pending
<1>0. /\ q \in QueueRec /\ q.spin = FALSE /\ q.cnt = Ready(q.que) /\ q.cnt \in Nat
      /\ q.expected \in Nat /\ f \in Nat /\ PostFrameSkip \in Nat /\ q.expected <= f
  BY SuperbufAssumption DEF QueueInv, QueueRec, FrameId, Renews, GoodQueue
<1>1. /\ r.que = que2 /\ r.done = q.done \cup bufs /\ r.out = q.out
      /\ r.expected = (IF matched THEN f + PostFrameSkip ELSE q.expected)
      /\ r.cnt = (IF matched THEN q.cnt + 1 ELSE q.cnt)
      /\ r.spin = q.spin /\ r.pending = q.pending
  BY <1>0 DEF Becomes, QueueRec, Renews
<1>2. que2 \in Seq(Node) /\ bufs \in SUBSET Buf /\ matched \in BOOLEAN
  BY DEF GoodQueue, Line, Renews
<1>3. /\ (IF matched THEN f + PostFrameSkip ELSE q.expected) \in Nat
      /\ (IF matched THEN q.cnt + 1 ELSE q.cnt) \in Nat
      /\ (IF matched THEN f + PostFrameSkip ELSE q.expected) >= q.expected
  BY <1>0
<1>4. r \in QueueRec
  BY <1>0, <1>2, <1>3 DEF Becomes, QueueRec, Renews
<1>5. r.cnt = Ready(que2) /\ Line(que2) /\ MatchedThrough(que2, r.expected)
  BY <1>0, <1>1, <1>2 DEF GoodQueue, Renews
<1> QED
  BY <1>0, <1>1, <1>3, <1>4, <1>5 DEF QueueInv

\* What comes of the frame f of s: it is in the queue r or given back, as are the frames
\* it replaces.
Takes(q, s, f, r) ==
    /\ Sorts(q, BufsOfAll(q.que) \cup {<<s, f>>}, r)
    /\ r.expected >= q.expected /\ r.pending = q.pending
    /\ f < q.expected => <<s, f>> \notin BufsOfAll(r.que)

\* A new frame is no buffer of the queue.
LEMMA FreshBuf ==
  ASSUME NEW que, Line(que), NEW s, NEW f, Fresh(que, s, f)
  PROVE  /\ <<s, f>> \notin BufsOfAll(que) /\ <<s, f>> \in Buf
         /\ s \in Streams /\ f \in FrameId /\ f \in Nat /\ f # Empty
<1>1. s \in Streams /\ f \in FrameId /\ f \in Nat /\ f # Empty
  BY SuperbufAssumption DEF Fresh, FrameId, Empty
<1>2. ASSUME <<s, f>> \in BufsOfAll(que) PROVE FALSE
  <2>1. PICK i \in DOMAIN que : <<s, f>> \in BufsOf(que[i])
    BY <1>2, AllBufs
  <2>2. que[i].bufs[s] = f
    BY <2>1 DEF BufsOf
  <2>3. que[i].bufs[s] < f
    BY DEF Fresh
  <2> QED
    BY <1>1, <2>2, <2>3
<1> QED
  BY <1>1, <1>2 DEF Buf

\* A frame refused is given back.
LEMMA Refused ==
  ASSUME NEW q, QueueInv(q), q.out = <<>>, NEW s, NEW f, Fresh(q.que, s, f),
         NEW r, r = qbuf(q, {<<s, f>>})
  PROVE  Takes(q, s, f, r)
<1>1. /\ <<s, f>> \notin BufsOfAll(q.que) /\ {<<s, f>>} \in SUBSET Buf /\ q.expected \in Nat
  BY FreshBuf DEF QueueInv, QueueRec
<1>2. /\ QueueInv(r) /\ r.que = q.que /\ r.expected = q.expected
      /\ r.pending = q.pending /\ r.out = q.out /\ r.done = q.done \cup {<<s, f>>}
  BY <1>1, GivenBack
<1>3. r.done = q.done \cup ((BufsOfAll(q.que) \cup {<<s, f>>}) \ BufsOfAll(r.que))
  BY <1>1, <1>2
<1>4. Sorts(q, BufsOfAll(q.que) \cup {<<s, f>>}, r)
  BY <1>2, <1>3 DEF Sorts
<1>5. r.expected >= q.expected
  BY <1>1, <1>2
<1> QED
  BY <1>1, <1>2, <1>4, <1>5 DEF Takes

\* A frame that finds all super buffers matched begins another.
LEMMA Begun ==
  ASSUME NEW q, QueueInv(q), q.out = <<>>, NEW s, NEW f, Fresh(q.que, s, f), q.expected <= f,
         Ready(q.que) = Len(q.que), NEW r, r = NewNode(q, s, f)
  PROVE  Takes(q, s, f, r)
<1> DEFINE m == NumStreams = 1
           x == [bufs |-> Alone(s, f), matched |-> m]
           que2 == Append(q.que, x)
<1>0. /\ q \in QueueRec /\ Line(q.que) /\ MatchedThrough(q.que, q.expected)
      /\ q.que \in Seq(Node) /\ q.expected \in Nat /\ m \in BOOLEAN
      /\ s \in Streams /\ f \in FrameId /\ f \in Nat /\ <<s, f>> \notin BufsOfAll(q.que)
  BY FreshBuf DEF QueueInv, Line, QueueRec
<1>1. x \in Node /\ x.bufs = Alone(s, f) /\ x.matched = m
  BY <1>0 DEF Node, Alone
<1>2. Becomes(q, f, que2, m, {}, r)
  BY <1>0 DEF Becomes, NewNode, Matched, QueueRec
<1> HIDE DEF x, m
<1>3. /\ BufsOf(x) = {<<s, f>>}
      /\ \A t \in Streams : x.bufs[t] \in {Empty, f}
      /\ NodeOK(x)
  <2>1. /\ BufsOf(x) = {<<s, f>>}
        /\ \A t \in Streams : x.bufs[t] \in {Empty, f}
        /\ \A t, u \in Streams :
             x.bufs[t] # Empty /\ x.bufs[u] # Empty => x.bufs[t] = x.bufs[u]
        /\ Complete(x.bufs) <=> NumStreams = 1
    BY <1>0, <1>1, AloneNode
  <2>2. x.matched <=> NumStreams = 1
    BY <1>1 DEF m
  <2> QED
    BY <1>1, <2>1, <2>2 DEF NodeOK
<1>4. /\ Len(q.que) \in Nat /\ DOMAIN q.que = 1 .. Len(q.que)
      /\ \A i \in DOMAIN q.que : q.que[i].matched
  BY <1>0, ReadyOnes
<1>5. /\ que2 \in Seq(Node) /\ Len(que2) = Len(q.que) + 1 /\ DOMAIN que2 = 1 .. Len(q.que) + 1
      /\ \A i \in 1 .. Len(q.que) : que2[i] = q.que[i]
      /\ que2[Len(q.que) + 1] = x
  BY <1>0, <1>1, AppendProperties, LenProperties
<1> HIDE DEF que2
<1>6. \A i \in DOMAIN que2 : (i \in DOMAIN q.que /\ que2[i] = q.que[i])
                             \/ (i = Len(q.que) + 1 /\ que2[i] = x)
  BY <1>4, <1>5
<1>7. Line(que2)
  <2>1. \A i \in DOMAIN que2 : NodeOK(que2[i])
    BY <1>0, <1>3, <1>6 DEF Line
  <2>2. \A i \in 1 .. Len(que2) - 1 : que2[i].matched
    BY <1>4, <1>5
  <2>3. ASSUME NEW i \in DOMAIN que2, NEW j \in DOMAIN que2, i < j PROVE Ahead(que2[i], que2[j])
    <3>1. i \in DOMAIN q.que /\ que2[i] = q.que[i] /\ q.que[i].matched
      BY <1>4, <1>5, <2>3
    <3>2. CASE j \in DOMAIN q.que
      BY <1>0, <1>4, <1>5, <2>3, <3>1, <3>2 DEF Line, Sorted
    <3>3. CASE que2[j] = x
      BY <1>0, <1>3, <3>1, <3>3, NewestLast
    <3> QED
      BY <1>6, <3>2, <3>3
  <2> QED
    BY <1>5, <2>1, <2>2, <2>3 DEF Line, Sorted
<1>8. Ready(que2) = Ready(q.que) + (IF m THEN 1 ELSE 0)
  <2>1. que2 # <<>>
    BY <1>4, <1>5
  <2>2. que2[Len(que2)] = x
    BY <1>5
  <2>3. Ready(que2) = IF ~m THEN (Len(q.que) + 1) - 1 ELSE Len(q.que) + 1
    BY <1>1, <1>5, <2>1, <2>2 DEF Ready
  <2>4. Len(q.que) \in Nat
    BY <1>4
  <2>5. CASE m
    BY <2>3, <2>4, <2>5
  <2>6. CASE ~m
    BY <2>3, <2>4, <2>6
  <2> QED
    BY <2>5, <2>6
<1>9. MatchedThrough(que2, IF m THEN f + PostFrameSkip ELSE q.expected)
  <2>1. CASE m
    <3>1. ASSUME NEW i \in DOMAIN q.que PROVE Through(q.que[i], f + PostFrameSkip)
      <4>1. Through(q.que[i], q.expected) /\ q.que[i] \in Node
        BY <1>0, <1>4, ElementOfSeq DEF MatchedThrough
      <4>2. \A t \in Streams : q.que[i].bufs[t] \in Nat
        BY <4>1, NodeBufs
      <4> QED
        BY <1>0, <4>1, <4>2, SuperbufAssumption DEF Through
    <3>2. Through(x, f + PostFrameSkip)
      BY <1>0, <1>3, SuperbufAssumption DEF Through
    <3> QED
      BY <1>6, <2>1, <3>1, <3>2 DEF MatchedThrough
  <2>2. CASE ~m
    BY <1>0, <1>1, <1>6, <2>2 DEF MatchedThrough
  <2> QED
    BY <2>1, <2>2
<1>10. BufsOfAll(que2) = BufsOfAll(q.que) \cup {<<s, f>>}
  <2>1. ASSUME NEW p, p \in BufsOfAll(que2) PROVE p \in BufsOfAll(q.que) \cup {<<s, f>>}
    BY <1>3, <1>6, <2>1, AllBufs
  <2>2. ASSUME NEW p, p \in BufsOfAll(q.que) PROVE p \in BufsOfAll(que2)
    <3>1. PICK i \in DOMAIN q.que : p \in BufsOf(q.que[i])
      BY <2>2, AllBufs
    <3>2. i \in DOMAIN que2 /\ que2[i] = q.que[i]
      BY <1>4, <1>5
    <3> QED
      BY <3>1, <3>2, AllBufs
  <2>3. <<s, f>> \in BufsOfAll(que2)
    <3>1. Len(q.que) + 1 \in DOMAIN que2
      BY <1>4, <1>5
    <3> QED
      BY <1>3, <1>5, <3>1, AllBufs
  <2> QED
    BY <2>1, <2>2, <2>3
<1>11. GoodQueue(q, f, que2, m, {})
  BY <1>0, <1>7, <1>8, <1>9 DEF GoodQueue
<1>12. /\ QueueInv(r) /\ r.que = que2 /\ r.done = q.done \cup {} /\ r.out = q.out
       /\ r.expected >= q.expected /\ r.pending = q.pending
  <2> DEFINE none == {}
             matched == x.matched
  <2>1. Renews(q, f, que2, matched, none, r) /\ none = {}
    BY <1>1, <1>2, <1>11 DEF Renews
  <2> HIDE DEF none, matched
  <2>2. QueueInv(r)
    BY <2>1, NewQueue
  <2>3. r.que = que2
    BY <2>1, NewQueue
  <2>4. r.done = q.done \cup none
    BY <1>0, <2>1 DEF Renews, Becomes, QueueRec
  <2>5. r.out = q.out /\ r.pending = q.pending
    BY <2>1, NewQueue
  <2>6. r.expected >= q.expected
    BY <2>1, NewQueue
  <2> QED
    BY <2>1, <2>2, <2>3, <2>4, <2>5, <2>6
<1> QED
  BY <1>0, <1>10, <1>12 DEF Takes, Sorts

\* A frame that is due finds a super buffer that is not matched yet.
Incomplete(q, s, f) ==
    /\ QueueInv(q) /\ q.out = <<>> /\ Fresh(q.que, s, f) /\ q.expected <= f
    /\ Ready(q.que) < Len(q.que)

\* It is the last one.
LEMMA OpenLast ==
  ASSUME NEW q, NEW s, NEW f, Incomplete(q, s, f), NEW old, old = q.que[Len(q.que)]
  PROVE  /\ Len(q.que) \in DOMAIN q.que /\ Len(q.que) \in Nat /\ q.que \in Seq(Node)
         /\ NodeOK(old) /\ old \in Node /\ ~old.matched /\ old.bufs[s] < f
         /\ \A t \in Streams : old.bufs[t] \in Nat /\ old.bufs[t] \in FrameId \cup {Empty}
         /\ s \in Streams /\ f \in FrameId /\ f \in Nat /\ f # Empty
         /\ q \in QueueRec /\ q.expected \in Nat
<1>1. /\ q \in QueueRec /\ Line(q.que) /\ q.que \in Seq(Node) /\ q.expected \in Nat
  BY DEF Incomplete, QueueInv, QueueRec
<1>2. /\ Len(q.que) \in Nat /\ DOMAIN q.que = 1 .. Len(q.que) /\ Ready(q.que) \in Nat
      /\ ~old.matched /\ Ready(q.que) < Len(q.que)
  BY <1>1, ReadyOnes DEF Incomplete
<1>3. Len(q.que) \in DOMAIN q.que
  BY <1>2
<1>4. NodeOK(old) /\ old \in Node
  BY <1>1, <1>3 DEF Line, NodeOK
<1>5. \A t \in Streams : old.bufs[t] \in Nat /\ old.bufs[t] \in FrameId \cup {Empty}
  BY <1>4, NodeBufs DEF Node
<1>6. s \in Streams /\ f \in FrameId /\ f \in Nat /\ f # Empty
  BY <1>1, FreshBuf DEF Incomplete
<1>7. old.bufs[s] < f
  BY <1>3 DEF Incomplete, Fresh
<1> QED
  BY <1>1, <1>2, <1>3, <1>4, <1>5, <1>6, <1>7

\* r is q with x for its last super buffer: it has the new frame, and the frames it has
\* lost are given back.
Renewed(q, s, f, x, r) ==
    /\ NodeOK(x) /\ \A t \in Streams : x.bufs[t] \in {Empty, f}
    /\ <<s, f>> \in BufsOf(x)
    /\ BufsOf(x) \subseteq BufsOf(q.que[Len(q.que)]) \cup {<<s, f>>}
    /\ Becomes(q, f, [q.que EXCEPT ![Len(q.que)] = x], x.matched,
               BufsOf(q.que[Len(q.que)]) \ BufsOf(x), r)

\* That takes the frame.
LEMMA LastRenewed ==
  ASSUME NEW q, NEW s, NEW f, Incomplete(q, s, f), NEW x, NEW r, Renewed(q, s, f, x, r)
  PROVE  Takes(q, s, f, r)
<1> DEFINE old == q.que[Len(q.que)]
           que2 == [q.que EXCEPT ![Len(q.que)] = x]
           back == BufsOf(old) \ BufsOf(x)
           matched == x.matched
<1>1. /\ Len(q.que) \in DOMAIN q.que /\ Len(q.que) \in Nat /\ q.que \in Seq(Node)
      /\ old \in Node /\ ~old.matched
      /\ s \in Streams /\ f \in FrameId /\ f \in Nat /\ f # Empty
      /\ q \in QueueRec /\ q.expected \in Nat
  BY OpenLast
<1>2. /\ QueueInv(q) /\ Line(q.que) /\ Fresh(q.que, s, f) /\ q.expected <= f /\ q.out = <<>>
      /\ MatchedThrough(q.que, q.expected)
  BY DEF Incomplete, QueueInv
<1>3. /\ NodeOK(x) /\ x \in Node /\ x.matched \in BOOLEAN
      /\ \A t \in Streams : x.bufs[t] \in {Empty, f}
      /\ <<s, f>> \in BufsOf(x) /\ BufsOf(x) \subseteq BufsOf(old) \cup {<<s, f>>}
      /\ Becomes(q, f, que2, matched, back, r)
  BY DEF Renewed, NodeOK, Node
<1>4. ASSUME NEW i \in 1 .. Len(q.que) - 1 PROVE Ahead(q.que[i], x)
  <2>1. i \in DOMAIN q.que
    BY <1>1, LenProperties
  <2>2. q.que[i].matched
    BY <1>2 DEF Line
  <2> QED
    BY <1>1, <1>2, <1>3, <2>1, <2>2, NewestLast
<1>5. NewLast(q.que, x, que2)
  BY <1>1, <1>3, <1>4 DEF NewLast
<1> HIDE DEF que2, back, matched
<1>6. /\ Line(que2) /\ Ready(que2) = Ready(q.que) + (IF x.matched THEN 1 ELSE 0)
      /\ \A e : MatchedThrough(q.que, e) /\ (x.matched => Through(x, e)) =>
           MatchedThrough(que2, e)
      /\ BufsOfAll(que2) = (BufsOfAll(q.que) \ BufsOf(old)) \cup BufsOf(x)
      /\ BufsOf(old) \subseteq BufsOfAll(q.que)
  BY <1>2, <1>5, LastReplaced
<1>7. back \in SUBSET Buf
  <2>1. \A t \in Streams : old.bufs[t] \in FrameId \cup {Empty}
    BY <1>1 DEF Node
  <2> QED
    BY <2>1 DEF back, BufsOf, Buf
<1>8. MatchedThrough(que2, IF matched THEN f + PostFrameSkip ELSE q.expected)
  <2>1. CASE matched
    <3>1. ASSUME NEW i \in DOMAIN q.que, q.que[i].matched
          PROVE  Through(q.que[i], f + PostFrameSkip)
      <4>1. Through(q.que[i], q.expected) /\ q.que[i] \in Node
        BY <1>1, <1>2, <3>1, ElementOfSeq DEF MatchedThrough
      <4>2. \A t \in Streams : q.que[i].bufs[t] \in Nat
        BY <4>1, NodeBufs
      <4> QED
        BY <1>1, <1>2, <4>1, <4>2, SuperbufAssumption DEF Through
    <3>2. Through(x, f + PostFrameSkip)
      BY <1>1, <1>3, SuperbufAssumption DEF Through
    <3>3. MatchedThrough(q.que, f + PostFrameSkip)
      BY <3>1 DEF MatchedThrough
    <3> QED
      BY <1>6, <2>1, <3>2, <3>3
  <2>2. CASE ~matched
    BY <1>2, <1>6, <2>2 DEF matched
  <2> QED
    BY <2>1, <2>2
<1>9. Renews(q, f, que2, matched, back, r)
  BY <1>1, <1>2, <1>3, <1>6, <1>7, <1>8 DEF Renews, GoodQueue, matched
<1>10. /\ QueueInv(r) /\ r.que = que2 /\ r.out = q.out
       /\ r.expected >= q.expected /\ r.pending = q.pending
  BY <1>9, NewQueue
<1>11. r.done = q.done \cup back
  BY <1>1, <1>3 DEF Becomes, QueueRec
<1>12. /\ BufsOfAll(que2) \subseteq BufsOfAll(q.que) \cup {<<s, f>>}
       /\ back = (BufsOfAll(q.que) \cup {<<s, f>>}) \ BufsOfAll(que2)
  BY <1>3, <1>6 DEF back
<1>13. Sorts(q, BufsOfAll(q.que) \cup {<<s, f>>}, r)
  BY <1>2, <1>10, <1>11, <1>12 DEF Sorts
<1>14. ~(f < q.expected)
  BY <1>1, <1>2
<1> QED
  BY <1>10, <1>13, <1>14 DEF Takes

\* The slot of the stream is taken: all the super buffer has is dropped.
LEMMA SlotReplaced ==
  ASSUME NEW q, NEW s, NEW f, Incomplete(q, s, f), q.que[Len(q.que)].bufs[s] # Empty,
         NEW r, r = ReplaceSlot(q, Len(q.que), s, f)
  PROVE  Takes(q, s, f, r)
<1> DEFINE l == Len(q.que)
           old == q.que[l]
           x == [bufs |-> Alone(s, f), matched |-> old.matched]
           back == BufsOf(old) \ BufsOf(x)
<1>1. /\ l \in DOMAIN q.que /\ q.que \in Seq(Node)
      /\ NodeOK(old) /\ old \in Node /\ ~old.matched /\ old.bufs[s] < f
      /\ \A t \in Streams : old.bufs[t] \in Nat
      /\ s \in Streams /\ f \in FrameId /\ f \in Nat /\ f # Empty
      /\ q \in QueueRec
  BY OpenLast
<1>2. x \in Node /\ x.bufs = Alone(s, f) /\ x.matched = FALSE
  BY <1>1 DEF Node, Alone
<1>3. [old EXCEPT !.bufs = Alone(s, f)] = x
  BY <1>1 DEF Node
<1>4. r = [q EXCEPT !.que = [q.que EXCEPT ![l] = x], !.done = @ \cup BufsOf(old)]
  <2>1. r = qbuf([q EXCEPT !.que[l].bufs = Alone(s, f)], BufsOf(old))
    BY <1>1 DEF ReplaceSlot
  <2>2. [q EXCEPT !.que[l].bufs = Alone(s, f)] = [q EXCEPT !.que = [q.que EXCEPT ![l] = x]]
    BY <1>1, <1>3 DEF QueueRec
  <2> QED
    BY <1>1, <2>1, <2>2 DEF qbuf, QueueRec
<1> HIDE DEF x
<1>5. /\ BufsOf(x) = {<<s, f>>}
      /\ \A t \in Streams : x.bufs[t] \in {Empty, f}
      /\ \A t, u \in Streams :
           x.bufs[t] # Empty /\ x.bufs[u] # Empty => x.bufs[t] = x.bufs[u]
      /\ Complete(x.bufs) <=> NumStreams = 1
  BY <1>1, <1>2, AloneNode
<1>6. NumStreams # 1
  <2>1. ASSUME NumStreams = 1 PROVE FALSE
    <3>1. \A t \in Streams : t = s
      BY <1>1, <2>1 DEF Streams
    <3>2. Complete(old.bufs)
      BY <3>1 DEF Complete
    <3> QED
      BY <1>1, <3>2 DEF NodeOK
  <2> QED
    BY <2>1
<1>7. NodeOK(x)
  BY <1>2, <1>5, <1>6 DEF NodeOK
<1>8. back = BufsOf(old)
  <2>1. <<s, f>> \notin BufsOf(old)
    BY <1>1 DEF BufsOf
  <2> QED
    BY <1>5, <2>1
<1>9. Becomes(q, f, [q.que EXCEPT ![l] = x], x.matched, back, r)
  BY <1>1, <1>2, <1>4, <1>8 DEF Becomes, QueueRec
<1>10. Renewed(q, s, f, x, r)
  BY <1>5, <1>7, <1>9 DEF Renewed
<1> QED
  BY <1>10, LastRenewed


\* The slot of the stream is empty: older frames are given back, or the frame is.
LEMMA SlotFilled ==
  ASSUME NEW q, NEW s, NEW f, Incomplete(q, s, f), q.que[Len(q.que)].bufs[s] = Empty,
         NEW r, r = FillSlot(q, Len(q.que), s, f)
  PROVE  Takes(q, s, f, r)
<1> DEFINE l       == Len(q.que)
           old     == q.que[l]
           bufs    == old.bufs
           stops   == {t \in Streams : bufs[t] # Empty /\ bufs[t] >= f}
           isNew   == \A t \in stops : bufs[t] > f => \E u \in stops : u < t
           cleared == {t \in Streams : bufs[t] # Empty /\ bufs[t] < f
                                       /\ \A u \in stops : t < u}
           kept    == [t \in Streams |-> IF t \in cleared THEN Empty ELSE bufs[t]]
           filled  == [kept EXCEPT ![s] = f]
           older   == {<<t, bufs[t]>> : t \in cleared}
           x       == [bufs |-> filled, matched |-> Complete(filled)]
<1>1. /\ l \in DOMAIN q.que /\ q.que \in Seq(Node)
      /\ NodeOK(old) /\ old \in Node /\ ~old.matched /\ old.bufs[s] < f
      /\ \A t \in Streams : old.bufs[t] \in Nat /\ old.bufs[t] \in FrameId \cup {Empty}
      /\ s \in Streams /\ f \in FrameId /\ f \in Nat /\ f # Empty
      /\ q \in QueueRec
  BY OpenLast
<1>2. bufs \in [Streams -> FrameId \cup {Empty}]
  BY <1>1 DEF Node
<1>3. r = IF isNew
          THEN Matched(qbuf([q EXCEPT !.que[l] = x], older), f, Complete(filled))
          ELSE qbuf([q EXCEPT !.que[l].bufs = kept], older \cup {<<s, f>>})
  BY Zenon DEF FillSlot
<1>4. \A t, u \in Streams : bufs[t] # Empty /\ bufs[u] # Empty => bufs[t] = bufs[u]
  BY <1>1 DEF NodeOK
<1>5. /\ \A t \in stops : t \in Streams /\ bufs[t] # Empty /\ bufs[t] >= f
      /\ \A t \in Streams : bufs[t] # Empty /\ bufs[t] >= f => t \in stops
      /\ \A t \in cleared : t \in Streams /\ bufs[t] # Empty /\ bufs[t] < f
      /\ \A t \in Streams : bufs[t] # Empty /\ bufs[t] < f /\ stops = {} => t \in cleared
  OBVIOUS
<1>6. /\ kept \in [Streams -> FrameId \cup {Empty}]
      /\ \A t \in Streams : kept[t] = IF t \in cleared THEN Empty ELSE bufs[t]
  BY <1>2
<1>7. isNew <=> \A t \in stops : bufs[t] > f => \E u \in stops : u < t
  OBVIOUS
<1>8. \A p : p \in older <=> \E t \in cleared : p = <<t, bufs[t]>>
  OBVIOUS
<1> HIDE DEF stops, isNew, cleared, kept, older
<1>9. /\ filled \in [Streams -> FrameId \cup {Empty}]
      /\ filled[s] = f /\ \A t \in Streams : t # s => filled[t] = kept[t]
  BY <1>1, <1>6
<1> HIDE DEF filled
<1>10. CASE \E t \in Streams : bufs[t] # Empty /\ bufs[t] > f
  <2>1. PICK t \in Streams : bufs[t] # Empty /\ bufs[t] > f
    BY <1>10
  <2>2. \A u \in Streams : bufs[u] # Empty => bufs[u] > f
    BY <1>4, <2>1
  <2>3. ~isNew
    <3>1. stops \in SUBSET Nat /\ stops # {}
      BY <1>1, <1>5, <2>1, SuperbufAssumption DEF Streams
    <3>2. PICK v \in stops : \A u \in stops : v <= u
      BY <3>1, Least
    <3>3. \A u \in stops : ~(u < v)
      BY <3>1, <3>2
    <3>4. bufs[v] > f
      BY <1>5, <2>2, <3>2
    <3> QED
      BY <1>7, <3>2, <3>3, <3>4
  <2>4. cleared = {}
    <3>1. \A u \in cleared : bufs[u] > f /\ bufs[u] < f /\ bufs[u] \in Nat
      BY <1>1, <1>5, <2>2
    <3> QED
      BY <1>1, <3>1
  <2>5. kept = bufs /\ older = {}
    BY <1>2, <1>6, <1>8, <2>4
  <2>6. r = qbuf([q EXCEPT !.que[l].bufs = bufs], {} \cup {<<s, f>>})
    BY <1>3, <2>3, <2>5
  <2>7. [q EXCEPT !.que[l].bufs = bufs] = q
    <3>1. [old EXCEPT !.bufs = bufs] = old
      BY <1>1 DEF Node
    <3>2. [q.que EXCEPT ![l] = old] = q.que
      BY <1>1
    <3>3. [q EXCEPT !.que = q.que] = q
      BY <1>1 DEF QueueRec
    <3> QED
      BY <1>1, <3>1, <3>2, <3>3
  <2>8. r = qbuf(q, {<<s, f>>})
    BY <2>6, <2>7
  <2> QED
    BY <2>8, Refused DEF Incomplete
<1>11. CASE ~\E t \in Streams : bufs[t] # Empty /\ bufs[t] > f
  <2>1. \A t \in Streams : bufs[t] # Empty => bufs[t] <= f
    BY <1>1, <1>11
  <2>2. isNew
    BY <1>1, <1>5, <1>7, <1>11
  <2>3. \A t \in Streams : kept[t] \in {Empty, f}
    <3>1. CASE stops = {}
      <4>1. ASSUME NEW t \in Streams, bufs[t] # Empty PROVE t \in cleared
        BY <1>1, <1>5, <3>1, <4>1
      <4> QED
        BY <1>6, <4>1
    <3>2. CASE stops # {}
      <4>1. PICK u \in stops : u \in Streams /\ bufs[u] # Empty /\ bufs[u] >= f
        BY <1>5, <3>2
      <4>2. bufs[u] = f
        BY <1>1, <2>1, <4>1
      <4>3. \A t \in Streams : bufs[t] \in {Empty, f}
        BY <1>4, <4>1, <4>2
      <4> QED
        BY <1>6, <4>3
    <3> QED
      BY <3>1, <3>2
  <2>4. \A t \in Streams : filled[t] \in {Empty, f}
    BY <1>9, <2>3
  <2>5. Complete(filled) \in BOOLEAN
    BY DEF Complete
  <2>6. /\ x \in Node /\ x.bufs = filled /\ x.matched = Complete(filled)
    BY <1>9, <2>5 DEF Node
  <2>7. r = Matched(qbuf([q EXCEPT !.que[l] = x], older), f, Complete(filled))
    BY <1>3, <2>2
  <2> HIDE DEF x
  <2>8. NodeOK(x)
    BY <1>1, <2>4, <2>6 DEF NodeOK
  <2>9. \A p : p \in BufsOf(x) <=> \E t \in Streams : filled[t] # Empty /\ p = <<t, filled[t]>>
    BY <2>6 DEF BufsOf
  <2>10. \A p : p \in BufsOf(old) <=> \E t \in Streams : bufs[t] # Empty /\ p = <<t, bufs[t]>>
    BY DEF BufsOf
  <2>11. <<s, f>> \in BufsOf(x) /\ <<s, f>> \notin BufsOf(old)
    BY <1>1, <1>9, <2>9, <2>10
  <2>12. ASSUME NEW p, p \in BufsOf(x) PROVE p = <<s, f>> \/ p \in BufsOf(old)
    <3>1. PICK t \in Streams : filled[t] # Empty /\ p = <<t, filled[t]>>
      BY <2>9, <2>12
    <3> QED
      BY <1>6, <1>9, <2>10, <3>1
  <2>13. BufsOf(old) \ BufsOf(x) = older
    <3>1. ASSUME NEW p, p \in BufsOf(old), p \notin BufsOf(x) PROVE p \in older
      <4>1. PICK t \in Streams : bufs[t] # Empty /\ p = <<t, bufs[t]>>
        BY <2>10, <3>1
      <4>2. t # s
        BY <1>1, <2>10, <2>11, <4>1
      <4>3. t \in cleared
        BY <1>6, <1>9, <2>9, <3>1, <4>1, <4>2
      <4> QED
        BY <1>8, <4>1, <4>3
    <3>2. ASSUME NEW p, p \in older PROVE p \in BufsOf(old) /\ p \notin BufsOf(x)
      <4>1. PICK t \in cleared : p = <<t, bufs[t]>>
        BY <1>8, <3>2
      <4>2. t \in Streams /\ bufs[t] # Empty /\ bufs[t] < f /\ bufs[t] # f
        BY <1>1, <1>5
      <4>3. filled[t] # bufs[t]
        BY <2>4, <4>2
      <4>4. p \notin BufsOf(x)
        BY <2>9, <4>1, <4>3
      <4> QED
        BY <2>10, <4>1, <4>2, <4>4
    <3> QED
      BY <3>1, <3>2
  <2>14. Becomes(q, f, [q.que EXCEPT ![l] = x], x.matched, BufsOf(old) \ BufsOf(x), r)
    <3>1. r = Matched(qbuf([q EXCEPT !.que[l] = x], older), f, x.matched)
      BY <2>6, <2>7
    <3> QED
      BY <1>1, <2>13, <3>1 DEF Becomes, Matched, qbuf, QueueRec
  <2>15. Renewed(q, s, f, x, r)
    BY <2>4, <2>6, <2>8, <2>11, <2>12, <2>14 DEF Renewed
  <2> QED
    BY <2>15, LastRenewed
<1> QED
  BY <1>10, <1>11

\* mm_channel_superbuf_comp_and_enqueue() takes a new frame.
LEMMA FrameTaken ==
  ASSUME NEW q, QueueInv(q), q.out = <<>>, NEW s, NEW f, Fresh(q.que, s, f),
         NEW noMemory, NEW r, r = superbuf_comp_and_enqueue(q, s, f, noMemory)
  PROVE  Takes(q, s, f, r)
<1> DEFINE unmatched == {i \in DOMAIN q.que : ~q.que[i].matched}
           first     == CHOOSE i \in unmatched : \A j \in unmatched : i <= j
<1>1. /\ q \in QueueRec /\ Line(q.que) /\ q.expected \in Nat /\ f \in Nat
      /\ Len(q.que) \in Nat /\ DOMAIN q.que = 1 .. Len(q.que)
      /\ Ready(q.que) \in Nat /\ Ready(q.que) <= Len(q.que)
      /\ Ready(q.que) < Len(q.que) => ~q.que[Len(q.que)].matched /\ Ready(q.que) = Len(q.que) - 1
      /\ Ready(q.que) = Len(q.que) => \A i \in DOMAIN q.que : q.que[i].matched
      /\ \A i \in 1 .. Len(q.que) - 1 : q.que[i].matched
  BY FreshBuf, ReadyOnes DEF QueueInv, QueueRec, Line
<1>2. r = CASE f < q.expected -> qbuf(q, {<<s, f>>})
            [] f >= q.expected /\ unmatched = {} -> IF noMemory THEN qbuf(q, {<<s, f>>})
                                                    ELSE NewNode(q, s, f)
            [] OTHER -> IF q.que[first].bufs[s] = Empty THEN FillSlot(q, first, s, f)
                                                        ELSE ReplaceSlot(q, first, s, f)
  BY DEF superbuf_comp_and_enqueue
<1>3. CASE f < q.expected
  <2>1. r = qbuf(q, {<<s, f>>})
    BY <1>1, <1>2, <1>3, SMTT(30)
  <2> QED
    BY <2>1, Refused
<1>4. CASE f >= q.expected /\ unmatched = {}
  <2>1. r = IF noMemory THEN qbuf(q, {<<s, f>>}) ELSE NewNode(q, s, f)
    BY <1>1, <1>2, <1>4, SMTT(30)
  <2>2. Ready(q.que) = Len(q.que)
    <3>1. ASSUME Ready(q.que) < Len(q.que) PROVE FALSE
      <4>1. Len(q.que) \in DOMAIN q.que /\ ~q.que[Len(q.que)].matched
        BY <1>1, <3>1
      <4> QED
        BY <1>4, <4>1
    <3> QED
      BY <1>1, <3>1
  <2>3. q.expected <= f
    BY <1>1, <1>4
  <2>4. CASE noMemory
    BY <2>1, <2>4, Refused
  <2>5. CASE ~noMemory
    BY <2>1, <2>2, <2>3, <2>5, Begun
  <2> QED
    BY <2>4, <2>5
<1>5. CASE f >= q.expected /\ unmatched # {}
  <2>1. r = IF q.que[first].bufs[s] = Empty THEN FillSlot(q, first, s, f)
                                            ELSE ReplaceSlot(q, first, s, f)
    BY <1>1, <1>2, <1>5, SMTT(30)
  <2>2. unmatched = {Len(q.que)} /\ Ready(q.que) < Len(q.que)
    <3>1. Ready(q.que) < Len(q.que)
      BY <1>1, <1>5
    <3>2. Len(q.que) \in unmatched
      BY <1>1, <3>1
    <3>3. ASSUME NEW i \in unmatched PROVE i = Len(q.que)
      <4>1. i \in 1 .. Len(q.que) /\ ~q.que[i].matched
        BY <1>1
      <4>2. i \notin 1 .. Len(q.que) - 1
        BY <1>1, <4>1
      <4>3. Len(q.que) \in Nat
        BY <1>1
      <4> QED
        BY <4>1, <4>2, <4>3
    <3> QED
      BY <3>1, <3>2, <3>3
  <2> HIDE DEF unmatched
  <2>3. first = Len(q.que)
    BY <1>1, <2>2
  <2> HIDE DEF first
  <2>4. Incomplete(q, s, f)
    BY <1>1, <1>5, <2>2 DEF Incomplete
  <2>5. CASE q.que[first].bufs[s] = Empty
    BY <2>1, <2>3, <2>4, <2>5, SlotFilled
  <2>6. CASE q.que[first].bufs[s] # Empty
    BY <2>1, <2>3, <2>4, <2>6, SlotReplaced
  <2> QED
    BY <2>5, <2>6
<1> QED
  BY <1>1, <1>3, <1>4, <1>5

-----------------------------------------------------------------------------
(* A command                                                                 *)

\* The buffer a command brings.
Brings(cmd) == IF cmd.type = "DATA_CB" THEN {<<cmd.stream, cmd.frame>>} ELSE {}

\* A queue taken as it is.
LEMMA AsItIs ==
  ASSUME NEW q, QueueInv(q), q.out = <<>>
  PROVE  Sorts(q, BufsOfAll(q.que), q)
BY DEF Sorts

\* The overflow of the queue ends as well, with no more than water_mark in burst mode.
LEMMA Overflowed ==
  ASSUME NEW q, QueueInv(q), q.out = <<>>, notify_mode \in {"BURST", "CONTINUOUS"},
         NEW r, r = superbuf_bufdone_overflow(q)
  PROVE  /\ Sorts(q, BufsOfAll(q.que), r) /\ r.expected = q.expected
         /\ notify_mode = "BURST" => r.cnt <= WaterMark
<1>1. CASE notify_mode = "CONTINUOUS"
  <2>1. r = q
    BY <1>1 DEF superbuf_bufdone_overflow
  <2> QED
    BY <1>1, <2>1, AsItIs
<1>2. CASE notify_mode = "BURST"
  <2>1. r = TrimTo(q, WaterMark) /\ WaterMark \in Nat
    BY <1>2, SuperbufAssumption DEF superbuf_bufdone_overflow
  <2> QED
    BY <2>1, Trimmed
<1> QED
  BY <1>1, <1>2

\* A request is taken: what is too far back is skipped.
LEMMA RequestTaken ==
  ASSUME NEW q, QueueInv(q), q.out = <<>>, notify_mode \in {"BURST", "CONTINUOUS"},
         NEW n \in Nat, NEW r, r = superbuf_skip([q EXCEPT !.pending = n])
  PROVE  Sorts(q, BufsOfAll(q.que), r) /\ r.expected = q.expected
<1> DEFINE p == [q EXCEPT !.pending = n]
<1>1. q \in QueueRec
  BY DEF QueueInv
<1>2. /\ p \in QueueRec /\ p.que = q.que /\ p.expected = q.expected /\ p.cnt = q.cnt
      /\ p.done = q.done /\ p.out = q.out /\ p.spin = q.spin
  BY <1>1 DEF QueueRec
<1> HIDE DEF p
<1>3. QueueInv(p) /\ p.out = <<>>
  BY <1>2 DEF QueueInv
<1>4. Sorts(p, BufsOfAll(p.que), r) /\ r.expected = p.expected
  <2>1. CASE notify_mode = "CONTINUOUS"
    <3>1. r = p
      BY <2>1 DEF superbuf_skip, p
    <3> QED
      BY <1>3, <3>1, AsItIs
  <2>2. CASE notify_mode = "BURST"
    <3>1. r = TrimTo(p, LookBack) /\ LookBack \in Nat
      BY <2>2, SuperbufAssumption DEF superbuf_skip, p
    <3> QED
      BY <1>3, <3>1, Trimmed
  <2> QED
    BY <2>1, <2>2
<1> QED
  BY <1>2, <1>4 DEF Sorts

\* What a command leads to: of the buffers in the queue and the one it brings, the queue
\* has some, some are on their way to the HAL, and the others are given back.
All(r) == BufsOfAll(r.out) \cup BufsOfAll(r.que)
Leads(q, cmd, r) ==
    /\ QueueInv(r) /\ Handed(r.out, r.que, r.expected)
    /\ Len(r.que) <= WaterMark + 1
    /\ r.expected \in Nat /\ r.expected >= q.expected
    /\ All(r) \subseteq BufsOfAll(q.que) \cup Brings(cmd)
    /\ BufsOfAll(r.out) \cap BufsOfAll(r.que) = {}
    /\ r.done = q.done \cup ((BufsOfAll(q.que) \cup Brings(cmd)) \ All(r))
    /\ \A p \in Brings(cmd) : p[2] < q.expected => p \notin All(r)

\* The command may come to the queue: its frame is newer than the stream's others there.
Due(q, cmd) ==
    /\ QueueInv(q) /\ q.out = <<>> /\ cmd \in Cmd
    /\ cmd.type = "DATA_CB" => Fresh(q.que, cmd.stream, cmd.frame)

\* mm_channel_process_stream_buf(), whatever the command and the memory.
LEMMA Processed ==
  ASSUME NEW q, NEW cmd, Due(q, cmd), notify_mode \in {"BURST", "CONTINUOUS"},
         NEW noMemory, NEW r, r = process_stream_buf(q, cmd, noMemory)
  PROVE  Leads(q, cmd, r)
<1> DEFINE X     == BufsOfAll(q.que) \cup Brings(cmd)
           taken == IF cmd.type = "DATA_CB"
                    THEN superbuf_comp_and_enqueue(q, cmd.stream, cmd.frame, noMemory)
                    ELSE superbuf_skip([q EXCEPT !.pending = cmd.num])
           kept  == superbuf_bufdone_overflow(taken)
<1>1. r = IF taken.spin THEN taken ELSE IF kept.spin THEN kept ELSE DispatchReady(kept)
  BY DEF process_stream_buf
<1>2. QueueInv(q) /\ q.out = <<>> /\ cmd \in Cmd /\ q.expected \in Nat
  BY DEF Due, QueueInv, QueueRec
<1>3. /\ Sorts(q, X, taken) /\ taken.expected >= q.expected
      /\ \A p \in Brings(cmd) : p[2] < q.expected => p \notin BufsOfAll(taken.que)
  <2>1. CASE cmd.type = "DATA_CB"
    <3>1. taken = superbuf_comp_and_enqueue(q, cmd.stream, cmd.frame, noMemory)
      BY <2>1
    <3> HIDE DEF taken
    <3>2. Fresh(q.que, cmd.stream, cmd.frame)
      BY <2>1 DEF Due
    <3>3. Takes(q, cmd.stream, cmd.frame, taken)
      BY <1>2, <3>1, <3>2, FrameTaken
    <3>4. Brings(cmd) = {<<cmd.stream, cmd.frame>>}
      BY <2>1 DEF Brings
    <3> QED
      BY <3>3, <3>4 DEF Takes
  <2>2. CASE cmd.type # "DATA_CB"
    <3>1. taken = superbuf_skip([q EXCEPT !.pending = cmd.num]) /\ Brings(cmd) = {}
      BY <2>2 DEF Brings
    <3>2. cmd.num \in Nat
      BY <1>2, <2>2 DEF Cmd
    <3> HIDE DEF taken
    <3>3. Sorts(q, BufsOfAll(q.que), taken) /\ taken.expected = q.expected
      BY <1>2, <3>1, <3>2, RequestTaken
    <3>4. X = BufsOfAll(q.que)
      BY <3>1
    <3> QED
      BY <1>2, <3>1, <3>3, <3>4
  <2> QED
    BY <2>1, <2>2
<1> HIDE DEF taken
<1>4. QueueInv(taken) /\ taken.out = <<>> /\ taken.spin = FALSE
  BY <1>3 DEF Sorts, QueueInv
<1>5. /\ Sorts(taken, BufsOfAll(taken.que), kept) /\ kept.expected = taken.expected
      /\ notify_mode = "BURST" => kept.cnt <= WaterMark
  BY <1>4, Overflowed
<1> HIDE DEF kept
<1>6. Sorts(q, X, kept)
  BY <1>3, <1>5, SortsOn
<1>7. QueueInv(kept) /\ kept.spin = FALSE
  BY <1>6 DEF Sorts, QueueInv
<1>8. r = DispatchReady(kept)
  BY <1>1, <1>4, <1>7
<1>9. /\ QueueInv(r) /\ Handed(r.out, r.que, r.expected)
      /\ r.expected = kept.expected /\ r.done = kept.done /\ r.cnt <= kept.cnt
      /\ notify_mode = "CONTINUOUS" => r.cnt = 0
      /\ BufsOfAll(kept.que) = BufsOfAll(r.out) \cup BufsOfAll(r.que)
      /\ BufsOfAll(r.out) \cap BufsOfAll(r.que) = {}
  BY <1>7, <1>8, DispatchedReady
<1>10. Len(r.que) <= WaterMark + 1
  <2>1. r.cnt = Ready(r.que) /\ Line(r.que) /\ kept.cnt \in Nat
    BY <1>7, <1>9 DEF QueueInv, QueueRec
  <2>2. Len(r.que) <= r.cnt + 1 /\ Len(r.que) \in Nat /\ r.cnt \in Nat
    BY <2>1, ReadyOnes
  <2>3. r.cnt <= WaterMark
    BY <1>5, <1>9, <2>1, <2>2, SuperbufAssumption
  <2>4. WaterMark \in Nat
    BY SuperbufAssumption
  <2> QED
    BY <2>2, <2>3, <2>4
<1>11. r.expected \in Nat
  BY <1>9 DEF QueueInv, QueueRec
<1>12. All(r) \subseteq X /\ r.done = q.done \cup (X \ All(r))
  BY <1>6, <1>9 DEF Sorts, All
<1>13. \A p \in Brings(cmd) : p[2] < q.expected => p \notin All(r)
  BY <1>3, <1>5, <1>9 DEF Sorts, All
<1> QED
  BY <1>2, <1>3, <1>5, <1>9, <1>10, <1>11, <1>12, <1>13 DEF Leads

-----------------------------------------------------------------------------
(* The frames that wait for the cmd thread                                   *)

\* A command is added.
LEMMA CmdAdded ==
  ASSUME NEW cq \in Seq(Cmd), NEW c \in Cmd
  PROVE  /\ Append(cq, c) \in Seq(Cmd)
         /\ Waiting(Append(cq, c)) = Waiting(cq) \cup Brings(c)
         /\ InOrder(cq) /\ NewerThan(<<c>>, Waiting(cq)) =>
              InOrder(Append(cq, c))
         /\ \A bufs : NewerThan(cq, bufs) /\ NewerThan(<<c>>, bufs) =>
              NewerThan(Append(cq, c), bufs)
<1> DEFINE u == Append(cq, c)
           l == Len(cq)
<1>1. /\ u \in Seq(Cmd) /\ Len(u) = l + 1 /\ l \in Nat /\ DOMAIN cq = 1 .. l
      /\ \A i \in 1 .. l : u[i] = cq[i]
      /\ u[l + 1] = c
  BY AppendProperties, LenProperties
<1>2. DOMAIN u = 1 .. l + 1
  BY <1>1, LenProperties
<1> HIDE DEF u, l
<1>3. /\ FramesOf(u) = FramesOf(cq) \cup (IF c.type = "DATA_CB" THEN {l + 1} ELSE {})
      /\ \A i \in FramesOf(cq) : i \in 1 .. l /\ u[i] = cq[i] /\ i < l + 1
      /\ \A i \in FramesOf(cq) : ~(l + 1 < i)
  <2>1. \A i \in 1 .. l + 1 : i \in 1 .. l \/ i = l + 1
    BY <1>1
  <2>2. \A i \in 1 .. l : i \in 1 .. l + 1 /\ i < l + 1 /\ ~(l + 1 < i)
    BY <1>1
  <2>3. l + 1 \in 1 .. l + 1
    BY <1>1
  <2> QED
    BY <1>1, <1>2, <2>1, <2>2, <2>3 DEF FramesOf
<1>4. Waiting(u) = Waiting(cq) \cup Brings(c)
  BY <1>1, <1>3 DEF Waiting, Brings
<1>5. /\ FramesOf(<<c>>) = (IF c.type = "DATA_CB" THEN {1} ELSE {})
      /\ <<c>>[1] = c
  BY DEF FramesOf
<1>6. ASSUME NEW bufs, NewerThan(cq, bufs), NewerThan(<<c>>, bufs)
      PROVE  NewerThan(u, bufs)
  BY <1>1, <1>3, <1>5, <1>6 DEF NewerThan
<1>7. ASSUME InOrder(cq), NewerThan(<<c>>, Waiting(cq))
      PROVE  InOrder(u)
  <2> SUFFICES ASSUME NEW i \in FramesOf(u), NEW j \in FramesOf(u), i < j,
                      u[i].stream = u[j].stream
               PROVE  u[i].frame < u[j].frame
    BY DEF InOrder
  <2>1. i \in FramesOf(cq)
    <3>1. CASE i = l + 1
      <4>1. j = l + 1 \/ j \in FramesOf(cq)
        BY <1>3
      <4> QED
        BY <1>1, <1>3, <3>1, <4>1
    <3> QED
      BY <1>3, <3>1
  <2>2. CASE j \in FramesOf(cq)
    BY <1>3, <1>7, <2>1, <2>2 DEF InOrder
  <2>3. CASE j = l + 1 /\ c.type = "DATA_CB"
    <3>1. NewerThan(<<c>>, Waiting(cq))
      BY <1>7
    <3>2. <<cq[i].stream, cq[i].frame>> \in Waiting(cq)
      BY <2>1 DEF Waiting
    <3>3. 1 \in FramesOf(<<c>>)
      BY <1>5, <2>3
    <3>4. cq[i].stream = c.stream => cq[i].frame < c.frame
      BY <1>5, <3>1, <3>2, <3>3 DEF NewerThan
    <3> QED
      BY <1>1, <1>3, <2>1, <2>3, <3>4
  <2> QED
    BY <1>3, <2>2, <2>3
<1> QED
  BY <1>1, <1>4, <1>6, <1>7 DEF u

\* The cmd thread takes the first command.
LEMMA CmdTaken ==
  ASSUME NEW cq \in Seq(Cmd), cq # <<>>
  PROVE  /\ Head(cq) \in Cmd /\ Tail(cq) \in Seq(Cmd)
         /\ Waiting(cq) = Waiting(Tail(cq)) \cup Brings(Head(cq))
         /\ InOrder(cq) => /\ InOrder(Tail(cq)) /\ NewerThan(Tail(cq), Brings(Head(cq)))
         /\ \A bufs : NewerThan(cq, bufs) =>
              /\ NewerThan(Tail(cq), bufs)
              /\ \A h \in Brings(Head(cq)), p \in bufs : p[1] = h[1] => p[2] < h[2]
<1> DEFINE u == Tail(cq)
           l == Len(cq)
           c == Head(cq)
<1>1. /\ c \in Cmd /\ c = cq[1] /\ u \in Seq(Cmd) /\ Len(u) = l - 1 /\ l \in Nat /\ l >= 1
      /\ DOMAIN cq = 1 .. l /\ \A i \in 1 .. l - 1 : u[i] = cq[i + 1]
  <2>1. l \in Nat /\ DOMAIN cq = 1 .. l /\ l >= 1
    BY LenProperties, EmptySeq
  <2>2. /\ c \in Cmd /\ c = cq[1] /\ u \in Seq(Cmd) /\ Len(u) = l - 1
        /\ \A i \in 1 .. l - 1 : u[i] = cq[i + 1]
    BY <2>1, HeadTailProperties
  <2> QED
    BY <2>1, <2>2
<1>2. DOMAIN u = 1 .. l - 1
  BY <1>1, LenProperties
<1> HIDE DEF u, l, c
<1>3. /\ \A i \in FramesOf(u) : i + 1 \in FramesOf(cq) /\ u[i] = cq[i + 1] /\ 1 < i + 1 /\ i \in Nat
      /\ \A i \in FramesOf(cq) : (i = 1 /\ c.type = "DATA_CB")
                                 \/ \E j \in FramesOf(u) : i = j + 1 /\ u[j] = cq[i]
      /\ c.type = "DATA_CB" => 1 \in FramesOf(cq)
  <2>1. ASSUME NEW i \in FramesOf(u)
        PROVE  i + 1 \in FramesOf(cq) /\ u[i] = cq[i + 1] /\ 1 < i + 1 /\ i \in Nat
    <3>1. i \in 1 .. l - 1 /\ u[i].type = "DATA_CB"
      BY <1>2 DEF FramesOf
    <3>2. i + 1 \in 1 .. l /\ 1 < i + 1 /\ i \in Nat
      BY <1>1, <3>1
    <3> QED
      BY <1>1, <3>1, <3>2 DEF FramesOf
  <2>2. ASSUME NEW i \in FramesOf(cq), i # 1
        PROVE  \E j \in FramesOf(u) : i = j + 1 /\ u[j] = cq[i]
    <3>1. i \in 1 .. l /\ cq[i].type = "DATA_CB"
      BY <1>1 DEF FramesOf
    <3>2. i - 1 \in 1 .. l - 1 /\ i = (i - 1) + 1
      BY <1>1, <2>2, <3>1
    <3>3. u[i - 1] = cq[i]
      BY <1>1, <3>2
    <3>4. i - 1 \in FramesOf(u)
      BY <1>2, <3>1, <3>2, <3>3 DEF FramesOf
    <3> QED
      BY <3>2, <3>3, <3>4
  <2>3. 1 \in FramesOf(cq) <=> c.type = "DATA_CB"
    BY <1>1 DEF FramesOf
  <2> QED
    BY <2>1, <2>2, <2>3
<1>4. Waiting(cq) = Waiting(u) \cup Brings(c)
  <2>1. ASSUME NEW p, p \in Waiting(cq) PROVE p \in Waiting(u) \cup Brings(c)
    <3>1. PICK i \in FramesOf(cq) : p = <<cq[i].stream, cq[i].frame>>
      BY <2>1 DEF Waiting
    <3>2. CASE i = 1 /\ c.type = "DATA_CB"
      BY <1>1, <3>1, <3>2 DEF Brings
    <3>3. CASE \E j \in FramesOf(u) : i = j + 1 /\ u[j] = cq[i]
      BY <3>1, <3>3 DEF Waiting
    <3> QED
      BY <1>3, <3>2, <3>3
  <2>2. ASSUME NEW p, p \in Waiting(u) PROVE p \in Waiting(cq)
    <3>1. PICK i \in FramesOf(u) : p = <<u[i].stream, u[i].frame>>
      BY <2>2 DEF Waiting
    <3> QED
      BY <1>3, <3>1 DEF Waiting
  <2>3. ASSUME NEW p, p \in Brings(c) PROVE p \in Waiting(cq)
    <3>1. c.type = "DATA_CB" /\ p = <<c.stream, c.frame>>
      BY <2>3 DEF Brings
    <3> QED
      BY <1>1, <1>3, <3>1 DEF Waiting
  <2> QED
    BY <2>1, <2>2, <2>3
<1>5. ASSUME InOrder(cq) PROVE InOrder(u) /\ NewerThan(u, Brings(c))
  <2>1. ASSUME NEW i \in FramesOf(u), NEW j \in FramesOf(u), i < j, u[i].stream = u[j].stream
        PROVE  u[i].frame < u[j].frame
    <3>1. i + 1 \in FramesOf(cq) /\ j + 1 \in FramesOf(cq) /\ i + 1 < j + 1
      BY <1>3, <2>1
    <3> QED
      BY <1>3, <1>5, <2>1, <3>1 DEF InOrder
  <2>2. ASSUME NEW i \in FramesOf(u), NEW p \in Brings(c), p[1] = u[i].stream
        PROVE  p[2] < u[i].frame
    <3>1. c.type = "DATA_CB" /\ p = <<c.stream, c.frame>>
      BY DEF Brings
    <3>2. 1 \in FramesOf(cq) /\ i + 1 \in FramesOf(cq) /\ 1 < i + 1 /\ u[i] = cq[i + 1]
      BY <1>3, <3>1
    <3>3. cq[1].stream = cq[i + 1].stream
      BY <1>1, <2>2, <3>1, <3>2
    <3>4. cq[1].frame < cq[i + 1].frame
      BY <1>5, <3>2, <3>3 DEF InOrder
    <3> QED
      BY <1>1, <3>1, <3>2, <3>4
  <2> QED
    BY <2>1, <2>2 DEF InOrder, NewerThan
<1>6. ASSUME NEW bufs, NewerThan(cq, bufs)
      PROVE  /\ NewerThan(u, bufs)
             /\ \A h \in Brings(c), p \in bufs : p[1] = h[1] => p[2] < h[2]
  <2>1. NewerThan(u, bufs)
    BY <1>3, <1>6 DEF NewerThan
  <2>2. ASSUME NEW h \in Brings(c), NEW p \in bufs, p[1] = h[1] PROVE p[2] < h[2]
    <3>1. c.type = "DATA_CB" /\ h = <<c.stream, c.frame>>
      BY DEF Brings
    <3>2. 1 \in FramesOf(cq)
      BY <1>3, <3>1
    <3> QED
      BY <1>1, <1>6, <2>2, <3>1, <3>2 DEF NewerThan
  <2> QED
    BY <2>1, <2>2
<1> QED
  BY <1>1, <1>4, <1>5, <1>6 DEF u, c

\* Frames newer than some buffers are none of these.
LEMMA WaitingApart ==
  ASSUME NEW cq \in Seq(Cmd), NEW bufs, NewerThan(cq, bufs)
  PROVE  Waiting(cq) \cap bufs = {}
<1> SUFFICES ASSUME NEW p, p \in Waiting(cq), p \in bufs PROVE FALSE
  OBVIOUS
<1>1. PICK i \in FramesOf(cq) : p = <<cq[i].stream, cq[i].frame>>
  BY DEF Waiting
<1>2. cq[i] \in Cmd /\ cq[i].type = "DATA_CB"
  BY ElementOfSeq, LenProperties DEF FramesOf
<1>3. cq[i].frame \in Nat
  BY <1>2, SuperbufAssumption DEF Cmd, FrameId
<1>4. cq[i].frame < cq[i].frame
  BY <1>1 DEF NewerThan
<1> QED
  BY <1>3, <1>4

-----------------------------------------------------------------------------
(* The super buffers for the HAL                                             *)

\* RemoveAt() takes out one element and keeps the order of the others.
LEMMA RemoveAtProperties ==
  ASSUME NEW S, NEW s \in Seq(S), NEW k \in 1 .. Len(s)
  PROVE  /\ RemoveAt(s, k) \in Seq(S)
         /\ Len(RemoveAt(s, k)) = Len(s) - 1
         /\ \A i \in 1 .. Len(s) - 1 : RemoveAt(s, k)[i] = s[IF i < k THEN i ELSE i + 1]
<1> DEFINE l == SubSeq(s, 1, k - 1)
           r == SubSeq(s, k + 1, Len(s))
<1>0. Len(s) \in Nat /\ \A i \in 1 .. Len(s) : s[i] \in S
  BY LenProperties, ElementOfSeq
<1>1. l \in Seq(S) /\ Len(l) = k - 1 /\ \A i \in 1 .. k - 1 : l[i] = s[i]
  <2>1. \A i \in 1 .. k - 1 : s[i] \in S
    BY <1>0
  <2>2. /\ l \in Seq(S)
        /\ Len(l) = IF 1 <= k - 1 THEN (k - 1) - 1 + 1 ELSE 0
        /\ \A i \in 1 .. (k - 1) - 1 + 1 : l[i] = s[1 + i - 1]
    BY <2>1, SubSeqProperties
  <2> QED
    BY <2>2
<1>2. r \in Seq(S) /\ Len(r) = Len(s) - k /\ \A i \in 1 .. Len(s) - k : r[i] = s[k + i]
  <2>1. \A i \in k + 1 .. Len(s) : s[i] \in S
    BY <1>0
  <2>2. /\ r \in Seq(S)
        /\ Len(r) = IF k + 1 <= Len(s) THEN Len(s) - (k + 1) + 1 ELSE 0
        /\ \A i \in 1 .. Len(s) - (k + 1) + 1 : r[i] = s[(k + 1) + i - 1]
    BY <1>0, <2>1, SubSeqProperties
  <2> QED
    BY <1>0, <2>2
<1> HIDE DEF l, r
<1>3. /\ l \o r \in Seq(S) /\ Len(l \o r) = Len(s) - 1
      /\ \A i \in 1 .. Len(s) - 1 : (l \o r)[i] = IF i <= k - 1 THEN l[i] ELSE r[i - (k - 1)]
  BY <1>0, <1>1, <1>2, ConcatProperties
<1>4. ASSUME NEW i \in 1 .. Len(s) - 1 PROVE (l \o r)[i] = s[IF i < k THEN i ELSE i + 1]
  <2>1. CASE i < k
    BY <1>0, <1>1, <1>3, <2>1
  <2>2. CASE ~(i < k)
    <3>1. i - (k - 1) \in 1 .. Len(s) - k /\ k + (i - (k - 1)) = i + 1 /\ ~(i <= k - 1)
      BY <1>0, <2>2
    <3> QED
      BY <1>2, <1>3, <2>2, <3>1
  <2> QED
    BY <2>1, <2>2
<1>5. RemoveAt(s, k) = l \o r
  BY DEF RemoveAt, l, r
<1> QED
  BY <1>3, <1>4, <1>5

\* A buffer may come after n.
Behind(n, p) ==
    \A s \in Streams : n.bufs[s] # Empty => n.bufs[s] < p[2] /\ n.bufs[s] + PostFrameSkip <= p[2]

\* Being ahead is about buffers.
LEMMA AheadBufs ==
  ASSUME NEW ns \in Seq(Node), NEW ms \in Seq(Node)
  PROVE  AllAhead(ns, ms) <=> \A i \in DOMAIN ns, p \in BufsOfAll(ms) : Behind(ns[i], p)
<1>1. ASSUME AllAhead(ns, ms), NEW i \in DOMAIN ns, NEW p \in BufsOfAll(ms)
      PROVE  Behind(ns[i], p)
  <2>1. PICK j \in DOMAIN ms : p \in BufsOf(ms[j])
    BY AllBufs
  <2>2. p[1] \in Streams /\ ms[j].bufs[p[1]] # Empty /\ p[2] = ms[j].bufs[p[1]]
    BY <2>1 DEF BufsOf
  <2>3. Ahead(ns[i], ms[j])
    BY <1>1 DEF AllAhead
  <2> QED
    BY <2>2, <2>3 DEF Ahead, Behind
<1>2. ASSUME \A i \in DOMAIN ns, p \in BufsOfAll(ms) : Behind(ns[i], p),
             NEW i \in DOMAIN ns, NEW j \in DOMAIN ms
      PROVE  Ahead(ns[i], ms[j])
  <2>1. ASSUME NEW t \in Streams, ms[j].bufs[t] # Empty
        PROVE  Behind(ns[i], <<t, ms[j].bufs[t]>>)
    <3>1. <<t, ms[j].bufs[t]>> \in BufsOf(ms[j])
      BY <2>1 DEF BufsOf
    <3>2. <<t, ms[j].bufs[t]>> \in BufsOfAll(ms)
      BY <3>1, AllBufs
    <3> QED
      BY <1>2, <3>2
  <2> QED
    BY <2>1 DEF Ahead, Behind
<1> QED
  BY <1>1, <1>2 DEF AllAhead

\* One of the super buffers is left out: the others are in order, and have none of its
\* buffers.
LEMMA LeftOut ==
  ASSUME NEW ns \in Seq(Node), Sorted(ns), NEW k \in DOMAIN ns, NEW us, us = RemoveAt(ns, k)
  PROVE  /\ us \in Seq(Node) /\ Sorted(us)
         /\ \A i \in DOMAIN us : \E j \in DOMAIN ns : us[i] = ns[j]
         /\ BufsOfAll(ns) = BufsOfAll(us) \cup BufsOf(ns[k])
         /\ BufsOf(ns[k]) \cap BufsOfAll(us) = {}
<1> DEFINE l == Len(ns)
           at(i) == IF i < k THEN i ELSE i + 1
<1>1. /\ l \in Nat /\ DOMAIN ns = 1 .. l /\ k \in 1 .. l
      /\ us \in Seq(Node) /\ Len(us) = l - 1
      /\ \A i \in 1 .. l - 1 : us[i] = ns[at(i)]
  BY LenProperties, RemoveAtProperties
<1>2. DOMAIN us = 1 .. l - 1
  BY <1>1, LenProperties
<1> HIDE DEF l
<1>3. /\ \A i \in 1 .. l - 1 : at(i) \in 1 .. l /\ at(i) # k
      /\ \A i, j \in 1 .. l - 1 : i < j => at(i) < at(j)
  BY <1>1
<1>4. \A j \in 1 .. l : j # k => \E i \in 1 .. l - 1 : at(i) = j
  <2> SUFFICES ASSUME NEW j \in 1 .. l, j # k PROVE \E i \in 1 .. l - 1 : at(i) = j
    OBVIOUS
  <2>1. CASE j < k
    <3>1. j \in 1 .. l - 1 /\ at(j) = j
      BY <1>1, <2>1
    <3> QED
      BY <3>1
  <2>2. CASE ~(j < k)
    <3>1. j - 1 \in 1 .. l - 1 /\ at(j - 1) = j
      BY <1>1, <2>2
    <3> QED
      BY <3>1
  <2> QED
    BY <2>1, <2>2
<1> HIDE DEF at
<1>5. Sorted(us)
  BY <1>1, <1>2, <1>3 DEF Sorted
<1>6. \A i \in DOMAIN us : \E j \in DOMAIN ns : us[i] = ns[j]
  BY <1>1, <1>2, <1>3
<1>7. BufsOfAll(ns) = BufsOfAll(us) \cup BufsOf(ns[k])
  <2>1. ASSUME NEW p, p \in BufsOfAll(ns) PROVE p \in BufsOfAll(us) \cup BufsOf(ns[k])
    <3>1. PICK j \in DOMAIN ns : p \in BufsOf(ns[j])
      BY <2>1, AllBufs
    <3>2. CASE j = k
      BY <3>1, <3>2
    <3>3. CASE j # k
      <4>1. PICK i \in 1 .. l - 1 : at(i) = j
        BY <1>1, <1>4, <3>3
      <4>2. i \in DOMAIN us /\ us[i] = ns[j]
        BY <1>1, <1>2, <4>1
      <4>3. p \in BufsOfAll(us)
        BY <3>1, <4>2, AllBufs
      <4> QED
        BY <4>3
    <3> QED
      BY <3>2, <3>3
  <2>2. ASSUME NEW p, p \in BufsOfAll(us) PROVE p \in BufsOfAll(ns)
    <3>1. PICK i \in DOMAIN us : p \in BufsOf(us[i])
      BY <2>2, AllBufs
    <3>2. PICK j \in DOMAIN ns : us[i] = ns[j]
      BY <1>6
    <3> QED
      BY <3>1, <3>2, AllBufs
  <2>3. ASSUME NEW p, p \in BufsOf(ns[k]) PROVE p \in BufsOfAll(ns)
    BY <2>3, AllBufs
  <2> QED
    BY <2>1, <2>2, <2>3
<1>8. BufsOf(ns[k]) \cap BufsOfAll(us) = {}
  <2> SUFFICES ASSUME NEW p, p \in BufsOf(ns[k]), p \in BufsOfAll(us) PROVE FALSE
    OBVIOUS
  <2>1. PICK i \in DOMAIN us : p \in BufsOf(us[i])
    BY AllBufs
  <2> DEFINE j == at(i)
  <2>2. us[i] = ns[j] /\ j \in DOMAIN ns /\ j # k
    BY <1>1, <1>2, <1>3
  <2> HIDE DEF j
  <2>3. ns[j] \in Node /\ ns[k] \in Node /\ p \in BufsOf(ns[j])
    BY <1>1, <2>1, <2>2, ElementOfSeq
  <2>4. /\ p[1] \in Streams /\ ns[k].bufs[p[1]] # Empty /\ ns[j].bufs[p[1]] # Empty
        /\ ns[k].bufs[p[1]] = ns[j].bufs[p[1]] /\ ns[k].bufs[p[1]] \in Nat
    BY <2>3, NodeBufs DEF BufsOf
  <2>5. Ahead(ns[k], ns[j]) \/ Ahead(ns[j], ns[k])
    BY <1>1, <2>2 DEF Sorted
  <2>6. ns[k].bufs[p[1]] < ns[j].bufs[p[1]] \/ ns[j].bufs[p[1]] < ns[k].bufs[p[1]]
    BY <2>4, <2>5 DEF Ahead
  <2> QED
    BY <2>4, <2>6
<1> QED
  BY <1>1, <1>5, <1>6, <1>7, <1>8

\* The queue que becomes que2 and hands out over to the cb thread, which has cb: all is
\* from que or the new buffers h.
Moves(cb, que, e, h, out, que2, e2) ==
    /\ Handed(cb, que, e) /\ que \in Seq(Node) /\ que2 \in Seq(Node)
    /\ e \in Nat /\ e2 \in Nat /\ e <= e2
    /\ Handed(out, que2, e2)
    /\ BufsOfAll(out) \cup BufsOfAll(que2) \subseteq BufsOfAll(que) \cup h
    /\ h \subseteq Buf
    /\ \A p \in h : /\ p[2] < e => p \notin BufsOfAll(out) \cup BufsOfAll(que2)
                    /\ \A b \in BufsOfAll(cb) : b[1] = p[1] => b[2] < p[2]

\* What is ahead of the queue stays so when it grows by newer frames only, and what the
\* queue hands over comes after it.
LEMMA Moved ==
  ASSUME NEW cb, NEW que, NEW e, NEW h, NEW out, NEW que2, NEW e2,
         Moves(cb, que, e, h, out, que2, e2)
  PROVE  /\ Handed(cb \o out, que2, e2)
         /\ BufsOfAll(cb \o out) = BufsOfAll(cb) \cup BufsOfAll(out)
<1>1. /\ cb \in Seq(Node) /\ Sorted(cb) /\ AllAhead(cb, que)
      /\ out \in Seq(Node) /\ Sorted(out) /\ AllAhead(out, que2)
      /\ que \in Seq(Node) /\ que2 \in Seq(Node) /\ e \in Nat /\ e2 \in Nat /\ e <= e2
  BY DEF Moves, Handed
<1>2. ASSUME NEW i \in DOMAIN cb, NEW p \in BufsOfAll(out) \cup BufsOfAll(que2)
      PROVE  Behind(cb[i], p)
  <2>1. p \in BufsOfAll(que) \cup h
    BY DEF Moves
  <2>2. CASE p \in BufsOfAll(que)
    BY <1>1, <2>2, AheadBufs
  <2>3. CASE p \in h
    <3>1. p[1] \in Streams /\ p[2] \in Nat /\ ~(p[2] < e)
      BY <2>3, SuperbufAssumption DEF Moves, Buf, FrameId
    <3>2. /\ NodeOK(cb[i]) /\ cb[i] \in Node /\ cb[i].matched /\ Through(cb[i], e)
      BY DEF Moves, Handed, NodeOK
    <3>3. /\ \A s \in Streams : cb[i].bufs[s] \in Nat /\ cb[i].bufs[s] # Empty
                                /\ cb[i].bufs[s] = cb[i].bufs[p[1]]
      BY <3>1, <3>2, NodeBufs DEF NodeOK, Complete
    <3>4. cb[i].bufs[p[1]] < p[2]
      <4>1. <<p[1], cb[i].bufs[p[1]]>> \in BufsOf(cb[i])
        BY <3>1, <3>3 DEF BufsOf
      <4>2. <<p[1], cb[i].bufs[p[1]]>> \in BufsOfAll(cb)
        BY <4>1, AllBufs
      <4> QED
        BY <2>3, <4>2 DEF Moves
    <3>5. \A s \in Streams : cb[i].bufs[s] + PostFrameSkip <= e
      BY <3>2, <3>3 DEF Through
    <3> QED
      BY <1>1, <3>1, <3>3, <3>4, <3>5, SuperbufAssumption, SMTT(30) DEF Behind
  <2> QED
    BY <2>1, <2>2, <2>3
<1>3. AllAhead(cb, out) /\ AllAhead(cb, que2)
  BY <1>1, <1>2, AheadBufs
<1> DEFINE u == cb \o out
<1>4. /\ u \in Seq(Node) /\ Sorted(u)
      /\ BufsOfAll(u) = BufsOfAll(cb) \cup BufsOfAll(out)
      /\ \A k \in DOMAIN u : \/ \E i \in DOMAIN cb : u[k] = cb[i]
                             \/ \E j \in DOMAIN out : u[k] = out[j]
  BY <1>1, <1>3, Joined
<1> HIDE DEF u
<1>5. ASSUME NEW k \in DOMAIN u
      PROVE  NodeOK(u[k]) /\ u[k].matched /\ Through(u[k], e2)
  <2>1. CASE \E i \in DOMAIN cb : u[k] = cb[i]
    <3>1. NodeOK(u[k]) /\ u[k].matched /\ Through(u[k], e) /\ u[k] \in Node
      BY <2>1 DEF Moves, Handed, NodeOK
    <3>2. \A s \in Streams : u[k].bufs[s] \in Nat
      BY <3>1, NodeBufs
    <3> QED
      BY <1>1, <3>1, <3>2, SuperbufAssumption DEF Through
  <2>2. CASE \E j \in DOMAIN out : u[k] = out[j]
    BY <2>2 DEF Moves, Handed
  <2> QED
    BY <1>4, <2>1, <2>2
<1>6. AllAhead(u, que2)
  BY <1>1, <1>3, <1>4 DEF AllAhead
<1> QED
  BY <1>4, <1>5, <1>6 DEF Handed, u

\* The cb thread takes the first one.
LEMMA FirstTaken ==
  ASSUME NEW cb, NEW que, NEW e, Handed(cb, que, e), que \in Seq(Node), cb # <<>>
  PROVE  /\ Handed(Tail(cb), que, e)
         /\ BufsOfAll(cb) = BufsOf(Head(cb)) \cup BufsOfAll(Tail(cb))
         /\ BufsOf(Head(cb)) \cap BufsOfAll(Tail(cb)) = {}
         /\ BufsOfAll(cb) \cap BufsOfAll(que) = {}
<1> DEFINE l == Len(cb)
           u == Tail(cb)
<1>1. /\ cb \in Seq(Node) /\ Sorted(cb) /\ AllAhead(cb, que) /\ que \in Seq(Node)
  BY DEF Handed
<1>2. /\ Head(cb) = cb[1] /\ u \in Seq(Node) /\ Len(u) = l - 1 /\ l \in Nat /\ l >= 1
      /\ DOMAIN cb = 1 .. l /\ \A i \in 1 .. l - 1 : u[i] = cb[i + 1]
  <2>1. l \in Nat /\ DOMAIN cb = 1 .. l /\ l >= 1
    BY <1>1, LenProperties, EmptySeq
  <2> QED
    BY <1>1, <2>1, HeadTailProperties
<1>3. DOMAIN u = 1 .. l - 1
  BY <1>2, LenProperties
<1> HIDE DEF u, l
<1>4. /\ \A i \in DOMAIN u : i + 1 \in DOMAIN cb /\ u[i] = cb[i + 1] /\ 1 < i + 1
      /\ 1 \in DOMAIN cb
      /\ \A i \in DOMAIN cb : i = 1 \/ \E j \in DOMAIN u : cb[i] = u[j]
  <2>1. \A i \in 1 .. l : i # 1 => i - 1 \in 1 .. l - 1 /\ (i - 1) + 1 = i
    BY <1>2
  <2>2. \A i \in 1 .. l - 1 : i + 1 \in 1 .. l /\ 1 < i + 1
    BY <1>2
  <2>3. \A i \in DOMAIN u : i + 1 \in DOMAIN cb /\ u[i] = cb[i + 1] /\ 1 < i + 1
    BY <1>2, <1>3, <2>2
  <2>4. 1 \in DOMAIN cb
    BY <1>2
  <2>5. ASSUME NEW i \in DOMAIN cb, i # 1 PROVE \E j \in DOMAIN u : cb[i] = u[j]
    <3>1. i - 1 \in DOMAIN u /\ (i - 1) + 1 = i
      BY <1>2, <1>3, <2>1, <2>5
    <3>2. cb[i] = u[i - 1]
      BY <2>3, <3>1
    <3> QED
      BY <3>1, <3>2
  <2> QED
    BY <2>3, <2>4, <2>5
<1>5. Sorted(u)
  <2>1. \A i, j \in DOMAIN u : i < j => i + 1 < j + 1
    BY <1>2, <1>3
  <2> QED
    BY <1>1, <1>4, <2>1 DEF Sorted
<1>6. BufsOfAll(cb) = BufsOf(cb[1]) \cup BufsOfAll(u)
  <2>1. ASSUME NEW p, p \in BufsOfAll(cb) PROVE p \in BufsOf(cb[1]) \cup BufsOfAll(u)
    <3>1. PICK i \in DOMAIN cb : p \in BufsOf(cb[i])
      BY <2>1, AllBufs
    <3> QED
      BY <1>4, <3>1, AllBufs
  <2>2. ASSUME NEW p, p \in BufsOfAll(u) PROVE p \in BufsOfAll(cb)
    <3>1. PICK i \in DOMAIN u : p \in BufsOf(u[i])
      BY <2>2, AllBufs
    <3> QED
      BY <1>4, <3>1, AllBufs
  <2>3. ASSUME NEW p, p \in BufsOf(cb[1]) PROVE p \in BufsOfAll(cb)
    BY <1>4, <2>3, AllBufs
  <2> QED
    BY <2>1, <2>2, <2>3
<1>7. BufsOf(cb[1]) \cap BufsOfAll(u) = {}
  <2>1. <<cb[1]>> \in Seq(Node) /\ DOMAIN <<cb[1]>> = {1} /\ <<cb[1]>>[1] = cb[1]
    BY <1>1, <1>4, ElementOfSeq, <1>2
  <2>2. AllAhead(<<cb[1]>>, u)
    BY <1>1, <1>4, <2>1 DEF Sorted, AllAhead
  <2>3. BufsOfAll(<<cb[1]>>) \cap BufsOfAll(u) = {}
    BY <1>2, <2>1, <2>2, AheadApart
  <2>4. BufsOf(cb[1]) \subseteq BufsOfAll(<<cb[1]>>)
    BY <2>1, AllBufs
  <2> QED
    BY <2>3, <2>4
<1>8. BufsOfAll(cb) \cap BufsOfAll(que) = {}
  BY <1>1, AheadApart
<1>9. Handed(u, que, e)
  BY <1>2, <1>4, <1>5 DEF Handed, AllAhead
<1> QED
  BY <1>2, <1>6, <1>7, <1>8, <1>9 DEF u

-----------------------------------------------------------------------------
(* The steps                                                                 *)

\* The queue, its buffers forgotten, for the next command.
LEMMA Restarted ==
  ASSUME NEW r, QueueInv(r), NEW t,
         t = [que |-> r.que, expected |-> r.expected, cnt |-> r.cnt, pending |-> r.pending,
              spin |-> r.spin, done |-> {}, out |-> <<>>]
  PROVE  QueueInv(t)
<1>1. r \in QueueRec /\ <<>> \in Seq(Node)
  BY EmptySeq DEF QueueInv
<1>2. /\ t.que = r.que /\ t.expected = r.expected /\ t.cnt = r.cnt /\ t.spin = r.spin
  OBVIOUS
<1>3. t \in QueueRec
  BY <1>1 DEF QueueRec
<1> QED
  BY <1>2, <1>3 DEF QueueInv

\* What the invariant says of the types.
LEMMA Types ==
  ASSUME IInv
  PROVE  /\ Queue \in QueueRec /\ Queue.que = superbuf_queue /\ Queue.expected = expected_frame_id
         /\ Queue.out = <<>> /\ Queue.done = {}
         /\ superbuf_queue \in Seq(Node) /\ expected_frame_id \in Nat /\ match_cnt \in Nat
         /\ pending_cnt \in Nat /\ spinning = FALSE
         /\ cb_queue \in Seq(Node) /\ cmd_queue \in Seq(Cmd)
         /\ BufsOfAll(superbuf_queue) \cap BufsOfAll(cb_queue) = {}
         /\ Waiting(cmd_queue) \cap BufsOfAll(superbuf_queue) = {}
         /\ Waiting(cmd_queue) \cap BufsOfAll(cb_queue) = {}
<1>1. Queue \in QueueRec /\ Queue.spin = FALSE
  BY DEF IInv, QueueInv
<1>2. /\ Queue.que = superbuf_queue /\ Queue.expected = expected_frame_id
      /\ Queue.cnt = match_cnt /\ Queue.pending = pending_cnt /\ Queue.spin = spinning
      /\ Queue.out = <<>> /\ Queue.done = {}
  BY DEF Queue
<1>3. /\ superbuf_queue \in Seq(Node) /\ expected_frame_id \in Nat /\ match_cnt \in Nat
      /\ pending_cnt \in Nat /\ spinning = FALSE
  BY <1>1, <1>2 DEF QueueRec
<1>4. /\ cb_queue \in Seq(Node) /\ cmd_queue \in Seq(Cmd) /\ AllAhead(cb_queue, superbuf_queue)
  BY DEF IInv, ReadyInv, Handed, Typed
<1>5. BufsOfAll(superbuf_queue) \cap BufsOfAll(cb_queue) = {}
  BY <1>3, <1>4, AheadApart
<1>6. /\ Waiting(cmd_queue) \cap BufsOfAll(superbuf_queue) = {}
      /\ Waiting(cmd_queue) \cap BufsOfAll(cb_queue) = {}
  BY <1>4, WaitingApart DEF IInv, FrameInv
<1> QED
  BY <1>1, <1>2, <1>3, <1>4, <1>5, <1>6

\* At first there is nothing.
LEMMA InitInv == Init => IInv
<1> SUFFICES ASSUME Init PROVE IInv
  OBVIOUS
<1>1. /\ superbuf_queue = <<>> /\ cb_queue = <<>> /\ cmd_queue = <<>> /\ outside = {}
      /\ held = {} /\ lost = {} /\ notify_mode \in NotifyModes
      /\ lastFrame = [s \in Streams |-> 0] /\ requests = 0 /\ faults = 0
      /\ expected_frame_id = 0 /\ match_cnt = 0 /\ pending_cnt = 0 /\ spinning = FALSE
  BY DEF Init
<1>2. Typed
  <2>1. cmd_queue \in Seq(Cmd)
    BY <1>1, EmptySeq
  <2>2. lastFrame \in [Streams -> 0 .. MaxFrame]
    BY <1>1, SuperbufAssumption
  <2> QED
    BY <1>1, <2>1, <2>2, SuperbufAssumption DEF Typed
<1>3. <<>> \in Seq(Node) /\ DOMAIN <<>> = {} /\ Len(<<>>) = 0
  BY EmptySeq
<1>4. QueueInv(Queue)
  <2>1. /\ Queue.que = <<>> /\ Queue.expected = 0 /\ Queue.cnt = 0 /\ Queue.spin = FALSE
    BY <1>1 DEF Queue
  <2>2. Queue \in QueueRec
    BY <1>1, <1>3 DEF Queue, QueueRec
  <2>3. Line(<<>>) /\ Ready(<<>>) = 0 /\ MatchedThrough(<<>>, 0)
    BY <1>3 DEF Line, Ready, MatchedThrough, Sorted
  <2> QED
    BY <2>1, <2>2, <2>3 DEF QueueInv
<1>5. ReadyInv
  BY <1>1, <1>3 DEF ReadyInv, Handed, Sorted, AllAhead
<1>6. FramesOf(<<>>) = {} /\ Waiting(<<>>) = {} /\ BufsOfAll(<<>>) = {}
  BY <1>3 DEF FramesOf, Waiting, BufsOfAll
<1>7. FrameInv
  BY <1>1, <1>6 DEF FrameInv, InOrder, NewerThan
<1>8. PlaceInv
  BY <1>1, <1>6 DEF PlaceInv, OnTheWay
<1>9. LengthInv
  BY <1>1, <1>3, SuperbufAssumption DEF LengthInv
<1> QED
  BY <1>2, <1>4, <1>5, <1>7, <1>8, <1>9 DEF IInv

\* A frame comes from the kernel: it is newer than any its stream has on the way.
LEMMA DataNotifyInv ==
  ASSUME IInv, NEW s \in Streams, DataNotify(s)
  PROVE  IInv'
<1>1. PICK f \in lastFrame[s] + 1 .. MaxFrame :
         /\ lastFrame' = [lastFrame EXCEPT ![s] = f]
         /\ outside' = outside \cup {<<s, f>>}
         /\ \/ /\ cmd_queue' = Append(cmd_queue, DataCmd(s, f))
               /\ lost' = lost /\ faults' = faults
            \/ /\ faults' = faults + 1
               /\ lost' = lost \cup {<<s, f>>}
               /\ cmd_queue' = cmd_queue
  BY DEF DataNotify
<1>2. /\ notify_mode' = notify_mode /\ superbuf_queue' = superbuf_queue
      /\ expected_frame_id' = expected_frame_id /\ match_cnt' = match_cnt
      /\ pending_cnt' = pending_cnt /\ spinning' = spinning
      /\ cb_queue' = cb_queue /\ held' = held /\ requests' = requests
  BY DEF DataNotify, queueVars
<1>3. /\ lastFrame \in [Streams -> 0 .. MaxFrame] /\ outside \subseteq Buf
      /\ held \subseteq Buf /\ lost \subseteq Buf /\ cmd_queue \in Seq(Cmd)
      /\ faults \in Nat /\ requests \in Nat /\ notify_mode \in {"BURST", "CONTINUOUS"}
  BY DEF IInv, Typed
<1>4. /\ f \in FrameId /\ f \in Nat /\ lastFrame[s] < f /\ lastFrame[s] \in Nat
      /\ <<s, f>> \in Buf
  BY <1>1, <1>3, SuperbufAssumption DEF FrameId, Buf
<1>5. \A p \in outside : p[1] = s => p[2] < f
  <2> SUFFICES ASSUME NEW p \in outside, p[1] = s PROVE p[2] < f
    OBVIOUS
  <2>1. p[2] <= lastFrame[s]
    BY DEF IInv, PlaceInv
  <2>2. p[2] \in Nat
    BY <1>3, SuperbufAssumption DEF Buf, FrameId
  <2> QED
    BY <1>4, <2>1, <2>2
<1>6. <<s, f>> \notin outside
  <2>1. <<s, f>>[1] = s /\ <<s, f>>[2] = f /\ ~(f < f)
    BY <1>4
  <2> QED
    BY <1>5, <2>1
<1>7. /\ outside = OnTheWay \cup held \cup lost
      /\ OnTheWay \cap (held \cup lost) = {} /\ held \cap lost = {}
      /\ OnTheWay = Waiting(cmd_queue) \cup BufsOfAll(superbuf_queue) \cup BufsOfAll(cb_queue)
  BY DEF IInv, PlaceInv, OnTheWay
<1> DEFINE c == DataCmd(s, f)
<1>8. c \in Cmd /\ Brings(c) = {<<s, f>>} /\ <<c>>[1] = c /\ DOMAIN <<c>> = {1}
      /\ c.stream = s /\ c.frame = f
  BY <1>4 DEF DataCmd, Cmd, Brings
<1>9. \A bufs \in SUBSET outside : NewerThan(<<c>>, bufs)
  BY <1>5, <1>8 DEF NewerThan, FramesOf
<1> HIDE DEF c
<1>10. /\ cmd_queue' \in Seq(Cmd) /\ InOrder(cmd_queue')
       /\ NewerThan(cmd_queue', BufsOfAll(superbuf_queue))
       /\ NewerThan(cmd_queue', BufsOfAll(cb_queue))
       /\ \/ Waiting(cmd_queue') = Waiting(cmd_queue) \cup {<<s, f>>} /\ lost' = lost
          \/ Waiting(cmd_queue') = Waiting(cmd_queue) /\ lost' = lost \cup {<<s, f>>}
  <2>1. /\ InOrder(cmd_queue) /\ NewerThan(cmd_queue, BufsOfAll(superbuf_queue))
        /\ NewerThan(cmd_queue, BufsOfAll(cb_queue))
    BY DEF IInv, FrameInv
  <2>2. CASE cmd_queue' = Append(cmd_queue, c) /\ lost' = lost
    <3>1. /\ NewerThan(<<c>>, BufsOfAll(superbuf_queue))
          /\ NewerThan(<<c>>, BufsOfAll(cb_queue))
          /\ NewerThan(<<c>>, Waiting(cmd_queue))
      BY <1>7, <1>9
    <3> QED
      BY <1>3, <1>8, <2>1, <2>2, <3>1, CmdAdded
  <2>3. CASE cmd_queue' = cmd_queue /\ lost' = lost \cup {<<s, f>>}
    BY <1>3, <2>1, <2>3
  <2> QED
    BY <1>1, <2>2, <2>3 DEF c
<1>11. Typed'
  <2>1. lastFrame' \in [Streams -> 0 .. MaxFrame]
    <3>1. f \in 0 .. MaxFrame
      BY <1>4 DEF FrameId
    <3> QED
      BY <1>1, <1>3, <3>1
  <2>2. faults' \in Nat
    BY <1>1, <1>3
  <2> QED
    BY <1>1, <1>2, <1>3, <1>4, <1>10, <2>1, <2>2 DEF Typed
<1>12. QueueInv(Queue)'
  <2>1. Queue' = Queue
    BY <1>2 DEF Queue
  <2> QED
    BY <2>1 DEF IInv
<1>13. ReadyInv'
  BY <1>2 DEF IInv, ReadyInv, Handed
<1>14. FrameInv'
  BY <1>2, <1>10 DEF FrameInv
<1>15. PlaceInv'
  <2>1. OnTheWay' = Waiting(cmd_queue') \cup BufsOfAll(superbuf_queue) \cup BufsOfAll(cb_queue)
    BY <1>2 DEF OnTheWay
  <2>2. outside' = OnTheWay' \cup held' \cup lost'
    BY <1>1, <1>2, <1>7, <1>10, <2>1
  <2>3. OnTheWay' \cap (held' \cup lost') = {}
    BY <1>2, <1>6, <1>7, <1>10, <2>1
  <2>4. held' \cap lost' = {}
    BY <1>2, <1>6, <1>7, <1>10
  <2>5. ASSUME NEW p \in outside' PROVE p[2] <= lastFrame'[p[1]]
    <3>1. CASE p \in outside
      <4>1. p[2] <= lastFrame[p[1]] /\ p[1] \in Streams /\ p[2] \in Nat
            /\ lastFrame[p[1]] \in Nat
        BY <1>3, <3>1, SuperbufAssumption DEF IInv, PlaceInv, Buf, FrameId
      <4> QED
        BY <1>1, <1>3, <1>4, <4>1
    <3>2. CASE p = <<s, f>>
      BY <1>1, <1>3, <1>4, <3>2
    <3> QED
      BY <1>1, <3>1, <3>2
  <2> QED
    BY <2>2, <2>3, <2>4, <2>5 DEF PlaceInv
<1>16. LengthInv'
  BY <1>2 DEF IInv, LengthInv
<1> QED
  BY <1>11, <1>12, <1>13, <1>14, <1>15, <1>16 DEF IInv


\* A request for super buffers.
LEMMA RequestSuperBufInv ==
  ASSUME IInv, NEW n \in Nat, RequestSuperBuf(n)
  PROVE  IInv'
<1>1. /\ cmd_queue' = Append(cmd_queue, ReqCmd(n)) /\ requests' = requests + 1
      /\ notify_mode' = notify_mode /\ superbuf_queue' = superbuf_queue
      /\ expected_frame_id' = expected_frame_id /\ match_cnt' = match_cnt
      /\ pending_cnt' = pending_cnt /\ spinning' = spinning /\ outside' = outside
      /\ cb_queue' = cb_queue /\ held' = held /\ lost' = lost /\ faults' = faults
      /\ lastFrame' = lastFrame
  BY DEF RequestSuperBuf, queueVars
<1> DEFINE c == ReqCmd(n)
<1>2. c \in Cmd /\ Brings(c) = {} /\ \A bufs : NewerThan(<<c>>, bufs)
  BY DEF ReqCmd, Cmd, Brings, NewerThan, FramesOf
<1> HIDE DEF c
<1>3. /\ cmd_queue' \in Seq(Cmd) /\ InOrder(cmd_queue')
      /\ NewerThan(cmd_queue', BufsOfAll(superbuf_queue))
      /\ NewerThan(cmd_queue', BufsOfAll(cb_queue))
      /\ Waiting(cmd_queue') = Waiting(cmd_queue)
  <2>1. /\ InOrder(cmd_queue) /\ NewerThan(cmd_queue, BufsOfAll(superbuf_queue))
        /\ NewerThan(cmd_queue, BufsOfAll(cb_queue)) /\ cmd_queue \in Seq(Cmd)
    BY DEF IInv, FrameInv, Typed
  <2>2. cmd_queue' = Append(cmd_queue, c)
    BY <1>1 DEF c
  <2> QED
    BY <1>2, <2>1, <2>2, CmdAdded, ZenonT(30)
<1>4. Typed'
  <2>1. requests' \in Nat
    BY <1>1 DEF IInv, Typed
  <2> QED
    BY <1>1, <1>3, <2>1 DEF IInv, Typed
<1>5. QueueInv(Queue)'
  <2>1. Queue' = Queue
    BY <1>1 DEF Queue
  <2> QED
    BY <2>1 DEF IInv
<1>6. ReadyInv'
  BY <1>1 DEF IInv, ReadyInv, Handed
<1>7. FrameInv'
  BY <1>1, <1>3 DEF FrameInv
<1>8. PlaceInv'
  <2>1. OnTheWay' = OnTheWay
    BY <1>1, <1>3 DEF OnTheWay
  <2> QED
    BY <1>1, <2>1 DEF IInv, PlaceInv
<1>9. LengthInv'
  BY <1>1 DEF IInv, LengthInv
<1> QED
  BY <1>4, <1>5, <1>6, <1>7, <1>8, <1>9 DEF IInv

\* A command is due for the queue it finds: a frame is newer than the stream's others there.
LEMMA HeadDue ==
  ASSUME IInv, cmd_queue # <<>>
  PROVE  Due(Queue, Head(cmd_queue)) /\ Brings(Head(cmd_queue)) \subseteq Buf
<1> DEFINE c == Head(cmd_queue)
<1>1. /\ QueueInv(Queue) /\ Queue.out = <<>> /\ Queue.que = superbuf_queue
      /\ superbuf_queue \in Seq(Node) /\ cmd_queue \in Seq(Cmd)
  BY Types DEF IInv
<1>2. /\ c \in Cmd
      /\ \A h \in Brings(c), p \in BufsOfAll(superbuf_queue) : p[1] = h[1] => p[2] < h[2]
  BY <1>1, CmdTaken DEF IInv, FrameInv
<1> HIDE DEF c
<1>3. ASSUME c.type = "DATA_CB"
      PROVE  /\ Fresh(superbuf_queue, c.stream, c.frame)
             /\ Brings(c) = {<<c.stream, c.frame>>} /\ <<c.stream, c.frame>> \in Buf
  <2>1. c.stream \in Streams /\ c.frame \in FrameId /\ c.frame > 0
    BY <1>2, <1>3, SuperbufAssumption DEF Cmd, FrameId
  <2>2. Brings(c) = {<<c.stream, c.frame>>}
    BY <1>3 DEF Brings
  <2>3. ASSUME NEW i \in DOMAIN superbuf_queue
        PROVE  superbuf_queue[i].bufs[c.stream] < c.frame
    <3> DEFINE p == <<c.stream, superbuf_queue[i].bufs[c.stream]>>
    <3>1. CASE superbuf_queue[i].bufs[c.stream] = Empty
      BY <2>1, <3>1 DEF Empty
    <3>2. CASE superbuf_queue[i].bufs[c.stream] # Empty
      <4>1. p \in BufsOf(superbuf_queue[i])
        BY <2>1, <3>2 DEF BufsOf
      <4>2. p \in BufsOfAll(superbuf_queue)
        BY <4>1, AllBufs
      <4> QED
        BY <1>2, <2>2, <4>2
    <3> QED
      BY <3>1, <3>2
  <2> QED
    BY <2>1, <2>2, <2>3 DEF Fresh, Buf
<1>4. c.type # "DATA_CB" => Brings(c) = {}
  BY DEF Brings
<1> QED
  BY <1>1, <1>2, <1>3, <1>4 DEF Due, c

\* What the cb thread gets of what the cmd thread dispatched: all, or all but one super
\* buffer, with the buffers gone.
GivenOf(out, given, gone) ==
    \/ given = out /\ gone = {}
    \/ \E i \in DOMAIN out : given = RemoveAt(out, i) /\ gone = BufsOf(out[i])

\* It is in order in both cases, and has the other buffers.
LEMMA HandedOver ==
  ASSUME NEW r, Handed(r.out, r.que, r.expected), NEW given, NEW gone,
         GivenOf(r.out, given, gone)
  PROVE  /\ Handed(given, r.que, r.expected)
         /\ BufsOfAll(r.out) = BufsOfAll(given) \cup gone
         /\ BufsOfAll(given) \cap gone = {}
<1> USE DEF GivenOf
<1>1. CASE given = r.out /\ gone = {}
  BY <1>1
<1>2. CASE \E i \in DOMAIN r.out : given = RemoveAt(r.out, i) /\ gone = BufsOf(r.out[i])
  <2>1. PICK i \in DOMAIN r.out : given = RemoveAt(r.out, i) /\ gone = BufsOf(r.out[i])
    BY <1>2
  <2>2. r.out \in Seq(Node) /\ Sorted(r.out)
    BY DEF Handed
  <2>3. /\ given \in Seq(Node) /\ Sorted(given)
        /\ \A j \in DOMAIN given : \E k \in DOMAIN r.out : given[j] = r.out[k]
        /\ BufsOfAll(r.out) = BufsOfAll(given) \cup BufsOf(r.out[i])
        /\ BufsOf(r.out[i]) \cap BufsOfAll(given) = {}
    BY <2>1, <2>2, LeftOut
  <2>4. Handed(given, r.que, r.expected)
    BY <2>3 DEF Handed, AllAhead
  <2> QED
    BY <2>1, <2>3, <2>4
<1> QED
  BY <1>1, <1>2

\* A step of the cmd thread.
LEMMA ProcessStreamBufInv ==
  ASSUME IInv, ProcessStreamBuf
  PROVE  IInv'
<1> DEFINE h == Brings(Head(cmd_queue))
           S == BufsOfAll(superbuf_queue)
           K == BufsOfAll(cb_queue)
           W == Waiting(Tail(cmd_queue))
<1>1. cmd_queue # <<>> /\ cmd_queue' = Tail(cmd_queue)
  BY DEF ProcessStreamBuf
<1>2. PICK noMemory \in BOOLEAN :
         LET q == process_stream_buf(Queue, Head(cmd_queue), noMemory)
         IN  /\ superbuf_queue' = q.que
             /\ expected_frame_id' = q.expected
             /\ match_cnt' = q.cnt
             /\ pending_cnt' = q.pending
             /\ spinning' = q.spin
             /\ \/ /\ cb_queue' = cb_queue \o q.out
                   /\ outside' = outside \ q.done
                   /\ lost' = lost
                \/ \E i \in DOMAIN q.out :
                        /\ cb_queue' = cb_queue \o RemoveAt(q.out, i)
                        /\ \/ /\ outside' = outside \ (q.done \cup BufsOf(q.out[i]))
                              /\ lost' = lost
                           \/ /\ outside' = outside \ q.done
                              /\ lost' = lost \cup BufsOf(q.out[i])
             /\ faults' = IF noMemory THEN faults + 1 ELSE faults
  BY DEF ProcessStreamBuf
<1> DEFINE r == process_stream_buf(Queue, Head(cmd_queue), noMemory)
<1>3. /\ notify_mode' = notify_mode /\ lastFrame' = lastFrame /\ held' = held
      /\ requests' = requests
  BY DEF ProcessStreamBuf
<1>4. Leads(Queue, Head(cmd_queue), r) /\ h \subseteq Buf
  BY <1>1, HeadDue, Processed DEF IInv, Typed
<1>5. /\ superbuf_queue' = r.que /\ expected_frame_id' = r.expected /\ match_cnt' = r.cnt
      /\ pending_cnt' = r.pending /\ spinning' = r.spin
      /\ faults' = IF noMemory THEN faults + 1 ELSE faults
  BY <1>2
<1>6. \/ /\ cb_queue' = cb_queue \o r.out
         /\ outside' = outside \ r.done
         /\ lost' = lost
      \/ \E i \in DOMAIN r.out :
           /\ cb_queue' = cb_queue \o RemoveAt(r.out, i)
           /\ \/ /\ outside' = outside \ (r.done \cup BufsOf(r.out[i]))
                 /\ lost' = lost
              \/ /\ outside' = outside \ r.done
                 /\ lost' = lost \cup BufsOf(r.out[i])
  BY <1>2
<1> HIDE DEF r
<1>7. \E given, gone :
        /\ GivenOf(r.out, given, gone)
        /\ cb_queue' = cb_queue \o given
        /\ \/ outside' = outside \ (r.done \cup gone) /\ lost' = lost
           \/ outside' = outside \ r.done /\ lost' = lost \cup gone
  <2>1. CASE /\ cb_queue' = cb_queue \o r.out
             /\ outside' = outside \ r.done
             /\ lost' = lost
    <3>1. outside' = outside \ (r.done \cup {}) /\ GivenOf(r.out, r.out, {})
      BY <2>1 DEF GivenOf
    <3> QED
      BY <2>1, <3>1
  <2>2. CASE \E i \in DOMAIN r.out :
               /\ cb_queue' = cb_queue \o RemoveAt(r.out, i)
               /\ \/ /\ outside' = outside \ (r.done \cup BufsOf(r.out[i]))
                     /\ lost' = lost
                  \/ /\ outside' = outside \ r.done
                     /\ lost' = lost \cup BufsOf(r.out[i])
    <3>1. \A i \in DOMAIN r.out : GivenOf(r.out, RemoveAt(r.out, i), BufsOf(r.out[i]))
      BY DEF GivenOf
    <3> QED
      BY <2>2, <3>1
  <2> QED
    BY <1>6, <2>1, <2>2
<1>8. PICK given, gone :
        /\ GivenOf(r.out, given, gone)
        /\ cb_queue' = cb_queue \o given
        /\ \/ outside' = outside \ (r.done \cup gone) /\ lost' = lost
           \/ outside' = outside \ r.done /\ lost' = lost \cup gone
  BY <1>7
<1> DEFINE G == BufsOfAll(given)
           R == BufsOfAll(r.que)
<1>9. /\ Queue.que = superbuf_queue /\ Queue.expected = expected_frame_id /\ Queue.done = {}
      /\ superbuf_queue \in Seq(Node) /\ expected_frame_id \in Nat
      /\ cb_queue \in Seq(Node) /\ cmd_queue \in Seq(Cmd)
      /\ S \cap K = {} /\ Waiting(cmd_queue) \cap S = {} /\ Waiting(cmd_queue) \cap K = {}
  BY Types
<1>10. /\ QueueInv(r) /\ Handed(r.out, r.que, r.expected)
       /\ Len(r.que) <= WaterMark + 1
       /\ r.expected \in Nat /\ expected_frame_id <= r.expected
       /\ All(r) \subseteq S \cup h
       /\ BufsOfAll(r.out) \cap R = {}
       /\ r.done = (S \cup h) \ All(r)
       /\ \A p \in h : p[2] < expected_frame_id => p \notin All(r)
  BY <1>4, <1>9 DEF Leads
<1>11. /\ Handed(given, r.que, r.expected)
       /\ BufsOfAll(r.out) = G \cup gone /\ G \cap gone = {}
  <2>1. GivenOf(r.out, given, gone)
    BY <1>8
  <2>2. Handed(r.out, r.que, r.expected)
    BY <1>10
  <2> QED
    BY <2>1, <2>2, HandedOver
<1>12. /\ Waiting(cmd_queue) = W \cup h /\ Tail(cmd_queue) \in Seq(Cmd)
       /\ InOrder(Tail(cmd_queue))
       /\ NewerThan(Tail(cmd_queue), h)
       /\ NewerThan(Tail(cmd_queue), S) /\ NewerThan(Tail(cmd_queue), K)
       /\ \A p \in h, b \in K : b[1] = p[1] => b[2] < p[2]
  BY <1>1, <1>9, CmdTaken DEF IInv, FrameInv
<1>13. W \cap h = {}
  BY <1>12, WaitingApart
<1>14. All(r) = G \cup gone \cup R
  BY <1>11 DEF All
<1> HIDE DEF h, S, K, W, G, R
<1>15. Handed(cb_queue \o given, r.que, r.expected) /\ BufsOfAll(cb_queue \o given) = K \cup G
  <2>1. r.que \in Seq(Node)
    BY <1>10 DEF QueueInv, Line
  <2>2. Moves(cb_queue, superbuf_queue, expected_frame_id, h, given, r.que, r.expected)
    BY <1>4, <1>9, <1>10, <1>11, <1>12, <1>14, <2>1 DEF Moves, IInv, ReadyInv, h, S, K, G, R
  <2> QED
    BY <2>2, Moved DEF K, G
<1>16. QueueInv(Queue)'
  <2>1. Queue' = [que |-> r.que, expected |-> r.expected, cnt |-> r.cnt, pending |-> r.pending,
                  spin |-> r.spin, done |-> {}, out |-> <<>>]
    BY <1>5 DEF Queue
  <2>2. QueueInv(Queue')
    BY <1>10, <2>1, Restarted
  <2> QED
    BY <2>2
<1>17. ReadyInv'
  BY <1>5, <1>8, <1>15 DEF ReadyInv
<1>18. LengthInv'
  BY <1>5, <1>10 DEF LengthInv
<1>19. FrameInv'
  <2>1. R \subseteq S \cup h /\ K \cup G \subseteq S \cup K \cup h
    BY <1>10, <1>14
  <2>2. NewerThan(Tail(cmd_queue), R) /\ NewerThan(Tail(cmd_queue), K \cup G)
    BY <1>12, <2>1 DEF NewerThan
  <2>3. BufsOfAll(superbuf_queue') = R /\ BufsOfAll(cb_queue') = K \cup G
    BY <1>5, <1>8, <1>15 DEF R
  <2> QED
    BY <1>1, <1>12, <2>2, <2>3 DEF FrameInv
<1>20. /\ outside = W \cup h \cup S \cup K \cup held \cup lost
       /\ (W \cup h \cup S \cup K) \cap (held \cup lost) = {} /\ held \cap lost = {}
       /\ \A p \in outside : p[2] <= lastFrame[p[1]]
       /\ outside \subseteq Buf /\ held \subseteq Buf /\ lost \subseteq Buf
  BY <1>12 DEF IInv, PlaceInv, OnTheWay, Typed, S, K
<1>21. OnTheWay' = W \cup R \cup K \cup G
  BY <1>1, <1>5, <1>8, <1>15 DEF OnTheWay, W, R
<1>22. /\ W \cap h = {} /\ S \cap K = {} /\ W \cap S = {} /\ h \cap S = {} /\ W \cap K = {}
       /\ h \cap K = {}
  BY <1>9, <1>12, <1>13
<1>23. /\ G \subseteq S \cup h /\ gone \subseteq S \cup h /\ R \subseteq S \cup h
       /\ G \cap gone = {} /\ R \cap G = {} /\ R \cap gone = {}
       /\ r.done = (S \cup h) \ (G \cup gone \cup R)
  BY <1>10, <1>11, <1>14 DEF R
<1>24. PlaceInv'
  <2>1. CASE outside' = outside \ (r.done \cup gone) /\ lost' = lost
    <3>1. outside' = OnTheWay' \cup held' \cup lost'
      BY <1>3, <1>20, <1>21, <1>22, <1>23, <2>1
    <3>2. OnTheWay' \cap (held' \cup lost') = {} /\ held' \cap lost' = {}
      BY <1>3, <1>20, <1>21, <1>23, <2>1
    <3> QED
      BY <1>3, <1>20, <2>1, <3>1, <3>2 DEF PlaceInv
  <2>2. CASE outside' = outside \ r.done /\ lost' = lost \cup gone
    <3>1. outside' = OnTheWay' \cup held' \cup lost'
      BY <1>3, <1>20, <1>21, <1>22, <1>23, <2>2
    <3>2. OnTheWay' \cap (held' \cup lost') = {} /\ held' \cap lost' = {}
      BY <1>3, <1>20, <1>21, <1>22, <1>23, <2>2
    <3> QED
      BY <1>3, <1>20, <2>2, <3>1, <3>2 DEF PlaceInv
  <2> QED
    BY <1>8, <2>1, <2>2
<1>25. Typed'
  <2>1. faults' \in Nat
    BY <1>5 DEF IInv, Typed
  <2>2. outside' \subseteq Buf /\ lost' \subseteq Buf
    BY <1>8, <1>20, <1>23
  <2> QED
    BY <1>1, <1>3, <1>12, <2>1, <2>2 DEF IInv, Typed
<1> QED
  BY <1>16, <1>17, <1>18, <1>19, <1>24, <1>25 DEF IInv

\* The HAL gets a super buffer.
LEMMA DispatchSuperBufInv ==
  ASSUME IInv, DispatchSuperBuf
  PROVE  IInv'
<1> DEFINE b == BufsOf(Head(cb_queue))
           T == BufsOfAll(Tail(cb_queue))
<1>1. /\ cb_queue # <<>> /\ cb_queue' = Tail(cb_queue) /\ held' = held \cup b
      /\ notify_mode' = notify_mode /\ superbuf_queue' = superbuf_queue
      /\ expected_frame_id' = expected_frame_id /\ match_cnt' = match_cnt
      /\ pending_cnt' = pending_cnt /\ spinning' = spinning /\ outside' = outside
      /\ cmd_queue' = cmd_queue /\ lost' = lost /\ faults' = faults
      /\ lastFrame' = lastFrame /\ requests' = requests
  BY DEF DispatchSuperBuf, queueVars
<1>2. /\ superbuf_queue \in Seq(Node)
      /\ BufsOfAll(superbuf_queue) \cap BufsOfAll(cb_queue) = {}
      /\ Waiting(cmd_queue) \cap BufsOfAll(cb_queue) = {}
  BY Types
<1>3. /\ Handed(Tail(cb_queue), superbuf_queue, expected_frame_id)
      /\ BufsOfAll(cb_queue) = b \cup T /\ b \cap T = {}
  BY <1>1, <1>2, FirstTaken DEF IInv, ReadyInv
<1>4. /\ outside = OnTheWay \cup held \cup lost
      /\ OnTheWay \cap (held \cup lost) = {} /\ held \cap lost = {}
      /\ OnTheWay = Waiting(cmd_queue) \cup BufsOfAll(superbuf_queue) \cup BufsOfAll(cb_queue)
      /\ outside \subseteq Buf
  BY DEF IInv, PlaceInv, OnTheWay, Typed
<1>5. OnTheWay' = Waiting(cmd_queue) \cup BufsOfAll(superbuf_queue) \cup T
  BY <1>1 DEF OnTheWay
<1> HIDE DEF b, T
<1>6. PlaceInv'
  <2>1. outside' = OnTheWay' \cup held' \cup lost'
    BY <1>1, <1>3, <1>4, <1>5
  <2>2. OnTheWay' \cap (held' \cup lost') = {}
    BY <1>1, <1>2, <1>3, <1>4, <1>5
  <2>3. held' \cap lost' = {}
    BY <1>1, <1>3, <1>4
  <2> QED
    BY <1>1, <2>1, <2>2, <2>3 DEF IInv, PlaceInv
<1>7. Typed'
  <2>1. held' \subseteq Buf
    BY <1>1, <1>3, <1>4
  <2> QED
    BY <1>1, <2>1 DEF IInv, Typed
<1>8. QueueInv(Queue)'
  <2>1. Queue' = Queue
    BY <1>1 DEF Queue
  <2> QED
    BY <2>1 DEF IInv
<1>9. ReadyInv'
  BY <1>1, <1>3 DEF ReadyInv
<1>10. FrameInv'
  <2>1. BufsOfAll(cb_queue') \subseteq BufsOfAll(cb_queue)
    BY <1>1, <1>3 DEF T
  <2> QED
    BY <1>1, <2>1 DEF IInv, FrameInv, NewerThan, InOrder
<1>11. LengthInv'
  BY <1>1 DEF IInv, LengthInv
<1> QED
  BY <1>6, <1>7, <1>8, <1>9, <1>10, <1>11 DEF IInv

\* The HAL returns a buffer.
LEMMA BufDoneInv ==
  ASSUME IInv, NEW p \in held, BufDone(p)
  PROVE  IInv'
<1>1. /\ held' = held \ {p} /\ outside' = outside \ {p}
      /\ notify_mode' = notify_mode /\ superbuf_queue' = superbuf_queue
      /\ expected_frame_id' = expected_frame_id /\ match_cnt' = match_cnt
      /\ pending_cnt' = pending_cnt /\ spinning' = spinning /\ cb_queue' = cb_queue
      /\ cmd_queue' = cmd_queue /\ lost' = lost /\ faults' = faults
      /\ lastFrame' = lastFrame /\ requests' = requests
  BY DEF BufDone, queueVars
<1>2. OnTheWay' = OnTheWay
  BY <1>1 DEF OnTheWay
<1>3. PlaceInv'
  <2>1. outside' = OnTheWay' \cup held' \cup lost'
    BY <1>1, <1>2 DEF IInv, PlaceInv
  <2>2. OnTheWay' \cap (held' \cup lost') = {} /\ held' \cap lost' = {}
    BY <1>1, <1>2 DEF IInv, PlaceInv
  <2> QED
    BY <1>1, <2>1, <2>2 DEF IInv, PlaceInv
<1>4. Typed'
  BY <1>1 DEF IInv, Typed
<1>5. QueueInv(Queue)'
  <2>1. Queue' = Queue
    BY <1>1 DEF Queue
  <2> QED
    BY <2>1 DEF IInv
<1>6. ReadyInv' /\ FrameInv' /\ LengthInv'
  BY <1>1 DEF IInv, ReadyInv, FrameInv, LengthInv, Handed
<1> QED
  BY <1>3, <1>4, <1>5, <1>6 DEF IInv

\* Nothing happens.
LEMMA StutterInv ==
  ASSUME IInv, UNCHANGED vars
  PROVE  IInv'
<1>1. /\ held' = held /\ outside' = outside
      /\ notify_mode' = notify_mode /\ superbuf_queue' = superbuf_queue
      /\ expected_frame_id' = expected_frame_id /\ match_cnt' = match_cnt
      /\ pending_cnt' = pending_cnt /\ spinning' = spinning /\ cb_queue' = cb_queue
      /\ cmd_queue' = cmd_queue /\ lost' = lost /\ faults' = faults
      /\ lastFrame' = lastFrame /\ requests' = requests
  BY DEF vars, queueVars
<1>2. Queue' = Queue /\ OnTheWay' = OnTheWay
  BY <1>1 DEF Queue, OnTheWay
<1>3. QueueInv(Queue)'
  BY <1>2 DEF IInv
<1>4. PlaceInv' /\ Typed'
  BY <1>1, <1>2 DEF IInv, PlaceInv, Typed
<1>5. ReadyInv' /\ FrameInv' /\ LengthInv'
  BY <1>1 DEF IInv, ReadyInv, FrameInv, LengthInv, Handed
<1> QED
  BY <1>3, <1>4, <1>5 DEF IInv

\* The invariant holds from the first state on.
THEOREM Invariance == Spec => []IInv
<1>1. IInv /\ [Next]_vars => IInv'
  <2> SUFFICES ASSUME IInv, [Next]_vars PROVE IInv'
    OBVIOUS
  <2>1. CASE \E s \in Streams : DataNotify(s)
    BY <2>1, DataNotifyInv
  <2>2. CASE \E n \in Requests : RequestSuperBuf(n)
    <3>1. Requests \subseteq Nat
      BY SuperbufAssumption
    <3> QED
      BY <2>2, <3>1, RequestSuperBufInv
  <2>3. CASE ProcessStreamBuf
    BY <2>3, ProcessStreamBufInv
  <2>4. CASE DispatchSuperBuf
    BY <2>4, DispatchSuperBufInv
  <2>5. CASE \E p \in held : BufDone(p)
    BY <2>5, BufDoneInv
  <2>6. CASE UNCHANGED vars
    BY <2>6, StutterInv
  <2> QED
    BY <2>1, <2>2, <2>3, <2>4, <2>5, <2>6 DEF Next
<1> QED
  BY <1>1, InitInv, PTL DEF Spec

-----------------------------------------------------------------------------
(* What follows                                                              *)

\* TypeOK: every variable has its type.
THEOREM TypeCorrect == Spec => []TypeOK
<1>1. IInv => TypeOK
  <2> SUFFICES ASSUME IInv PROVE TypeOK
    OBVIOUS
  <2>1. /\ superbuf_queue \in Seq(Node) /\ expected_frame_id \in Nat /\ match_cnt \in Nat
        /\ pending_cnt \in Nat /\ spinning = FALSE
        /\ cb_queue \in Seq(Node) /\ cmd_queue \in Seq(Cmd)
    BY Types
  <2>2. lastFrame \in [Streams -> Nat]
    BY SuperbufAssumption DEF IInv, Typed
  <2> QED
    BY <2>1, <2>2 DEF IInv, Typed, TypeOK
<1> QED
  BY <1>1, Invariance, PTL

\* NeverSpins: the loops that trim the queue end.
THEOREM LoopsEnd == Spec => []NeverSpins
<1>1. IInv => NeverSpins
  BY Types DEF NeverSpins
<1> QED
  BY <1>1, Invariance, PTL

\* BuffersAccountedFor: every buffer out of the kernel is on its way back, and what is on
\* that way is out of the kernel.
THEOREM NoBufferLeaks == Spec => []BuffersAccountedFor
<1>1. IInv => BuffersAccountedFor
  <2>1. InCmdQueue = Waiting(cmd_queue)
    BY DEF InCmdQueue, Waiting, FramesOf
  <2> QED
    BY <2>1 DEF IInv, PlaceInv, OnTheWay, BuffersAccountedFor
<1> QED
  BY <1>1, Invariance, PTL

\* Matched super buffers, one ahead of the other, have all their frames in that order.
LEMMA MatchedEarlier ==
  ASSUME NEW n, NEW m, NodeOK(n), NodeOK(m), n.matched, m.matched, Ahead(n, m)
  PROVE  Earlier(n, m)
<1>1. 1 \in Streams
  BY SuperbufAssumption DEF Streams
<1>2. n.bufs[1] # Empty /\ m.bufs[1] # Empty
  BY <1>1 DEF NodeOK, Complete
<1> QED
  BY <1>1, <1>2 DEF Ahead, Earlier, FrameOf

\* SuperBufsInStep: a super buffer for the HAL has a frame of every stream, all of one
\* exposure, and super buffers come in the order of their frames, post_frame_skip apart.
THEOREM InStep == Spec => []SuperBufsInStep
<1>1. IInv => SuperBufsInStep
  <2> SUFFICES ASSUME IInv PROVE SuperBufsInStep
    OBVIOUS
  <2>1. /\ Handed(cb_queue, superbuf_queue, expected_frame_id)
        /\ Line(superbuf_queue)
    BY Types DEF IInv, ReadyInv, QueueInv
  <2>2. \A i, j \in DOMAIN cb_queue : i < j => Earlier(cb_queue[i], cb_queue[j])
    BY <2>1, MatchedEarlier DEF Handed, Sorted
  <2>3. \A i, j \in DOMAIN superbuf_queue :
          i < j /\ superbuf_queue[i].matched /\ superbuf_queue[j].matched =>
            Earlier(superbuf_queue[i], superbuf_queue[j])
    BY <2>1, MatchedEarlier DEF Line, Sorted
  <2>4. \A i \in DOMAIN cb_queue, j \in DOMAIN superbuf_queue :
          superbuf_queue[j].matched => Earlier(cb_queue[i], superbuf_queue[j])
    BY <2>1, MatchedEarlier DEF Line, Handed, AllAhead
  <2>5. ASSUME NEW i \in DOMAIN cb_queue PROVE Synchronised(cb_queue[i])
    <3> DEFINE n == cb_queue[i]
    <3>1. NodeOK(n) /\ n.matched /\ n \in Node
      BY <2>1 DEF Handed, NodeOK
    <3>2. 1 \in Streams
      BY SuperbufAssumption DEF Streams
    <3>3. \A s \in Streams : n.bufs[s] # Empty /\ n.bufs[s] = n.bufs[1]
      BY <3>1, <3>2 DEF NodeOK, Complete
    <3>4. n.bufs[1] \in FrameId
      BY <3>1, <3>2, <3>3, NodeBufs
    <3> QED
      BY <3>3, <3>4 DEF Synchronised
  <2> QED
    BY <2>2, <2>3, <2>4, <2>5 DEF SuperBufsInStep, SuperBufsInOrder
<1> QED
  BY <1>1, Invariance, PTL

\* IdleHalLeavesBuffers: in front of an idle HAL the queue never holds all the buffers of a
\* stream that has more than water_mark and one.
THEOREM SensorIsFed == Spec => []IdleHalLeavesBuffers
<1>1. IInv => IdleHalLeavesBuffers
  <2> SUFFICES ASSUME IInv, cmd_queue = <<>>, cb_queue = <<>>, held = {}, lost = {},
                      NumBufs > WaterMark + 1, NEW s \in Streams
               PROVE  InKernel(s) > 0
    BY DEF IdleHalLeavesBuffers
  <2> DEFINE l  == Len(superbuf_queue)
             at == [i \in 1 .. l |-> <<s, superbuf_queue[i].bufs[s]>>]
             P  == {p \in outside : p[1] = s}
             Q  == {at[i] : i \in 1 .. l}
  <2>1. /\ superbuf_queue \in Seq(Node) /\ l \in Nat /\ DOMAIN superbuf_queue = 1 .. l
        /\ l <= WaterMark + 1
    BY Types, LenProperties DEF IInv, LengthInv
  <2>2. outside = BufsOfAll(superbuf_queue)
    <3>1. Waiting(<<>>) = {} /\ BufsOfAll(<<>>) = {}
      BY DEF Waiting, FramesOf, BufsOfAll
    <3> QED
      BY <3>1 DEF IInv, PlaceInv, OnTheWay
  <2>3. P \subseteq Q
    <3> SUFFICES ASSUME NEW p \in outside, p[1] = s PROVE p \in Q
      OBVIOUS
    <3>1. PICK i \in 1 .. l : p \in BufsOf(superbuf_queue[i])
      BY <2>1, <2>2, AllBufs
    <3>2. p = <<s, superbuf_queue[i].bufs[s]>>
      BY <3>1 DEF BufsOf
    <3> QED
      BY <3>1, <3>2
  <2>4. IsFiniteSet(1 .. l) /\ Cardinality(1 .. l) = l
    <3>1. /\ IsFiniteSet(1 .. l)
          /\ Cardinality(1 .. l) = IF 1 > l THEN 0 ELSE l - 1 + 1
      BY <2>1, FS_Interval
    <3>2. l \in Nat
      BY <2>1
    <3> HIDE DEF l
    <3> QED
      BY <3>1, <3>2
  <2>5. IsFiniteSet(Q) /\ Cardinality(Q) <= l
    <3>1. at \in [1 .. l -> Q]
      OBVIOUS
    <3>2. at \in Surjection(1 .. l, Q)
      BY <3>1 DEF Surjection
    <3> QED
      BY <2>4, <3>2, FS_Surjection
  <2>6. Cardinality(P) <= Cardinality(Q) /\ Cardinality(P) \in Nat /\ Cardinality(Q) \in Nat
    BY <2>3, <2>5, FS_Subset, FS_CardinalityType
  <2>7. Cardinality(P) < NumBufs /\ NumBufs \in Nat
    BY <2>1, <2>5, <2>6, SuperbufAssumption
  <2>8. InKernel(s) = NumBufs - Cardinality(P)
    BY DEF InKernel
  <2> HIDE DEF P
  <2> QED
    BY <2>6, <2>7, <2>8
<1> QED
  BY <1>1, Invariance, PTL
====
