------------------------ MODULE CameraInterface_proofs ------------------------
(***************************************************************************)
(* Why no call of the camera stack's interface works on a camera or a        *)
(* channel that is gone, takes the answer to another request or waits in a   *)
(* circle: for any number of cameras, any faults, and any number of opens,   *)
(* channels and events.                                                      *)
(*                                                                          *)
(* The invariant says, camera by camera, who holds which lock and what a     *)
(* thread may rely on between two points at which it waits.  A step changes  *)
(* one thread and one camera: the others keep their part of the invariant by *)
(* the lemma Elsewhere, and only the camera of the step has to be looked at. *)
(***************************************************************************)
EXTENDS CameraInterface, TLAPS

Owner(c)     == <<c, "owner">>
Other(c)     == <<c, "other">>
Callback(c)  == <<c, "callback">>
ThreadsOf(c) == {t \in Threads : CamOf(t) = c}

\* What a thread is doing agrees with the call it is in, and the call with the
\* thread: all but calls on the camera and returned buffers are the owner's.
CallOf(t) ==
    /\ In(t, "none") <=> At(t, "idle")
    /\ In(t, "open") => thr[t].pc \in {"intf", "sub"}
    /\ At(t, "sub") => In(t, "open")
    /\ At(t, "ch") => thr[t].op \in ChannelOps
    /\ At(t, "chan") => thr[t].op \in ChannelOps \cup {"unmap"}
    /\ At(t, "wipe") => In(t, "delete")
    /\ At(t, "use") => In(t, "qbuf")
    /\ At(t, "answer") => thr[t].op \in Requests
    /\ In(t, "unmap") => thr[t].pc \in {"chan", "answer"}
    /\ thr[t].pc \in {"join", "free"} => In(t, "close")
    /\ thr[t].op \notin {"none", "open"} => thr[t].obj # 0
    /\ t = Owner(CamOf(t)) => ~In(t, "qbuf")
    /\ t = Owner(CamOf(t)) /\ thr[t].op \notin {"none", "open"} => hal[CamOf(t)].table # 0
    /\ t # Owner(CamOf(t)) => thr[t].op \in {"none", "camera", "qbuf"}
    /\ t = Callback(CamOf(t)) => thr[t].op \in {"none", "qbuf"}

\* Each lock is held exactly between its two points of a call.
HoldsCamera(t)  == thr[t].pc \in {"in", "ch", "join", "free"} \/ (At(t, "answer") /\ In(t, "map"))
HoldsChannel(t) == At(t, "chan") \/ (At(t, "answer") /\ ~In(t, "map"))

Locks(c) ==
    /\ cam[c].cam_lock \in ThreadsOf(c) \cup {NoOne}
    /\ cam[c].ch_lock \in ThreadsOf(c) \cup {NoOne}
    /\ \A t \in ThreadsOf(c) :
         /\ g_intf_lock = t <=> thr[t].pc \in {"cam", "sub"}
         /\ cam[c].cam_lock = t <=> HoldsCamera(t)
         /\ cam[c].ch_lock = t <=> HoldsChannel(t)

\* An object is in the table until its owner has begun to close it, and has not
\* been freed as long as a thread has found it.
Closing(c) == In(Owner(c), "close") /\ thr[Owner(c)].pc \in {"cam", "in", "join", "free"}

Objects(c) ==
    /\ hal[c].table \in {0, cam[c].n}
    /\ hal[c].table # 0 => ~cam[c].freed
    /\ cam_obj[c] # 0 => cam_obj[c] = cam[c].n /\ ~cam[c].freed /\ cam[c].ref_count >= 1
    /\ cam_obj[c] = 0 /\ ~cam[c].freed => Closing(c)
    /\ Closing(c) => cam_obj[c] = 0
    /\ \A t \in ThreadsOf(c) :
         /\ thr[t].pc \in HasCamera => ~cam[c].freed /\ cam[c].n = thr[t].obj
         /\ At(t, "cam") /\ ~In(t, "close") => cam_obj[c] # 0
         /\ At(t, "sub") => cam_obj[c] # 0

\* A channel is there as long as a call on it goes on: it is stopped, and its
\* callback thread joined, before it is deleted, and deleted before the close.
\* A stream is on only in an active channel or on the way there and back.
Channels(c) ==
    /\ hal[c].chan = cam[c].ch_hdl
    /\ cam[c].ch_hdl # 0 => cam_obj[c] # 0 /\ hal[c].table # 0
    /\ cam[c].ch_hdl = 0 <=> cam[c].ch_state = "NOTUSED" /\ ~At(Owner(c), "wipe")
    /\ At(Owner(c), "wipe") => cam[c].ch_state = "NOTUSED"
    /\ In(Owner(c), "delete") /\ ~At(Owner(c), "wipe") => cam[c].ch_state = "STOPPED"
    /\ thr[Owner(c)].op \in {"add_channel", "close"} => cam[c].ch_hdl = 0
    /\ cam[c].streams => \/ cam[c].ch_state = "ACTIVE"
                         \/ /\ thr[Owner(c)].pc \in {"chan", "answer"}
                            /\ thr[Owner(c)].op \in {"start", "stop"}
    /\ In(Owner(c), "unmap") => ~cam[c].streams
    /\ \A t \in ThreadsOf(c) :
         /\ thr[t].op \in ChannelOps \cup {"unmap", "qbuf"} =>
              cam[c].ch_hdl # 0 /\ cam[c].ch_hdl = thr[t].ch
         /\ t = Callback(c) /\ ~At(t, "idle") => cam[c].streams
         /\ t = Other(c) /\ In(t, "qbuf") => thr[Owner(c)].op \notin {"delete", "close"}

\* The threads of a camera end before it is freed, the poll thread if it has
\* taken a subscription: it polls then, and is joined.
Joined(c) ==
    /\ cam[c].sub => cam[c].evt_poll \in {"polls", "gone"}
    /\ cam[c].sub /\ (cam[c].freed \/ thr[Owner(c)].pc \in {"join", "free"}) =>
         cam[c].evt_poll = "gone"
    /\ cam[c].freed \/ At(Owner(c), "free") => cam[c].evt_thread = "gone"

\* There is a request or an answer, not both, while its owner waits and only
\* then.
Answers(c) ==
    /\ server[c] # "none" => At(Owner(c), "answer") /\ thr[Owner(c)].op = server[c]
    /\ cam[c].evt_rcvd # "none" => At(Owner(c), "answer") /\ thr[Owner(c)].op = cam[c].evt_rcvd
    /\ server[c] = "none" \/ cam[c].evt_rcvd = "none"
    /\ At(Owner(c), "answer") => server[c] # "none" \/ cam[c].evt_rcvd # "none"

CameraInv(c) ==
    /\ \A t \in ThreadsOf(c) : CallOf(t)
    /\ Locks(c)
    /\ Objects(c)
    /\ Channels(c)
    /\ Joined(c)
    /\ Answers(c)

IInv == TypeOK /\ \A c \in Cameras : CameraInv(c)

-----------------------------------------------------------------------------
(* Threads and cameras                                                       *)

\* A thread is the owner, the other or the callback thread of its camera, and
\* never nobody.
LEMMA ThreadFacts ==
  /\ NoOne \notin Threads
  /\ \A t \in Threads : /\ CamOf(t) \in Cameras
                        /\ t \in {Owner(CamOf(t)), Other(CamOf(t)), Callback(CamOf(t))}
                        /\ t[2] \in {"owner", "other", "callback"}
                        /\ t[2] = "owner" <=> t = Owner(CamOf(t))
                        /\ t[2] = "other" <=> t = Other(CamOf(t))
                        /\ t[2] = "callback" <=> t = Callback(CamOf(t))
  /\ \A c \in Cameras : /\ Owner(c) \in Threads
                        /\ CamOf(Owner(c)) = c
                        /\ CamOf(Callback(c)) = c
                        /\ Owner(c) # Other(c) /\ Owner(c) # Callback(c)
                        /\ Other(c) # Callback(c)
  /\ \A c \in Busy : Callback(c) \in Threads /\ Other(c) \in Threads
BY CameraInterfaceAssumption DEF Threads, NoOne, Owner, Other, Callback, CamOf

\* An object with another value in one of its fields is one still.
LEMMA ObjectFields ==
  ASSUME NEW o \in CameraObject
  PROVE  /\ \A b \in BOOLEAN : /\ [o EXCEPT !.streams = b] \in CameraObject
                               /\ [o EXCEPT !.sub = b] \in CameraObject
                               /\ [o EXCEPT !.freed = b] \in CameraObject
         /\ \A u \in Threads \cup {NoOne} : [o EXCEPT !.cam_lock = u] \in CameraObject
         /\ \A u \in Threads \cup {NoOne} : [o EXCEPT !.ch_lock = u] \in CameraObject
         /\ [o EXCEPT !.evt_rcvd = "none"] \in CameraObject
         /\ [o EXCEPT !.evt_poll = "polls"] \in CameraObject
<1>1. ASSUME NEW b \in BOOLEAN PROVE [o EXCEPT !.streams = b] \in CameraObject
  BY SMTT(30) DEF CameraObject
<1>2. ASSUME NEW b \in BOOLEAN PROVE [o EXCEPT !.sub = b] \in CameraObject
  BY SMTT(30) DEF CameraObject
<1>3. ASSUME NEW b \in BOOLEAN PROVE [o EXCEPT !.freed = b] \in CameraObject
  BY SMTT(30) DEF CameraObject
<1>4. ASSUME NEW u \in Threads \cup {NoOne} PROVE [o EXCEPT !.cam_lock = u] \in CameraObject
  BY SMTT(30) DEF CameraObject
<1>5. ASSUME NEW u \in Threads \cup {NoOne} PROVE [o EXCEPT !.ch_lock = u] \in CameraObject
  BY SMTT(30) DEF CameraObject
<1>6. [o EXCEPT !.evt_rcvd = "none"] \in CameraObject
  BY SMTT(30) DEF CameraObject
<1>7. [o EXCEPT !.evt_poll = "polls"] \in CameraObject
  BY SMTT(30) DEF CameraObject
<1> QED
  BY <1>1, <1>2, <1>3, <1>4, <1>5, <1>6, <1>7

\* A new object is one.
LEMMA NewObjectType ==
  ASSUME NEW c \in Cameras, cam[c].n + 1 \in Nat
  PROVE  NewObject(c) \in CameraObject
<1>1. ASSUME NEW o \in CameraObject, NEW k \in Nat PROVE [o EXCEPT !.n = k] \in CameraObject
  BY DEF CameraObject
<1>2. ASSUME NEW o \in CameraObject
      PROVE  [o EXCEPT !.ref_count = 1, !.evt_thread = "idle", !.evt_poll = "starting"]
               \in CameraObject
  BY DEF CameraObject
<1>3. NoObject \in CameraObject
  BY DEF NoObject, CameraObject
<1> DEFINE numbered == [NoObject EXCEPT !.n = cam[c].n + 1]
           live     == [numbered EXCEPT !.freed = FALSE]
<1>4. live \in CameraObject
  BY <1>1, <1>3, ObjectFields
<1>5. NewObject(c) = [live EXCEPT !.ref_count = 1, !.evt_thread = "idle", !.evt_poll = "starting"]
  BY DEF NewObject
<1> QED
  BY <1>2, <1>4, <1>5

\* What is not touched of a camera keeps its part of the invariant.
LEMMA Elsewhere ==
  ASSUME TypeOK, NEW d \in Cameras, CameraInv(d),
         cam'[d] = cam[d], cam_obj'[d] = cam_obj[d], hal'[d] = hal[d], server'[d] = server[d],
         \A u \in ThreadsOf(d) : thr'[u] = thr[u],
         g_intf_lock' = g_intf_lock \/ {g_intf_lock, g_intf_lock'} \cap ThreadsOf(d) = {}
  PROVE  CameraInv(d)'
<1>1. Owner(d) \in ThreadsOf(d)
  BY ThreadFacts DEF ThreadsOf
<1>2. \A u \in ThreadsOf(d) : CallOf(u)'
  BY DEF CameraInv, CallOf, ThreadsOf, At, In
<1>3. Locks(d)'
  BY DEF CameraInv, Locks, HoldsCamera, HoldsChannel, At, In
<1>4. Objects(d)'
  BY <1>1 DEF CameraInv, Objects, Closing, At, In
<1>5. Channels(d)'
  BY <1>1 DEF CameraInv, Channels, At, In
<1>6. Joined(d)'
  BY <1>1 DEF CameraInv, Joined, At, In
<1>7. Answers(d)'
  BY <1>1 DEF CameraInv, Answers, At, In
<1> QED
  BY <1>2, <1>3, <1>4, <1>5, <1>6, <1>7 DEF CameraInv

\* A step touches no more than one camera and its threads.
OnlyIn(c) ==
    /\ \A d \in Cameras \ {c} : /\ cam'[d] = cam[d] /\ cam_obj'[d] = cam_obj[d]
                                /\ hal'[d] = hal[d] /\ server'[d] = server[d]
    /\ \A u \in Threads \ ThreadsOf(c) : thr'[u] = thr[u]
    /\ g_intf_lock' = g_intf_lock \/ {g_intf_lock, g_intf_lock'} \subseteq ThreadsOf(c) \cup {NoOne}

\* It keeps the invariant if it keeps the part of that camera.
LEMMA OneCamera ==
  ASSUME IInv, NEW c \in Cameras, OnlyIn(c), TypeOK', CameraInv(c)'
  PROVE  IInv'
<1>1. ASSUME NEW d \in Cameras \ {c} PROVE CameraInv(d)'
  <2>1. ThreadsOf(d) \subseteq Threads \ ThreadsOf(c)
    BY DEF ThreadsOf
  <2>2. NoOne \notin ThreadsOf(d) /\ ThreadsOf(c) \cap ThreadsOf(d) = {}
    BY ThreadFacts DEF ThreadsOf
  <2> QED
    BY <2>1, <2>2, Elsewhere DEF IInv, OnlyIn
<1> QED
  BY <1>1 DEF IInv

-----------------------------------------------------------------------------
(* Steps of the poll thread and of the event thread                          *)

\* The poll thread and the event thread take no lock of a call and move no
\* thread of a client.
LEMMA EventStep ==
  ASSUME IInv, NEW c \in Cameras,
         cam' \in [Cameras -> CameraObject], server' \in [Cameras -> Requests \cup {"none"}],
         events' \in [Cameras -> 0 .. MaxEvents],
         \A d \in Cameras \ {c} : cam'[d] = cam[d] /\ server'[d] = server[d],
         UNCHANGED <<g_intf_lock, cam_obj, hal, thr>>,
         cam'[c].n = cam[c].n, cam'[c].freed = cam[c].freed, cam'[c].ref_count = cam[c].ref_count,
         cam'[c].cam_lock = cam[c].cam_lock, cam'[c].ch_lock = cam[c].ch_lock,
         cam'[c].ch_state = cam[c].ch_state, cam'[c].ch_hdl = cam[c].ch_hdl,
         cam'[c].sub = cam[c].sub, cam'[c].streams = cam[c].streams,
         cam'[c].evt_poll = cam[c].evt_poll \/ ~cam[c].sub,
         cam'[c].evt_thread = cam[c].evt_thread \/ cam[c].evt_thread # "gone",
         Answers(c)'
  PROVE  IInv'
<1>1. TypeOK'
  BY DEF IInv, TypeOK
<1>2. OnlyIn(c)
  BY DEF OnlyIn
<1>3. CameraInv(c)
  BY DEF IInv
<1>4. \A u \in ThreadsOf(c) : CallOf(u)'
  BY <1>3 DEF CameraInv, CallOf, At, In
<1>5. Locks(c)'
  BY <1>3 DEF CameraInv, Locks, HoldsCamera, HoldsChannel, At, In
<1>6. Objects(c)'
  BY <1>3 DEF CameraInv, Objects, Closing, At, In
<1>7. Channels(c)'
  BY <1>3 DEF CameraInv, Channels, At, In
<1>8. Joined(c)'
  BY <1>3 DEF CameraInv, Joined, At, In
<1> QED
  BY <1>1, <1>2, <1>4, <1>5, <1>6, <1>7, <1>8, OneCamera DEF CameraInv

\* The poll thread that is up has no subscription yet.
LEMMA PollEntersStep ==
  ASSUME IInv, NEW c \in Cameras, PollEnters(c)
  PROVE  IInv'
<1>1. /\ cam \in [Cameras -> CameraObject]
      /\ server \in [Cameras -> Requests \cup {"none"}]
      /\ events \in [Cameras -> 0 .. MaxEvents]
      /\ Answers(c) /\ Joined(c)
  BY DEF IInv, TypeOK, CameraInv
<1>2. cam' \in [Cameras -> CameraObject]
  BY <1>1 DEF PollEnters, CameraObject
<1>3. Answers(c)'
  BY <1>1 DEF PollEnters, Answers, CameraObject, At, In
<1>4. ~cam[c].sub
  BY <1>1 DEF PollEnters, Joined
<1> QED
  BY <1>1, <1>2, <1>3, <1>4, EventStep DEF PollEnters, CameraObject

\* The answer is to the request that was sent.
LEMMA MapDoneStep ==
  ASSUME IInv, NEW c \in Cameras, MapDone(c)
  PROVE  IInv'
<1>1. /\ cam \in [Cameras -> CameraObject]
      /\ server \in [Cameras -> Requests \cup {"none"}]
      /\ events \in [Cameras -> 0 .. MaxEvents]
      /\ Answers(c)
  BY DEF IInv, TypeOK, CameraInv
<1>2. server[c] \in Requests \cup {"none"}
  BY <1>1
<1>3. cam' \in [Cameras -> CameraObject] /\ server' \in [Cameras -> Requests \cup {"none"}]
  BY <1>1, <1>2 DEF MapDone, CameraObject
<1>4. Answers(c)'
  BY <1>1 DEF MapDone, Answers, CameraObject, At, In
<1> QED
  BY <1>1, <1>3, <1>4, EventStep DEF MapDone, CameraObject

\* Events for the application are no answers.
LEMMA QueueEventStep ==
  ASSUME IInv, NEW c \in Cameras, QueueEvent(c)
  PROVE  IInv'
<1>1. /\ cam \in [Cameras -> CameraObject]
      /\ server \in [Cameras -> Requests \cup {"none"}]
      /\ events \in [Cameras -> 0 .. MaxEvents]
      /\ Answers(c)
  BY DEF IInv, TypeOK, CameraInv
<1>2. cam' \in [Cameras -> CameraObject]
  BY <1>1 DEF QueueEvent, CameraObject
<1>3. events' \in [Cameras -> 0 .. MaxEvents]
  BY <1>1, CameraInterfaceAssumption DEF QueueEvent
<1>4. Answers(c)'
  BY <1>1 DEF QueueEvent, Answers, CameraObject, At, In
<1> QED
  BY <1>1, <1>2, <1>3, <1>4, EventStep DEF QueueEvent, CameraObject

\* The event thread takes cb_lock, which no call holds while it waits,
LEMMA DispatchStep ==
  ASSUME IInv, NEW c \in Cameras, Dispatch(c)
  PROVE  IInv'
<1>1. /\ cam \in [Cameras -> CameraObject]
      /\ server \in [Cameras -> Requests \cup {"none"}]
      /\ events \in [Cameras -> 0 .. MaxEvents]
      /\ Answers(c)
  BY DEF IInv, TypeOK, CameraInv
<1>2. cam' \in [Cameras -> CameraObject]
  <2> DEFINE first  == [cam EXCEPT ![c].evt_queue = @ - 1]
             second == [first EXCEPT ![c].evt_thread = IF cam[c].evt THEN "callback" ELSE "idle"]
  <2>1. first \in [Cameras -> CameraObject]
    BY <1>1 DEF Dispatch, CameraObject
  <2> HIDE DEF first
  <2>2. second \in [Cameras -> CameraObject]
    BY <2>1 DEF CameraObject
  <2> HIDE DEF second
  <2>3. (IF cam[c].evt THEN <<c, "evt">> ELSE NoOne) \in (Cameras \X {"evt"}) \cup {NoOne}
    OBVIOUS
  <2>4. cam' = [second EXCEPT ![c].cb_lock = IF cam[c].evt THEN <<c, "evt">> ELSE NoOne]
    BY DEF Dispatch, first, second
  <2> QED
    BY <2>2, <2>3, <2>4 DEF CameraObject
<1>3. /\ cam'[c].n = cam[c].n /\ cam'[c].freed = cam[c].freed
      /\ cam'[c].ref_count = cam[c].ref_count
      /\ cam'[c].cam_lock = cam[c].cam_lock /\ cam'[c].ch_lock = cam[c].ch_lock
      /\ cam'[c].ch_state = cam[c].ch_state /\ cam'[c].ch_hdl = cam[c].ch_hdl
      /\ cam'[c].evt_poll = cam[c].evt_poll /\ cam'[c].evt_rcvd = cam[c].evt_rcvd
      /\ cam'[c].sub = cam[c].sub /\ cam'[c].streams = cam[c].streams
  BY <1>1 DEF Dispatch, CameraObject
<1>4. Answers(c)'
  BY <1>1, <1>3 DEF Dispatch, Answers, At, In
<1> QED
  BY <1>1, <1>2, <1>3, <1>4, EventStep DEF Dispatch

\* and gives it back.
LEMMA CallbackEndsStep ==
  ASSUME IInv, NEW c \in Cameras, CallbackEnds(c)
  PROVE  IInv'
<1>1. /\ cam \in [Cameras -> CameraObject]
      /\ server \in [Cameras -> Requests \cup {"none"}]
      /\ events \in [Cameras -> 0 .. MaxEvents]
      /\ Answers(c)
  BY DEF IInv, TypeOK, CameraInv
<1>2. cam' \in [Cameras -> CameraObject]
  BY <1>1 DEF CallbackEnds, CameraObject
<1>4. Answers(c)'
  BY <1>1 DEF CallbackEnds, Answers, CameraObject, At, In
<1> QED
  BY <1>1, <1>2, <1>4, EventStep DEF CallbackEnds, CameraObject

-----------------------------------------------------------------------------
(* Steps of a client's thread                                                *)

\* Whoever has found an object keeps it through the parts of a call that are
\* neither its beginning nor a close.
LEMMA ObjectsKept ==
  ASSUME NEW c \in Cameras, NEW t \in ThreadsOf(c), Owner(c) \in ThreadsOf(c), Objects(c),
         cam'[c].n = cam[c].n, cam'[c].freed = cam[c].freed,
         cam'[c].ref_count = cam[c].ref_count, UNCHANGED <<cam_obj, hal>>,
         \A u \in Threads \ {t} : thr'[u] = thr[u],
         thr[t].pc \in HasCamera, thr'[t].pc \in HasCamera \cup {"idle"},
         thr'[t].pc # "cam", thr'[t].pc # "idle" => thr'[t].obj = thr[t].obj,
         thr[t].op # "close", thr'[t].op # "close"
  PROVE  Objects(c)'
<1>1. \A u \in ThreadsOf(c) : u = t \/ thr'[u] = thr[u]
  BY DEF ThreadsOf
<1>2. Closing(c)' <=> Closing(c)
  BY <1>1 DEF Closing, In
<1> QED
  BY <1>1, <1>2 DEF Objects, HasCamera, At, In

\* A new object belongs to nobody yet, and nobody is left on the old one.
LEMMA OpenStep ==
  ASSUME IInv, NEW t \in Threads, NEW c \in Cameras, c = CamOf(t), Open(t)
  PROVE  IInv'
<1>0. /\ TypeOK /\ CameraInv(c)
      /\ t \in ThreadsOf(c) /\ Owner(c) \in ThreadsOf(c) /\ NoOne \notin Threads
  BY ThreadFacts DEF ThreadsOf, IInv
<1> USE DEF At, In, Goes, Returns, Idle
<1>1. /\ cam \in [Cameras -> CameraObject] /\ thr \in [Threads -> ThreadState]
      /\ hal \in [Cameras -> [table : Nat, chan : Nat]] /\ cam_obj \in [Cameras -> Nat]
  BY <1>0 DEF TypeOK
<1>2. /\ thr[t].pc = "intf" /\ thr[t].op = "open" /\ t = Owner(c)
      /\ g_intf_lock = NoOne
      /\ UNCHANGED <<server, events, hal>>
  BY <1>0 DEF Open, CameraInv, CallOf
<1> DEFINE Ends == /\ thr' = [thr EXCEPT ![t] = [pc |-> "idle", op |-> "none", obj |-> 0, ch |-> 0]]
                   /\ UNCHANGED <<g_intf_lock, cam_obj>>
<1>3. Ends => thr' \in [Threads -> ThreadState]
  BY <1>1, <1>2 DEF ThreadState
<1>4. Ends => \A u \in ThreadsOf(c) : CallOf(u)'
  BY <1>0, <1>1, <1>2 DEF CameraInv, CallOf, ThreadsOf, ThreadState
<1>5. CASE Ends /\ cam' = cam
  <2>1. TypeOK'
    BY <1>0, <1>2, <1>3, <1>5 DEF TypeOK
  <2>2. OnlyIn(c)
    BY <1>0, <1>2, <1>5 DEF OnlyIn
  <2>3. Locks(c)'
    BY <1>0, <1>1, <1>2, <1>5
       DEF CameraInv, Locks, HoldsCamera, HoldsChannel, ThreadsOf, ThreadState
  <2>4. Objects(c)'
    BY <1>0, <1>1, <1>2, <1>5
       DEF CameraInv, Objects, Closing, HasCamera, ThreadsOf, ThreadState
  <2>5. Channels(c)'
    BY <1>0, <1>1, <1>2, <1>5, ThreadFacts
       DEF CameraInv, Channels, ThreadsOf, ThreadState, ChannelOps
  <2>6. Joined(c)' /\ Answers(c)'
    BY <1>0, <1>1, <1>2, <1>5 DEF CameraInv, Joined, Answers, ThreadsOf, ThreadState
  <2> QED
    BY <1>4, <1>5, <2>1, <2>2, <2>3, <2>4, <2>5, <2>6, OneCamera DEF CameraInv
<1>6. CASE cam_obj[c] # 0 /\ Ends /\ cam' = [cam EXCEPT ![c].ref_count = @ + 1]
  <2>1. cam' = [cam EXCEPT ![c].ref_count = @ + 1] /\ Ends
    BY <1>6
  <2>2. cam' \in [Cameras -> CameraObject]
    <3> DEFINE r == cam[c].ref_count + 1
    <3>1. r \in Nat
      BY <1>1 DEF CameraObject
    <3>2. cam' = [cam EXCEPT ![c] = [cam[c] EXCEPT !.ref_count = r]]
      BY <2>1
    <3> HIDE DEF r
    <3>3. [cam[c] EXCEPT !.ref_count = r] \in CameraObject
      BY <1>1, <3>1, SMTT(30) DEF CameraObject
    <3> QED
      BY <1>1, <3>2, <3>3
  <2>3. /\ cam'[c].n = cam[c].n /\ cam'[c].freed = cam[c].freed
        /\ cam'[c].ref_count >= cam[c].ref_count
        /\ cam'[c].cam_lock = cam[c].cam_lock /\ cam'[c].ch_lock = cam[c].ch_lock
        /\ cam'[c].ch_state = cam[c].ch_state /\ cam'[c].ch_hdl = cam[c].ch_hdl
        /\ cam'[c].evt_poll = cam[c].evt_poll /\ cam'[c].evt_rcvd = cam[c].evt_rcvd
        /\ cam'[c].evt_thread = cam[c].evt_thread
        /\ cam'[c].sub = cam[c].sub /\ cam'[c].streams = cam[c].streams
    BY <1>1, <2>1 DEF CameraObject
  <2>4. TypeOK'
    BY <1>0, <1>2, <1>3, <2>1, <2>2 DEF TypeOK
  <2>5. OnlyIn(c)
    BY <1>0, <1>1, <1>2, <2>1 DEF OnlyIn
  <2>6. Locks(c)'
    BY <1>0, <1>1, <1>2, <2>1, <2>3
       DEF CameraInv, Locks, HoldsCamera, HoldsChannel, ThreadsOf, ThreadState
  <2>7. Objects(c)'
    <3>1. cam[c].ref_count \in Nat /\ cam'[c].ref_count \in Nat
      BY <1>1, <2>2 DEF CameraObject
    <3> QED
      BY <1>0, <1>1, <1>2, <2>1, <2>3, <3>1
         DEF CameraInv, Objects, Closing, HasCamera, ThreadsOf, ThreadState
  <2>8. Channels(c)'
    BY <1>0, <1>1, <1>2, <2>1, <2>3, ThreadFacts
       DEF CameraInv, Channels, ThreadsOf, ThreadState, ChannelOps
  <2>9. Joined(c)' /\ Answers(c)'
    BY <1>0, <1>1, <1>2, <2>1, <2>3 DEF CameraInv, Joined, Answers, ThreadsOf, ThreadState
  <2> QED
    BY <1>4, <2>1, <2>4, <2>5, <2>6, <2>7, <2>8, <2>9, OneCamera DEF CameraInv
<1>7. CASE /\ cam_obj[c] = 0
           /\ cam' = [cam EXCEPT ![c] = NewObject(c)]
           /\ cam_obj' = [cam_obj EXCEPT ![c] = cam[c].n + 1]
           /\ g_intf_lock' = t
           /\ thr' = [thr EXCEPT ![t].pc = "sub"]
  <2>1. cam[c].n \in Nat /\ cam[c].n + 1 \in Nat \ {0}
    BY <1>1 DEF CameraObject
  <2>o. NewObject(c) \in CameraObject
    BY <2>1, NewObjectType
  <2>2. /\ NewObject(c).n = cam[c].n + 1 /\ NewObject(c).freed = FALSE
        /\ NewObject(c).ref_count = 1 /\ NewObject(c).cam_lock = NoOne
        /\ NewObject(c).ch_lock = NoOne /\ NewObject(c).evt_rcvd = "none"
        /\ NewObject(c).ch_state = "NOTUSED" /\ NewObject(c).ch_hdl = 0
        /\ NewObject(c).sub = FALSE /\ NewObject(c).streams = FALSE
    BY <2>1 DEF NewObject, NoObject
  <2> DEFINE o == NewObject(c)
  <2> HIDE DEF o
  <2>3. /\ cam' \in [Cameras -> CameraObject] /\ cam'[c] = o
        /\ cam_obj' \in [Cameras -> Nat] /\ cam_obj'[c] = cam[c].n + 1
    BY <1>1, <1>7, <2>1, <2>o DEF o
  <2>4. /\ cam[c].freed /\ cam[c].ch_hdl = 0 /\ hal[c].chan = 0 /\ server[c] = "none"
        /\ hal[c].table = 0
    BY <1>0, <1>2, <1>7 DEF CameraInv, Objects, Closing, Channels, Answers
  <2>5. \A u \in ThreadsOf(c) : /\ thr[u].pc \notin HasCamera /\ thr[u].pc # "sub"
                                /\ thr[u].op \notin ChannelOps \cup {"unmap", "qbuf"}
    BY <1>0, <1>7, <2>4 DEF CameraInv, Objects, Channels
  <2>6. /\ thr'[t].pc = "sub" /\ thr'[t].op = "open"
        /\ \A u \in ThreadsOf(c) \ {t} : thr'[u] = thr[u] /\ thr'[u].pc \in {"idle", "intf"}
    BY <1>0, <1>1, <1>2, <1>7, <2>5 DEF ThreadsOf, HasCamera, ThreadState
  <2>7. TypeOK'
    <3>1. thr' \in [Threads -> ThreadState]
      BY <1>1, <1>7 DEF ThreadState
    <3> QED
      BY <1>0, <1>2, <1>7, <2>3, <3>1 DEF TypeOK
  <2>8. OnlyIn(c)
    BY <1>0, <1>1, <1>2, <1>7 DEF OnlyIn, ThreadsOf
  <2>9. \A u \in ThreadsOf(c) : CallOf(u)'
    BY <1>0, <1>2, <2>6 DEF CameraInv, CallOf, ThreadsOf
  <2>10. Locks(c)'
    BY <1>0, <1>2, <1>7, <2>2, <2>3, <2>6
       DEF Locks, HoldsCamera, HoldsChannel, ThreadsOf, o
  <2>11. Objects(c)'
    BY <1>0, <1>2, <2>1, <2>2, <2>3, <2>4, <2>6 DEF Objects, Closing, HasCamera, o
  <2>12. Channels(c)'
    <3>1. \A u \in ThreadsOf(c) : u = Callback(c) => thr[u].pc = "idle"
      BY <1>0, <2>4, <2>5 DEF CameraInv, Channels, HasCamera, CallOf, ThreadsOf
    <3> QED
      BY <1>0, <1>2, <2>2, <2>3, <2>4, <2>5, <2>6, <3>1, ThreadFacts
         DEF Channels, ThreadsOf, ChannelOps, o
  <2>13. Joined(c)' /\ Answers(c)'
    BY <1>0, <1>2, <2>2, <2>3, <2>4, <2>6 DEF Joined, Answers, o
  <2> QED
    BY <2>7, <2>8, <2>9, <2>10, <2>11, <2>12, <2>13, OneCamera DEF CameraInv
<1>8. \/ Ends /\ cam' = cam
      \/ cam_obj[c] # 0 /\ Ends /\ cam' = [cam EXCEPT ![c].ref_count = @ + 1]
      \/ /\ cam_obj[c] = 0
         /\ cam' = [cam EXCEPT ![c] = NewObject(c)]
         /\ cam_obj' = [cam_obj EXCEPT ![c] = cam[c].n + 1]
         /\ g_intf_lock' = t
         /\ thr' = [thr EXCEPT ![t].pc = "sub"]
  BY DEF Open
<1> QED
  BY <1>5, <1>6, <1>7, <1>8

\* The table is given to the client with the object in it.
LEMMA SubscribeStep ==
  ASSUME IInv, NEW t \in Threads, NEW c \in Cameras, c = CamOf(t), Subscribe(t)
  PROVE  IInv'
<1>0. /\ TypeOK /\ CameraInv(c)
      /\ t \in ThreadsOf(c) /\ Owner(c) \in ThreadsOf(c) /\ NoOne \notin Threads
  BY ThreadFacts DEF ThreadsOf, IInv
<1> USE DEF At, In, Goes, Returns, Idle
<1>1. /\ cam \in [Cameras -> CameraObject] /\ thr \in [Threads -> ThreadState]
      /\ hal \in [Cameras -> [table : Nat, chan : Nat]] /\ cam_obj \in [Cameras -> Nat]
      /\ server \in [Cameras -> Requests \cup {"none"}]
  BY <1>0 DEF TypeOK
<1>a. /\ cam'[c].n = cam[c].n /\ cam'[c].freed = cam[c].freed
      /\ cam'[c].ref_count = cam[c].ref_count /\ cam'[c].cam_lock = cam[c].cam_lock
      /\ cam'[c].evt_rcvd = cam[c].evt_rcvd /\ cam'[c].evt_thread = cam[c].evt_thread
      /\ cam'[c].streams = cam[c].streams /\ cam'[c].ch_state = cam[c].ch_state
      /\ cam'[c].ch_hdl = cam[c].ch_hdl /\ cam'[c].ch_lock = cam[c].ch_lock
      /\ \/ cam'[c].evt_poll = "polls" /\ cam'[c].sub
         \/ cam'[c].evt_poll = cam[c].evt_poll /\ cam'[c].sub = cam[c].sub
      /\ thr'[t].pc = "idle" /\ thr'[t].op = "none"
      /\ \A u \in Threads \ {t} : thr'[u] = thr[u]
      /\ thr[t].pc = "sub" /\ thr[t].op = "open" /\ t = Owner(c)
      /\ hal'[c].table = cam[c].n /\ hal'[c].chan = hal[c].chan
      /\ cam_obj[c] # 0 /\ ~cam[c].freed /\ g_intf_lock = t /\ g_intf_lock' = NoOne
      /\ UNCHANGED <<cam_obj, server, events>>
  BY <1>0, <1>1 DEF Subscribe, CameraObject, CameraInv, CallOf, Objects, Locks
<1>2. TypeOK'
  <2>1. cam' \in [Cameras -> CameraObject]
    <3> DEFINE first == [cam EXCEPT ![c].evt_poll = "polls"]
    <3>1. first \in [Cameras -> CameraObject]
      BY <1>1, ObjectFields
    <3> HIDE DEF first
    <3>2. [first EXCEPT ![c].sub = TRUE] \in [Cameras -> CameraObject]
      BY <3>1, ObjectFields
    <3>3. cam' = cam \/ cam' = [first EXCEPT ![c].sub = TRUE]
      BY DEF Subscribe, first
    <3> QED
      BY <1>1, <3>2, <3>3
  <2>2. thr' \in [Threads -> ThreadState]
    BY <1>1 DEF Subscribe, ThreadState
  <2>3. hal' \in [Cameras -> [table : Nat, chan : Nat]]
    BY <1>1 DEF Subscribe, CameraObject
  <2> QED
    BY <1>0, <1>a, <2>1, <2>2, <2>3 DEF TypeOK
<1>3. OnlyIn(c)
  BY <1>0, <1>1, <1>a DEF Subscribe, OnlyIn, ThreadsOf
<1>4. \A u \in ThreadsOf(c) : CallOf(u)'
  BY <1>0, <1>a DEF CameraInv, CallOf, ThreadsOf, ChannelOps, Requests
<1>5. Locks(c)'
  BY <1>0, <1>a, ThreadFacts
     DEF CameraInv, CallOf, ThreadsOf, ChannelOps, Requests, Locks, HoldsCamera, HoldsChannel
<1>6. Objects(c)'
  BY <1>0, <1>1, <1>a, ThreadFacts
     DEF CameraInv, CallOf, ThreadsOf, Objects, Closing, HasCamera, CameraObject
<1>7. Channels(c)'
  BY <1>0, <1>a, ThreadFacts
     DEF CameraInv, CallOf, ThreadsOf, ChannelOps, Requests, Channels, Objects, Closing
<1>8. Joined(c)'
  BY <1>0, <1>a DEF CameraInv, Joined, Objects, Closing, ThreadsOf
<1>9. Answers(c)'
  BY <1>0, <1>1, <1>a DEF CameraInv, CallOf, Answers, ThreadsOf, CameraObject, Requests
<1> QED
  BY <1>2, <1>3, <1>4, <1>5, <1>6, <1>7, <1>8, <1>9, OneCamera DEF CameraInv

\* The camera is found under g_intf_lock, which is kept.
LEMMA LookupStep ==
  ASSUME IInv, NEW t \in Threads, NEW c \in Cameras, c = CamOf(t), Lookup(t)
  PROVE  IInv'
<1>0. /\ TypeOK /\ CameraInv(c)
      /\ t \in ThreadsOf(c) /\ Owner(c) \in ThreadsOf(c) /\ NoOne \notin Threads
  BY ThreadFacts DEF ThreadsOf, IInv
<1> USE DEF At, In, Goes, Returns, Idle
<1>1. cam \in [Cameras -> CameraObject] /\ thr \in [Threads -> ThreadState]
  BY <1>0 DEF TypeOK
<1>a. /\ thr[t].pc = "intf" /\ thr[t].op # "open" /\ thr[t].op # "none"
      /\ UNCHANGED <<cam_obj, cam, server, hal>>
      /\ \/ thr'[t].pc = "idle" /\ thr'[t].op = "none"
         \/ /\ thr'[t].pc = "cam" /\ thr'[t].op = thr[t].op
            /\ thr'[t].obj = thr[t].obj /\ thr'[t].ch = thr[t].ch
            /\ cam_obj[c] = thr[t].obj /\ cam_obj[c] # 0 /\ thr[t].op # "close"
      /\ \A u \in Threads \ {t} : thr'[u] = thr[u]
  BY <1>0, <1>1 DEF Lookup, Found, ThreadState, CameraInv, CallOf
<1>2. TypeOK'
  <2>1. cam' \in [Cameras -> CameraObject]
    BY <1>1 DEF Lookup, Found, CameraObject
  <2>2. thr' \in [Threads -> ThreadState]
    BY <1>1 DEF Lookup, Found, ThreadState
  <2> QED
    BY <1>0, <2>1, <2>2 DEF Lookup, Found, TypeOK
<1>3. OnlyIn(c)
  BY <1>0 DEF Lookup, Found, TypeOK, OnlyIn, ThreadsOf
<1>4. \A u \in ThreadsOf(c) : CallOf(u)'
  <2>1. /\ thr[t].pc = "intf" /\ thr[t].op # "open"
        /\ \/ thr'[t].pc = "idle" /\ thr'[t].op = "none"
           \/ thr'[t].pc = "cam" /\ thr'[t].op = thr[t].op /\ thr'[t].obj = thr[t].obj
        /\ \A u \in Threads \ {t} : thr'[u] = thr[u]
        /\ hal' = hal
    BY <1>0, <1>1 DEF Lookup, Found, ThreadState
  <2> QED
    BY <1>0, <2>1 DEF CameraInv, CallOf, ThreadsOf
<1>5. Locks(c)'
  BY <1>0, ThreadFacts
     DEF Lookup, Found, TypeOK, CameraObject, ThreadState, CameraInv, CallOf, ThreadsOf,
         ChannelOps, Locks, HoldsCamera, HoldsChannel
<1>6. Objects(c)'
  BY <1>0, <1>a DEF CameraInv, Objects, Closing, HasCamera, ThreadsOf
<1>7. Channels(c)'
  BY <1>0, <1>a, ThreadFacts DEF CameraInv, CallOf, Channels, ThreadsOf, ChannelOps
<1>8. Joined(c)'
  BY <1>0, <1>a DEF CameraInv, Joined, ThreadsOf
<1>9. Answers(c)'
  BY <1>0, <1>a DEF CameraInv, Answers, ThreadsOf
<1> QED
  BY <1>2, <1>3, <1>4, <1>5, <1>6, <1>7, <1>8, <1>9, OneCamera DEF CameraInv

\* A reference less: there is another one.
LEMMA CloseReferenceStep ==
  ASSUME IInv, NEW t \in Threads, NEW c \in Cameras, c = CamOf(t), CloseReference(t)
  PROVE  IInv'
<1>0. /\ TypeOK /\ CameraInv(c)
      /\ t \in ThreadsOf(c) /\ Owner(c) \in ThreadsOf(c) /\ NoOne \notin Threads
  BY ThreadFacts DEF ThreadsOf, IInv
<1> USE DEF At, In, Goes, Returns, Idle
<1>1. cam \in [Cameras -> CameraObject] /\ thr \in [Threads -> ThreadState]
  BY <1>0 DEF TypeOK
<1>2. TypeOK'
  <2>1. cam' \in [Cameras -> CameraObject]
    BY <1>1 DEF CloseReference, Found, CameraObject
  <2>2. thr' \in [Threads -> ThreadState]
    BY <1>1 DEF CloseReference, Found, ThreadState
  <2> QED
    BY <1>0, <2>1, <2>2 DEF CloseReference, Found, TypeOK
<1>3. OnlyIn(c)
  BY <1>0 DEF CloseReference, Found, TypeOK, OnlyIn, ThreadsOf
<1>4. \A u \in ThreadsOf(c) : CallOf(u)'
  <2>1. /\ t = Owner(c) /\ thr'[t].pc = "idle" /\ thr'[t].op = "none"
        /\ \A u \in Threads \ {t} : thr'[u] = thr[u]
    BY <1>0, <1>1 DEF CloseReference, CameraInv, CallOf
  <2> QED
    BY <1>0, <2>1 DEF CameraInv, CallOf, ThreadsOf
<1>5. Locks(c)'
  BY <1>0, ThreadFacts
     DEF CloseReference, Found, TypeOK, CameraObject, ThreadState, CameraInv, CallOf,
         ThreadsOf, ChannelOps, Locks, HoldsCamera, HoldsChannel
<1>6. Objects(c)'
  BY <1>0, ThreadFacts
     DEF CloseReference, Found, TypeOK, CameraObject, ThreadState, CameraInv, CallOf,
         ThreadsOf, ChannelOps, Locks, HoldsCamera, HoldsChannel, Objects, Channels,
         Closing, HasCamera
<1>7. Channels(c)'
  <2>1. /\ t = Owner(c) /\ thr[t].op = "close" /\ thr'[t].pc = "idle" /\ thr'[t].op = "none"
        /\ \A u \in Threads \ {t} : thr'[u] = thr[u]
        /\ cam'[c].ch_hdl = cam[c].ch_hdl /\ cam'[c].ch_state = cam[c].ch_state
        /\ hal'[c].chan = hal[c].chan /\ cam[c].ch_hdl = 0
        /\ cam'[c].streams = cam[c].streams
    BY <1>0, <1>1
       DEF CloseReference, TypeOK, CameraObject, CameraInv, CallOf, Channels
  <2>2. thr[t].pc = "intf"
    BY DEF CloseReference
  <2> QED
    BY <1>0, <2>1, <2>2, ThreadFacts DEF CameraInv, Channels, ThreadsOf, ChannelOps
<1>8. Joined(c)'
  BY <1>0
     DEF CloseReference, Found, TypeOK, CameraObject, ThreadState, CameraInv, Joined,
         ThreadsOf
<1>9. Answers(c)'
  BY <1>0, ThreadFacts
     DEF CloseReference, Found, TypeOK, CameraObject, ThreadState, CameraInv, CallOf,
         Answers, ThreadsOf
<1> QED
  BY <1>2, <1>3, <1>4, <1>5, <1>6, <1>7, <1>8, <1>9, OneCamera DEF CameraInv

\* The object leaves the table with its owner still to lock it.
LEMMA CloseLastStep ==
  ASSUME IInv, NEW t \in Threads, NEW c \in Cameras, c = CamOf(t), CloseLast(t)
  PROVE  IInv'
<1>0. /\ TypeOK /\ CameraInv(c)
      /\ t \in ThreadsOf(c) /\ Owner(c) \in ThreadsOf(c) /\ NoOne \notin Threads
  BY ThreadFacts DEF ThreadsOf, IInv
<1> USE DEF At, In, Goes, Returns, Idle
<1>1. cam \in [Cameras -> CameraObject] /\ thr \in [Threads -> ThreadState]
  BY <1>0 DEF TypeOK
<1>a. /\ t = Owner(c) /\ cam_obj[c] = thr[t].obj /\ cam_obj[c] # 0
      /\ cam_obj[c] = cam[c].n /\ ~cam[c].freed /\ cam[c].ref_count = 1
  BY <1>0, <1>1 DEF CloseLast, Found, CameraInv, CallOf, Objects, CameraObject
<1>2. TypeOK'
  <2>1. cam' \in [Cameras -> CameraObject]
    <3>1. cam[c].ref_count - 1 = 0
      BY <1>a
    <3> QED
      BY <1>1, <3>1 DEF CloseLast, CameraObject
  <2>2. thr' \in [Threads -> ThreadState]
    BY <1>1 DEF CloseLast, Found, ThreadState
  <2> QED
    BY <1>0, <2>1, <2>2 DEF CloseLast, Found, TypeOK
<1>3. OnlyIn(c)
  BY <1>0 DEF CloseLast, Found, TypeOK, OnlyIn, ThreadsOf
<1>4. \A u \in ThreadsOf(c) : CallOf(u)'
  BY <1>0, ThreadFacts
     DEF CloseLast, Found, TypeOK, ThreadState, CameraInv, CallOf, ThreadsOf, ChannelOps
<1>5. Locks(c)'
  BY <1>0, ThreadFacts
     DEF CloseLast, Found, TypeOK, CameraObject, ThreadState, CameraInv, CallOf, ThreadsOf,
         ChannelOps, Locks, HoldsCamera, HoldsChannel
<1>6. Objects(c)'
  <2>1. /\ cam'[c].n = cam[c].n /\ cam'[c].freed = cam[c].freed /\ cam_obj'[c] = 0
        /\ hal'[c] = hal[c] /\ thr'[t].pc = "cam" /\ thr'[t].op = "close"
        /\ thr'[t].obj = thr[t].obj
        /\ \A u \in Threads \ {t} : thr'[u] = thr[u]
    BY <1>0, <1>1 DEF CloseLast, TypeOK, CameraObject, ThreadState
  <2>2. \A u \in ThreadsOf(c) \ {t} : ~At(u, "cam") /\ ~At(u, "sub")
    BY <1>0 DEF CloseLast, CameraInv, Locks, ThreadsOf
  <2> QED
    BY <1>0, <1>a, <2>1, <2>2 DEF CameraInv, Objects, Closing, HasCamera, ThreadsOf
<1>7. Channels(c)'
  BY <1>0, ThreadFacts
     DEF CloseLast, Found, TypeOK, CameraObject, ThreadState, CameraInv, CallOf, ThreadsOf,
         ChannelOps, Channels, Objects, Closing, HasCamera
<1>8. Joined(c)'
  BY <1>0
     DEF CloseLast, Found, TypeOK, CameraObject, ThreadState, CameraInv, Joined, ThreadsOf
<1>9. Answers(c)'
  BY <1>0, ThreadFacts
     DEF CloseLast, Found, TypeOK, CameraObject, ThreadState, CameraInv, CallOf, Answers,
         ThreadsOf
<1> QED
  BY <1>2, <1>3, <1>4, <1>5, <1>6, <1>7, <1>8, <1>9, OneCamera DEF CameraInv

\* Nobody frees a camera for whose lock a thread waits under g_intf_lock.
LEMMA LockCameraStep ==
  ASSUME IInv, NEW t \in Threads, NEW c \in Cameras, c = CamOf(t), LockCamera(t)
  PROVE  IInv'
<1>0. /\ TypeOK /\ CameraInv(c)
      /\ t \in ThreadsOf(c) /\ Owner(c) \in ThreadsOf(c) /\ NoOne \notin Threads
  BY ThreadFacts DEF ThreadsOf, IInv
<1> USE DEF At, In, Goes, Returns, Idle
<1>1. cam \in [Cameras -> CameraObject] /\ thr \in [Threads -> ThreadState]
  BY <1>0 DEF TypeOK
<1>2. TypeOK'
  <2>1. cam' \in [Cameras -> CameraObject]
    BY <1>1 DEF LockCamera, CameraObject
  <2>2. thr' \in [Threads -> ThreadState]
    BY <1>1 DEF LockCamera, ThreadState
  <2> QED
    BY <1>0, <2>1, <2>2 DEF LockCamera, TypeOK
<1>3. OnlyIn(c)
  BY <1>0 DEF LockCamera, TypeOK, OnlyIn, ThreadsOf, CameraInv, Locks
<1>4. \A u \in ThreadsOf(c) : CallOf(u)'
  BY <1>0, ThreadFacts
     DEF LockCamera, TypeOK, ThreadState, CameraInv, CallOf, ThreadsOf, ChannelOps
<1>5. Locks(c)'
  BY <1>0, ThreadFacts
     DEF LockCamera, TypeOK, CameraObject, ThreadState, CameraInv, CallOf, ThreadsOf,
         ChannelOps, Locks, HoldsCamera, HoldsChannel
<1>6. Objects(c)'
  BY <1>0, ThreadFacts
     DEF LockCamera, TypeOK, CameraObject, ThreadState, CameraInv, CallOf, ThreadsOf,
         ChannelOps, Locks, HoldsCamera, HoldsChannel, Objects, Channels, Closing, HasCamera
<1>7. Channels(c)'
  BY <1>0, ThreadFacts
     DEF LockCamera, TypeOK, CameraObject, ThreadState, CameraInv, CallOf, ThreadsOf,
         ChannelOps, Channels, Objects, Closing, HasCamera
<1>8. Joined(c)'
  BY <1>0 DEF LockCamera, TypeOK, CameraObject, ThreadState, CameraInv, Joined, ThreadsOf
<1>9. Answers(c)'
  BY <1>0, ThreadFacts
     DEF LockCamera, TypeOK, CameraObject, ThreadState, CameraInv, CallOf, Answers,
         ThreadsOf
<1> QED
  BY <1>2, <1>3, <1>4, <1>5, <1>6, <1>7, <1>8, <1>9, OneCamera DEF CameraInv

\* A call on the camera ends.
LEMMA CameraOpStep ==
  ASSUME IInv, NEW t \in Threads, NEW c \in Cameras, c = CamOf(t), CameraOp(t)
  PROVE  IInv'
<1>0. /\ TypeOK /\ CameraInv(c)
      /\ t \in ThreadsOf(c) /\ Owner(c) \in ThreadsOf(c) /\ NoOne \notin Threads
  BY ThreadFacts DEF ThreadsOf, IInv
<1> USE DEF At, In, Goes, Returns, Idle
<1>1. cam \in [Cameras -> CameraObject] /\ thr \in [Threads -> ThreadState]
  BY <1>0 DEF TypeOK
<1>2. TypeOK'
  <2>1. cam' \in [Cameras -> CameraObject]
    BY <1>1 DEF CameraOp, CameraObject
  <2>2. thr' \in [Threads -> ThreadState]
    BY <1>1 DEF CameraOp, ThreadState
  <2> QED
    BY <1>0, <2>1, <2>2 DEF CameraOp, TypeOK
<1>3. OnlyIn(c)
  BY <1>0 DEF CameraOp, TypeOK, OnlyIn, ThreadsOf
<1>4. \A u \in ThreadsOf(c) : CallOf(u)'
  BY <1>0, ThreadFacts
     DEF CameraOp, TypeOK, ThreadState, CameraInv, CallOf, ThreadsOf, ChannelOps
<1>5. Locks(c)'
  BY <1>0, ThreadFacts
     DEF CameraOp, TypeOK, CameraObject, ThreadState, CameraInv, CallOf, ThreadsOf,
         ChannelOps, Locks, HoldsCamera, HoldsChannel
<1>6. Objects(c)'
  BY <1>0, ThreadFacts
     DEF CameraOp, TypeOK, CameraObject, ThreadState, CameraInv, CallOf, ThreadsOf,
         ChannelOps, Locks, HoldsCamera, HoldsChannel, Objects, Channels, Closing, HasCamera
<1>7. Channels(c)'
  BY <1>0, ThreadFacts
     DEF CameraOp, TypeOK, CameraObject, ThreadState, CameraInv, CallOf, ThreadsOf,
         ChannelOps, Channels, Objects, Closing, HasCamera
<1>8. Joined(c)'
  BY <1>0 DEF CameraOp, TypeOK, CameraObject, ThreadState, CameraInv, Joined, ThreadsOf
<1>9. Answers(c)'
  BY <1>0, ThreadFacts
     DEF CameraOp, TypeOK, CameraObject, ThreadState, CameraInv, CallOf, Answers, ThreadsOf
<1> QED
  BY <1>2, <1>3, <1>4, <1>5, <1>6, <1>7, <1>8, <1>9, OneCamera DEF CameraInv

\* So does a registration.
LEMMA RegisterStep ==
  ASSUME IInv, NEW t \in Threads, NEW c \in Cameras, c = CamOf(t), Register(t)
  PROVE  IInv'
<1>0. /\ TypeOK /\ CameraInv(c)
      /\ t \in ThreadsOf(c) /\ Owner(c) \in ThreadsOf(c) /\ NoOne \notin Threads
  BY ThreadFacts DEF ThreadsOf, IInv
<1> USE DEF At, In, Goes, Returns, Idle
<1>1. cam \in [Cameras -> CameraObject] /\ thr \in [Threads -> ThreadState]
  BY <1>0 DEF TypeOK
<1>2. TypeOK'
  <2>1. cam' \in [Cameras -> CameraObject]
    BY <1>1 DEF Register, CameraObject
  <2>2. thr' \in [Threads -> ThreadState]
    BY <1>1 DEF Register, ThreadState
  <2> QED
    BY <1>0, <2>1, <2>2 DEF Register, TypeOK
<1>3. OnlyIn(c)
  BY <1>0 DEF Register, TypeOK, OnlyIn, ThreadsOf
<1>4. \A u \in ThreadsOf(c) : CallOf(u)'
  BY <1>0, ThreadFacts
     DEF Register, TypeOK, ThreadState, CameraInv, CallOf, ThreadsOf, ChannelOps
<1>5. Locks(c)'
  BY <1>0, ThreadFacts
     DEF Register, TypeOK, CameraObject, ThreadState, CameraInv, CallOf, ThreadsOf,
         ChannelOps, Locks, HoldsCamera, HoldsChannel
<1>6. Objects(c)'
  BY <1>0, ThreadFacts
     DEF Register, TypeOK, CameraObject, ThreadState, CameraInv, CallOf, ThreadsOf,
         ChannelOps, Locks, HoldsCamera, HoldsChannel, Objects, Channels, Closing, HasCamera
<1>7. Channels(c)'
  BY <1>0, ThreadFacts
     DEF Register, TypeOK, CameraObject, ThreadState, CameraInv, CallOf, ThreadsOf,
         ChannelOps, Channels, Objects, Closing, HasCamera
<1>8. Joined(c)'
  BY <1>0 DEF Register, TypeOK, CameraObject, ThreadState, CameraInv, Joined, ThreadsOf
<1>9. Answers(c)'
  BY <1>0, ThreadFacts
     DEF Register, TypeOK, CameraObject, ThreadState, CameraInv, CallOf, Answers, ThreadsOf
<1> QED
  BY <1>2, <1>3, <1>4, <1>5, <1>6, <1>7, <1>8, <1>9, OneCamera DEF CameraInv

\* Only the owner adds a channel, and there is none.
LEMMA AddChannelStep ==
  ASSUME IInv, NEW t \in Threads, NEW c \in Cameras, c = CamOf(t), AddChannel(t)
  PROVE  IInv'
<1>0. /\ TypeOK /\ CameraInv(c)
      /\ t \in ThreadsOf(c) /\ Owner(c) \in ThreadsOf(c) /\ NoOne \notin Threads
  BY ThreadFacts DEF ThreadsOf, IInv
<1> USE DEF At, In, Goes, Returns, Idle
<1>1. cam \in [Cameras -> CameraObject] /\ thr \in [Threads -> ThreadState]
  BY <1>0 DEF TypeOK
<1>2. TypeOK'
  <2>1. cam' \in [Cameras -> CameraObject]
    BY <1>1 DEF AddChannel, CameraObject
  <2>2. thr' \in [Threads -> ThreadState]
    BY <1>1 DEF AddChannel, ThreadState
  <2> QED
    <3>1. hal' \in [Cameras -> [table : Nat, chan : Nat]]
      BY <1>0, <1>1 DEF AddChannel, TypeOK, CameraObject
    <3> QED
      BY <1>0, <2>1, <2>2, <3>1 DEF AddChannel, TypeOK
<1>3. OnlyIn(c)
  BY <1>0 DEF AddChannel, TypeOK, OnlyIn, ThreadsOf
<1>4. \A u \in ThreadsOf(c) : CallOf(u)'
  BY <1>0, ThreadFacts
     DEF AddChannel, TypeOK, ThreadState, CameraInv, CallOf, ThreadsOf, ChannelOps
<1>5. Locks(c)'
  BY <1>0, ThreadFacts
     DEF AddChannel, TypeOK, CameraObject, ThreadState, CameraInv, CallOf, ThreadsOf,
         ChannelOps, Locks, HoldsCamera, HoldsChannel
<1>6. Objects(c)'
  BY <1>0, ThreadFacts
     DEF AddChannel, TypeOK, CameraObject, ThreadState, CameraInv, CallOf, ThreadsOf,
         ChannelOps, Locks, HoldsCamera, HoldsChannel, Objects, Channels, Closing, HasCamera
<1>7. Channels(c)'
  BY <1>0, ThreadFacts
     DEF AddChannel, TypeOK, CameraObject, ThreadState, CameraInv, CallOf, ThreadsOf,
         ChannelOps, Channels, Objects, Closing, HasCamera
<1>8. Joined(c)'
  BY <1>0 DEF AddChannel, TypeOK, CameraObject, ThreadState, CameraInv, Joined, ThreadsOf
<1>9. Answers(c)'
  BY <1>0, ThreadFacts
     DEF AddChannel, TypeOK, CameraObject, ThreadState, CameraInv, CallOf, Answers,
         ThreadsOf
<1> QED
  BY <1>2, <1>3, <1>4, <1>5, <1>6, <1>7, <1>8, <1>9, OneCamera DEF CameraInv

\* The channel of a buffer is there.
LEMMA FindForBufStep ==
  ASSUME IInv, NEW t \in Threads, NEW c \in Cameras, c = CamOf(t), FindForBuf(t)
  PROVE  IInv'
<1>0. /\ TypeOK /\ CameraInv(c)
      /\ t \in ThreadsOf(c) /\ Owner(c) \in ThreadsOf(c) /\ NoOne \notin Threads
  BY ThreadFacts DEF ThreadsOf, IInv
<1> USE DEF At, In, Goes, Returns, Idle
<1>1. cam \in [Cameras -> CameraObject] /\ thr \in [Threads -> ThreadState]
  BY <1>0 DEF TypeOK
<1>a. /\ cam' = [cam EXCEPT ![c].cam_lock = NoOne]
      /\ thr' = [thr EXCEPT ![t].pc = "use"]
      /\ UNCHANGED <<g_intf_lock, cam_obj, server, events, hal>>
      /\ thr[t].pc = "in" /\ thr[t].op = "qbuf"
  BY <1>0 DEF FindForBuf, CameraInv, Channels
<1>2. TypeOK'
  <2>1. cam' \in [Cameras -> CameraObject]
    BY <1>1, <1>a DEF CameraObject
  <2>2. thr' \in [Threads -> ThreadState]
    BY <1>1, <1>a DEF ThreadState
  <2> QED
    BY <1>0, <1>a, <2>1, <2>2 DEF TypeOK
<1>3. OnlyIn(c)
  BY <1>0, <1>a DEF TypeOK, OnlyIn, ThreadsOf
<1>4. \A u \in ThreadsOf(c) : CallOf(u)'
  BY <1>0, <1>a, ThreadFacts
     DEF TypeOK, ThreadState, CameraInv, CallOf, ThreadsOf, ChannelOps
<1>5. Locks(c)'
  BY <1>0, <1>a, ThreadFacts
     DEF TypeOK, CameraObject, ThreadState, CameraInv, CallOf, ThreadsOf, ChannelOps, Locks,
         HoldsCamera, HoldsChannel
<1>6. Objects(c)'
  BY <1>0, <1>a, ThreadFacts
     DEF TypeOK, CameraObject, ThreadState, CameraInv, CallOf, ThreadsOf, ChannelOps, Locks,
         HoldsCamera, HoldsChannel, Objects, Channels, Closing, HasCamera
<1>7. Channels(c)'
  BY <1>0, <1>a, ThreadFacts
     DEF TypeOK, CameraObject, ThreadState, CameraInv, CallOf, ThreadsOf, ChannelOps,
         Channels, Objects, Closing, HasCamera
<1>8. Joined(c)'
  BY <1>0, <1>a DEF TypeOK, CameraObject, ThreadState, CameraInv, Joined, ThreadsOf
<1>9. Answers(c)'
  BY <1>0, <1>a, ThreadFacts
     DEF TypeOK, CameraObject, ThreadState, CameraInv, CallOf, Answers, ThreadsOf
<1> QED
  BY <1>2, <1>3, <1>4, <1>5, <1>6, <1>7, <1>8, <1>9, OneCamera DEF CameraInv

\* A returned buffer relies on nothing any more.
LEMMA QueueBufStep ==
  ASSUME IInv, NEW t \in Threads, NEW c \in Cameras, c = CamOf(t), QueueBuf(t)
  PROVE  IInv'
<1>0. /\ TypeOK /\ CameraInv(c)
      /\ t \in ThreadsOf(c) /\ Owner(c) \in ThreadsOf(c) /\ NoOne \notin Threads
  BY ThreadFacts DEF ThreadsOf, IInv
<1> USE DEF At, In, Goes, Returns, Idle
<1>1. cam \in [Cameras -> CameraObject] /\ thr \in [Threads -> ThreadState]
  BY <1>0 DEF TypeOK
<1>2. TypeOK'
  <2>1. cam' \in [Cameras -> CameraObject]
    BY <1>1 DEF QueueBuf, CameraObject
  <2>2. thr' \in [Threads -> ThreadState]
    BY <1>1 DEF QueueBuf, ThreadState
  <2> QED
    BY <1>0, <2>1, <2>2 DEF QueueBuf, TypeOK
<1>3. OnlyIn(c)
  BY <1>0 DEF QueueBuf, TypeOK, OnlyIn, ThreadsOf
<1>4. \A u \in ThreadsOf(c) : CallOf(u)'
  BY <1>0, ThreadFacts
     DEF QueueBuf, TypeOK, ThreadState, CameraInv, CallOf, ThreadsOf, ChannelOps
<1>5. Locks(c)'
  BY <1>0, ThreadFacts
     DEF QueueBuf, TypeOK, CameraObject, ThreadState, CameraInv, CallOf, ThreadsOf,
         ChannelOps, Locks, HoldsCamera, HoldsChannel
<1>6. Objects(c)'
  BY <1>0, ThreadFacts
     DEF QueueBuf, TypeOK, CameraObject, ThreadState, CameraInv, CallOf, ThreadsOf,
         ChannelOps, Locks, HoldsCamera, HoldsChannel, Objects, Channels, Closing, HasCamera
<1>7. Channels(c)'
  BY <1>0, ThreadFacts
     DEF QueueBuf, TypeOK, CameraObject, ThreadState, CameraInv, CallOf, ThreadsOf,
         ChannelOps, Channels, Objects, Closing, HasCamera
<1>8. Joined(c)'
  BY <1>0 DEF QueueBuf, TypeOK, CameraObject, ThreadState, CameraInv, Joined, ThreadsOf
<1>9. Answers(c)'
  BY <1>0, ThreadFacts
     DEF QueueBuf, TypeOK, CameraObject, ThreadState, CameraInv, CallOf, Answers, ThreadsOf
<1> QED
  BY <1>2, <1>3, <1>4, <1>5, <1>6, <1>7, <1>8, <1>9, OneCamera DEF CameraInv

\* The channel of a call is there.
LEMMA FindChannelStep ==
  ASSUME IInv, NEW t \in Threads, NEW c \in Cameras, c = CamOf(t), FindChannel(t)
  PROVE  IInv'
<1>0. /\ TypeOK /\ CameraInv(c)
      /\ t \in ThreadsOf(c) /\ Owner(c) \in ThreadsOf(c) /\ NoOne \notin Threads
  BY ThreadFacts DEF ThreadsOf, IInv
<1> USE DEF At, In, Goes, Returns, Idle
<1>1. cam \in [Cameras -> CameraObject] /\ thr \in [Threads -> ThreadState]
  BY <1>0 DEF TypeOK
<1>a. /\ thr' = [thr EXCEPT ![t].pc = "ch"]
      /\ UNCHANGED <<g_intf_lock, cam_obj, cam, server, events, hal>>
      /\ thr[t].pc = "in" /\ thr[t].op \in ChannelOps
  BY <1>0 DEF FindChannel, CameraInv, Channels
<1>2. TypeOK'
  <2>1. cam' \in [Cameras -> CameraObject]
    BY <1>1, <1>a DEF CameraObject
  <2>2. thr' \in [Threads -> ThreadState]
    BY <1>1, <1>a DEF ThreadState
  <2> QED
    BY <1>0, <1>a, <2>1, <2>2 DEF TypeOK
<1>3. OnlyIn(c)
  BY <1>0, <1>a DEF TypeOK, OnlyIn, ThreadsOf
<1>4. \A u \in ThreadsOf(c) : CallOf(u)'
  BY <1>0, <1>a, ThreadFacts
     DEF TypeOK, ThreadState, CameraInv, CallOf, ThreadsOf, ChannelOps
<1>5. Locks(c)'
  BY <1>0, <1>a, ThreadFacts
     DEF TypeOK, CameraObject, ThreadState, CameraInv, CallOf, ThreadsOf, ChannelOps, Locks,
         HoldsCamera, HoldsChannel
<1>6. Objects(c)'
  BY <1>0, <1>a, ThreadFacts
     DEF TypeOK, CameraObject, ThreadState, CameraInv, CallOf, ThreadsOf, ChannelOps, Locks,
         HoldsCamera, HoldsChannel, Objects, Channels, Closing, HasCamera
<1>7. Channels(c)'
  BY <1>0, <1>a, ThreadFacts
     DEF TypeOK, CameraObject, ThreadState, CameraInv, CallOf, ThreadsOf, ChannelOps,
         Channels, Objects, Closing, HasCamera
<1>8. Joined(c)'
  BY <1>0, <1>a DEF TypeOK, CameraObject, ThreadState, CameraInv, Joined, ThreadsOf
<1>9. Answers(c)'
  BY <1>0, <1>a, ThreadFacts
     DEF TypeOK, CameraObject, ThreadState, CameraInv, CallOf, Answers, ThreadsOf
<1> QED
  BY <1>2, <1>3, <1>4, <1>5, <1>6, <1>7, <1>8, <1>9, OneCamera DEF CameraInv

\* Of the channel's lock the owner is the only user.
LEMMA LockChannelStep ==
  ASSUME IInv, NEW t \in Threads, NEW c \in Cameras, c = CamOf(t), LockChannel(t)
  PROVE  IInv'
<1>0. /\ TypeOK /\ CameraInv(c)
      /\ t \in ThreadsOf(c) /\ Owner(c) \in ThreadsOf(c) /\ NoOne \notin Threads
  BY ThreadFacts DEF ThreadsOf, IInv
<1> USE DEF At, In, Goes, Returns, Idle
<1>1. cam \in [Cameras -> CameraObject] /\ thr \in [Threads -> ThreadState]
  BY <1>0 DEF TypeOK
<1>2. TypeOK'
  <2> DEFINE first == [cam EXCEPT ![c].cam_lock = NoOne]
  <2>a. first \in [Cameras -> CameraObject]
    BY <1>1 DEF LockChannel, CameraObject
  <2> HIDE DEF first
  <2>b. cam' = [first EXCEPT ![c].ch_lock = t]
    BY DEF LockChannel, first
  <2>1. cam' \in [Cameras -> CameraObject]
    BY <2>a, <2>b DEF CameraObject
  <2>2. thr' \in [Threads -> ThreadState]
    BY <1>1 DEF LockChannel, ThreadState
  <2> QED
    BY <1>0, <2>1, <2>2 DEF LockChannel, TypeOK
<1>3. OnlyIn(c)
  BY <1>0 DEF LockChannel, TypeOK, OnlyIn, ThreadsOf
<1>4. \A u \in ThreadsOf(c) : CallOf(u)'
  BY <1>0, ThreadFacts
     DEF LockChannel, TypeOK, ThreadState, CameraInv, CallOf, ThreadsOf, ChannelOps
<1>5. Locks(c)'
  BY <1>0, ThreadFacts
     DEF LockChannel, TypeOK, CameraObject, ThreadState, CameraInv, CallOf, ThreadsOf,
         ChannelOps, Locks, HoldsCamera, HoldsChannel
<1>6. Objects(c)'
  BY <1>0, ThreadFacts
     DEF LockChannel, TypeOK, CameraObject, ThreadState, CameraInv, CallOf, ThreadsOf,
         ChannelOps, Locks, HoldsCamera, HoldsChannel, Objects, Channels, Closing, HasCamera
<1>7. Channels(c)'
  BY <1>0, ThreadFacts
     DEF LockChannel, TypeOK, CameraObject, ThreadState, CameraInv, CallOf, ThreadsOf,
         ChannelOps, Channels, Objects, Closing, HasCamera
<1>8. Joined(c)'
  BY <1>0 DEF LockChannel, TypeOK, CameraObject, ThreadState, CameraInv, Joined, ThreadsOf
<1>9. Answers(c)'
  BY <1>0, ThreadFacts
     DEF LockChannel, TypeOK, CameraObject, ThreadState, CameraInv, CallOf, Answers,
         ThreadsOf
<1> QED
  BY <1>2, <1>3, <1>4, <1>5, <1>6, <1>7, <1>8, <1>9, OneCamera DEF CameraInv

\* A call on the channel ends.
LEMMA ChannelOpStep ==
  ASSUME IInv, NEW t \in Threads, NEW c \in Cameras, c = CamOf(t), ChannelOp(t)
  PROVE  IInv'
<1>0. /\ TypeOK /\ CameraInv(c)
      /\ t \in ThreadsOf(c) /\ Owner(c) \in ThreadsOf(c) /\ NoOne \notin Threads
  BY ThreadFacts DEF ThreadsOf, IInv
<1> USE DEF At, In, Goes, Returns, Idle
<1>1. cam \in [Cameras -> CameraObject] /\ thr \in [Threads -> ThreadState]
  BY <1>0 DEF TypeOK
<1>2. TypeOK'
  <2>1. cam' \in [Cameras -> CameraObject]
    BY <1>1 DEF ChannelOp, CameraObject
  <2>2. thr' \in [Threads -> ThreadState]
    BY <1>1 DEF ChannelOp, ThreadState
  <2> QED
    BY <1>0, <2>1, <2>2 DEF ChannelOp, TypeOK
<1>3. OnlyIn(c)
  BY <1>0 DEF ChannelOp, TypeOK, OnlyIn, ThreadsOf
<1>4. \A u \in ThreadsOf(c) : CallOf(u)'
  BY <1>0, ThreadFacts
     DEF ChannelOp, TypeOK, ThreadState, CameraInv, CallOf, ThreadsOf, ChannelOps
<1>5. Locks(c)'
  BY <1>0, ThreadFacts
     DEF ChannelOp, TypeOK, CameraObject, ThreadState, CameraInv, CallOf, ThreadsOf,
         ChannelOps, Locks, HoldsCamera, HoldsChannel
<1>6. Objects(c)'
  BY <1>0, ThreadFacts
     DEF ChannelOp, TypeOK, CameraObject, ThreadState, CameraInv, CallOf, ThreadsOf,
         ChannelOps, Locks, HoldsCamera, HoldsChannel, Objects, Channels, Closing, HasCamera
<1>7. Channels(c)'
  BY <1>0, ThreadFacts
     DEF ChannelOp, TypeOK, CameraObject, ThreadState, CameraInv, CallOf, ThreadsOf,
         ChannelOps, Channels, Objects, Closing, HasCamera
<1>8. Joined(c)'
  BY <1>0 DEF ChannelOp, TypeOK, CameraObject, ThreadState, CameraInv, Joined, ThreadsOf
<1>9. Answers(c)'
  BY <1>0, ThreadFacts
     DEF ChannelOp, TypeOK, CameraObject, ThreadState, CameraInv, CallOf, Answers, ThreadsOf
<1> QED
  BY <1>2, <1>3, <1>4, <1>5, <1>6, <1>7, <1>8, <1>9, OneCamera DEF CameraInv

\* A stream that is on may have its callback thread at work.
LEMMA StreamOnStep ==
  ASSUME IInv, NEW t \in Threads, NEW c \in Cameras, c = CamOf(t), StreamOn(t)
  PROVE  IInv'
<1>0. /\ TypeOK /\ CameraInv(c)
      /\ t \in ThreadsOf(c) /\ Owner(c) \in ThreadsOf(c) /\ NoOne \notin Threads
  BY ThreadFacts DEF ThreadsOf, IInv
<1> USE DEF At, In, Goes, Returns, Idle
<1>1. /\ cam \in [Cameras -> CameraObject] /\ thr \in [Threads -> ThreadState]
      /\ hal \in [Cameras -> [table : Nat, chan : Nat]] /\ cam_obj \in [Cameras -> Nat]
      /\ server \in [Cameras -> Requests \cup {"none"}]
  BY <1>0 DEF TypeOK
<1>a. /\ cam'[c].n = cam[c].n /\ cam'[c].freed = cam[c].freed
      /\ cam'[c].ref_count = cam[c].ref_count /\ cam'[c].cam_lock = cam[c].cam_lock
      /\ cam'[c].evt_rcvd = cam[c].evt_rcvd /\ cam'[c].evt_thread = cam[c].evt_thread
      /\ cam'[c].evt_poll = cam[c].evt_poll /\ cam'[c].sub = cam[c].sub
      /\ cam'[c].ch_state = cam[c].ch_state /\ cam'[c].ch_hdl = cam[c].ch_hdl
      /\ cam'[c].ch_lock = cam[c].ch_lock
      /\ thr' = thr /\ cam'[c].streams
      /\ thr[t].pc = "chan" /\ thr[t].op = "start" /\ t = Owner(c)
      /\ UNCHANGED <<g_intf_lock, cam_obj, server, events, hal>>
  BY <1>0, <1>1 DEF StreamOn, CameraObject, CameraInv, CallOf
<1>2. TypeOK'
  <2>1. cam' \in [Cameras -> CameraObject]
    BY <1>1, ObjectFields DEF StreamOn
  <2>2. thr' \in [Threads -> ThreadState]
    BY <1>1 DEF StreamOn, ThreadState, Ops, ChannelOps
  <2> QED
    BY <1>0, <1>1, <2>1, <2>2 DEF StreamOn, TypeOK
<1>3. OnlyIn(c)
  BY <1>0, <1>1 DEF StreamOn, OnlyIn, ThreadsOf
<1>4. \A u \in ThreadsOf(c) : CallOf(u)'
  BY <1>0, <1>a DEF CameraInv, CallOf, ThreadsOf, ChannelOps, Requests
<1>5. Locks(c)'
  BY <1>0, <1>a, ThreadFacts
     DEF CameraInv, CallOf, ThreadsOf, ChannelOps, Requests, Locks, HoldsCamera, HoldsChannel
<1>6. Objects(c)'
  BY <1>0, <1>a, ObjectsKept DEF CameraInv, HasCamera, Requests
<1>7. Channels(c)'
  BY <1>0, <1>a, ThreadFacts
     DEF CameraInv, CallOf, ThreadsOf, ChannelOps, Requests, Channels, Objects, Closing
<1>8. Joined(c)'
  BY <1>0, <1>a DEF CameraInv, Joined, Objects, Closing, ThreadsOf
<1>9. Answers(c)'
  BY <1>0, <1>1, <1>a DEF CameraInv, CallOf, Answers, ThreadsOf, CameraObject, Requests
<1> QED
  BY <1>2, <1>3, <1>4, <1>5, <1>6, <1>7, <1>8, <1>9, OneCamera DEF CameraInv

\* The channel with its streams on is active.
LEMMA StartEndsStep ==
  ASSUME IInv, NEW t \in Threads, NEW c \in Cameras, c = CamOf(t), StartEnds(t)
  PROVE  IInv'
<1>0. /\ TypeOK /\ CameraInv(c)
      /\ t \in ThreadsOf(c) /\ Owner(c) \in ThreadsOf(c) /\ NoOne \notin Threads
  BY ThreadFacts DEF ThreadsOf, IInv
<1> USE DEF At, In, Goes, Returns, Idle
<1>1. /\ cam \in [Cameras -> CameraObject] /\ thr \in [Threads -> ThreadState]
      /\ hal \in [Cameras -> [table : Nat, chan : Nat]] /\ cam_obj \in [Cameras -> Nat]
      /\ server \in [Cameras -> Requests \cup {"none"}]
  BY <1>0 DEF TypeOK
<1>a. /\ cam'[c].n = cam[c].n /\ cam'[c].freed = cam[c].freed
      /\ cam'[c].ref_count = cam[c].ref_count /\ cam'[c].cam_lock = cam[c].cam_lock
      /\ cam'[c].evt_rcvd = cam[c].evt_rcvd /\ cam'[c].evt_thread = cam[c].evt_thread
      /\ cam'[c].evt_poll = cam[c].evt_poll /\ cam'[c].sub = cam[c].sub
      /\ cam'[c].streams = cam[c].streams /\ cam'[c].ch_hdl = cam[c].ch_hdl
      /\ cam'[c].ch_lock = NoOne /\ cam'[c].ch_state = "ACTIVE"
      /\ thr'[t].pc = "idle" /\ thr'[t].op = "none"
      /\ \A u \in Threads \ {t} : thr'[u] = thr[u]
      /\ thr[t].pc = "chan" /\ thr[t].op = "start" /\ t = Owner(c)
      /\ UNCHANGED <<g_intf_lock, cam_obj, server, events, hal>>
  <2>1. t = Owner(c) /\ thr[t].pc = "chan" /\ thr[t].op = "start"
    BY <1>0 DEF StartEnds, CameraInv, CallOf
  <2>2. /\ cam' = [cam EXCEPT ![c].ch_lock = NoOne, ![c].ch_state = "ACTIVE"]
        /\ thr' = [thr EXCEPT ![t] = [pc |-> "idle", op |-> "none", obj |-> 0, ch |-> 0]]
        /\ UNCHANGED <<g_intf_lock, cam_obj, server, events, hal>>
    BY <1>0 DEF StartEnds
  <2>3. /\ cam'[c] = [cam[c] EXCEPT !.ch_lock = NoOne, !.ch_state = "ACTIVE"]
        /\ thr'[t] = [pc |-> "idle", op |-> "none", obj |-> 0, ch |-> 0]
        /\ \A u \in Threads \ {t} : thr'[u] = thr[u]
    BY <1>1, <2>2
  <2>4. /\ cam'[c].n = cam[c].n /\ cam'[c].freed = cam[c].freed
        /\ cam'[c].ref_count = cam[c].ref_count /\ cam'[c].cam_lock = cam[c].cam_lock
        /\ cam'[c].evt_rcvd = cam[c].evt_rcvd /\ cam'[c].evt_thread = cam[c].evt_thread
        /\ cam'[c].evt_poll = cam[c].evt_poll /\ cam'[c].sub = cam[c].sub
        /\ cam'[c].streams = cam[c].streams /\ cam'[c].ch_hdl = cam[c].ch_hdl
        /\ cam'[c].ch_lock = NoOne /\ cam'[c].ch_state = "ACTIVE"
    BY <1>1, <2>3 DEF CameraObject
  <2> QED
    BY <2>1, <2>2, <2>3, <2>4
<1>2. TypeOK'
  <2> DEFINE first == [cam EXCEPT ![c].ch_lock = NoOne]
  <2>a. first \in [Cameras -> CameraObject]
    BY <1>1, ObjectFields
  <2> HIDE DEF first
  <2>b. cam' = [first EXCEPT ![c].ch_state = "ACTIVE"]
    BY DEF StartEnds, first
  <2>1. cam' \in [Cameras -> CameraObject]
    BY <2>a, <2>b DEF CameraObject
  <2>2. thr' \in [Threads -> ThreadState]
    BY <1>1 DEF StartEnds, ThreadState, Ops, ChannelOps
  <2> QED
    BY <1>0, <2>1, <2>2 DEF StartEnds, TypeOK
<1>3. OnlyIn(c)
  BY <1>0, <1>1 DEF StartEnds, OnlyIn, ThreadsOf
<1>4. \A u \in ThreadsOf(c) : CallOf(u)'
  BY <1>0, <1>a DEF CameraInv, CallOf, ThreadsOf, ChannelOps, Requests
<1>5. Locks(c)'
  BY <1>0, <1>a, ThreadFacts
     DEF CameraInv, CallOf, ThreadsOf, ChannelOps, Requests, Locks, HoldsCamera, HoldsChannel
<1>6. Objects(c)'
  BY <1>0, <1>a, ObjectsKept DEF CameraInv, HasCamera, Requests
<1>7. Channels(c)'
  BY <1>0, <1>a, ThreadFacts
     DEF CameraInv, CallOf, ThreadsOf, ChannelOps, Requests, Channels, Objects, Closing
<1>8. Joined(c)'
  BY <1>0, <1>a DEF CameraInv, Joined, Objects, Closing, ThreadsOf
<1>9. Answers(c)'
  BY <1>0, <1>1, <1>a DEF CameraInv, CallOf, Answers, ThreadsOf, CameraObject, Requests
<1> QED
  BY <1>2, <1>3, <1>4, <1>5, <1>6, <1>7, <1>8, <1>9, OneCamera DEF CameraInv

\* A failed start goes on as a stop.
LEMMA StartFailsStep ==
  ASSUME IInv, NEW t \in Threads, NEW c \in Cameras, c = CamOf(t), StartFails(t)
  PROVE  IInv'
<1>0. /\ TypeOK /\ CameraInv(c)
      /\ t \in ThreadsOf(c) /\ Owner(c) \in ThreadsOf(c) /\ NoOne \notin Threads
  BY ThreadFacts DEF ThreadsOf, IInv
<1> USE DEF At, In, Goes, Returns, Idle
<1>1. /\ cam \in [Cameras -> CameraObject] /\ thr \in [Threads -> ThreadState]
      /\ hal \in [Cameras -> [table : Nat, chan : Nat]] /\ cam_obj \in [Cameras -> Nat]
      /\ server \in [Cameras -> Requests \cup {"none"}]
  BY <1>0 DEF TypeOK
<1>a. /\ cam' = cam
      /\ thr'[t].pc = thr[t].pc /\ thr'[t].op = "stop"
      /\ thr'[t].obj = thr[t].obj /\ thr'[t].ch = thr[t].ch
      /\ \A u \in Threads \ {t} : thr'[u] = thr[u]
      /\ thr[t].pc = "chan" /\ thr[t].op = "start" /\ t = Owner(c)
      /\ UNCHANGED <<g_intf_lock, cam_obj, server, events, hal>>
  BY <1>0, <1>1 DEF StartFails, ThreadState, CameraInv, CallOf
<1>2. TypeOK'
  <2>1. cam' \in [Cameras -> CameraObject]
    BY <1>1 DEF StartFails, CameraObject
  <2>2. thr' \in [Threads -> ThreadState]
    BY <1>1 DEF StartFails, ThreadState, Ops, ChannelOps
  <2> QED
    BY <1>0, <1>1, <2>1, <2>2 DEF StartFails, TypeOK
<1>3. OnlyIn(c)
  BY <1>0, <1>1 DEF StartFails, OnlyIn, ThreadsOf
<1>4. \A u \in ThreadsOf(c) : CallOf(u)'
  BY <1>0, <1>a DEF CameraInv, CallOf, ThreadsOf, ChannelOps, Requests
<1>5. Locks(c)'
  BY <1>0, <1>a, ThreadFacts
     DEF CameraInv, CallOf, ThreadsOf, ChannelOps, Requests, Locks, HoldsCamera, HoldsChannel
<1>6. Objects(c)'
  BY <1>0, <1>a, ObjectsKept DEF CameraInv, HasCamera, Requests
<1>7. Channels(c)'
  BY <1>0, <1>a, ThreadFacts
     DEF CameraInv, CallOf, ThreadsOf, ChannelOps, Requests, Channels, Objects, Closing
<1>8. Joined(c)'
  BY <1>0, <1>a DEF CameraInv, Joined, Objects, Closing, ThreadsOf
<1>9. Answers(c)'
  BY <1>0, <1>1, <1>a DEF CameraInv, CallOf, Answers, ThreadsOf, CameraObject, Requests
<1> QED
  BY <1>2, <1>3, <1>4, <1>5, <1>6, <1>7, <1>8, <1>9, OneCamera DEF CameraInv

\* The callback thread is joined when the streams are off.
LEMMA StopStreamsStep ==
  ASSUME IInv, NEW t \in Threads, NEW c \in Cameras, c = CamOf(t), StopStreams(t)
  PROVE  IInv'
<1>0. /\ TypeOK /\ CameraInv(c)
      /\ t \in ThreadsOf(c) /\ Owner(c) \in ThreadsOf(c) /\ NoOne \notin Threads
  BY ThreadFacts DEF ThreadsOf, IInv
<1> USE DEF At, In, Goes, Returns, Idle
<1>1. /\ cam \in [Cameras -> CameraObject] /\ thr \in [Threads -> ThreadState]
      /\ hal \in [Cameras -> [table : Nat, chan : Nat]] /\ cam_obj \in [Cameras -> Nat]
      /\ server \in [Cameras -> Requests \cup {"none"}]
  BY <1>0 DEF TypeOK
<1>a. /\ cam'[c].n = cam[c].n /\ cam'[c].freed = cam[c].freed
      /\ cam'[c].ref_count = cam[c].ref_count /\ cam'[c].cam_lock = cam[c].cam_lock
      /\ cam'[c].evt_rcvd = cam[c].evt_rcvd /\ cam'[c].evt_thread = cam[c].evt_thread
      /\ cam'[c].evt_poll = cam[c].evt_poll /\ cam'[c].sub = cam[c].sub
      /\ cam'[c].ch_state = cam[c].ch_state /\ cam'[c].ch_hdl = cam[c].ch_hdl
      /\ cam'[c].ch_lock = cam[c].ch_lock
      /\ ~cam'[c].streams /\ (Callback(c) \in Threads => thr[Callback(c)].pc = "idle")
      /\ thr'[t].pc = thr[t].pc /\ thr'[t].op = "unmap"
      /\ thr'[t].obj = thr[t].obj /\ thr'[t].ch = thr[t].ch
      /\ \A u \in Threads \ {t} : thr'[u] = thr[u]
      /\ thr[t].pc = "chan" /\ thr[t].op = "stop" /\ t = Owner(c)
      /\ UNCHANGED <<g_intf_lock, cam_obj, server, events, hal>>
  BY <1>0, <1>1 DEF StopStreams, CameraObject, ThreadState, CameraInv, CallOf, Callback
<1>2. TypeOK'
  <2>1. cam' \in [Cameras -> CameraObject]
    BY <1>1, ObjectFields DEF StopStreams
  <2>2. thr' \in [Threads -> ThreadState]
    BY <1>1 DEF StopStreams, ThreadState, Ops, ChannelOps
  <2> QED
    BY <1>0, <1>1, <2>1, <2>2 DEF StopStreams, TypeOK
<1>3. OnlyIn(c)
  BY <1>0, <1>1 DEF StopStreams, OnlyIn, ThreadsOf
<1>4. \A u \in ThreadsOf(c) : CallOf(u)'
  BY <1>0, <1>a DEF CameraInv, CallOf, ThreadsOf, ChannelOps, Requests
<1>5. Locks(c)'
  BY <1>0, <1>a, ThreadFacts
     DEF CameraInv, CallOf, ThreadsOf, ChannelOps, Requests, Locks, HoldsCamera, HoldsChannel
<1>6. Objects(c)'
  BY <1>0, <1>a, ObjectsKept DEF CameraInv, HasCamera, Requests
<1>7. Channels(c)'
  BY <1>0, <1>a, ThreadFacts
     DEF CameraInv, CallOf, ThreadsOf, ChannelOps, Requests, Channels, Objects, Closing
<1>8. Joined(c)'
  BY <1>0, <1>a DEF CameraInv, Joined, Objects, Closing, ThreadsOf
<1>9. Answers(c)'
  BY <1>0, <1>1, <1>a DEF CameraInv, CallOf, Answers, ThreadsOf, CameraObject, Requests
<1> QED
  BY <1>2, <1>3, <1>4, <1>5, <1>6, <1>7, <1>8, <1>9, OneCamera DEF CameraInv

\* A stopped channel has no stream on.
LEMMA StopEndsStep ==
  ASSUME IInv, NEW t \in Threads, NEW c \in Cameras, c = CamOf(t), StopEnds(t)
  PROVE  IInv'
<1>0. /\ TypeOK /\ CameraInv(c)
      /\ t \in ThreadsOf(c) /\ Owner(c) \in ThreadsOf(c) /\ NoOne \notin Threads
  BY ThreadFacts DEF ThreadsOf, IInv
<1> USE DEF At, In, Goes, Returns, Idle
<1>1. /\ cam \in [Cameras -> CameraObject] /\ thr \in [Threads -> ThreadState]
      /\ hal \in [Cameras -> [table : Nat, chan : Nat]] /\ cam_obj \in [Cameras -> Nat]
      /\ server \in [Cameras -> Requests \cup {"none"}]
  BY <1>0 DEF TypeOK
<1>a. /\ cam'[c].n = cam[c].n /\ cam'[c].freed = cam[c].freed
      /\ cam'[c].ref_count = cam[c].ref_count /\ cam'[c].cam_lock = cam[c].cam_lock
      /\ cam'[c].evt_rcvd = cam[c].evt_rcvd /\ cam'[c].evt_thread = cam[c].evt_thread
      /\ cam'[c].evt_poll = cam[c].evt_poll /\ cam'[c].sub = cam[c].sub
      /\ cam'[c].streams = cam[c].streams /\ cam'[c].ch_hdl = cam[c].ch_hdl
      /\ cam'[c].ch_lock = NoOne /\ cam'[c].ch_state = "STOPPED"
      /\ thr'[t].pc = "idle" /\ thr'[t].op = "none"
      /\ \A u \in Threads \ {t} : thr'[u] = thr[u]
      /\ thr[t].pc = "chan" /\ thr[t].op = "unmap" /\ t = Owner(c)
      /\ UNCHANGED <<g_intf_lock, cam_obj, server, events, hal>>
  BY <1>0, <1>1 DEF StopEnds, CameraObject, CameraInv, CallOf
<1>2. TypeOK'
  <2> DEFINE first == [cam EXCEPT ![c].ch_lock = NoOne]
  <2>a. first \in [Cameras -> CameraObject]
    BY <1>1, ObjectFields
  <2> HIDE DEF first
  <2>b. cam' = [first EXCEPT ![c].ch_state = "STOPPED"]
    BY DEF StopEnds, first
  <2>1. cam' \in [Cameras -> CameraObject]
    BY <2>a, <2>b DEF CameraObject
  <2>2. thr' \in [Threads -> ThreadState]
    BY <1>1 DEF StopEnds, ThreadState, Ops, ChannelOps
  <2> QED
    BY <1>0, <2>1, <2>2 DEF StopEnds, TypeOK
<1>3. OnlyIn(c)
  BY <1>0, <1>1 DEF StopEnds, OnlyIn, ThreadsOf
<1>4. \A u \in ThreadsOf(c) : CallOf(u)'
  BY <1>0, <1>a DEF CameraInv, CallOf, ThreadsOf, ChannelOps, Requests
<1>5. Locks(c)'
  BY <1>0, <1>a, ThreadFacts
     DEF CameraInv, CallOf, ThreadsOf, ChannelOps, Requests, Locks, HoldsCamera, HoldsChannel
<1>6. Objects(c)'
  BY <1>0, <1>a, ObjectsKept DEF CameraInv, HasCamera, Requests
<1>7. Channels(c)'
  BY <1>0, <1>a, ThreadFacts
     DEF CameraInv, CallOf, ThreadsOf, ChannelOps, Requests, Channels, Objects, Closing
<1>8. Joined(c)'
  BY <1>0, <1>a DEF CameraInv, Joined, Objects, Closing, ThreadsOf
<1>9. Answers(c)'
  BY <1>0, <1>1, <1>a DEF CameraInv, CallOf, Answers, ThreadsOf, CameraObject, Requests
<1> QED
  BY <1>2, <1>3, <1>4, <1>5, <1>6, <1>7, <1>8, <1>9, OneCamera DEF CameraInv

\* No thread but the owner is on a channel that is deleted.
LEMMA DeleteChannelStep ==
  ASSUME IInv, NEW t \in Threads, NEW c \in Cameras, c = CamOf(t), DeleteChannel(t)
  PROVE  IInv'
<1>0. /\ TypeOK /\ CameraInv(c)
      /\ t \in ThreadsOf(c) /\ Owner(c) \in ThreadsOf(c) /\ NoOne \notin Threads
  BY ThreadFacts DEF ThreadsOf, IInv
<1> USE DEF At, In, Goes, Returns, Idle
<1>1. cam \in [Cameras -> CameraObject] /\ thr \in [Threads -> ThreadState]
  BY <1>0 DEF TypeOK
<1>2. TypeOK'
  <2> DEFINE first == [cam EXCEPT ![c].ch_lock = NoOne]
  <2>a. first \in [Cameras -> CameraObject]
    BY <1>1 DEF DeleteChannel, CameraObject
  <2> HIDE DEF first
  <2>b. cam' = [first EXCEPT ![c].ch_state = IF @ = "STOPPED" THEN "NOTUSED" ELSE @]
    BY DEF DeleteChannel, first
  <2>1. cam' \in [Cameras -> CameraObject]
    BY <2>a, <2>b DEF CameraObject
  <2>2. thr' \in [Threads -> ThreadState]
    BY <1>1 DEF DeleteChannel, ThreadState
  <2> QED
    BY <1>0, <2>1, <2>2 DEF DeleteChannel, TypeOK
<1>3. OnlyIn(c)
  BY <1>0 DEF DeleteChannel, TypeOK, OnlyIn, ThreadsOf
<1>4. \A u \in ThreadsOf(c) : CallOf(u)'
  BY <1>0, ThreadFacts
     DEF DeleteChannel, TypeOK, ThreadState, CameraInv, CallOf, ThreadsOf, ChannelOps
<1>5. Locks(c)'
  BY <1>0, ThreadFacts
     DEF DeleteChannel, TypeOK, CameraObject, ThreadState, CameraInv, CallOf, ThreadsOf,
         ChannelOps, Locks, HoldsCamera, HoldsChannel
<1>6. Objects(c)'
  BY <1>0, ThreadFacts
     DEF DeleteChannel, TypeOK, CameraObject, ThreadState, CameraInv, CallOf, ThreadsOf,
         ChannelOps, Locks, HoldsCamera, HoldsChannel, Objects, Channels, Closing, HasCamera
<1>7. Channels(c)'
  BY <1>0, ThreadFacts
     DEF DeleteChannel, TypeOK, CameraObject, ThreadState, CameraInv, CallOf, ThreadsOf,
         ChannelOps, Channels, Objects, Closing, HasCamera
<1>8. Joined(c)'
  BY <1>0 DEF DeleteChannel, TypeOK, CameraObject, ThreadState, CameraInv, Joined, ThreadsOf
<1>9. Answers(c)'
  BY <1>0, ThreadFacts
     DEF DeleteChannel, TypeOK, CameraObject, ThreadState, CameraInv, CallOf, Answers,
         ThreadsOf
<1> QED
  BY <1>2, <1>3, <1>4, <1>5, <1>6, <1>7, <1>8, <1>9, OneCamera DEF CameraInv

\* Nor when it is wiped.
LEMMA WipeChannelStep ==
  ASSUME IInv, NEW t \in Threads, NEW c \in Cameras, c = CamOf(t), WipeChannel(t)
  PROVE  IInv'
<1>0. /\ TypeOK /\ CameraInv(c)
      /\ t \in ThreadsOf(c) /\ Owner(c) \in ThreadsOf(c) /\ NoOne \notin Threads
  BY ThreadFacts DEF ThreadsOf, IInv
<1> USE DEF At, In, Goes, Returns, Idle
<1>1. cam \in [Cameras -> CameraObject] /\ thr \in [Threads -> ThreadState]
  BY <1>0 DEF TypeOK
<1>a. /\ cam'[c].cam_lock = cam[c].cam_lock /\ cam'[c].ch_lock = NoOne
      /\ thr' = [thr EXCEPT ![t] = [pc |-> "idle", op |-> "none", obj |-> 0, ch |-> 0]]
      /\ thr[t].pc = "wipe" /\ g_intf_lock' = g_intf_lock
  BY <1>0, <1>1 DEF WipeChannel, CameraObject
<1>2. TypeOK'
  <2> DEFINE first  == [cam EXCEPT ![c].ch_lock = NoOne]
             second == [first EXCEPT ![c].ch_state = "NOTUSED"]
  <2>a. first \in [Cameras -> CameraObject]
    BY <1>1 DEF CameraObject
  <2> HIDE DEF first
  <2>b. second \in [Cameras -> CameraObject]
    BY <2>a DEF CameraObject
  <2> HIDE DEF second
  <2>c. cam' = [second EXCEPT ![c].ch_hdl = 0]
    BY DEF WipeChannel, first, second
  <2>1. cam' \in [Cameras -> CameraObject]
    BY <2>b, <2>c DEF CameraObject
  <2>2. thr' \in [Threads -> ThreadState]
    BY <1>1 DEF WipeChannel, ThreadState
  <2> QED
    BY <1>0, <2>1, <2>2 DEF WipeChannel, TypeOK
<1>3. OnlyIn(c)
  BY <1>0 DEF WipeChannel, TypeOK, OnlyIn, ThreadsOf
<1>4. \A u \in ThreadsOf(c) : CallOf(u)'
  BY <1>0, ThreadFacts
     DEF WipeChannel, TypeOK, ThreadState, CameraInv, CallOf, ThreadsOf, ChannelOps
<1>5. Locks(c)'
  <2>1. t = Owner(c) /\ thr[t].op = "delete"
    BY <1>0, <1>a DEF CameraInv, CallOf
  <2>2. \A u \in ThreadsOf(c) \ {t} : thr[u].op \in {"none", "camera", "qbuf"}
    BY <1>0, <2>1 DEF CameraInv, CallOf, ThreadsOf
  <2>3. cam[c].ch_lock = NoOne
    BY <1>0, <1>a, <2>1, <2>2
       DEF CameraInv, CallOf, Locks, HoldsChannel, ThreadsOf, ChannelOps, Requests
  <2>4. thr'[t].pc = "idle" /\ \A u \in ThreadsOf(c) \ {t} : thr'[u] = thr[u]
    BY <1>0, <1>a, <1>1 DEF ThreadsOf
  <2> QED
    BY <1>0, <1>a, <2>3, <2>4 DEF CameraInv, Locks, HoldsCamera, HoldsChannel, ThreadsOf
<1>6. Objects(c)'
  BY <1>0, ThreadFacts
     DEF WipeChannel, TypeOK, CameraObject, ThreadState, CameraInv, CallOf, ThreadsOf,
         ChannelOps, Locks, HoldsCamera, HoldsChannel, Objects, Channels, Closing, HasCamera
<1>7. Channels(c)'
  BY <1>0, ThreadFacts
     DEF WipeChannel, TypeOK, CameraObject, ThreadState, CameraInv, CallOf, ThreadsOf,
         ChannelOps, Channels, Objects, Closing, HasCamera
<1>8. Joined(c)'
  BY <1>0 DEF WipeChannel, TypeOK, CameraObject, ThreadState, CameraInv, Joined, ThreadsOf
<1>9. Answers(c)'
  BY <1>0, ThreadFacts
     DEF WipeChannel, TypeOK, CameraObject, ThreadState, CameraInv, CallOf, Answers,
         ThreadsOf
<1> QED
  BY <1>2, <1>3, <1>4, <1>5, <1>6, <1>7, <1>8, <1>9, OneCamera DEF CameraInv

\* A request is sent by the owner, who has no answer to take.
LEMMA SendMsgStep ==
  ASSUME IInv, NEW t \in Threads, NEW c \in Cameras, c = CamOf(t), SendMsg(t)
  PROVE  IInv'
<1>0. /\ TypeOK /\ CameraInv(c)
      /\ t \in ThreadsOf(c) /\ Owner(c) \in ThreadsOf(c) /\ NoOne \notin Threads
  BY ThreadFacts DEF ThreadsOf, IInv
<1> USE DEF At, In, Goes, Returns, Idle
<1>1. /\ cam \in [Cameras -> CameraObject] /\ thr \in [Threads -> ThreadState]
      /\ hal \in [Cameras -> [table : Nat, chan : Nat]] /\ cam_obj \in [Cameras -> Nat]
      /\ server \in [Cameras -> Requests \cup {"none"}]
  BY <1>0 DEF TypeOK
<1>a. /\ cam' = cam
      /\ thr'[t].pc = "answer" /\ thr'[t].op = thr[t].op
      /\ thr'[t].obj = thr[t].obj /\ thr'[t].ch = thr[t].ch
      /\ \A u \in Threads \ {t} : thr'[u] = thr[u]
      /\ t = Owner(c) /\ thr[t].op \in Requests
      /\ thr[t].pc = IF thr[t].op = "map" THEN "in" ELSE "chan"
      /\ server'[c] = thr[t].op
      /\ UNCHANGED <<g_intf_lock, cam_obj, events, hal>>
  BY <1>0, <1>1 DEF SendMsg, Request, Requests, ThreadState, CameraInv, CallOf
<1>2. TypeOK'
  <2>1. thr' \in [Threads -> ThreadState]
    BY <1>1 DEF SendMsg, ThreadState
  <2>2. server' \in [Cameras -> Requests \cup {"none"}]
    BY <1>1, <1>a DEF SendMsg, Request
  <2> QED
    BY <1>0, <1>a, <2>1, <2>2 DEF TypeOK
<1>3. OnlyIn(c)
  BY <1>0, <1>1 DEF SendMsg, OnlyIn, ThreadsOf
<1>4. \A u \in ThreadsOf(c) : CallOf(u)'
  BY <1>0, <1>a DEF CameraInv, CallOf, ThreadsOf, ChannelOps, Requests
<1>5. Locks(c)'
  BY <1>0, <1>a, ThreadFacts
     DEF CameraInv, CallOf, ThreadsOf, ChannelOps, Requests, Locks, HoldsCamera, HoldsChannel
<1>6. Objects(c)'
  BY <1>0, <1>a, ObjectsKept DEF CameraInv, HasCamera, Requests
<1>7. Channels(c)'
  BY <1>0, <1>a, ThreadFacts
     DEF CameraInv, CallOf, ThreadsOf, ChannelOps, Requests, Channels, Objects, Closing
<1>8. Joined(c)'
  BY <1>0, <1>a DEF CameraInv, Joined, Objects, Closing, ThreadsOf
<1>9. Answers(c)'
  BY <1>0, <1>1, <1>a DEF CameraInv, CallOf, Answers, ThreadsOf, CameraObject, Requests
<1> QED
  BY <1>2, <1>3, <1>4, <1>5, <1>6, <1>7, <1>8, <1>9, OneCamera DEF CameraInv

\* A message that is not sent is the end of a call.
LEMMA SendMsgFailsStep ==
  ASSUME IInv, NEW t \in Threads, NEW c \in Cameras, c = CamOf(t), SendMsgFails(t)
  PROVE  IInv'
<1>0. /\ TypeOK /\ CameraInv(c)
      /\ t \in ThreadsOf(c) /\ Owner(c) \in ThreadsOf(c) /\ NoOne \notin Threads
  BY ThreadFacts DEF ThreadsOf, IInv
<1> USE DEF At, In, Goes, Returns, Idle
<1>1. /\ cam \in [Cameras -> CameraObject] /\ thr \in [Threads -> ThreadState]
      /\ hal \in [Cameras -> [table : Nat, chan : Nat]] /\ cam_obj \in [Cameras -> Nat]
      /\ server \in [Cameras -> Requests \cup {"none"}]
  BY <1>0 DEF TypeOK
<1>a. /\ cam'[c].n = cam[c].n /\ cam'[c].freed = cam[c].freed
      /\ cam'[c].ref_count = cam[c].ref_count /\ cam'[c].evt_rcvd = cam[c].evt_rcvd
      /\ cam'[c].evt_thread = cam[c].evt_thread /\ cam'[c].evt_poll = cam[c].evt_poll
      /\ cam'[c].sub = cam[c].sub /\ cam'[c].streams = cam[c].streams
      /\ cam'[c].ch_state = cam[c].ch_state /\ cam'[c].ch_hdl = cam[c].ch_hdl
      /\ thr'[t].pc = "idle" /\ thr'[t].op = "none"
      /\ \A u \in Threads \ {t} : thr'[u] = thr[u]
      /\ t = Owner(c) /\ thr[t].op \in {"map", "map_stream"}
      /\ thr[t].pc = IF thr[t].op = "map" THEN "in" ELSE "chan"
      /\ cam'[c].cam_lock = IF thr[t].op = "map" THEN NoOne ELSE cam[c].cam_lock
      /\ cam'[c].ch_lock = IF thr[t].op = "map" THEN cam[c].ch_lock ELSE NoOne
      /\ UNCHANGED <<g_intf_lock, cam_obj, server, events, hal>>
  BY <1>0, <1>1 DEF SendMsgFails, HeldWhileMapping, CameraObject, CameraInv, CallOf
<1>2. TypeOK'
  <2>1. cam' \in [Cameras -> CameraObject]
    <3>1. CASE thr[t].op = "map"
      <4>1. cam' = [cam EXCEPT ![c].cam_lock = NoOne]
        BY <3>1 DEF SendMsgFails, HeldWhileMapping
      <4> QED
        BY <1>1, <4>1, ObjectFields
    <3>2. CASE thr[t].op # "map"
      <4>1. cam' = [cam EXCEPT ![c].ch_lock = NoOne]
        BY <3>2 DEF SendMsgFails, HeldWhileMapping
      <4> QED
        BY <1>1, <4>1, ObjectFields
    <3> QED
      BY <3>1, <3>2
  <2>2. thr' \in [Threads -> ThreadState]
    BY <1>1 DEF SendMsgFails, ThreadState, Ops, ChannelOps
  <2> QED
    BY <1>0, <1>1, <2>1, <2>2 DEF SendMsgFails, TypeOK
<1>3. OnlyIn(c)
  BY <1>0, <1>1 DEF SendMsgFails, OnlyIn, ThreadsOf
<1>4. \A u \in ThreadsOf(c) : CallOf(u)'
  BY <1>0, <1>a DEF CameraInv, CallOf, ThreadsOf, ChannelOps, Requests
<1>5. Locks(c)'
  BY <1>0, <1>a, ThreadFacts
     DEF CameraInv, CallOf, ThreadsOf, ChannelOps, Requests, Locks, HoldsCamera, HoldsChannel
<1>6. Objects(c)'
  BY <1>0, <1>a, ObjectsKept DEF CameraInv, HasCamera, Requests
<1>7. Channels(c)'
  BY <1>0, <1>a, ThreadFacts
     DEF CameraInv, CallOf, ThreadsOf, ChannelOps, Requests, Channels, Objects, Closing
<1>8. Joined(c)'
  BY <1>0, <1>a DEF CameraInv, Joined, Objects, Closing, ThreadsOf
<1>9. Answers(c)'
  BY <1>0, <1>1, <1>a DEF CameraInv, CallOf, Answers, ThreadsOf, CameraObject, Requests
<1> QED
  BY <1>2, <1>3, <1>4, <1>5, <1>6, <1>7, <1>8, <1>9, OneCamera DEF CameraInv

\* The answer is taken, and the call ends,
LEMMA AnsweredCallStep ==
  ASSUME IInv, NEW t \in Threads, NEW c \in Cameras, c = CamOf(t), WaitForEvent(t),
         thr[t].op \in {"map", "map_stream"}
  PROVE  IInv'
<1>0. /\ TypeOK /\ CameraInv(c)
      /\ t \in ThreadsOf(c) /\ Owner(c) \in ThreadsOf(c) /\ NoOne \notin Threads
  BY ThreadFacts DEF ThreadsOf, IInv
<1> USE DEF At, In, Goes, Returns, Idle
<1>1. /\ cam \in [Cameras -> CameraObject] /\ thr \in [Threads -> ThreadState]
      /\ hal \in [Cameras -> [table : Nat, chan : Nat]] /\ cam_obj \in [Cameras -> Nat]
      /\ server \in [Cameras -> Requests \cup {"none"}]
  BY <1>0 DEF TypeOK
<1>a. /\ cam'[c].n = cam[c].n /\ cam'[c].freed = cam[c].freed
      /\ cam'[c].ref_count = cam[c].ref_count /\ cam'[c].evt_thread = cam[c].evt_thread
      /\ cam'[c].evt_poll = cam[c].evt_poll /\ cam'[c].sub = cam[c].sub
      /\ cam'[c].streams = cam[c].streams /\ cam'[c].ch_state = cam[c].ch_state
      /\ cam'[c].ch_hdl = cam[c].ch_hdl
      /\ thr'[t].pc = "idle" /\ thr'[t].op = "none"
      /\ \A u \in Threads \ {t} : thr'[u] = thr[u]
      /\ t = Owner(c) /\ thr[t].pc = "answer"
      /\ cam[c].evt_rcvd # "none" /\ cam'[c].evt_rcvd = "none"
      /\ cam'[c].cam_lock = IF thr[t].op = "map" THEN NoOne ELSE cam[c].cam_lock
      /\ cam'[c].ch_lock = IF thr[t].op = "map" THEN cam[c].ch_lock ELSE NoOne
      /\ UNCHANGED <<g_intf_lock, cam_obj, server, events, hal>>
  BY <1>0, <1>1
     DEF WaitForEvent, Answered, HeldWhileMapping, CameraObject, CameraInv, CallOf, Requests
<1>2. TypeOK'
  <2>1. cam' \in [Cameras -> CameraObject]
    <3> DEFINE ofCam  == [cam[c] EXCEPT !.cam_lock = NoOne]
               ofChan == [cam[c] EXCEPT !.ch_lock = NoOne]
    <3>1. ofCam \in CameraObject /\ ofChan \in CameraObject
      BY <1>1, ObjectFields
    <3>2. CASE thr[t].op = "map"
      <4>1. cam' = [cam EXCEPT ![c] = [ofCam EXCEPT !.evt_rcvd = "none"]]
        BY <3>2 DEF WaitForEvent, Answered, HeldWhileMapping
      <4> HIDE DEF ofCam
      <4> QED
        BY <1>1, <3>1, <4>1, ObjectFields
    <3>3. CASE thr[t].op = "map_stream"
      <4>1. cam' = [cam EXCEPT ![c] = [ofChan EXCEPT !.evt_rcvd = "none"]]
        BY <3>3 DEF WaitForEvent, Answered, HeldWhileMapping
      <4> HIDE DEF ofChan
      <4> QED
        BY <1>1, <3>1, <4>1, ObjectFields
    <3> QED
      BY <3>2, <3>3
  <2>2. thr' \in [Threads -> ThreadState]
    BY <1>1 DEF WaitForEvent, Answered, ThreadState, Ops, ChannelOps
  <2> QED
    BY <1>0, <2>1, <2>2 DEF WaitForEvent, Answered, TypeOK
<1>3. OnlyIn(c)
  BY <1>0, <1>1 DEF WaitForEvent, Answered, OnlyIn, ThreadsOf
<1>4. \A u \in ThreadsOf(c) : CallOf(u)'
  BY <1>0, <1>a DEF CameraInv, CallOf, ThreadsOf, ChannelOps, Requests
<1>5. Locks(c)'
  BY <1>0, <1>a, ThreadFacts
     DEF CameraInv, CallOf, ThreadsOf, ChannelOps, Requests, Locks, HoldsCamera, HoldsChannel
<1>6. Objects(c)'
  BY <1>0, <1>a, ObjectsKept DEF CameraInv, HasCamera, Requests
<1>7. Channels(c)'
  BY <1>0, <1>a, ThreadFacts
     DEF CameraInv, CallOf, ThreadsOf, ChannelOps, Requests, Channels, Objects, Closing
<1>8. Joined(c)'
  BY <1>0, <1>a DEF CameraInv, Joined, Objects, Closing, ThreadsOf
<1>9. Answers(c)'
  BY <1>0, <1>1, <1>a DEF CameraInv, CallOf, Answers, ThreadsOf, CameraObject, Requests
<1> QED
  BY <1>2, <1>3, <1>4, <1>5, <1>6, <1>7, <1>8, <1>9, OneCamera DEF CameraInv

\* or the start or stop of the channel goes on.
LEMMA AnsweredPartStep ==
  ASSUME IInv, NEW t \in Threads, NEW c \in Cameras, c = CamOf(t), WaitForEvent(t),
         thr[t].op \in {"start", "unmap"}
  PROVE  IInv'
<1>0. /\ TypeOK /\ CameraInv(c)
      /\ t \in ThreadsOf(c) /\ Owner(c) \in ThreadsOf(c) /\ NoOne \notin Threads
  BY ThreadFacts DEF ThreadsOf, IInv
<1> USE DEF At, In, Goes, Returns, Idle
<1>1. /\ cam \in [Cameras -> CameraObject] /\ thr \in [Threads -> ThreadState]
      /\ hal \in [Cameras -> [table : Nat, chan : Nat]] /\ cam_obj \in [Cameras -> Nat]
      /\ server \in [Cameras -> Requests \cup {"none"}]
  BY <1>0 DEF TypeOK
<1>a. /\ cam'[c].n = cam[c].n /\ cam'[c].freed = cam[c].freed
      /\ cam'[c].ref_count = cam[c].ref_count /\ cam'[c].cam_lock = cam[c].cam_lock
      /\ cam'[c].evt_thread = cam[c].evt_thread /\ cam'[c].evt_poll = cam[c].evt_poll
      /\ cam'[c].sub = cam[c].sub /\ cam'[c].streams = cam[c].streams
      /\ cam'[c].ch_state = cam[c].ch_state /\ cam'[c].ch_hdl = cam[c].ch_hdl
      /\ cam'[c].ch_lock = cam[c].ch_lock
      /\ thr'[t].pc = "chan" /\ thr'[t].op = thr[t].op
      /\ thr'[t].obj = thr[t].obj /\ thr'[t].ch = thr[t].ch
      /\ \A u \in Threads \ {t} : thr'[u] = thr[u]
      /\ t = Owner(c) /\ thr[t].pc = "answer"
      /\ cam[c].evt_rcvd # "none" /\ cam'[c].evt_rcvd = "none"
      /\ UNCHANGED <<g_intf_lock, cam_obj, server, events, hal>>
  BY <1>0, <1>1 DEF WaitForEvent, Answered, CameraObject, ThreadState, CameraInv, CallOf, Requests
<1>2. TypeOK'
  <2>1. cam' \in [Cameras -> CameraObject]
    <3>1. cam' = [cam EXCEPT ![c].evt_rcvd = "none"]
      BY DEF WaitForEvent, Answered
    <3> QED
      BY <1>1, <3>1, ObjectFields
  <2>2. thr' \in [Threads -> ThreadState]
    <3>1. thr' = [thr EXCEPT ![t].pc = "chan"]
      BY DEF WaitForEvent, Answered
    <3> QED
      BY <1>1, <3>1 DEF ThreadState
  <2> QED
    BY <1>0, <1>1, <2>1, <2>2 DEF WaitForEvent, Answered, TypeOK
<1>3. OnlyIn(c)
  BY <1>0, <1>1 DEF WaitForEvent, Answered, OnlyIn, ThreadsOf
<1>4. \A u \in ThreadsOf(c) : CallOf(u)'
  BY <1>0, <1>a DEF CameraInv, CallOf, ThreadsOf, ChannelOps, Requests
<1>5. Locks(c)'
  BY <1>0, <1>a, ThreadFacts
     DEF CameraInv, CallOf, ThreadsOf, ChannelOps, Requests, Locks, HoldsCamera, HoldsChannel
<1>6. Objects(c)'
  BY <1>0, <1>a, ObjectsKept DEF CameraInv, HasCamera, Requests
<1>7. Channels(c)'
  BY <1>0, <1>a, ThreadFacts
     DEF CameraInv, CallOf, ThreadsOf, ChannelOps, Requests, Channels, Objects, Closing
<1>8. Joined(c)'
  BY <1>0, <1>a DEF CameraInv, Joined, Objects, Closing, ThreadsOf
<1>9. Answers(c)'
  BY <1>0, <1>1, <1>a DEF CameraInv, CallOf, Answers, ThreadsOf, CameraObject, Requests
<1> QED
  BY <1>2, <1>3, <1>4, <1>5, <1>6, <1>7, <1>8, <1>9, OneCamera DEF CameraInv

\* The poll thread that took a subscription is joined under cam_lock,
LEMMA CloseEventsStep ==
  ASSUME IInv, NEW t \in Threads, NEW c \in Cameras, c = CamOf(t), CloseEvents(t)
  PROVE  IInv'
<1>0. /\ TypeOK /\ CameraInv(c)
      /\ t \in ThreadsOf(c) /\ Owner(c) \in ThreadsOf(c) /\ NoOne \notin Threads
  BY ThreadFacts DEF ThreadsOf, IInv
<1> USE DEF At, In, Goes, Returns, Idle
<1>1. cam \in [Cameras -> CameraObject] /\ thr \in [Threads -> ThreadState]
  BY <1>0 DEF TypeOK
<1>2. TypeOK'
  <2>1. cam' \in [Cameras -> CameraObject]
    BY <1>1 DEF CloseEvents, CameraObject
  <2>2. thr' \in [Threads -> ThreadState]
    BY <1>1 DEF CloseEvents, ThreadState
  <2> QED
    BY <1>0, <2>1, <2>2 DEF CloseEvents, TypeOK
<1>3. OnlyIn(c)
  BY <1>0 DEF CloseEvents, TypeOK, OnlyIn, ThreadsOf
<1>4. \A u \in ThreadsOf(c) : CallOf(u)'
  BY <1>0, ThreadFacts
     DEF CloseEvents, TypeOK, ThreadState, CameraInv, CallOf, ThreadsOf, ChannelOps
<1>5. Locks(c)'
  BY <1>0, ThreadFacts
     DEF CloseEvents, TypeOK, CameraObject, ThreadState, CameraInv, CallOf, ThreadsOf,
         ChannelOps, Locks, HoldsCamera, HoldsChannel
<1>6. Objects(c)'
  BY <1>0, ThreadFacts
     DEF CloseEvents, TypeOK, CameraObject, ThreadState, CameraInv, CallOf, ThreadsOf,
         ChannelOps, Locks, HoldsCamera, HoldsChannel, Objects, Channels, Closing, HasCamera
<1>7. Channels(c)'
  BY <1>0, ThreadFacts
     DEF CloseEvents, TypeOK, CameraObject, ThreadState, CameraInv, CallOf, ThreadsOf,
         ChannelOps, Channels, Objects, Closing, HasCamera
<1>8. Joined(c)'
  BY <1>0 DEF CloseEvents, TypeOK, CameraObject, ThreadState, CameraInv, Joined, ThreadsOf
<1>9. Answers(c)'
  BY <1>0, ThreadFacts
     DEF CloseEvents, TypeOK, CameraObject, ThreadState, CameraInv, CallOf, Answers,
         ThreadsOf
<1> QED
  BY <1>2, <1>3, <1>4, <1>5, <1>6, <1>7, <1>8, <1>9, OneCamera DEF CameraInv

\* then the event thread,
LEMMA JoinEventsStep ==
  ASSUME IInv, NEW t \in Threads, NEW c \in Cameras, c = CamOf(t), JoinEvents(t)
  PROVE  IInv'
<1>0. /\ TypeOK /\ CameraInv(c)
      /\ t \in ThreadsOf(c) /\ Owner(c) \in ThreadsOf(c) /\ NoOne \notin Threads
  BY ThreadFacts DEF ThreadsOf, IInv
<1> USE DEF At, In, Goes, Returns, Idle
<1>1. cam \in [Cameras -> CameraObject] /\ thr \in [Threads -> ThreadState]
  BY <1>0 DEF TypeOK
<1>2. TypeOK'
  <2>1. cam' \in [Cameras -> CameraObject]
    BY <1>1 DEF JoinEvents, CameraObject
  <2>2. thr' \in [Threads -> ThreadState]
    BY <1>1 DEF JoinEvents, ThreadState
  <2> QED
    BY <1>0, <2>1, <2>2 DEF JoinEvents, TypeOK
<1>3. OnlyIn(c)
  BY <1>0 DEF JoinEvents, TypeOK, OnlyIn, ThreadsOf
<1>4. \A u \in ThreadsOf(c) : CallOf(u)'
  BY <1>0, ThreadFacts
     DEF JoinEvents, TypeOK, ThreadState, CameraInv, CallOf, ThreadsOf, ChannelOps
<1>5. Locks(c)'
  BY <1>0, ThreadFacts
     DEF JoinEvents, TypeOK, CameraObject, ThreadState, CameraInv, CallOf, ThreadsOf,
         ChannelOps, Locks, HoldsCamera, HoldsChannel
<1>6. Objects(c)'
  BY <1>0, ThreadFacts
     DEF JoinEvents, TypeOK, CameraObject, ThreadState, CameraInv, CallOf, ThreadsOf,
         ChannelOps, Locks, HoldsCamera, HoldsChannel, Objects, Channels, Closing, HasCamera
<1>7. Channels(c)'
  BY <1>0, ThreadFacts
     DEF JoinEvents, TypeOK, CameraObject, ThreadState, CameraInv, CallOf, ThreadsOf,
         ChannelOps, Channels, Objects, Closing, HasCamera
<1>8. Joined(c)'
  BY <1>0 DEF JoinEvents, TypeOK, CameraObject, ThreadState, CameraInv, Joined, ThreadsOf
<1>9. Answers(c)'
  BY <1>0, ThreadFacts
     DEF JoinEvents, TypeOK, CameraObject, ThreadState, CameraInv, CallOf, Answers,
         ThreadsOf
<1> QED
  BY <1>2, <1>3, <1>4, <1>5, <1>6, <1>7, <1>8, <1>9, OneCamera DEF CameraInv

\* and no thread is left on the camera when it is freed.
LEMMA FreeCameraStep ==
  ASSUME IInv, NEW t \in Threads, NEW c \in Cameras, c = CamOf(t), FreeCamera(t)
  PROVE  IInv'
<1>0. /\ TypeOK /\ CameraInv(c)
      /\ t \in ThreadsOf(c) /\ Owner(c) \in ThreadsOf(c) /\ NoOne \notin Threads
  BY ThreadFacts DEF ThreadsOf, IInv
<1> USE DEF At, In, Goes, Returns, Idle
<1>1. cam \in [Cameras -> CameraObject] /\ thr \in [Threads -> ThreadState]
  BY <1>0 DEF TypeOK
<1>2. TypeOK'
  <2> DEFINE first == [cam EXCEPT ![c].cam_lock = NoOne]
  <2>a. first \in [Cameras -> CameraObject]
    BY <1>1 DEF CameraObject
  <2> HIDE DEF first
  <2>b. [first[c] EXCEPT !.freed = TRUE] \in CameraObject
    BY <2>a, ObjectFields
  <2>c. cam' = [first EXCEPT ![c] = [first[c] EXCEPT !.freed = TRUE]]
    BY DEF FreeCamera, first
  <2>1. cam' \in [Cameras -> CameraObject]
    BY <2>a, <2>b, <2>c
  <2>2. thr' \in [Threads -> ThreadState]
    BY <1>1 DEF FreeCamera, ThreadState
  <2> QED
    BY <1>0, <2>1, <2>2 DEF FreeCamera, TypeOK
<1>3. OnlyIn(c)
  BY <1>0 DEF FreeCamera, TypeOK, OnlyIn, ThreadsOf
<1>4. \A u \in ThreadsOf(c) : CallOf(u)'
  <2>1. /\ t = Owner(c) /\ thr'[t].pc = "idle" /\ thr'[t].op = "none"
        /\ \A u \in Threads \ {t} : thr'[u] = thr[u]
    BY <1>0, <1>1 DEF FreeCamera, CameraInv, CallOf
  <2> QED
    BY <1>0, <2>1 DEF CameraInv, CallOf, ThreadsOf
<1>5. Locks(c)'
  BY <1>0, ThreadFacts
     DEF FreeCamera, TypeOK, CameraObject, ThreadState, CameraInv, CallOf, ThreadsOf,
         ChannelOps, Locks, HoldsCamera, HoldsChannel
<1>6. Objects(c)'
  <2>1. /\ t = Owner(c) /\ thr[t].pc = "free" /\ thr[t].op = "close"
        /\ thr'[t].pc = "idle" /\ thr'[t].op = "none"
        /\ \A u \in Threads \ {t} : thr'[u] = thr[u]
        /\ hal'[c].table = 0 /\ UNCHANGED cam_obj
    BY <1>0, <1>1 DEF FreeCamera, TypeOK, CameraInv, CallOf
  <2>4. cam'[c].freed
    <3>1. cam' = [cam EXCEPT ![c].cam_lock = NoOne, ![c].freed = TRUE]
      BY <1>0 DEF FreeCamera
    <3>2. cam'[c] = [cam[c] EXCEPT !.cam_lock = NoOne, !.freed = TRUE]
      BY <1>1, <3>1
    <3>3. \A b \in BOOLEAN : [cam[c] EXCEPT !.cam_lock = NoOne, !.freed = b].freed = b
      BY <1>1 DEF CameraObject
    <3> QED
      BY <3>2, <3>3
  <2>2. cam_obj[c] = 0 /\ cam[c].ch_hdl = 0 /\ ~cam[c].streams /\ cam[c].cam_lock = t
    BY <1>0, <2>1
       DEF CameraInv, Objects, Closing, Channels, Locks, HoldsCamera
  <2>3. \A u \in ThreadsOf(c) \ {t} : thr[u].pc \in {"idle", "intf"}
    <3> SUFFICES ASSUME NEW u \in ThreadsOf(c) \ {t} PROVE thr[u].pc \in {"idle", "intf"}
      OBVIOUS
    <3>1. thr[u].op \in {"none", "camera"}
      BY <1>0, <2>1, <2>2 DEF CameraInv, CallOf, Channels, ThreadsOf
    <3>2. ~HoldsCamera(u) /\ thr[u].pc # "cam"
      BY <1>0, <2>1, <2>2, <3>1 DEF CameraInv, Locks, Objects
    <3> QED
      BY <1>0, <1>1, <3>1, <3>2
         DEF ThreadState, HoldsCamera, CameraInv, CallOf, ThreadsOf, ChannelOps, Requests
  <2> QED
    BY <1>0, <2>1, <2>2, <2>3, <2>4 DEF Objects, Closing, HasCamera, ThreadsOf
<1>7. Channels(c)'
  BY <1>0, ThreadFacts
     DEF FreeCamera, TypeOK, CameraObject, ThreadState, CameraInv, CallOf, ThreadsOf,
         ChannelOps, Channels, Objects, Closing, HasCamera
<1>8. Joined(c)'
  <2>1. t = Owner(c) /\ thr[t].pc = "free" /\ thr'[t].pc = "idle"
    BY <1>0, <1>1 DEF FreeCamera, CameraInv, CallOf
  <2>2. /\ cam'[c].sub = cam[c].sub /\ cam'[c].evt_poll = cam[c].evt_poll
        /\ cam'[c].evt_thread = cam[c].evt_thread
    BY <1>0, <1>1 DEF FreeCamera, CameraObject
  <2> QED
    BY <1>0, <2>1, <2>2 DEF CameraInv, Joined
<1>9. Answers(c)'
  BY <1>0, ThreadFacts
     DEF FreeCamera, TypeOK, CameraObject, ThreadState, CameraInv, CallOf, Answers,
         ThreadsOf
<1> QED
  BY <1>2, <1>3, <1>4, <1>5, <1>6, <1>7, <1>8, <1>9, OneCamera DEF CameraInv

\* A call begins with the handles that are there, and rules out the calls that
\* would take them away.
LEMMA CallStep ==
  ASSUME IInv, NEW t \in Threads, NEW c \in Cameras, c = CamOf(t), NEW op \in Ops, Call(t, op)
  PROVE  IInv'
<1>0. /\ TypeOK /\ CameraInv(c)
      /\ t \in ThreadsOf(c) /\ Owner(c) \in ThreadsOf(c) /\ NoOne \notin Threads
  BY ThreadFacts DEF ThreadsOf, IInv
<1> USE DEF At, In
<1>1. /\ cam \in [Cameras -> CameraObject] /\ thr \in [Threads -> ThreadState]
      /\ hal \in [Cameras -> [table : Nat, chan : Nat]] /\ cam_obj \in [Cameras -> Nat]
  BY <1>0 DEF TypeOK
<1>2. /\ thr[t].pc = "idle" /\ thr[t].op = "none"
      /\ thr'[t] = [pc |-> "intf", op |-> op, obj |-> hal[c].table, ch |-> hal[c].chan]
      /\ \A u \in Threads \ {t} : thr'[u] = thr[u]
      /\ UNCHANGED <<g_intf_lock, cam_obj, cam, server, events, hal>>
  BY <1>0, <1>1 DEF Call, CameraInv, CallOf
<1>3. /\ op \notin {"none", "unmap"}
      /\ op # "open" => hal[c].table # 0
      /\ t # Owner(c) => op \in {"camera", "qbuf"}
      /\ t = Owner(c) => op # "qbuf"
      /\ t = Callback(c) => op = "qbuf" /\ hal[c].chan # 0 /\ cam[c].streams
      /\ t = Other(c) /\ op = "qbuf" =>
           hal[c].chan # 0 /\ thr[Owner(c)].op \notin {"delete", "close"}
      /\ op = "add_channel" => hal[c].chan = 0
      /\ op \in ChannelOps => hal[c].chan # 0
      /\ op = "delete" => cam[c].ch_state = "STOPPED"
      /\ op = "close" => hal[c].chan = 0
      /\ op \in {"delete", "close"} => ~\E u \in Threads : u = Other(c) /\ thr[u].op = "qbuf"
  <2>1. MayCall(t, op)
    BY DEF Call
  <2>2. t[2] \in {"owner", "other", "callback"}
    BY ThreadFacts
  <2>3. CASE t[2] = "owner"
    <3>1. t = Owner(c) /\ t # Other(c) /\ t # Callback(c)
      BY <2>3, ThreadFacts
    <3> QED
      BY <2>1, <2>3, <3>1 DEF MayCall, Returning, ChannelOps, Other
  <2>4. CASE t[2] = "other"
    <3>1. t = Other(c) /\ t # Owner(c) /\ t # Callback(c)
      BY <2>4, ThreadFacts
    <3> QED
      BY <2>1, <2>4, <3>1 DEF MayCall, ChannelOps, Owner
  <2>5. CASE t[2] = "callback"
    <3>1. t = Callback(c) /\ t # Owner(c) /\ t # Other(c)
      BY <2>5, ThreadFacts
    <3>2. hal[c].table # 0
      BY <2>1, <2>5, <1>0 DEF MayCall, CameraInv, Objects, Channels
    <3> QED
      BY <2>1, <2>5, <3>1, <3>2 DEF MayCall, ChannelOps
  <2> QED
    BY <2>2, <2>3, <2>4, <2>5
<1>4. TypeOK'
  <2>1. thr' \in [Threads -> ThreadState]
    BY <1>1 DEF Call, ThreadState
  <2> QED
    BY <1>0, <1>2, <2>1 DEF TypeOK
<1>5. OnlyIn(c)
  BY <1>0, <1>2 DEF OnlyIn
<1>6. \A u \in ThreadsOf(c) : CallOf(u)'
  BY <1>0, <1>2, <1>3 DEF CameraInv, CallOf, ThreadsOf, ChannelOps
<1>7. Locks(c)'
  BY <1>0, <1>2 DEF CameraInv, Locks, HoldsCamera, HoldsChannel, ThreadsOf
<1>8. Objects(c)'
  BY <1>0, <1>2 DEF CameraInv, Objects, Closing, HasCamera, ThreadsOf
<1>9. Channels(c)'
  BY <1>0, <1>2, <1>3, ThreadFacts DEF CameraInv, Channels, ThreadsOf, ChannelOps
<1>10. Joined(c)' /\ Answers(c)'
  BY <1>0, <1>2 DEF CameraInv, Joined, Answers, ThreadsOf
<1> QED
  BY <1>4, <1>5, <1>6, <1>7, <1>8, <1>9, <1>10, OneCamera DEF CameraInv

-----------------------------------------------------------------------------
(* The invariant                                                             *)

\* At the start there is no camera and no call.
LEMMA Start == Init => IInv
<1> SUFFICES ASSUME Init PROVE IInv
  OBVIOUS
<1>1. NoObject \in CameraObject /\ Idle \in ThreadState
  BY DEF NoObject, CameraObject, Idle, ThreadState
<1>2. TypeOK
  BY <1>1, CameraInterfaceAssumption DEF Init, TypeOK
<1>3. ASSUME NEW c \in Cameras PROVE CameraInv(c)
  <2>1. Owner(c) \in ThreadsOf(c) /\ \A u \in ThreadsOf(c) : u # NoOne
    BY ThreadFacts DEF ThreadsOf
  <2>2. /\ cam[c] = NoObject /\ cam_obj[c] = 0 /\ server[c] = "none"
        /\ hal[c] = [table |-> 0, chan |-> 0] /\ g_intf_lock = NoOne
        /\ \A u \in ThreadsOf(c) : thr[u] = Idle
    BY DEF Init, ThreadsOf
  <2>3. \A u \in ThreadsOf(c) : CallOf(u)
    BY <2>2 DEF CallOf, Idle, At, In
  <2>4. Locks(c)
    BY <2>1, <2>2 DEF Locks, HoldsCamera, HoldsChannel, Idle, NoObject, At, In
  <2>5. Objects(c)
    BY <2>1, <2>2 DEF Objects, Closing, HasCamera, Idle, NoObject, At, In
  <2>6. Channels(c)
    BY <2>1, <2>2 DEF Channels, ChannelOps, Idle, NoObject, At, In
  <2>7. Joined(c) /\ Answers(c)
    BY <2>1, <2>2 DEF Joined, Answers, Idle, NoObject, At, In
  <2> QED
    BY <2>3, <2>4, <2>5, <2>6, <2>7 DEF CameraInv
<1> QED
  BY <1>2, <1>3 DEF IInv

\* Every step keeps it.
LEMMA Step == IInv /\ [Next]_vars => IInv'
<1> SUFFICES ASSUME IInv, [Next]_vars PROVE IInv'
  OBVIOUS
<1>1. ASSUME NEW t \in Threads, Continue(t) PROVE IInv'
  <2> DEFINE c == CamOf(t)
  <2>1. c \in Cameras
    BY ThreadFacts
  <2>2. CASE \/ Open(t) \/ Subscribe(t) \/ Lookup(t) \/ CloseReference(t) \/ CloseLast(t)
             \/ LockCamera(t)
    BY <2>1, <2>2, OpenStep, SubscribeStep, LookupStep, CloseReferenceStep, CloseLastStep,
       LockCameraStep
  <2>3. CASE UnderCamLock(t)
    BY <2>1, <2>3, CameraOpStep, RegisterStep, AddChannelStep, FindForBufStep, QueueBufStep
       DEF UnderCamLock
  <2>4. CASE UnderChLock(t)
    BY <2>1, <2>4, FindChannelStep, LockChannelStep, ChannelOpStep, StreamOnStep,
       StartEndsStep, StartFailsStep, StopStreamsStep, StopEndsStep, DeleteChannelStep,
       WipeChannelStep DEF UnderChLock
  <2>5. CASE Mapping(t)
    <3>1. WaitForEvent(t) => thr[t].op \in {"map", "map_stream"} \cup {"start", "unmap"}
      BY DEF WaitForEvent, Answered
    <3> QED
      BY <2>1, <2>5, <3>1, SendMsgStep, SendMsgFailsStep, AnsweredCallStep, AnsweredPartStep
         DEF Mapping
  <2>6. CASE Close(t)
    BY <2>1, <2>6, CloseEventsStep, JoinEventsStep, FreeCameraStep DEF Close
  <2> QED
    BY <1>1, <2>2, <2>3, <2>4, <2>5, <2>6 DEF Continue
<1>2. ASSUME NEW t \in Threads, NEW op \in Ops, Call(t, op) PROVE IInv'
  BY <1>2, CallStep, ThreadFacts
<1>3. ASSUME NEW c \in Cameras, Event(c) \/ QueueEvent(c) PROVE IInv'
  BY <1>3, PollEntersStep, MapDoneStep, DispatchStep, CallbackEndsStep, QueueEventStep DEF Event
<1>4. CASE UNCHANGED vars
  <2>1. TypeOK'
    BY <1>4 DEF vars, IInv, TypeOK
  <2>2. ASSUME NEW c \in Cameras PROVE CameraInv(c)'
    BY <1>4, Elsewhere DEF vars, IInv
  <2> QED
    BY <2>1, <2>2 DEF IInv
<1> QED
  BY <1>1, <1>2, <1>3, <1>4 DEF Next

\* So it always holds.
LEMMA Invariance == Spec => []IInv
<1> QED
  BY Start, Step, PTL DEF Spec

\* Every variable keeps its type: no camera is closed more often than it was
\* opened (mm_camera_intf_open() and mm_camera_intf_close()).
THEOREM TypeCorrect == Spec => []TypeOK
<1>1. IInv => TypeOK
  BY DEF IInv
<1> QED
  BY <1>1, Invariance, PTL

\* No thread works on a camera that was freed or on a channel that was wiped,
\* whatever the other threads call in the meantime; the event thread has been
\* joined when a camera is freed, and the poll thread if it took a subscription.
THEOREM ObjectsStay == Spec => []NobodyUsesAFreedObject
<1>1. ASSUME IInv PROVE NobodyUsesAFreedObject
  <2>1. ASSUME NEW t \in Threads
        PROVE  /\ thr[t].pc \in HasCamera =>
                    ~cam[CamOf(t)].freed /\ cam[CamOf(t)].n = thr[t].obj
               /\ thr[t].pc \in HasChannel \/ (At(t, "answer") /\ ~In(t, "map")) =>
                    cam[CamOf(t)].ch_hdl = thr[t].ch
    <3>1. CamOf(t) \in Cameras /\ t \in ThreadsOf(CamOf(t))
      BY ThreadFacts DEF ThreadsOf
    <3>2. CallOf(t) /\ Objects(CamOf(t)) /\ Channels(CamOf(t))
      BY <1>1, <3>1 DEF IInv, CameraInv
    <3> QED
      BY <3>1, <3>2 DEF CallOf, Objects, Channels, HasChannel, ChannelOps, Requests, At, In
  <2>2. \A c \in Cameras : cam[c].freed =>
          cam[c].evt_thread = "gone" /\ (cam[c].sub => cam[c].evt_poll = "gone")
    BY <1>1 DEF IInv, CameraInv, Joined
  <2> QED
    BY <2>1, <2>2 DEF NobodyUsesAFreedObject
<1> QED
  BY <1>1, Invariance, PTL

\* The answer that a mapping takes is the one to its own request, also among the
\* many that the start or stop of a channel makes.
THEOREM AnswersMatch == Spec => []AnswerIsForThisRequest
<1>1. ASSUME IInv PROVE AnswerIsForThisRequest
  <2> SUFFICES ASSUME NEW t \in Threads, At(t, "answer")
               PROVE  \/ server[CamOf(t)] = Request(t) /\ cam[CamOf(t)].evt_rcvd = "none"
                      \/ server[CamOf(t)] = "none" /\ cam[CamOf(t)].evt_rcvd = Request(t)
    BY DEF AnswerIsForThisRequest
  <2>1. CamOf(t) \in Cameras /\ t \in ThreadsOf(CamOf(t))
    BY ThreadFacts DEF ThreadsOf
  <2>2. CallOf(t) /\ Answers(CamOf(t))
    BY <1>1, <2>1 DEF IInv, CameraInv
  <2> QED
    BY <2>2 DEF CallOf, Answers, Request, Requests, At, In
<1> QED
  BY <1>1, Invariance, PTL

\* Among any threads there is one that waits for none of them: the three locks
\* are taken in one order, and the thread that stopping a channel joins wants
\* none of the locks that are held meanwhile.
THEOREM NoDeadlock == Spec => []NobodyWaitsInACircle
<1>1. ASSUME IInv PROVE NobodyWaitsInACircle
  <2> SUFFICES ASSUME NEW S \in SUBSET Threads, S # {}
               PROVE  \E t \in S : WaitsFor(t) \cap S = {}
    BY DEF NobodyWaitsInACircle
  <2> USE DEF At, In
  <2>1. \A t \in Threads : /\ CamOf(t) \in Cameras /\ t \in ThreadsOf(CamOf(t)) /\ t # NoOne
                           /\ CallOf(t) /\ Locks(CamOf(t)) /\ CameraInv(CamOf(t))
    BY <1>1, ThreadFacts DEF ThreadsOf, IInv, CameraInv
  <2>2. CASE \E t \in S : thr[t].pc \notin {"intf", "cam", "chan"}
    <3>1. PICK t \in S : thr[t].pc \notin {"intf", "cam", "chan"}
      BY <2>2
    <3>2. thr[t].pc = "ch" => cam[CamOf(t)].ch_lock = NoOne
      <4> SUFFICES ASSUME thr[t].pc = "ch" PROVE cam[CamOf(t)].ch_lock = NoOne
        OBVIOUS
      <4>1. t = Owner(CamOf(t))
        BY <2>1 DEF CallOf, ChannelOps
      <4>2. ASSUME NEW u \in ThreadsOf(CamOf(t)), cam[CamOf(t)].ch_lock = u PROVE FALSE
        <5>1. HoldsChannel(u)
          BY <2>1, <4>2 DEF Locks
        <5>2. u = Owner(CamOf(t))
          BY <2>1, <5>1 DEF ThreadsOf, HoldsChannel, CallOf, ChannelOps, Requests
        <5> QED
          BY <4>1, <5>1, <5>2 DEF HoldsChannel
      <4> QED
        BY <2>1, <4>2 DEF Locks
    <3>3. WaitsFor(t) = {}
      BY <2>1, <3>1, <3>2 DEF WaitsFor
    <3> QED
      BY <3>3
  <2>3. CASE \A t \in S : thr[t].pc \in {"intf", "cam", "chan"}
    <3>1. CASE \E t \in S : thr[t].pc = "cam"
      <4>1. PICK t \in S : thr[t].pc = "cam"
        BY <3>1
      <4>2. ASSUME NEW u \in WaitsFor(t) PROVE u \notin S
        <5>1. u \in Threads /\ cam[CamOf(t)].cam_lock = u
          BY <4>1 DEF WaitsFor
        <5>2. u \in ThreadsOf(CamOf(t)) /\ HoldsCamera(u)
          BY <2>1, <5>1 DEF Locks
        <5> QED
          BY <2>3, <5>2 DEF HoldsCamera
      <4> QED
        BY <4>2
    <3>2. CASE ~(\E t \in S : thr[t].pc = "cam") /\ \E t \in S : thr[t].pc = "intf"
      <4>1. PICK t \in S : thr[t].pc = "intf"
        BY <3>2
      <4>2. ASSUME NEW u \in WaitsFor(t) PROVE u \notin S
        <5>1. u \in Threads /\ g_intf_lock = u
          BY <4>1 DEF WaitsFor
        <5>2. thr[u].pc \in {"cam", "sub"}
          BY <2>1, <5>1 DEF Locks
        <5> QED
          BY <2>3, <3>2, <5>2
      <4> QED
        BY <4>2
    <3>3. CASE \A t \in S : thr[t].pc = "chan"
      <4>1. PICK t \in S : TRUE
        OBVIOUS
      <4>2. ASSUME NEW u \in WaitsFor(t) PROVE u \notin S
        <5>1. u \in Threads /\ u = Callback(CamOf(t))
          BY <3>3 DEF WaitsFor, Callback
        <5>2. CamOf(u) = CamOf(t)
          BY <2>1, <5>1, ThreadFacts
        <5>3. thr[u].op \in {"none", "qbuf"}
          BY <2>1, <5>1, <5>2 DEF CallOf
        <5> QED
          BY <2>1, <3>3, <5>1, <5>3 DEF CallOf, ChannelOps
      <4> QED
        BY <4>2
    <3> QED
      BY <2>3, <3>1, <3>2, <3>3
  <2> QED
    BY <2>2, <2>3
<1> QED
  BY <1>1, Invariance, PTL
=====
