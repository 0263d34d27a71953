------------------------ MODULE StreamLifecycle_proofs ------------------------
(***************************************************************************)
(* Proofs about StreamLifecycle, for every kind of channel, every set of    *)
(* buffers and every number of starts: the types, that the references of a  *)
(* buffer are those who have it, that the stack has let go of a buffer      *)
(* when it is given back, and that stopping and deleting are complete.      *)
(*                                                                          *)
(* The inductive invariant says, part by part, where a call of the HAL can  *)
(* be (CallInv), which state each stream is in by then (StateInv) and what  *)
(* there is for it in that state (PartsInv); what the poll thread has and   *)
(* has not been told yet (PollInv, CbInv); which threads of the HAL and of  *)
(* the bundle live (ProcInv, LaunchInv, JoinInv, BundleInv); that nothing   *)
(* is left of an earlier start before a stream goes on (FreshInv); what the *)
(* references are of a stream that is not on (CountInv, OwnInv); and        *)
(* (AccountInv) that a buffer of a stream that is on is at one place at     *)
(* most of its way to the stream's thread, and at one at most of its way to *)
(* the super buffers, with a reference for each.                            *)
(*                                                                          *)
(* A step is one of a call or one of a thread: the lemmas named ...Kept are *)
(* about the first and have a step for each action of a call, those named   *)
(* ...Stays about the second.  Of a thread's step only the places a frame   *)
(* goes through matter, which the lemmas about Flow and Path deal with.     *)
(***************************************************************************)
EXTENDS StreamLifecycle, SequenceTheorems, TLAPS

-----------------------------------------------------------------------------
(* The parts of the inductive invariant                                      *)

\* Where a call can be, of which stream.
AddPcs   == {"acquire", "config", "delete"}
StartPcs == {"get", "reg", "start", "added", "on", "notadded", "joinfailed"}
StopPcs  == {"stop", "off", "join", "unreg"}
Place ==
    /\ hal = [op |-> hal.op, pc |-> hal.pc, i |-> hal.i, last |-> hal.last]
    /\ \/ hal = Idle
       \/ hal.op = "add" /\ hal.pc = "launch" /\ hal.i = 0 /\ hal.last = 0
       \/ hal.op = "add" /\ hal.pc \in AddPcs /\ hal.i \in Stream /\ hal.last = 0
       \/ hal.op = "start" /\ hal.pc \in StartPcs /\ hal.i \in Stream /\ hal.last = Last
       \/ /\ hal.op = "undo" /\ hal.pc \in StopPcs \cup {"putone"}
          /\ hal.i \in Stream /\ hal.last \in Stream /\ hal.i <= hal.last
       \/ /\ hal.op = "stop" /\ hal.pc \in StopPcs \cup {"exit", "joinproc"}
          /\ hal.i \in Stream /\ hal.last = Last
       \/ /\ hal.op = "stop" /\ hal.pc \in {"bundle", "joincmd", "joincb", "put"}
          /\ hal.i = Last /\ hal.last = Last
       \/ hal.op = "delete" /\ hal.pc = "release" /\ hal.i = 0 /\ hal.last = 0

\* The state of the channel while a call goes on, and between two.
Stopping == hal.op = "stop" /\ hal.pc \notin {"exit", "joinproc"}
CallInv ==
    /\ Place
    /\ ch = "NOTUSED" => starts = 0 /\ (hal = Idle \/ At("launch"))
    /\ At("launch") => ch = "NOTUSED"
    /\ hal # Idle /\ ~At("launch") => ch = IF Stopping THEN "ACTIVE" ELSE "STOPPED"
    /\ hal.op = "add" => starts = 0
    /\ hal.op \in {"start", "undo", "stop"} \/ ch = "ACTIVE" => starts > 0
    /\ starts > 1 => kind = "video"

\* Where a stream is before, in and after the step of a call on it.
Configured(i) == /\ i \notin allocated
                 /\ InState(i, "CFG") \/ (InState(i, "BUFFED") /\ Met({"put"}))
Buffed(i)     == InState(i, "BUFFED") /\ i \in allocated
Registered(i) == InState(i, "REG") /\ i \in allocated
Active(i)     == InState(i, "ACTIVE") /\ i \in allocated
New(i)        == InState(i, "NOTUSED") /\ i \notin allocated
StateInv(i) ==
    /\ ch = "NOTUSED" => New(i)
    /\ hal = Idle /\ ch = "STOPPED" => Configured(i)
    /\ hal = Idle /\ ch = "ACTIVE" => Active(i)
    /\ ch = "deleted" \/ hal.op = "delete" =>
          (InState(i, "NOTUSED") \/ InState(i, "BUFFED")) /\ i \notin allocated
    /\ hal.op = "add" /\ ch # "NOTUSED" =>
          /\ i < hal.i => InState(i, "CFG") /\ i \notin allocated
          /\ i = hal.i /\ At("config") => InState(i, "ACQUIRED") /\ i \notin allocated
          /\ i > hal.i \/ (i = hal.i /\ ~At("config")) => New(i)
    /\ hal.op = "start" =>
          /\ i < hal.i => Active(i)
          /\ i > hal.i \/ (At("get") /\ i = hal.i) => Configured(i)
          /\ i = hal.i /\ At("reg") => Buffed(i) \/ (InState(i, "BUFFED") /\ Configured(i))
          /\ i = hal.i /\ hal.pc \notin {"get", "reg"} => Registered(i)
    /\ hal.op = "undo" =>
          /\ i < hal.i \/ i > hal.last => Configured(i)
          /\ hal.i < i /\ i < hal.last => Active(i)
          /\ i = hal.i /\ i < hal.last =>
                /\ hal.pc \in {"stop", "off", "join"} => Active(i)
                /\ At("unreg") => Registered(i)
                /\ At("putone") => Buffed(i)
          /\ i = hal.last => \/ Configured(i) \/ Buffed(i)
                             \/ Registered(i) /\ (hal.i < i \/ hal.pc \in {"stop", "unreg"})
    /\ hal.op = "stop" =>
          /\ hal.pc \in {"exit", "joinproc"} => Configured(i)
          /\ hal.pc \in {"bundle", "joincmd", "joincb", "put"} => Buffed(i)
          /\ hal.pc \in StopPcs =>
                /\ i < hal.i => Buffed(i)
                /\ i = hal.i /\ At("unreg") => Registered(i)
                /\ i > hal.i \/ (i = hal.i /\ ~At("unreg")) => Active(i)
\* In an undo the last stream was not made active, so it is never waited for.
UndoInv == hal.op = "undo" /\ hal.i = hal.last => hal.pc \in {"stop", "unreg", "putone"}

\* What a start that failed has undone, and a channel that is deleted leaves.
LeftInv ==
    /\ hal.op = "undo" /\ hal.i > 1 => Met({"start"})
    /\ ch = "deleted" => hal = Idle /\ (poll_pc = "gone" \/ Met({"abandoned"}))

\* What there is for a stream, by its state and the call on it.
Here(i, pcs) == hal.i = i /\ hal.pc \in pcs
PartsInv(i) ==
    /\ i \in streaming
       <=> \/ InState(i, "ACTIVE") /\ ~Here(i, {"join"})
           \/ Here(i, {"on"})
    /\ i \in poll_entries
       <=> \/ InState(i, "ACTIVE") /\ ~Here(i, {"off", "join"})
           \/ Here(i, {"added", "on"})
    /\ strT[i] = "run"
       <=> \/ InState(i, "ACTIVE") /\ ~Here(i, {"join"})
           \/ Here(i, {"added", "on", "notadded"})
    /\ strT[i] = "exiting" => Here(i, {"join", "joinfailed"})
    /\ strQ[i] # <<>> => strT[i] # "none"

\* The poll thread and the one that calls it.
Scanning == {"scan", "notify", "read", "queue"}
PollInv ==
    /\ pipe \in {<<>>, <<"UPDATED">>, <<"EXIT">>}
    /\ sig_wait <=> pipe # <<>> \/ poll_pc = "launched"
    /\ pipe # <<>> => poll_pc \notin {"none", "launched", "gone"}
    /\ pipe = <<"UPDATED">> => hal.pc \in {"added", "notadded", "off"}
    /\ pipe = <<"EXIT">> => At("release")
    /\ poll_pc = "none" <=> ch = "NOTUSED" /\ hal = Idle
    /\ poll_pc = "launched" => At("launch")
    /\ poll_pc = "gone" => At("release") \/ ch = "deleted"
    /\ poll_state = "POLL" <=> poll_pc \in {"poll"} \cup Scanning
    /\ pipe # <<"UPDATED">> => poll_fds = poll_entries
    /\ pipe = <<"UPDATED">> => IF At("added") THEN poll_fds = poll_entries \ {hal.i}
                                              ELSE poll_fds = poll_entries \cup {hal.i}
CbInv ==
    /\ ready \subseteq poll_fds \cap streaming
    /\ poll_pc \notin Scanning => ready = {}
    /\ IF poll_pc \in {"notify", "read", "queue"}
       THEN cb.i \in poll_fds \cap streaming
       ELSE cb.i = None
    /\ IF poll_pc = "queue" THEN cb.b \in Buf ELSE cb.b = None
    /\ poll_pc \in {"read", "queue"} => InState(cb.i, "ACTIVE")

\* The HAL's threads of a stream.
Alive == {"wait", "busy"}
ProcInv(i) ==
    /\ cmd_pid[i] \in {None, starts}
    /\ \A k \in Thread : /\ procs[i][k] = "none" <=> k > starts
                         /\ procs[i][k] = "busy" <=> procBuf[i][k] # None
    /\ exits[i] \in {0, 1}
    /\ exits[i] = 1 => Here(i, {"joinproc"}) /\ procs[i][cmd_pid[i]] \in Alive
    /\ cmd_pid[i] # None /\ ~Here(i, {"joinproc"}) => procs[i][cmd_pid[i]] \in Alive
    /\ Here(i, {"joinproc"}) => cmd_pid[i] # None
    /\ cmd_pid[i] = None \/ (Here(i, {"joinproc"}) /\ exits[i] = 0) => mDataQ[i] = <<>>
LaunchInv(i) == hal.op \in {"start", "undo"} \/ ch = "ACTIVE" => cmd_pid[i] = starts
JoinInv(i) ==
    ~Met({"start"}) =>
        /\ \A k \in Thread : k # cmd_pid[i] => procs[i][k] \in {"none", "gone"}
        /\ hal = Idle /\ ch # "ACTIVE" => cmd_pid[i] = None
        /\ hal.op \in {"add", "delete"} => cmd_pid[i] = None
        /\ hal.pc \in {"exit", "joinproc"} /\ i < hal.i => cmd_pid[i] = None

\* The bundle's threads and what is on its way through them.
Clean == chQ = <<>> /\ cbQ = <<>> /\ matching = {} /\ chT = "none" /\ cbT = "none"
BundleInv ==
    /\ ~Bundled \/ starts = 0 => Clean
    /\ hal.pc \in {"joincmd", "joincb"} => Bundled
    /\ chQ # <<>> => chT # "none"
    /\ cbQ # <<>> => cbT # "none"
    /\ chT # "none" => cbT = "run"
    /\ chT = "exiting" => At("joincmd")
    /\ cbT = "exiting" => At("joincb")
    /\ cbT = "run" /\ chT = "none" => At("joincmd")
    /\ Bundled /\ (\/ hal.op \in {"start", "undo"}
                   \/ hal = Idle /\ ch = "ACTIVE"
                   \/ hal.op = "stop" /\ hal.pc \in StopPcs \cup {"bundle"})
       => chT = "run"
    /\ At("joincb") => chT = "none"
    /\ At("put") => Clean
    /\ ch # "ACTIVE" /\ hal.op \notin {"start", "undo"} /\ ~Met({"start"}) => Clean

\* A stream that the start has not made active yet, or never will.
NotYet(i) == \/ hal.op = "start" /\ i >= hal.i
             \/ hal.op = "undo" /\ i >= hal.last
FreshInv(i) ==
    /\ NotYet(i) =>
          /\ cbQ = <<>>
          /\ \A b \in Bufs : <<i, b>> \notin Elems(chQ) \cup matching
          /\ strQ[i] = <<>> /\ mDataQ[i] = <<>>
          /\ ~Met({"stale"}) =>
                /\ \A k \in Thread : procBuf[i][k] = None
                /\ \A f \in held \cup returning : f.i = i => f.start # starts
    /\ hal = Idle /\ ch = "STOPPED" /\ kind = "video" => mDataQ[i] = <<>>

\* References.
CountInv(i) ==
    /\ \A b \in kernel[i] : b \in Bufs /\ buf_refcnt[i][b] = 0
    /\ ~InState(i, "REG") /\ ~InState(i, "ACTIVE") /\ ~Met({"reg"})
       => kernel[i] = {} /\ \A b \in Bufs : buf_refcnt[i][b] = 0

OwnInv(i) == \A b \in Bufs \ Buf : b \notin kernel[i] /\ buf_refcnt[i][b] = 0

States == {"NOTUSED", "ACQUIRED", "CFG", "BUFFED", "REG", "ACTIVE"}
Typed ==
    /\ kind \in Kinds /\ ch \in {"NOTUSED", "STOPPED", "ACTIVE", "deleted"}
    /\ starts \in 0 .. MaxStarts
    /\ state \in [Index -> States]
    /\ allocated \subseteq Stream /\ streaming \subseteq Stream /\ poll_entries \subseteq Stream
    /\ poll_pc \in {"none", "launched", "starting", "poll", "gone"} \cup Scanning
    /\ poll_state \in {"STOPPED", "POLL"} /\ sig_wait \in BOOLEAN
    /\ poll_fds \subseteq Stream
    /\ buf_refcnt \in [Index -> [Bufs -> 0 .. 2]]
    /\ kernel \in [Index -> SUBSET Bufs]
    /\ cb \in [i : Stream \cup {None}, b : Bufs \cup {None}]
    /\ strQ \in [Index -> Seq(Bufs)] /\ strT \in [Index -> {"none", "run", "exiting"}]
    /\ chQ \in Seq(Stream \X Bufs) /\ chT \in {"none", "run", "exiting"}
    /\ matching \subseteq Stream \X Bufs
    /\ cbQ \in Seq([Stream -> Bufs]) /\ cbT \in {"none", "run", "exiting"}
    /\ mDataQ \in [Index -> Seq(Bufs)]
    /\ jobs \in [Index -> Nat] /\ exits \in [Index -> 0 .. 1]
    /\ cmd_pid \in [Index -> Thread \cup {None}]
    /\ procs \in [Index -> [Thread -> {"none", "wait", "busy", "gone"}]]
    /\ procBuf \in [Index -> [Thread -> Bufs \cup {None}]]
    /\ held \subseteq Frame /\ returning \subseteq Frame
    /\ \A f \in held \cup returning : f.i \in Stream /\ f.start <= starts
    /\ upsets \subseteq {"start", "reg", "put", "stale", "abandoned"}

\* The entries beyond the channel's streams are never used.
Spare(i) == strT[i] = "none" /\ \A k \in Thread : procs[i][k] = "none"

\* Each buffer of an active stream is in one place on its way to the HAL's thread of the
\* stream and in one on its way as a super buffer, counted by its references.
Distinct(s) == \A m, n \in DOMAIN s : s[m] = s[n] => m = n
OnceInStream(i) ==
    /\ Distinct(strQ[i]) /\ Distinct(mDataQ[i])
    /\ Elems(strQ[i]) \cap Elems(mDataQ[i]) = {}
    /\ \A k \in Thread :
          /\ procBuf[i][k] \notin Elems(strQ[i]) \cup Elems(mDataQ[i])
          /\ \A l \in Thread : procBuf[i][k] # None /\ procBuf[i][k] = procBuf[i][l] => k = l
    /\ \A b \in Bufs : HeldNow("stream", i, b) =>
          /\ b \notin Elems(strQ[i]) \cup Elems(mDataQ[i])
          /\ \A k \in Thread : procBuf[i][k] # b
          /\ Held("stream", i, b) \notin held \cap returning
InCbQ(i, b) == \E n \in DOMAIN cbQ : cbQ[n][i] = b
OnceInBundle(i) ==
    /\ \A m, n \in DOMAIN chQ : chQ[m] = chQ[n] /\ chQ[m][1] = i => m = n
    /\ \A m, n \in DOMAIN cbQ : cbQ[m][i] = cbQ[n][i] => m = n
    /\ \A b \in Bufs :
          /\ <<i, b>> \in matching => <<i, b>> \notin Elems(chQ)
          /\ InCbQ(i, b) => <<i, b>> \notin Elems(chQ) \cup matching
          /\ HeldNow("super", i, b) =>
                /\ <<i, b>> \notin Elems(chQ) \cup matching /\ ~InCbQ(i, b)
                /\ Held("super", i, b) \notin held \cap returning
Live(i) == InState(i, "ACTIVE") /\ i \in streaming /\ ~Met({"stale"})
AccountInv(i) ==
    /\ Live(i) =>
          /\ OnceInStream(i) /\ OnceInBundle(i)
          /\ \A b \in Buf : /\ BeingQueued(i, b) => ~InStream(i, b) /\ ~InBundle(i, b)
                            /\ buf_refcnt[i][b] = Holders(i, b)
                            /\ b \in kernel[i] <=> buf_refcnt[i][b] = 0
    /\ InState(i, "REG") /\ NotYet(i) /\ ~Met({"stale"}) =>
          \A b \in Buf : /\ buf_refcnt[i][b] \in {0, 1}
                         /\ b \in kernel[i] <=> buf_refcnt[i][b] = 0

StreamInv(i) == /\ StateInv(i) /\ PartsInv(i) /\ ProcInv(i) /\ JoinInv(i)
                /\ LaunchInv(i) /\ FreshInv(i) /\ CountInv(i) /\ OwnInv(i) /\ AccountInv(i)
IInv ==
    /\ Typed /\ CallInv /\ UndoInv /\ LeftInv /\ PollInv /\ CbInv /\ BundleInv
    /\ \A i \in Index \ Stream : Spare(i)
    /\ \A i \in Stream : StreamInv(i)

-----------------------------------------------------------------------------
(* What the invariant says of a call                                         *)

\* The streams of the channel are the first one or two.
LEMMA Streams ==
  ASSUME kind \in Kinds
  PROVE  /\ Stream = 1 .. Last /\ Last \in {1, 2} /\ Stream \subseteq Index
         /\ Stream \in {{1}, {1, 2}} /\ Index \subseteq Nat \ {None}
BY StreamAssumption, PollThreadAssumption DEF Stream, Last, Index, None

\* What call it is.
LEMMA CallFacts ==
  ASSUME kind \in Kinds, Place
  PROVE  /\ hal = [op |-> hal.op, pc |-> hal.pc, i |-> hal.i, last |-> hal.last]
         /\ hal.op \in {"none", "add", "start", "undo", "stop", "delete"}
         /\ hal = Idle <=> hal.op = "none"
         /\ hal.op \in {"start", "undo", "stop"} \/ hal.pc \in AddPcs => hal.i \in Stream
         /\ hal.op \in {"start", "stop"} => hal.last = Last
         /\ hal.op = "undo" => hal.last \in Stream /\ hal.i <= hal.last
         /\ hal.pc \in {"bundle", "joincmd", "joincb", "put"} => hal.i = Last
         /\ hal.pc \in {"launch"} \cup AddPcs <=> hal.op = "add"
         /\ hal.pc \in StartPcs <=> hal.op = "start"
         /\ hal.pc \in StopPcs => hal.op \in {"undo", "stop"}
         /\ hal.pc = "putone" => hal.op = "undo"
         /\ hal.pc \in {"bundle", "joincmd", "joincb", "put", "exit", "joinproc"}
            => hal.op = "stop"
         /\ hal.pc = "release" <=> hal.op = "delete"
         /\ hal.pc = "none" <=> hal.op = "none"
         /\ hal.pc \in {"none", "launch", "putone", "bundle", "joincmd", "joincb", "put", "exit",
                       "joinproc", "release"} \cup AddPcs \cup StartPcs \cup StopPcs
         /\ hal.i \in 0 .. 2 /\ hal.last \in 0 .. 2 /\ Last \in {1, 2}
         /\ hal.op \in {"none", "add", "delete"} => hal.last = 0
         /\ hal.op \in {"start", "undo", "stop"} \/ hal.pc \in AddPcs => hal.i \in 1 .. Last
BY Streams DEF Place, Idle, AddPcs, StartPcs, StopPcs

\* A command for the poll thread.
LEMMA Commands ==
  /\ \A cmd : Append(<<>>, cmd) = <<cmd>> /\ Head(<<cmd>>) = cmd /\ Tail(<<cmd>>) = <<>>
  /\ <<"UPDATED">> # <<>> /\ <<"EXIT">> # <<>> /\ <<"UPDATED">> # <<"EXIT">>
OBVIOUS

-----------------------------------------------------------------------------
(* The steps of a call                                                       *)

Goes(op, pc, i, last) == hal' = [op |-> op, pc |-> pc, i |-> i, last |-> last]
Returns == hal' = Idle

\* Where each step of a call is made, and where the call goes on.
AddChannelMoves ==
    /\ hal = Idle /\ ch = "NOTUSED"
    /\ Goes("add", "launch", 0, 0)
    /\ ch' = ch
    /\ starts' = starts /\ kind' = kind
ChannelAddedMoves ==
    /\ hal.op = "add" /\ hal.pc = "launch"
    /\ Goes("add", "acquire", 1, 0)
    /\ ch' = "STOPPED"
    /\ starts' = starts /\ kind' = kind
AcquireStreamMoves ==
    /\ hal.op = "add" /\ hal.pc = "acquire"
    /\ \/ Goes("add", "config", hal.i, hal.last)
       \/ Goes("add", "delete", hal.i, hal.last)
    /\ ch' = ch
    /\ starts' = starts /\ kind' = kind
ConfigStreamMoves ==
    /\ hal.op = "add" /\ hal.pc = "config"
    /\ \/ hal.i = Last /\ Returns
       \/ hal.i < Last /\ Goes("add", "acquire", hal.i + 1, 0)
       \/ Goes("add", "delete", hal.i, hal.last)
    /\ ch' = ch
    /\ starts' = starts /\ kind' = kind
StartChannelMoves ==
    /\ hal = Idle /\ ch = "STOPPED"
    /\ Goes("start", "get", 1, Last)
    /\ ch' = ch
    /\ starts' = starts + 1 /\ kind' = kind
GetBufMoves ==
    /\ hal.op = "start" /\ hal.pc = "get"
    /\ \/ Goes("start", "reg", hal.i, hal.last)
       \/ Goes("undo", "stop", 1, hal.i)
    /\ ch' = ch
    /\ starts' = starts /\ kind' = kind
RegBufMoves ==
    /\ hal.op = "start" /\ hal.pc = "reg"
    /\ \/ Goes("start", "start", hal.i, hal.last)
       \/ Goes("undo", "stop", 1, hal.i)
    /\ ch' = ch
    /\ starts' = starts /\ kind' = kind
StartStreamMoves ==
    /\ hal.op = "start" /\ hal.pc = "start"
    /\ Goes("start", "added", hal.i, hal.last)
    /\ ch' = ch
    /\ starts' = starts /\ kind' = kind
StreamOnMoves ==
    /\ hal.op = "start" /\ hal.pc = "added"
    /\ Goes("start", "on", hal.i, hal.last)
    /\ ch' = ch
    /\ starts' = starts /\ kind' = kind
StreamActiveMoves ==
    /\ hal.op = "start" /\ hal.pc = "on"
    /\ \/ hal.i = Last /\ Returns /\ ch' = "ACTIVE"
       \/ hal.i < Last /\ Goes("start", "get", hal.i + 1, Last) /\ ch' = ch
    /\ starts' = starts /\ kind' = kind
StreamOnFailsMoves ==
    /\ hal.op = "start" /\ hal.pc = "added"
    /\ Goes("start", "notadded", hal.i, hal.last)
    /\ ch' = ch
    /\ starts' = starts /\ kind' = kind
ReleaseStrTMoves ==
    /\ hal.op = "start" /\ hal.pc = "notadded"
    /\ Goes("start", "joinfailed", hal.i, hal.last)
    /\ ch' = ch
    /\ starts' = starts /\ kind' = kind
StartFailsMoves ==
    /\ hal.op = "start" /\ hal.pc = "joinfailed"
    /\ Goes("undo", "stop", 1, hal.i)
    /\ ch' = ch
    /\ starts' = starts /\ kind' = kind
StopChannelMoves ==
    /\ hal = Idle /\ starts > 0
    /\ \/ ch = "ACTIVE" /\ Goes("stop", "stop", 1, Last)
       \/ ch = "STOPPED" /\ Goes("stop", "exit", 1, Last)
    /\ ch' = ch
    /\ starts' = starts /\ kind' = kind
StopStreamMoves ==
    /\ hal.op \in {"undo", "stop"} /\ hal.pc = "stop"
    /\ \/ InState(hal.i, "ACTIVE") /\ Goes(hal.op, "off", hal.i, hal.last)
       \/ ~InState(hal.i, "ACTIVE") /\ Goes(hal.op, "unreg", hal.i, hal.last)
    /\ ch' = ch
    /\ starts' = starts /\ kind' = kind
StreamOffMoves ==
    /\ hal.op \in {"undo", "stop"} /\ hal.pc = "off"
    /\ Goes(hal.op, "join", hal.i, hal.last)
    /\ ch' = ch
    /\ starts' = starts /\ kind' = kind
StreamStoppedMoves ==
    /\ hal.op \in {"undo", "stop"} /\ hal.pc = "join"
    /\ Goes(hal.op, "unreg", hal.i, hal.last)
    /\ ch' = ch
    /\ starts' = starts /\ kind' = kind
UnregBufMoves ==
    /\ hal.op \in {"undo", "stop"} /\ hal.pc = "unreg"
    /\ \/ hal.op = "undo" /\ Goes("undo", "putone", hal.i, hal.last)
       \/ hal.op = "stop" /\ hal.i < Last /\ Goes("stop", "stop", hal.i + 1, Last)
       \/ hal.op = "stop" /\ hal.i = Last /\ Goes("stop", "bundle", Last, Last)
    /\ ch' = ch
    /\ starts' = starts /\ kind' = kind
StreamUndoneMoves ==
    /\ hal.op = "undo" /\ hal.pc = "putone"
    /\ \/ hal.i = hal.last /\ Returns
       \/ hal.i < hal.last /\ Goes("undo", "stop", hal.i + 1, hal.last)
    /\ ch' = ch
    /\ starts' = starts /\ kind' = kind
StopCmdThreadMoves ==
    /\ hal.op = "stop" /\ hal.pc = "bundle"
    /\ \/ Bundled /\ Goes("stop", "joincmd", hal.i, hal.last)
       \/ ~Bundled /\ Goes("stop", "put", hal.i, hal.last)
    /\ ch' = ch
    /\ starts' = starts /\ kind' = kind
StopCbThreadMoves ==
    /\ hal.op = "stop" /\ hal.pc = "joincmd"
    /\ Goes("stop", "joincb", hal.i, hal.last)
    /\ ch' = ch
    /\ starts' = starts /\ kind' = kind
BundleStoppedMoves ==
    /\ hal.op = "stop" /\ hal.pc = "joincb"
    /\ Goes("stop", "put", hal.i, hal.last)
    /\ ch' = ch
    /\ starts' = starts /\ kind' = kind
PutBufsMoves ==
    /\ hal.op = "stop" /\ hal.pc = "put"
    /\ Goes("stop", "exit", 1, Last)
    /\ ch' = "STOPPED"
    /\ starts' = starts /\ kind' = kind
ExitProcMoves ==
    /\ hal.op = "stop" /\ hal.pc = "exit"
    /\ \/ cmd_pid[hal.i] = None /\ hal.i = Last /\ Returns
       \/ cmd_pid[hal.i] = None /\ hal.i < Last /\ Goes("stop", "exit", hal.i + 1, Last)
       \/ cmd_pid[hal.i] # None /\ Goes("stop", "joinproc", hal.i, hal.last)
    /\ ch' = ch
    /\ starts' = starts /\ kind' = kind
ProcJoinedMoves ==
    /\ hal.op = "stop" /\ hal.pc = "joinproc"
    /\ \/ hal.i = Last /\ Returns
       \/ hal.i < Last /\ Goes("stop", "exit", hal.i + 1, Last)
    /\ ch' = ch
    /\ starts' = starts /\ kind' = kind
DeleteChannelMoves ==
    /\ hal = Idle /\ ch = "STOPPED"
    /\ \/ poll_state = "STOPPED" /\ Returns /\ ch' = "deleted"
       \/ poll_state # "STOPPED" /\ Goes("delete", "release", 0, 0) /\ ch' = ch
    /\ starts' = starts /\ kind' = kind
DeleteUnstartedMoves ==
    /\ hal.op = "add" /\ hal.pc = "delete"
    /\ \/ poll_state = "STOPPED" /\ Returns /\ ch' = "deleted"
       \/ poll_state # "STOPPED" /\ Goes("delete", "release", 0, 0) /\ ch' = ch
    /\ starts' = starts /\ kind' = kind
ChannelDeletedMoves ==
    /\ hal.op = "delete" /\ hal.pc = "release"
    /\ Returns
    /\ ch' = "deleted"
    /\ starts' = starts /\ kind' = kind

\* How a call goes on.
LEMMA CallMoves ==
  ASSUME kind \in Kinds, Place
  PROVE  /\ \A pc : Goto(pc) => Goes(hal.op, pc, hal.i, hal.last)
         /\ \A pc : GotoNext(pc) => Goes(hal.op, pc, hal.i + 1, hal.last)
         /\ CallReturns <=> Returns
BY CallFacts DEF Goto, GotoNext, CallReturns, Goes, Returns

\* Each step of a call is made there and moves the call on so.
LEMMA Moves ==
  ASSUME Typed, CallInv
  PROVE  /\ AddChannel => AddChannelMoves
         /\ ChannelAdded => ChannelAddedMoves
         /\ AcquireStream => AcquireStreamMoves
         /\ ConfigStream => ConfigStreamMoves
         /\ StartChannel => StartChannelMoves
         /\ GetBuf => GetBufMoves
         /\ RegBuf => RegBufMoves
         /\ StartStream => StartStreamMoves
         /\ StreamOn => StreamOnMoves
         /\ StreamActive => StreamActiveMoves
         /\ StreamOnFails => StreamOnFailsMoves
         /\ ReleaseStrT => ReleaseStrTMoves
         /\ StartFails => StartFailsMoves
         /\ StopChannel => StopChannelMoves
         /\ StopStream => StopStreamMoves
         /\ StreamOff => StreamOffMoves
         /\ StreamStopped => StreamStoppedMoves
         /\ UnregBuf => UnregBufMoves
         /\ StreamUndone => StreamUndoneMoves
         /\ StopCmdThread => StopCmdThreadMoves
         /\ StopCbThread => StopCbThreadMoves
         /\ BundleStopped => BundleStoppedMoves
         /\ PutBufs => PutBufsMoves
         /\ ExitProc => ExitProcMoves
         /\ ProcJoined => ProcJoinedMoves
         /\ DeleteChannel => DeleteChannelMoves
         /\ DeleteUnstarted => DeleteUnstartedMoves
         /\ ChannelDeleted => ChannelDeletedMoves
<1> USE DEF At, AddPcs, StartPcs, StopPcs
<1>0. Place /\ kind \in Kinds
  BY DEF Typed, CallInv
<1>1. AddChannel => AddChannelMoves
  BY <1>0, CallFacts, CallMoves
  DEF AddChannel, AddChannelMoves, CallInv, Stopping, Goes, Returns, Idle
<1>2. ChannelAdded => ChannelAddedMoves
  BY <1>0, CallFacts, CallMoves
  DEF ChannelAdded, ChannelAddedMoves, CallInv, Stopping, Goes, Returns, Idle
<1>3. AcquireStream => AcquireStreamMoves
  BY <1>0, CallFacts, CallMoves DEF AcquireStream, AcquireStreamMoves, Become, CallInv, Stopping
<1>4. ConfigStream => ConfigStreamMoves
  BY <1>0, CallFacts, CallMoves DEF ConfigStream, ConfigStreamMoves, Become, CallInv, Stopping
<1>5. StartChannel => StartChannelMoves
  BY <1>0, CallFacts, CallMoves
  DEF StartChannel, StartChannelMoves, CallInv, Stopping, Goes, Returns, Idle
<1>6. GetBuf => GetBufMoves
  BY <1>0, CallFacts, CallMoves
  DEF GetBuf, GetBufMoves, Become, Undo, CallInv, Stopping, Goes, Returns, Idle
<1>7. RegBuf => RegBufMoves
  BY <1>0, CallFacts, CallMoves
  DEF RegBuf, RegBufMoves, Become, Undo, CallInv, Stopping, Goes, Returns, Idle
<1>8. StartStream => StartStreamMoves
  BY <1>0, CallFacts, CallMoves DEF StartStream, StartStreamMoves, CallInv, Stopping
<1>9. StreamOn => StreamOnMoves
  BY <1>0, CallFacts, CallMoves DEF StreamOn, StreamOnMoves, CallInv, Stopping
<1>10. StreamActive => StreamActiveMoves
  BY <1>0, CallFacts, CallMoves DEF StreamActive, StreamActiveMoves, Become, CallInv, Stopping
<1>11. StreamOnFails => StreamOnFailsMoves
  BY <1>0, CallFacts, CallMoves DEF StreamOnFails, StreamOnFailsMoves, CallInv, Stopping
<1>12. ReleaseStrT => ReleaseStrTMoves
  BY <1>0, CallFacts, CallMoves DEF ReleaseStrT, ReleaseStrTMoves, CallInv, Stopping
<1>13. StartFails => StartFailsMoves
  BY <1>0, CallFacts, CallMoves
  DEF StartFails, StartFailsMoves, Undo, CallInv, Stopping, Goes, Returns, Idle
<1>14. StopChannel => StopChannelMoves
  BY <1>0, CallFacts, CallMoves
  DEF StopChannel, StopChannelMoves, CallInv, Stopping, Goes, Returns, Idle
<1>15. StopStream => StopStreamMoves
  BY <1>0, CallFacts, CallMoves DEF StopStream, StopStreamMoves, CallInv, Stopping
<1>16. StreamOff => StreamOffMoves
  BY <1>0, CallFacts, CallMoves DEF StreamOff, StreamOffMoves, CallInv, Stopping
<1>17. StreamStopped => StreamStoppedMoves
  BY <1>0, CallFacts, CallMoves DEF StreamStopped, StreamStoppedMoves, Become, CallInv, Stopping
<1>18. ASSUME UnregBuf PROVE UnregBufMoves
  <2>1. /\ hal.pc = "unreg" /\ hal.op \in {"undo", "stop"} /\ hal.i \in 1 .. Last
        /\ hal.op = "stop" => hal.last = Last
        /\ ch' = ch /\ starts' = starts /\ kind' = kind
    BY <1>0, <1>18, CallFacts DEF UnregBuf, StopPcs
  <2>2. CASE hal.op = "undo"
    BY <1>0, <1>18, <2>1, <2>2, CallMoves DEF UnregBuf, UnregBufMoves
  <2>3. CASE hal.op = "stop" /\ hal.i = Last
    BY <1>0, <1>18, <2>1, <2>3, CallMoves DEF UnregBuf, UnregBufMoves
  <2>4. CASE hal.op = "stop" /\ hal.i < Last
    BY <1>0, <1>18, <2>1, <2>4, CallMoves DEF UnregBuf, UnregBufMoves
  <2> QED
    BY <1>0, <2>1, <2>2, <2>3, <2>4, CallFacts DEF UnregBufMoves
<1>19. StreamUndone => StreamUndoneMoves
  BY <1>0, CallFacts, CallMoves DEF StreamUndone, StreamUndoneMoves, CallInv, Stopping
<1>20. StopCmdThread => StopCmdThreadMoves
  BY <1>0, CallFacts, CallMoves DEF StopCmdThread, StopCmdThreadMoves, CallInv, Stopping
<1>21. StopCbThread => StopCbThreadMoves
  BY <1>0, CallFacts, CallMoves DEF StopCbThread, StopCbThreadMoves, CallInv, Stopping
<1>22. BundleStopped => BundleStoppedMoves
  BY <1>0, CallFacts, CallMoves DEF BundleStopped, BundleStoppedMoves, CallInv, Stopping
<1>23. PutBufs => PutBufsMoves
  BY <1>0, CallFacts, CallMoves DEF PutBufs, PutBufsMoves, CallInv, Stopping, Goes, Returns, Idle
<1>24. ExitProc => ExitProcMoves
  BY <1>0, CallFacts, CallMoves DEF ExitProc, ExitProcMoves, NextStream, CallInv, Stopping
<1>25. ProcJoined => ProcJoinedMoves
  BY <1>0, CallFacts, CallMoves DEF ProcJoined, ProcJoinedMoves, NextStream, CallInv, Stopping
<1>26. ASSUME DeleteChannel PROVE DeleteChannelMoves
  <2>1. hal = Idle /\ ch = "STOPPED" /\ Delete
    BY <1>26 DEF DeleteChannel
  <2> QED
    BY <2>1 DEF Delete, DeleteChannelMoves, Goes, Returns, Idle, CallReturns
<1>27. DeleteUnstarted => DeleteUnstartedMoves
  BY <1>0, CallFacts, CallMoves
  DEF DeleteUnstarted, DeleteUnstartedMoves, Delete, Goes, Returns, Idle
<1>28. ChannelDeleted => ChannelDeletedMoves
  BY <1>0, CallFacts, CallMoves
  DEF ChannelDeleted, ChannelDeletedMoves, CallInv, Stopping, Goes, Returns, Idle
<1> QED
  BY <1>1, <1>2, <1>3, <1>4, <1>5, <1>6, <1>7, <1>8, <1>9, <1>10, <1>11, <1>12, <1>13, <1>14,
     <1>15, <1>16, <1>17, <1>18, <1>19, <1>20, <1>21, <1>22, <1>23, <1>24, <1>25, <1>26, <1>27,
     <1>28

\* The call is always at a place there is.
LEMMA CallKept ==
  ASSUME Typed, CallInv,
         AddChannel \/ StartChannel \/ StopChannel \/ DeleteChannel \/ CallContinues
  PROVE  Stream' = Stream /\ Last' = Last /\ CallInv'
<1> USE DEF At, Goes, Returns, Idle, AddPcs, StartPcs, StopPcs
<1>0. Place /\ kind \in Kinds
  BY DEF Typed, CallInv
<1>1. CASE AddChannel
  BY <1>0, CallFacts, <1>1, Moves DEF AddChannelMoves, CallInv, Place, Stopping, Stream, Last
<1>2. CASE ChannelAdded
  BY <1>0, CallFacts, <1>2, Moves DEF ChannelAddedMoves, CallInv, Place, Stopping, Stream, Last
<1>3. CASE AcquireStream
  BY <1>0, CallFacts, <1>3, Moves DEF AcquireStreamMoves, CallInv, Place, Stopping, Stream, Last
<1>4. CASE ConfigStream
  BY <1>0, CallFacts, <1>4, Moves DEF ConfigStreamMoves, CallInv, Place, Stopping, Stream, Last
<1>5. CASE StartChannel
  BY <1>0, <1>5, Moves, CallFacts
  DEF StartChannel, StartChannelMoves, CallInv, Place, Stopping, Stream, Last, Typed
<1>6. CASE GetBuf
  BY <1>0, CallFacts, <1>6, Moves DEF GetBufMoves, CallInv, Place, Stopping, Stream, Last
<1>7. CASE RegBuf
  BY <1>0, CallFacts, <1>7, Moves DEF RegBufMoves, CallInv, Place, Stopping, Stream, Last
<1>8. CASE StartStream
  BY <1>0, CallFacts, <1>8, Moves DEF StartStreamMoves, CallInv, Place, Stopping, Stream, Last
<1>9. CASE StreamOn
  BY <1>0, CallFacts, <1>9, Moves DEF StreamOnMoves, CallInv, Place, Stopping, Stream, Last
<1>10. CASE StreamActive
  BY <1>0, CallFacts, <1>10, Moves DEF StreamActiveMoves, CallInv, Place, Stopping, Stream, Last
<1>11. CASE StreamOnFails
  BY <1>0, CallFacts, <1>11, Moves DEF StreamOnFailsMoves, CallInv, Place, Stopping, Stream, Last
<1>12. CASE ReleaseStrT
  BY <1>0, CallFacts, <1>12, Moves DEF ReleaseStrTMoves, CallInv, Place, Stopping, Stream, Last
<1>13. CASE StartFails
  BY <1>0, CallFacts, <1>13, Moves DEF StartFailsMoves, CallInv, Place, Stopping, Stream, Last
<1>14. CASE StopChannel
  BY <1>0, CallFacts, <1>14, Moves DEF StopChannelMoves, CallInv, Place, Stopping, Stream, Last
<1>15. CASE StopStream
  BY <1>0, CallFacts, <1>15, Moves DEF StopStreamMoves, CallInv, Place, Stopping, Stream, Last
<1>16. CASE StreamOff
  BY <1>0, CallFacts, <1>16, Moves DEF StreamOffMoves, CallInv, Place, Stopping, Stream, Last
<1>17. CASE StreamStopped
  BY <1>0, CallFacts, <1>17, Moves DEF StreamStoppedMoves, CallInv, Place, Stopping, Stream, Last
<1>18. CASE UnregBuf
  BY <1>0, CallFacts, <1>18, Moves DEF UnregBufMoves, CallInv, Place, Stopping, Stream, Last
<1>19. CASE StreamUndone
  BY <1>0, CallFacts, <1>19, Moves DEF StreamUndoneMoves, CallInv, Place, Stopping, Stream, Last
<1>20. CASE StopCmdThread
  BY <1>0, CallFacts, <1>20, Moves DEF StopCmdThreadMoves, CallInv, Place, Stopping, Stream, Last
<1>21. CASE StopCbThread
  BY <1>0, CallFacts, <1>21, Moves DEF StopCbThreadMoves, CallInv, Place, Stopping, Stream, Last
<1>22. CASE BundleStopped
  BY <1>0, CallFacts, <1>22, Moves DEF BundleStoppedMoves, CallInv, Place, Stopping, Stream, Last
<1>23. CASE PutBufs
  BY <1>0, CallFacts, <1>23, Moves DEF PutBufsMoves, CallInv, Place, Stopping, Stream, Last
<1>24. CASE ExitProc
  BY <1>0, CallFacts, <1>24, Moves DEF ExitProcMoves, CallInv, Place, Stopping, Stream, Last
<1>25. CASE ProcJoined
  BY <1>0, CallFacts, <1>25, Moves DEF ProcJoinedMoves, CallInv, Place, Stopping, Stream, Last
<1>26. CASE DeleteChannel
  BY <1>0, CallFacts, <1>26, Moves DEF DeleteChannelMoves, CallInv, Place, Stopping, Stream, Last
<1>27. CASE DeleteUnstarted
  BY <1>0, CallFacts, <1>27, Moves DEF DeleteUnstartedMoves, CallInv, Place, Stopping, Stream, Last
<1>28. CASE ChannelDeleted
  BY <1>0, CallFacts, <1>28, Moves DEF ChannelDeletedMoves, CallInv, Place, Stopping, Stream, Last
<1> QED
  BY <1>1, <1>2, <1>3, <1>4, <1>5, <1>6, <1>7, <1>8, <1>9, <1>10, <1>11, <1>12, <1>13, <1>14,
     <1>15, <1>16, <1>17, <1>18, <1>19, <1>20, <1>21, <1>22, <1>23, <1>24, <1>25, <1>26, <1>27,
     <1>28
  DEF CallContinues, Start, Stop

\* Each step of a call brings the stream it is for where the next one takes it from.
LEMMA StateKept ==
  ASSUME Typed, CallInv, UndoInv, NEW i \in Stream, StateInv(i),
         AddChannel \/ StartChannel \/ StopChannel \/ DeleteChannel \/ CallContinues
  PROVE  StateInv(i)'
<1> USE DEF At, InState, Goes, Returns, Idle, AddPcs, StartPcs, StopPcs, New,
            Configured, Buffed, Registered, Active
<1>0. /\ Place /\ kind \in Kinds /\ state \in [Index -> States] /\ allocated \subseteq Stream
      /\ Stream \subseteq Index /\ i \in Index /\ i \in 1 .. Last /\ Stream = 1 .. Last
  BY Streams DEF Typed, CallInv
<1>1. CASE AddChannel
  BY <1>0, CallFacts, <1>1, Moves
  DEF AddChannelMoves, AddChannel, bufVars, StateInv, CallInv, Met, Stopping
<1>2. CASE ChannelAdded
  BY <1>0, CallFacts, <1>2, Moves
  DEF ChannelAddedMoves, ChannelAdded, bufVars, StateInv, CallInv, Met, Stopping
<1>3. CASE AcquireStream
  <2>1. CASE Become(hal.i, "ACQUIRED") /\ Goto("config")
    BY <1>0, <1>3, <2>1, Moves, CallMoves, CallFacts
    DEF AcquireStreamMoves, AcquireStream, Become, StateInv, CallInv, Met
  <2>2. CASE Goto("delete") /\ UNCHANGED state
    BY <1>0, <1>3, <2>2, Moves, CallMoves, CallFacts
    DEF AcquireStreamMoves, AcquireStream, StateInv, CallInv, Met
  <2> QED
    BY <1>3, <2>1, <2>2 DEF AcquireStream
<1>4. CASE ConfigStream
  <2>1. CASE Become(hal.i, "CFG") /\ IF hal.i = Last THEN CallReturns ELSE GotoNext("acquire")
    BY <1>0, <1>4, <2>1, Moves, CallMoves, CallFacts
    DEF ConfigStreamMoves, ConfigStream, Become, StateInv, CallInv, Met
  <2>2. CASE Become(hal.i, "NOTUSED") /\ Goto("delete")
    BY <1>0, <1>4, <2>2, Moves, CallMoves, CallFacts
    DEF ConfigStreamMoves, ConfigStream, Become, StateInv, CallInv, Met
  <2> QED
    BY <1>4, <2>1, <2>2 DEF ConfigStream
<1>5. CASE StartChannel
  BY <1>0, CallFacts, <1>5, Moves
  DEF StartChannelMoves, StartChannel, bufVars, StateInv, CallInv, Met, Stopping
<1>6. CASE GetBuf
  BY <1>0, CallFacts, <1>6, Moves
  DEF GetBufMoves, GetBuf, Become, Undo, bufVars, StateInv, CallInv, Met, Stopping
<1>7. CASE RegBuf
  BY <1>0, CallFacts, <1>7, Moves
  DEF RegBufMoves, RegBuf, Become, Undo, bufVars, StateInv, CallInv, Met, Stopping
<1>8. CASE StartStream
  BY <1>0, CallFacts, <1>8, Moves
  DEF StartStreamMoves, StartStream, bufVars, StateInv, CallInv, Met, Stopping
<1>9. CASE StreamOn
  BY <1>0, CallFacts, <1>9, Moves
  DEF StreamOnMoves, StreamOn, bufVars, StateInv, CallInv, Met, Stopping
<1>10. CASE StreamActive
  BY <1>0, CallFacts, <1>10, Moves
  DEF StreamActiveMoves, StreamActive, Become, bufVars, StateInv, CallInv, Met, Stopping
<1>11. CASE StreamOnFails
  BY <1>0, CallFacts, <1>11, Moves
  DEF StreamOnFailsMoves, StreamOnFails, bufVars, StateInv, CallInv, Met, Stopping
<1>12. CASE ReleaseStrT
  BY <1>0, CallFacts, <1>12, Moves
  DEF ReleaseStrTMoves, ReleaseStrT, bufVars, StateInv, CallInv, Met, Stopping
<1>13. CASE StartFails
  BY <1>0, CallFacts, <1>13, Moves
  DEF StartFailsMoves, StartFails, Undo, bufVars, StateInv, CallInv, Met, Stopping
<1>14. CASE StopChannel
  BY <1>0, CallFacts, <1>14, Moves
  DEF StopChannelMoves, StopChannel, bufVars, StateInv, CallInv, Met, Stopping
<1>15. CASE StopStream
  BY <1>0, CallFacts, <1>15, Moves
  DEF StopStreamMoves, StopStream, bufVars, StateInv, CallInv, Met, Stopping
<1>16. CASE StreamOff
  BY <1>0, CallFacts, <1>16, Moves
  DEF StreamOffMoves, StreamOff, bufVars, StateInv, CallInv, Met, Stopping
<1>17. CASE StreamStopped
  BY <1>0, <1>17, Moves, CallFacts
  DEF StreamStoppedMoves, StreamStopped, Become, bufVars, UndoInv, StateInv, CallInv, Met
<1>18. CASE UnregBuf
  <2>1. CASE hal.op = "undo"
    BY <1>0, <1>18, <2>1, Moves, CallFacts
    DEF UnregBufMoves, UnregBuf, Become, StateInv, CallInv, Met
  <2>2. CASE hal.op = "stop"
    <3>1. /\ hal.pc = "unreg" /\ ch' = ch /\ ch = "ACTIVE" /\ allocated' = allocated
          /\ hal.i \in 1 .. Last
      BY <1>0, <1>18, <2>2, Moves, CallFacts DEF UnregBufMoves, UnregBuf, CallInv, Stopping
    <3>2. IF i = hal.i THEN Registered(i) /\ state'[i] = "BUFFED" ELSE state'[i] = state[i]
      BY <1>0, <1>18, <2>2, <3>1 DEF UnregBuf, Become, StateInv
    <3> QED
      BY <1>0, <1>18, <2>2, <3>1, <3>2, Moves DEF UnregBufMoves, StateInv
  <2> QED
    BY <1>18, <2>1, <2>2, Moves DEF UnregBufMoves
<1>19. CASE StreamUndone
  BY <1>0, CallFacts, <1>19, Moves
  DEF StreamUndoneMoves, StreamUndone, PutBuf, bufVars, StateInv, CallInv, Met, Stopping
<1>20. CASE StopCmdThread
  BY <1>0, CallFacts, <1>20, Moves
  DEF StopCmdThreadMoves, StopCmdThread, bufVars, StateInv, CallInv, Met, Stopping
<1>21. CASE StopCbThread
  BY <1>0, CallFacts, <1>21, Moves
  DEF StopCbThreadMoves, StopCbThread, bufVars, StateInv, CallInv, Met, Stopping
<1>22. CASE BundleStopped
  BY <1>0, CallFacts, <1>22, Moves
  DEF BundleStoppedMoves, BundleStopped, bufVars, StateInv, CallInv, Met, Stopping
<1>23. CASE PutBufs
  BY <1>0, CallFacts, <1>23, Moves
  DEF PutBufsMoves, PutBufs, PutBuf, bufVars, StateInv, CallInv, Met, Stopping
<1>24. CASE ExitProc
  BY <1>0, CallFacts, <1>24, Moves
  DEF ExitProcMoves, ExitProc, NextStream, bufVars, StateInv, CallInv, Met, Stopping
<1>25. CASE ProcJoined
  BY <1>0, CallFacts, <1>25, Moves
  DEF ProcJoinedMoves, ProcJoined, NextStream, bufVars, StateInv, CallInv, Met, Stopping
<1>26. CASE DeleteChannel
  BY <1>0, CallFacts, <1>26, Moves
  DEF DeleteChannelMoves, DeleteChannel, Delete, DeleteStreams, bufVars, StateInv, CallInv, Met,
      Stopping
<1>27. CASE DeleteUnstarted
  BY <1>0, CallFacts, <1>27, Moves
  DEF DeleteUnstartedMoves, DeleteUnstarted, Delete, DeleteStreams, bufVars, StateInv, CallInv,
      Met, Stopping
<1>28. CASE ChannelDeleted
  BY <1>0, CallFacts, <1>28, Moves
  DEF ChannelDeletedMoves, ChannelDeleted, bufVars, StateInv, CallInv, Met, Stopping
<1> QED
  BY <1>1, <1>2, <1>3, <1>4, <1>5, <1>6, <1>7, <1>8, <1>9, <1>10, <1>11, <1>12, <1>13, <1>14,
     <1>15, <1>16, <1>17, <1>18, <1>19, <1>20, <1>21, <1>22, <1>23, <1>24, <1>25, <1>26, <1>27,
     <1>28
  DEF CallContinues, Start, Stop

\* The last stream of a start that failed is not waited for.
LEMMA UndoKept ==
  ASSUME Typed, CallInv, UndoInv, \A i \in Stream : StateInv(i),
         AddChannel \/ StartChannel \/ StopChannel \/ DeleteChannel \/ CallContinues
  PROVE  UndoInv'
<1> USE DEF At, Goes, Returns, Idle, AddPcs, StartPcs, StopPcs
<1>0. Place /\ kind \in Kinds
  BY DEF Typed, CallInv
<1>1. CASE AddChannel
  BY <1>0, CallFacts, <1>1, Moves DEF AddChannelMoves, UndoInv
<1>2. CASE ChannelAdded
  BY <1>0, CallFacts, <1>2, Moves DEF ChannelAddedMoves, UndoInv
<1>3. CASE AcquireStream
  BY <1>0, CallFacts, <1>3, Moves DEF AcquireStreamMoves, UndoInv
<1>4. CASE ConfigStream
  BY <1>0, CallFacts, <1>4, Moves DEF ConfigStreamMoves, UndoInv
<1>5. CASE StartChannel
  BY <1>0, CallFacts, <1>5, Moves DEF StartChannelMoves, UndoInv
<1>6. CASE GetBuf
  BY <1>0, CallFacts, <1>6, Moves DEF GetBufMoves, UndoInv
<1>7. CASE RegBuf
  BY <1>0, CallFacts, <1>7, Moves DEF RegBufMoves, UndoInv
<1>8. CASE StartStream
  BY <1>0, CallFacts, <1>8, Moves DEF StartStreamMoves, UndoInv
<1>9. CASE StreamOn
  BY <1>0, CallFacts, <1>9, Moves DEF StreamOnMoves, UndoInv
<1>10. CASE StreamActive
  BY <1>0, CallFacts, <1>10, Moves DEF StreamActiveMoves, UndoInv
<1>11. CASE StreamOnFails
  BY <1>0, CallFacts, <1>11, Moves DEF StreamOnFailsMoves, UndoInv
<1>12. CASE ReleaseStrT
  BY <1>0, CallFacts, <1>12, Moves DEF ReleaseStrTMoves, UndoInv
<1>13. CASE StartFails
  BY <1>0, CallFacts, <1>13, Moves DEF StartFailsMoves, UndoInv
<1>14. CASE StopChannel
  BY <1>0, CallFacts, <1>14, Moves DEF StopChannelMoves, UndoInv
<1>15. CASE StopStream
  BY <1>0, <1>15, Moves, CallFacts
  DEF StopStreamMoves, UndoInv, StateInv, InState, Configured, Buffed, Registered
<1>16. CASE StreamOff
  BY <1>0, CallFacts, <1>16, Moves DEF StreamOffMoves, UndoInv
<1>17. CASE StreamStopped
  BY <1>0, CallFacts, <1>17, Moves DEF StreamStoppedMoves, UndoInv
<1>18. CASE UnregBuf
  BY <1>0, CallFacts, <1>18, Moves DEF UnregBufMoves, UndoInv
<1>19. CASE StreamUndone
  BY <1>0, CallFacts, <1>19, Moves DEF StreamUndoneMoves, UndoInv
<1>20. CASE StopCmdThread
  BY <1>0, CallFacts, <1>20, Moves DEF StopCmdThreadMoves, UndoInv
<1>21. CASE StopCbThread
  BY <1>0, CallFacts, <1>21, Moves DEF StopCbThreadMoves, UndoInv
<1>22. CASE BundleStopped
  BY <1>0, CallFacts, <1>22, Moves DEF BundleStoppedMoves, UndoInv
<1>23. CASE PutBufs
  BY <1>0, CallFacts, <1>23, Moves DEF PutBufsMoves, UndoInv
<1>24. CASE ExitProc
  BY <1>0, CallFacts, <1>24, Moves DEF ExitProcMoves, UndoInv
<1>25. CASE ProcJoined
  BY <1>0, CallFacts, <1>25, Moves DEF ProcJoinedMoves, UndoInv
<1>26. CASE DeleteChannel
  BY <1>0, CallFacts, <1>26, Moves DEF DeleteChannelMoves, UndoInv
<1>27. CASE DeleteUnstarted
  BY <1>0, CallFacts, <1>27, Moves DEF DeleteUnstartedMoves, UndoInv
<1>28. CASE ChannelDeleted
  BY <1>0, CallFacts, <1>28, Moves DEF ChannelDeletedMoves, UndoInv
<1> QED
  BY <1>1, <1>2, <1>3, <1>4, <1>5, <1>6, <1>7, <1>8, <1>9, <1>10, <1>11, <1>12, <1>13, <1>14,
     <1>15, <1>16, <1>17, <1>18, <1>19, <1>20, <1>21, <1>22, <1>23, <1>24, <1>25, <1>26, <1>27,
     <1>28
  DEF CallContinues, Start, Stop

\* What there is for a stream comes and goes with the step of the call.
LEMMA PartsKept ==
  ASSUME Typed, CallInv, UndoInv, NEW i \in Stream, StateInv(i), PartsInv(i),
         AddChannel \/ StartChannel \/ StopChannel \/ DeleteChannel \/ CallContinues
  PROVE  PartsInv(i)'
<1>0. /\ Place /\ kind \in Kinds /\ state \in [Index -> States]
      /\ strT \in [Index -> {"none", "run", "exiting"}]
      /\ Stream \subseteq Index /\ i \in Index /\ i \in 1 .. Last /\ Stream = 1 .. Last
  BY Streams DEF Typed, CallInv
<1> USE DEF At, InState, Goes, Returns, Idle, AddPcs, StartPcs, StopPcs, New, Configured, Buffed,
            Registered, Active, Here
<1>1. CASE AddChannel
  BY <1>0, CallFacts, <1>1, Moves
  DEF AddChannelMoves, AddChannel, LaunchPoll, bufVars, strVars, pollVars, StateInv, CallInv,
      PartsInv, UndoInv, Stopping
<1>2. CASE ChannelAdded
  BY <1>0, CallFacts, <1>2, Moves
  DEF ChannelAddedMoves, ChannelAdded, bufVars, strVars, pollVars, StateInv, CallInv, PartsInv,
      UndoInv, Stopping
<1>3. CASE AcquireStream
  BY <1>0, CallFacts, <1>3, Moves
  DEF AcquireStreamMoves, AcquireStream, Become, bufVars, strVars, pollVars, StateInv, CallInv,
      PartsInv, UndoInv, Stopping
<1>4. CASE ConfigStream
  BY <1>0, CallFacts, <1>4, Moves
  DEF ConfigStreamMoves, ConfigStream, Become, bufVars, strVars, pollVars, StateInv, CallInv,
      PartsInv, UndoInv, Stopping
<1>5. CASE StartChannel
  BY <1>0, CallFacts, <1>5, Moves
  DEF StartChannelMoves, StartChannel, bufVars, strVars, pollVars, StateInv, CallInv, PartsInv,
      UndoInv, Stopping
<1>6. CASE GetBuf
  BY <1>0, CallFacts, <1>6, Moves
  DEF GetBufMoves, GetBuf, Become, Undo, bufVars, strVars, pollVars, StateInv, CallInv, PartsInv,
      UndoInv, Stopping
<1>7. CASE RegBuf
  BY <1>0, CallFacts, <1>7, Moves
  DEF RegBufMoves, RegBuf, Become, Undo, bufVars, strVars, pollVars, StateInv, CallInv, PartsInv,
      UndoInv, Stopping
<1>8. CASE StartStream
  BY <1>0, CallFacts, <1>8, Moves
  DEF StartStreamMoves, StartStream, AddPollFd, Sig, bufVars, strVars, pollVars, StateInv,
      CallInv, PartsInv, UndoInv, Stopping
<1>9. CASE StreamOn
  BY <1>0, CallFacts, <1>9, Moves
  DEF StreamOnMoves, StreamOn, bufVars, strVars, pollVars, StateInv, CallInv, PartsInv, UndoInv,
      Stopping
<1>10. CASE StreamActive
  BY <1>0, CallFacts, <1>10, Moves
  DEF StreamActiveMoves, StreamActive, Become, bufVars, strVars, pollVars, StateInv, CallInv,
      PartsInv, UndoInv, Stopping
<1>11. CASE StreamOnFails
  BY <1>0, CallFacts, <1>11, Moves
  DEF StreamOnFailsMoves, StreamOnFails, DelPollFd, Sig, bufVars, strVars, pollVars, StateInv,
      CallInv, PartsInv, UndoInv, Stopping
<1>12. CASE ReleaseStrT
  BY <1>0, CallFacts, <1>12, Moves
  DEF ReleaseStrTMoves, ReleaseStrT, bufVars, strVars, pollVars, StateInv, CallInv, PartsInv,
      UndoInv, Stopping
<1>13. CASE StartFails
  BY <1>0, CallFacts, <1>13, Moves
  DEF StartFailsMoves, StartFails, Undo, bufVars, strVars, pollVars, StateInv, CallInv, PartsInv,
      UndoInv, Stopping
<1>14. CASE StopChannel
  BY <1>0, CallFacts, <1>14, Moves
  DEF StopChannelMoves, StopChannel, bufVars, strVars, pollVars, StateInv, CallInv, PartsInv,
      UndoInv, Stopping
<1>15. CASE StopStream
  <2>1. UNCHANGED <<streaming, state, strT, strQ>>
    BY <1>15 DEF StopStream, bufVars, strVars
  <2>2. CASE InState(hal.i, "ACTIVE")
    <3>1. poll_entries' = poll_entries \ {hal.i} /\ hal'.pc = "off" /\ hal'.i = hal.i
      BY <1>0, <1>15, <2>2, Moves DEF StopStreamMoves, StopStream, DelPollFd
    <3> QED
      BY <1>0, <1>15, <2>1, <2>2, <3>1, Moves DEF StopStreamMoves, PartsInv
  <2>3. CASE ~InState(hal.i, "ACTIVE")
    <3>1. UNCHANGED poll_entries
      BY <1>15, <2>3 DEF StopStream, pollVars
    <3> QED
      BY <1>0, <1>15, <2>1, <2>3, <3>1, Moves DEF StopStreamMoves, PartsInv
  <2> QED
    BY <2>2, <2>3
<1>16. CASE StreamOff
  BY <1>0, CallFacts, <1>16, Moves
  DEF StreamOffMoves, StreamOff, bufVars, strVars, pollVars, StateInv, CallInv, PartsInv, UndoInv,
      Stopping
<1>17. CASE StreamStopped
  BY <1>0, CallFacts, <1>17, Moves
  DEF StreamStoppedMoves, StreamStopped, Become, bufVars, strVars, pollVars, StateInv, CallInv,
      PartsInv, UndoInv, Stopping
<1>18. CASE UnregBuf
  <2>1. /\ UNCHANGED <<streaming, strT, strQ, poll_entries>>
        /\ InState(i, "ACTIVE")' <=> InState(i, "ACTIVE")
    BY <1>0, <1>18 DEF UnregBuf, Become, strVars, pollVars
  <2> QED
    BY <1>0, <1>18, <2>1, Moves DEF UnregBufMoves, PartsInv
<1>19. CASE StreamUndone
  BY <1>0, CallFacts, <1>19, Moves
  DEF StreamUndoneMoves, StreamUndone, PutBuf, bufVars, strVars, pollVars, StateInv, CallInv,
      PartsInv, UndoInv, Stopping
<1>20. CASE StopCmdThread
  BY <1>0, CallFacts, <1>20, Moves
  DEF StopCmdThreadMoves, StopCmdThread, bufVars, strVars, pollVars, StateInv, CallInv, PartsInv,
      UndoInv, Stopping
<1>21. CASE StopCbThread
  BY <1>0, CallFacts, <1>21, Moves
  DEF StopCbThreadMoves, StopCbThread, bufVars, strVars, pollVars, StateInv, CallInv, PartsInv,
      UndoInv, Stopping
<1>22. CASE BundleStopped
  BY <1>0, CallFacts, <1>22, Moves
  DEF BundleStoppedMoves, BundleStopped, bufVars, strVars, pollVars, StateInv, CallInv, PartsInv,
      UndoInv, Stopping
<1>23. CASE PutBufs
  BY <1>0, CallFacts, <1>23, Moves
  DEF PutBufsMoves, PutBufs, PutBuf, bufVars, strVars, pollVars, StateInv, CallInv, PartsInv,
      UndoInv, Stopping
<1>24. CASE ExitProc
  BY <1>0, CallFacts, <1>24, Moves
  DEF ExitProcMoves, ExitProc, NextStream, bufVars, strVars, pollVars, StateInv, CallInv,
      PartsInv, UndoInv, Stopping
<1>25. CASE ProcJoined
  BY <1>0, CallFacts, <1>25, Moves
  DEF ProcJoinedMoves, ProcJoined, NextStream, bufVars, strVars, pollVars, StateInv, CallInv,
      PartsInv, UndoInv, Stopping
<1>26. CASE DeleteChannel
  BY <1>0, CallFacts, <1>26, Moves
  DEF DeleteChannelMoves, DeleteChannel, Delete, DeleteStreams, ReleasePoll, Sig, bufVars,
      strVars, pollVars, StateInv, CallInv, PartsInv, UndoInv, Stopping
<1>27. CASE DeleteUnstarted
  <2>1. /\ UNCHANGED <<streaming, strT, strQ, poll_entries>>
        /\ InState(i, "ACTIVE")' <=> InState(i, "ACTIVE")
    BY <1>0, <1>27 DEF DeleteUnstarted, Delete, DeleteStreams, ReleasePoll, Sig, strVars, pollVars
  <2> QED
    BY <1>0, <1>27, <2>1, Moves DEF DeleteUnstartedMoves, PartsInv
<1>28. CASE ChannelDeleted
  BY <1>0, CallFacts, <1>28, Moves
  DEF ChannelDeletedMoves, ChannelDeleted, bufVars, strVars, pollVars, StateInv, CallInv,
      PartsInv, UndoInv, Stopping
<1> QED
  BY <1>1, <1>2, <1>3, <1>4, <1>5, <1>6, <1>7, <1>8, <1>9, <1>10, <1>11, <1>12, <1>13, <1>14,
     <1>15, <1>16, <1>17, <1>18, <1>19, <1>20, <1>21, <1>22, <1>23, <1>24, <1>25, <1>26, <1>27,
     <1>28
  DEF CallContinues, Start, Stop

\* A start that fails leaves word of it, and a deletion of the poll thread.
LEMMA LeftKept ==
  ASSUME Typed, CallInv, LeftInv,
         AddChannel \/ StartChannel \/ StopChannel \/ DeleteChannel \/ CallContinues
  PROVE  LeftInv'
<1> USE DEF At, Goes, Returns, Idle
<1>0. /\ Place /\ kind \in Kinds
      /\ hal.op = "none" <=> hal = Idle
      /\ ch = "deleted" => hal = Idle
  BY CallFacts DEF Typed, CallInv, LeftInv
<1>1. CASE AddChannel \/ ChannelAdded \/ AcquireStream \/ ConfigStream
  BY <1>0, <1>1, Moves
  DEF AddChannelMoves, ChannelAddedMoves, AcquireStreamMoves, ConfigStreamMoves, LeftInv
<1>2. CASE StartChannel
  BY <1>0, <1>2, Moves DEF StartChannelMoves, LeftInv
<1>3. CASE GetBuf \/ RegBuf \/ StartStream \/ StreamOn
  BY <1>0, <1>3, Moves DEF GetBufMoves, RegBufMoves, StartStreamMoves, StreamOnMoves, LeftInv
<1>4. CASE StreamActive \/ StreamOnFails \/ ReleaseStrT \/ StartFails
  BY <1>0, <1>4, Moves
  DEF StreamActiveMoves, StreamOnFailsMoves, ReleaseStrTMoves, StartFailsMoves, LeftInv
<1>5. CASE StopChannel
  BY <1>0, <1>5, Moves DEF StopChannelMoves, LeftInv
<1>6. CASE StopStream \/ StreamOff \/ StreamStopped \/ UnregBuf
  <2>1. UNCHANGED upsets
    BY <1>6 DEF StopStream, StreamOff, StreamStopped, UnregBuf
  <2> QED
    BY <1>0, <1>6, <2>1, Moves
    DEF StopStreamMoves, StreamOffMoves, StreamStoppedMoves, UnregBufMoves, LeftInv, Met
<1>7. CASE StreamUndone
  <2>1. Met({"start"})'
    <3>1. hal.op = "undo"
      BY <1>7, Moves DEF StreamUndoneMoves
    <3> QED
      BY <1>7, <3>1 DEF StreamUndone, PutBuf, Met
  <2> QED
    BY <1>0, <1>7, <2>1, Moves DEF StreamUndoneMoves, LeftInv
<1>8. CASE StopCmdThread \/ StopCbThread \/ BundleStopped
  BY <1>0, <1>8, Moves DEF StopCmdThreadMoves, StopCbThreadMoves, BundleStoppedMoves, LeftInv
<1>9. CASE PutBufs \/ ExitProc \/ ProcJoined
  BY <1>0, <1>9, Moves DEF PutBufsMoves, ExitProcMoves, ProcJoinedMoves, LeftInv
<1>10. CASE DeleteChannel \/ DeleteUnstarted
  <2>1. \/ Met({"abandoned"})' /\ hal' = Idle
        \/ ch' = ch /\ hal'.op = "delete"
    BY <1>10 DEF DeleteChannel, DeleteUnstarted, Delete, CallReturns, Met
  <2>2. hal'.op # "undo" /\ ch # "deleted"
    BY <1>0, <1>10, Moves DEF DeleteChannelMoves, DeleteUnstartedMoves
  <2> QED
    BY <2>1, <2>2 DEF LeftInv
<1>11. CASE ChannelDeleted
  <2>1. poll_pc' = "gone"
    BY <1>11 DEF ChannelDeleted, pollVars
  <2> QED
    BY <1>11, <2>1, Moves DEF ChannelDeletedMoves, LeftInv
<1> QED
  BY <1>1, <1>2, <1>3, <1>4, <1>5, <1>6, <1>7, <1>8, <1>9, <1>10, <1>11
  DEF CallContinues, Start, Stop

\* The poll thread has one command at most, and its caller waits for it.
LEMMA PollKept ==
  ASSUME Typed, CallInv, PollInv, \A i \in Stream : StateInv(i) /\ PartsInv(i),
         AddChannel \/ StartChannel \/ StopChannel \/ DeleteChannel \/ CallContinues
  PROVE  PollInv'
<1>0. Place /\ kind \in Kinds /\ sig_wait \in BOOLEAN /\ Stream = 1 .. Last
  BY Streams DEF Typed, CallInv
<1> USE DEF At, InState, Goes, Returns, Idle, AddPcs, StartPcs, StopPcs, SigDone
<1>1. CASE AddChannel
  BY <1>0, CallFacts, Commands, <1>1, Moves
  DEF AddChannelMoves, AddChannel, LaunchPoll, pollVars, CallInv, PollInv, Scanning, Stopping
<1>2. CASE ChannelAdded
  BY <1>0, CallFacts, Commands, <1>2, Moves
  DEF ChannelAddedMoves, ChannelAdded, pollVars, CallInv, PollInv, Scanning, Stopping
<1>3. CASE AcquireStream
  BY <1>0, CallFacts, Commands, <1>3, Moves
  DEF AcquireStreamMoves, AcquireStream, Become, pollVars, CallInv, PollInv, Scanning, Stopping
<1>4. CASE ConfigStream
  BY <1>0, CallFacts, Commands, <1>4, Moves
  DEF ConfigStreamMoves, ConfigStream, Become, pollVars, CallInv, PollInv, Scanning, Stopping
<1>5. CASE StartChannel
  BY <1>0, CallFacts, Commands, <1>5, Moves
  DEF StartChannelMoves, StartChannel, pollVars, CallInv, PollInv, Scanning, Stopping
<1>6. CASE GetBuf
  BY <1>0, CallFacts, Commands, <1>6, Moves
  DEF GetBufMoves, GetBuf, Become, Undo, pollVars, CallInv, PollInv, Scanning, Stopping
<1>7. CASE RegBuf
  BY <1>0, CallFacts, Commands, <1>7, Moves
  DEF RegBufMoves, RegBuf, Become, Undo, pollVars, CallInv, PollInv, Scanning, Stopping
<1>8. CASE StartStream
  <2>1. pipe = <<>> /\ poll_pc \notin {"none", "launched", "gone"} /\ hal.i \notin poll_entries
    BY <1>0, <1>8, Moves, CallFacts
    DEF StartStreamMoves, CallInv, PollInv, StateInv, Registered, PartsInv, Here, Stopping
  <2>2. /\ pipe' = <<"UPDATED">> /\ sig_wait' = TRUE /\ poll_entries' = poll_entries \cup {hal.i}
        /\ UNCHANGED <<poll_fds, poll_pc, poll_state>>
    BY <1>8, <2>1, Commands DEF StartStream, AddPollFd, Sig
  <2> QED
    BY <1>0, <1>8, <2>1, <2>2, Moves, CallFacts, Commands DEF StartStreamMoves, PollInv, Scanning
<1>9. CASE StreamOn
  BY <1>0, CallFacts, Commands, <1>9, Moves
  DEF StreamOnMoves, StreamOn, pollVars, CallInv, PollInv, Scanning, Stopping
<1>10. CASE StreamActive
  BY <1>0, CallFacts, Commands, <1>10, Moves
  DEF StreamActiveMoves, StreamActive, Become, pollVars, CallInv, PollInv, Scanning, Stopping
<1>11. CASE StreamOnFails
  <2>1. pipe = <<>> /\ poll_pc \notin {"none", "launched", "gone"} /\ hal.i \in poll_entries
    BY <1>0, <1>11, Moves, CallFacts
    DEF StreamOnFailsMoves, StreamOnFails, CallInv, PollInv, StateInv, Registered, PartsInv, Here,
        Stopping
  <2>2. /\ pipe' = <<"UPDATED">> /\ sig_wait' = TRUE /\ poll_entries' = poll_entries \ {hal.i}
        /\ UNCHANGED <<poll_fds, poll_pc, poll_state>>
    BY <1>11, <2>1, Commands DEF StreamOnFails, DelPollFd, Sig
  <2> QED
    BY <1>0, <1>11, <2>1, <2>2, Moves, CallFacts, Commands
    DEF StreamOnFailsMoves, PollInv, Scanning
<1>12. CASE ReleaseStrT
  BY <1>0, CallFacts, Commands, <1>12, Moves
  DEF ReleaseStrTMoves, ReleaseStrT, pollVars, CallInv, PollInv, Scanning, Stopping
<1>13. CASE StartFails
  BY <1>0, CallFacts, Commands, <1>13, Moves
  DEF StartFailsMoves, StartFails, Undo, pollVars, CallInv, PollInv, Scanning, Stopping
<1>14. CASE StopChannel
  BY <1>0, CallFacts, Commands, <1>14, Moves
  DEF StopChannelMoves, StopChannel, pollVars, CallInv, PollInv, Scanning, Stopping
<1>15. CASE StopStream
  <2>1. CASE ~InState(hal.i, "ACTIVE")
    BY <1>0, <1>15, <2>1, Moves, CallFacts
    DEF StopStreamMoves, StopStream, pollVars, PollInv, Scanning
  <2>2. CASE InState(hal.i, "ACTIVE")
    <3>1. pipe = <<>> /\ poll_pc \notin {"none", "launched", "gone"} /\ hal.i \in poll_entries
      BY <1>0, <1>15, <2>2, Moves, CallFacts
      DEF StopStreamMoves, StopStream, CallInv, PollInv, StateInv, Registered, PartsInv, Here,
          Stopping
    <3>2. /\ pipe' = <<"UPDATED">> /\ sig_wait' = TRUE /\ poll_entries' = poll_entries \ {hal.i}
          /\ UNCHANGED <<poll_fds, poll_pc, poll_state>>
      BY <1>15, <2>2, <3>1, Commands DEF StopStream, DelPollFd, Sig
    <3> QED
      BY <1>0, <1>15, <2>2, <3>1, <3>2, Moves, CallFacts, Commands
      DEF StopStreamMoves, PollInv, Scanning
  <2> QED
    BY <2>1, <2>2
<1>16. CASE StreamOff
  BY <1>0, CallFacts, Commands, <1>16, Moves
  DEF StreamOffMoves, StreamOff, pollVars, CallInv, PollInv, Scanning, Stopping
<1>17. CASE StreamStopped
  BY <1>0, CallFacts, Commands, <1>17, Moves
  DEF StreamStoppedMoves, StreamStopped, Become, pollVars, CallInv, PollInv, Scanning, Stopping
<1>18. CASE UnregBuf
  BY <1>0, CallFacts, Commands, <1>18, Moves
  DEF UnregBufMoves, UnregBuf, Become, pollVars, CallInv, PollInv, Scanning, Stopping
<1>19. CASE StreamUndone
  BY <1>0, CallFacts, Commands, <1>19, Moves
  DEF StreamUndoneMoves, StreamUndone, PutBuf, pollVars, CallInv, PollInv, Scanning, Stopping
<1>20. CASE StopCmdThread
  BY <1>0, CallFacts, Commands, <1>20, Moves
  DEF StopCmdThreadMoves, StopCmdThread, pollVars, CallInv, PollInv, Scanning, Stopping
<1>21. CASE StopCbThread
  BY <1>0, CallFacts, Commands, <1>21, Moves
  DEF StopCbThreadMoves, StopCbThread, pollVars, CallInv, PollInv, Scanning, Stopping
<1>22. CASE BundleStopped
  BY <1>0, CallFacts, Commands, <1>22, Moves
  DEF BundleStoppedMoves, BundleStopped, pollVars, CallInv, PollInv, Scanning, Stopping
<1>23. CASE PutBufs
  BY <1>0, CallFacts, Commands, <1>23, Moves
  DEF PutBufsMoves, PutBufs, PutBuf, pollVars, CallInv, PollInv, Scanning, Stopping
<1>24. CASE ExitProc
  BY <1>0, CallFacts, Commands, <1>24, Moves
  DEF ExitProcMoves, ExitProc, NextStream, pollVars, CallInv, PollInv, Scanning, Stopping
<1>25. CASE ProcJoined
  BY <1>0, CallFacts, Commands, <1>25, Moves
  DEF ProcJoinedMoves, ProcJoined, NextStream, pollVars, CallInv, PollInv, Scanning, Stopping
<1>26. CASE DeleteChannel
  <2>1. /\ pipe = <<>> /\ poll_pc # "none" /\ poll_pc # "launched" /\ poll_pc # "gone"
    BY <1>0, <1>26, Moves, CallFacts
    DEF DeleteChannelMoves, DeleteChannel, CallInv, PollInv, Stopping
  <2>2. CASE poll_state = "STOPPED"
    BY <1>0, <1>26, <2>1, <2>2, Moves, CallFacts
    DEF DeleteChannelMoves, DeleteChannel, Delete, ReleasePoll, pollVars, PollInv, Scanning
  <2>3. CASE poll_state # "STOPPED"
    <3>1. /\ pipe' = <<"EXIT">> /\ sig_wait' = TRUE
          /\ UNCHANGED <<poll_entries, poll_fds, poll_pc, poll_state>>
      BY <1>26, <2>1, <2>3, Commands DEF DeleteChannel, Delete, ReleasePoll, Sig
    <3> QED
      BY <1>0, <1>26, <2>1, <2>3, <3>1, Moves, CallFacts, Commands
      DEF DeleteChannelMoves, PollInv, Scanning
  <2> QED
    BY <2>2, <2>3
<1>27. CASE DeleteUnstarted
  <2>1. /\ pipe = <<>> /\ poll_pc # "none" /\ poll_pc # "launched" /\ poll_pc # "gone"
    BY <1>0, <1>27, Moves, CallFacts
    DEF DeleteUnstartedMoves, DeleteUnstarted, CallInv, PollInv, Stopping
  <2>2. CASE poll_state = "STOPPED"
    BY <1>0, <1>27, <2>1, <2>2, Moves, CallFacts
    DEF DeleteUnstartedMoves, DeleteUnstarted, Delete, ReleasePoll, pollVars, PollInv, Scanning
  <2>3. CASE poll_state # "STOPPED"
    <3>1. /\ pipe' = <<"EXIT">> /\ sig_wait' = TRUE
          /\ UNCHANGED <<poll_entries, poll_fds, poll_pc, poll_state>>
      BY <1>27, <2>1, <2>3, Commands DEF DeleteUnstarted, Delete, ReleasePoll, Sig
    <3> QED
      BY <1>0, <1>27, <2>1, <2>3, <3>1, Moves, CallFacts, Commands
      DEF DeleteUnstartedMoves, PollInv, Scanning
  <2> QED
    BY <2>2, <2>3
<1>28. CASE ChannelDeleted
  BY <1>0, CallFacts, Commands, <1>28, Moves
  DEF ChannelDeletedMoves, ChannelDeleted, pollVars, CallInv, PollInv, Scanning, Stopping
<1> QED
  BY <1>1, <1>2, <1>3, <1>4, <1>5, <1>6, <1>7, <1>8, <1>9, <1>10, <1>11, <1>12, <1>13, <1>14,
     <1>15, <1>16, <1>17, <1>18, <1>19, <1>20, <1>21, <1>22, <1>23, <1>24, <1>25, <1>26, <1>27,
     <1>28
  DEF CallContinues, Start, Stop

\* The poll thread only has to do with streams that are on.
LEMMA CbKept ==
  ASSUME Typed, CallInv, PollInv, CbInv, \A i \in Stream : StateInv(i) /\ PartsInv(i),
         AddChannel \/ StartChannel \/ StopChannel \/ DeleteChannel \/ CallContinues
  PROVE  CbInv'
<1>0. /\ Place /\ kind \in Kinds /\ sig_wait \in BOOLEAN /\ Stream = 1 .. Last
      /\ poll_fds \subseteq Stream /\ streaming \subseteq Stream
      /\ state \in [Index -> States] /\ Stream \subseteq Index
      /\ cb \in [i : Stream \cup {None}, b : Bufs \cup {None}]
  BY Streams DEF Typed, CallInv
<1> USE DEF At, InState, Goes, Returns, Idle, AddPcs, StartPcs, StopPcs, SigDone
<1>1. CASE AddChannel
  BY <1>0, CallFacts, <1>1, Moves
  DEF AddChannelMoves, AddChannel, LaunchPoll, bufVars, pollVars, CbInv, PollInv, Scanning, Buf,
      Bundled
<1>2. CASE ChannelAdded
  BY <1>0, CallFacts, <1>2, Moves
  DEF ChannelAddedMoves, ChannelAdded, bufVars, pollVars, CbInv, PollInv, Scanning, Buf, Bundled
<1>3. CASE AcquireStream
  <2>1. hal.i \in Stream /\ ~InState(hal.i, "ACTIVE")
    BY <1>0, <1>3, Moves, CallFacts
    DEF AcquireStreamMoves, CallInv, Stopping, StateInv, New, Buffed, Configured
  <2>2. \A j \in Stream : j # hal.i => state'[j] = state[j]
    BY <1>0, <1>3 DEF AcquireStream, Become
  <2> QED
    BY <1>0, <1>3, <2>1, <2>2, Moves
    DEF AcquireStreamMoves, AcquireStream, pollVars, CbInv, Scanning, Buf, Bundled
<1>4. CASE ConfigStream
  <2>1. hal.i \in Stream /\ ~InState(hal.i, "ACTIVE")
    BY <1>0, <1>4, Moves, CallFacts
    DEF ConfigStreamMoves, CallInv, Stopping, StateInv, New, Buffed, Configured
  <2>2. \A j \in Stream : j # hal.i => state'[j] = state[j]
    BY <1>0, <1>4 DEF ConfigStream, Become
  <2> QED
    BY <1>0, <1>4, <2>1, <2>2, Moves
    DEF ConfigStreamMoves, ConfigStream, pollVars, CbInv, Scanning, Buf, Bundled
<1>5. CASE StartChannel
  BY <1>0, CallFacts, <1>5, Moves
  DEF StartChannelMoves, StartChannel, bufVars, pollVars, CbInv, PollInv, Scanning, Buf, Bundled
<1>6. CASE GetBuf
  BY <1>0, CallFacts, <1>6, Moves
  DEF GetBufMoves, GetBuf, Become, Undo, bufVars, pollVars, CbInv, PollInv, Scanning, Buf, Bundled
<1>7. CASE RegBuf
  <2>1. hal.i \in Stream /\ ~InState(hal.i, "ACTIVE")
    BY <1>0, <1>7, Moves, CallFacts
    DEF RegBufMoves, CallInv, Stopping, StateInv, New, Buffed, Configured
  <2>2. \A j \in Stream : j # hal.i => state'[j] = state[j]
    BY <1>0, <1>7 DEF RegBuf, Become
  <2> QED
    BY <1>0, <1>7, <2>1, <2>2, Moves
    DEF RegBufMoves, RegBuf, pollVars, CbInv, Scanning, Buf, Bundled
<1>8. CASE StartStream
  BY <1>0, CallFacts, <1>8, Moves
  DEF StartStreamMoves, StartStream, AddPollFd, Sig, bufVars, pollVars, CbInv, PollInv, Scanning,
      Buf, Bundled
<1>9. CASE StreamOn
  BY <1>0, CallFacts, <1>9, Moves
  DEF StreamOnMoves, StreamOn, bufVars, pollVars, CbInv, PollInv, Scanning, Buf, Bundled
<1>10. CASE StreamActive
  BY <1>0, CallFacts, <1>10, Moves
  DEF StreamActiveMoves, StreamActive, Become, bufVars, pollVars, CbInv, PollInv, Scanning, Buf,
      Bundled
<1>11. CASE StreamOnFails
  BY <1>0, CallFacts, <1>11, Moves
  DEF StreamOnFailsMoves, StreamOnFails, DelPollFd, Sig, bufVars, pollVars, CbInv, PollInv,
      Scanning, Buf, Bundled
<1>12. CASE ReleaseStrT
  BY <1>0, CallFacts, <1>12, Moves
  DEF ReleaseStrTMoves, ReleaseStrT, bufVars, pollVars, CbInv, PollInv, Scanning, Buf, Bundled
<1>13. CASE StartFails
  BY <1>0, CallFacts, <1>13, Moves
  DEF StartFailsMoves, StartFails, Undo, bufVars, pollVars, CbInv, PollInv, Scanning, Buf, Bundled
<1>14. CASE StopChannel
  BY <1>0, CallFacts, <1>14, Moves
  DEF StopChannelMoves, StopChannel, bufVars, pollVars, CbInv, PollInv, Scanning, Buf, Bundled
<1>15. CASE StopStream
  BY <1>0, CallFacts, <1>15, Moves
  DEF StopStreamMoves, StopStream, DelPollFd, Sig, bufVars, pollVars, CbInv, PollInv, Scanning,
      Buf, Bundled
<1>16. CASE StreamOff
  <2>1. hal.i \in Stream /\ pipe = <<>> /\ hal.i \notin poll_entries
    BY <1>0, <1>16, Moves, CallFacts DEF StreamOffMoves, StreamOff, PollInv, PartsInv, Here
  <2>2. hal.i \notin poll_fds
    BY <2>1, Commands DEF PollInv
  <2> QED
    BY <1>0, <1>16, <2>2, Moves
    DEF StreamOffMoves, StreamOff, pollVars, CbInv, Scanning, Buf, Bundled
<1>17. CASE StreamStopped
  <2>1. hal.i \in Stream /\ hal.i \notin streaming
    BY <1>0, <1>17, Moves, CallFacts DEF StreamStoppedMoves, PartsInv, Here
  <2>2. \A j \in Stream : j # hal.i => state'[j] = state[j]
    BY <1>0, <1>17 DEF StreamStopped, Become
  <2> QED
    BY <1>0, <1>17, <2>1, <2>2, Moves
    DEF StreamStoppedMoves, StreamStopped, pollVars, CbInv, Scanning, Buf, Bundled
<1>18. CASE UnregBuf
  BY <1>0, CallFacts, <1>18, Moves
  DEF UnregBufMoves, UnregBuf, Become, bufVars, pollVars, CbInv, PollInv, Scanning, Buf, Bundled
<1>19. CASE StreamUndone
  BY <1>0, CallFacts, <1>19, Moves
  DEF StreamUndoneMoves, StreamUndone, PutBuf, bufVars, pollVars, CbInv, PollInv, Scanning, Buf,
      Bundled
<1>20. CASE StopCmdThread
  BY <1>0, CallFacts, <1>20, Moves
  DEF StopCmdThreadMoves, StopCmdThread, bufVars, pollVars, CbInv, PollInv, Scanning, Buf, Bundled
<1>21. CASE StopCbThread
  BY <1>0, CallFacts, <1>21, Moves
  DEF StopCbThreadMoves, StopCbThread, bufVars, pollVars, CbInv, PollInv, Scanning, Buf, Bundled
<1>22. CASE BundleStopped
  BY <1>0, CallFacts, <1>22, Moves
  DEF BundleStoppedMoves, BundleStopped, bufVars, pollVars, CbInv, PollInv, Scanning, Buf, Bundled
<1>23. CASE PutBufs
  BY <1>0, CallFacts, <1>23, Moves
  DEF PutBufsMoves, PutBufs, PutBuf, bufVars, pollVars, CbInv, PollInv, Scanning, Buf, Bundled
<1>24. CASE ExitProc
  BY <1>0, CallFacts, <1>24, Moves
  DEF ExitProcMoves, ExitProc, NextStream, bufVars, pollVars, CbInv, PollInv, Scanning, Buf,
      Bundled
<1>25. CASE ProcJoined
  BY <1>0, CallFacts, <1>25, Moves
  DEF ProcJoinedMoves, ProcJoined, NextStream, bufVars, pollVars, CbInv, PollInv, Scanning, Buf,
      Bundled
<1>26. CASE DeleteChannel
  BY <1>0, CallFacts, <1>26, Moves
  DEF DeleteChannelMoves, DeleteChannel, Delete, DeleteStreams, ReleasePoll, Sig, bufVars,
      pollVars, CbInv, PollInv, Scanning, Buf, Bundled
<1>27. CASE DeleteUnstarted
  BY <1>0, CallFacts, <1>27, Moves
  DEF DeleteUnstartedMoves, DeleteUnstarted, Delete, DeleteStreams, ReleasePoll, Sig, bufVars,
      pollVars, CbInv, PollInv, Scanning, Buf, Bundled
<1>28. CASE ChannelDeleted
  BY <1>0, CallFacts, <1>28, Moves
  DEF ChannelDeletedMoves, ChannelDeleted, bufVars, pollVars, CbInv, PollInv, Scanning, Buf,
      Bundled
<1> QED
  BY <1>1, <1>2, <1>3, <1>4, <1>5, <1>6, <1>7, <1>8, <1>9, <1>10, <1>11, <1>12, <1>13, <1>14,
     <1>15, <1>16, <1>17, <1>18, <1>19, <1>20, <1>21, <1>22, <1>23, <1>24, <1>25, <1>26, <1>27,
     <1>28
  DEF CallContinues, Start, Stop

\* A thread of the HAL is joined once, and takes the EXIT that is meant for it.
LEMMA ProcKept ==
  ASSUME Typed, CallInv, NEW i \in Stream, ProcInv(i),
         AddChannel \/ StartChannel \/ StopChannel \/ DeleteChannel \/ CallContinues
  PROVE  ProcInv(i)'
<1>0. /\ Place /\ kind \in Kinds /\ Stream \subseteq Index /\ i \in Index /\ i \in 1 .. Last
      /\ Stream = 1 .. Last /\ starts \in 0 .. MaxStarts /\ MaxStarts \in Nat
      /\ exits \in [Index -> 0 .. 1] /\ cmd_pid \in [Index -> Thread \cup {None}]
      /\ procs \in [Index -> [Thread -> {"none", "wait", "busy", "gone"}]]
  BY Streams, StreamAssumption DEF Typed, CallInv
<1> USE DEF At, Goes, Returns, Idle, AddPcs, StartPcs, StopPcs, Here, None, Thread, Alive
<1>1. CASE AddChannel
  BY <1>0, CallFacts, <1>1, Moves DEF AddChannelMoves, AddChannel, LaunchPoll, procVars, ProcInv
<1>2. CASE ChannelAdded
  BY <1>0, CallFacts, <1>2, Moves DEF ChannelAddedMoves, ChannelAdded, procVars, ProcInv
<1>3. CASE AcquireStream
  BY <1>0, CallFacts, <1>3, Moves DEF AcquireStreamMoves, AcquireStream, Become, procVars, ProcInv
<1>4. CASE ConfigStream
  BY <1>0, CallFacts, <1>4, Moves DEF ConfigStreamMoves, ConfigStream, Become, procVars, ProcInv
<1>5. CASE StartChannel
  BY <1>0, CallFacts, <1>5, Moves DEF StartChannelMoves, StartChannel, procVars, ProcInv
<1>6. CASE GetBuf
  BY <1>0, CallFacts, <1>6, Moves DEF GetBufMoves, GetBuf, Become, Undo, procVars, ProcInv
<1>7. CASE RegBuf
  <2>1. UNCHANGED procVars
    BY <1>0, <1>7 DEF RegBuf, Become, Undo
  <2> QED
    BY <1>0, <1>7, <2>1, Moves, CallFacts DEF RegBufMoves, procVars, ProcInv
<1>8. CASE StartStream
  BY <1>0, CallFacts, <1>8, Moves
  DEF StartStreamMoves, StartStream, AddPollFd, Sig, procVars, ProcInv
<1>9. CASE StreamOn
  BY <1>0, CallFacts, <1>9, Moves DEF StreamOnMoves, StreamOn, procVars, ProcInv
<1>10. CASE StreamActive
  BY <1>0, CallFacts, <1>10, Moves DEF StreamActiveMoves, StreamActive, Become, procVars, ProcInv
<1>11. CASE StreamOnFails
  BY <1>0, CallFacts, <1>11, Moves
  DEF StreamOnFailsMoves, StreamOnFails, DelPollFd, Sig, procVars, ProcInv
<1>12. CASE ReleaseStrT
  BY <1>0, CallFacts, <1>12, Moves DEF ReleaseStrTMoves, ReleaseStrT, procVars, ProcInv
<1>13. CASE StartFails
  BY <1>0, CallFacts, <1>13, Moves DEF StartFailsMoves, StartFails, Undo, procVars, ProcInv
<1>14. CASE StopChannel
  BY <1>0, CallFacts, <1>14, Moves DEF StopChannelMoves, StopChannel, procVars, ProcInv
<1>15. CASE StopStream
  <2>1. UNCHANGED procVars
    BY <1>0, <1>15 DEF StopStream, DelPollFd, Sig
  <2> QED
    BY <1>0, <1>15, <2>1, Moves, CallFacts DEF StopStreamMoves, procVars, ProcInv
<1>16. CASE StreamOff
  BY <1>0, CallFacts, <1>16, Moves DEF StreamOffMoves, StreamOff, procVars, ProcInv
<1>17. CASE StreamStopped
  BY <1>0, CallFacts, <1>17, Moves DEF StreamStoppedMoves, StreamStopped, Become, procVars, ProcInv
<1>18. CASE UnregBuf
  <2>1. UNCHANGED procVars
    BY <1>0, <1>18 DEF UnregBuf, Become
  <2> QED
    BY <1>0, <1>18, <2>1, Moves, CallFacts DEF UnregBufMoves, procVars, ProcInv
<1>19. CASE StreamUndone
  <2>1. UNCHANGED procVars
    BY <1>0, <1>19 DEF StreamUndone, PutBuf
  <2> QED
    BY <1>0, <1>19, <2>1, Moves, CallFacts DEF StreamUndoneMoves, procVars, ProcInv
<1>20. CASE StopCmdThread
  BY <1>0, CallFacts, <1>20, Moves DEF StopCmdThreadMoves, StopCmdThread, procVars, ProcInv
<1>21. CASE StopCbThread
  BY <1>0, CallFacts, <1>21, Moves DEF StopCbThreadMoves, StopCbThread, procVars, ProcInv
<1>22. CASE BundleStopped
  BY <1>0, CallFacts, <1>22, Moves DEF BundleStoppedMoves, BundleStopped, procVars, ProcInv
<1>23. CASE PutBufs
  BY <1>0, CallFacts, <1>23, Moves DEF PutBufsMoves, PutBufs, PutBuf, procVars, ProcInv
<1>24. CASE ExitProc
  BY <1>0, CallFacts, <1>24, Moves DEF ExitProcMoves, ExitProc, NextStream, procVars, ProcInv
<1>25. CASE ProcJoined
  BY <1>0, CallFacts, <1>25, Moves DEF ProcJoinedMoves, ProcJoined, NextStream, procVars, ProcInv
<1>26. CASE DeleteChannel
  BY <1>0, CallFacts, <1>26, Moves
  DEF DeleteChannelMoves, DeleteChannel, Delete, DeleteStreams, ReleasePoll, Sig, procVars,
      ProcInv
<1>27. CASE DeleteUnstarted
  <2>1. UNCHANGED procVars
    BY <1>0, <1>27 DEF DeleteUnstarted, Delete, DeleteStreams, ReleasePoll, Sig
  <2> QED
    BY <1>0, <1>27, <2>1, Moves, CallFacts DEF DeleteUnstartedMoves, procVars, ProcInv
<1>28. CASE ChannelDeleted
  BY <1>0, CallFacts, <1>28, Moves DEF ChannelDeletedMoves, ChannelDeleted, procVars, ProcInv
<1> QED
  BY <1>1, <1>2, <1>3, <1>4, <1>5, <1>6, <1>7, <1>8, <1>9, <1>10, <1>11, <1>12, <1>13, <1>14,
     <1>15, <1>16, <1>17, <1>18, <1>19, <1>20, <1>21, <1>22, <1>23, <1>24, <1>25, <1>26, <1>27,
     <1>28
  DEF CallContinues, Start, Stop

\* Unless a start failed, a stopped channel has no thread.
LEMMA JoinKept ==
  ASSUME Typed, CallInv, NEW i \in Stream, ProcInv(i), JoinInv(i),
         AddChannel \/ StartChannel \/ StopChannel \/ DeleteChannel \/ CallContinues
  PROVE  JoinInv(i)'
<1>0. /\ Place /\ kind \in Kinds /\ Stream \subseteq Index /\ i \in Index /\ i \in 1 .. Last
      /\ Stream = 1 .. Last /\ starts \in 0 .. MaxStarts /\ MaxStarts \in Nat
      /\ exits \in [Index -> 0 .. 1] /\ cmd_pid \in [Index -> Thread \cup {None}]
      /\ procs \in [Index -> [Thread -> {"none", "wait", "busy", "gone"}]]
  BY Streams, StreamAssumption DEF Typed, CallInv
<1> USE DEF At, Goes, Returns, Idle, AddPcs, StartPcs, StopPcs, Here, None, Thread, Alive
<1>1. CASE AddChannel
  BY <1>0, CallFacts, <1>1, Moves
  DEF AddChannelMoves, AddChannel, LaunchPoll, procVars, ProcInv, JoinInv, CallInv, Met, Stopping
<1>2. CASE ChannelAdded
  BY <1>0, CallFacts, <1>2, Moves
  DEF ChannelAddedMoves, ChannelAdded, procVars, ProcInv, JoinInv, CallInv, Met, Stopping
<1>3. CASE AcquireStream
  BY <1>0, CallFacts, <1>3, Moves
  DEF AcquireStreamMoves, AcquireStream, Become, procVars, ProcInv, JoinInv, CallInv, Met,
      Stopping
<1>4. CASE ConfigStream
  BY <1>0, CallFacts, <1>4, Moves
  DEF ConfigStreamMoves, ConfigStream, Become, procVars, ProcInv, JoinInv, CallInv, Met, Stopping
<1>5. CASE StartChannel
  BY <1>0, CallFacts, <1>5, Moves
  DEF StartChannelMoves, StartChannel, procVars, ProcInv, JoinInv, CallInv, Met, Stopping
<1>6. CASE GetBuf
  BY <1>0, CallFacts, <1>6, Moves
  DEF GetBufMoves, GetBuf, Become, Undo, procVars, ProcInv, JoinInv, CallInv, Met, Stopping
<1>7. CASE RegBuf
  <2>1. UNCHANGED procVars /\ upsets \subseteq upsets'
    BY <1>0, <1>7 DEF RegBuf, Become, Undo
  <2> QED
    BY <1>0, <1>7, <2>1, Moves, CallFacts
    DEF RegBufMoves, procVars, ProcInv, JoinInv, CallInv, Met, Stopping
<1>8. CASE StartStream
  BY <1>0, CallFacts, <1>8, Moves
  DEF StartStreamMoves, StartStream, AddPollFd, Sig, procVars, ProcInv, JoinInv, CallInv, Met,
      Stopping
<1>9. CASE StreamOn
  BY <1>0, CallFacts, <1>9, Moves
  DEF StreamOnMoves, StreamOn, procVars, ProcInv, JoinInv, CallInv, Met, Stopping
<1>10. CASE StreamActive
  BY <1>0, CallFacts, <1>10, Moves
  DEF StreamActiveMoves, StreamActive, Become, procVars, ProcInv, JoinInv, CallInv, Met, Stopping
<1>11. CASE StreamOnFails
  BY <1>0, CallFacts, <1>11, Moves
  DEF StreamOnFailsMoves, StreamOnFails, DelPollFd, Sig, procVars, ProcInv, JoinInv, CallInv, Met,
      Stopping
<1>12. CASE ReleaseStrT
  BY <1>0, CallFacts, <1>12, Moves
  DEF ReleaseStrTMoves, ReleaseStrT, procVars, ProcInv, JoinInv, CallInv, Met, Stopping
<1>13. CASE StartFails
  BY <1>0, CallFacts, <1>13, Moves
  DEF StartFailsMoves, StartFails, Undo, procVars, ProcInv, JoinInv, CallInv, Met, Stopping
<1>14. CASE StopChannel
  BY <1>0, CallFacts, <1>14, Moves
  DEF StopChannelMoves, StopChannel, procVars, ProcInv, JoinInv, CallInv, Met, Stopping
<1>15. CASE StopStream
  <2>1. UNCHANGED procVars /\ upsets \subseteq upsets'
    BY <1>0, <1>15 DEF StopStream, DelPollFd, Sig
  <2> QED
    BY <1>0, <1>15, <2>1, Moves, CallFacts
    DEF StopStreamMoves, procVars, ProcInv, JoinInv, CallInv, Met, Stopping
<1>16. CASE StreamOff
  BY <1>0, CallFacts, <1>16, Moves
  DEF StreamOffMoves, StreamOff, procVars, ProcInv, JoinInv, CallInv, Met, Stopping
<1>17. CASE StreamStopped
  BY <1>0, CallFacts, <1>17, Moves
  DEF StreamStoppedMoves, StreamStopped, Become, procVars, ProcInv, JoinInv, CallInv, Met,
      Stopping
<1>18. CASE UnregBuf
  <2>1. UNCHANGED procVars /\ upsets \subseteq upsets'
    BY <1>0, <1>18 DEF UnregBuf, Become
  <2> QED
    BY <1>0, <1>18, <2>1, Moves, CallFacts
    DEF UnregBufMoves, procVars, ProcInv, JoinInv, CallInv, Met, Stopping
<1>19. CASE StreamUndone
  BY <1>0, CallFacts, <1>19, Moves
  DEF StreamUndoneMoves, StreamUndone, PutBuf, procVars, ProcInv, JoinInv, CallInv, Met, Stopping
<1>20. CASE StopCmdThread
  BY <1>0, CallFacts, <1>20, Moves
  DEF StopCmdThreadMoves, StopCmdThread, procVars, ProcInv, JoinInv, CallInv, Met, Stopping
<1>21. CASE StopCbThread
  BY <1>0, CallFacts, <1>21, Moves
  DEF StopCbThreadMoves, StopCbThread, procVars, ProcInv, JoinInv, CallInv, Met, Stopping
<1>22. CASE BundleStopped
  BY <1>0, CallFacts, <1>22, Moves
  DEF BundleStoppedMoves, BundleStopped, procVars, ProcInv, JoinInv, CallInv, Met, Stopping
<1>23. CASE PutBufs
  <2>1. UNCHANGED procVars /\ upsets \subseteq upsets'
    BY <1>0, <1>23 DEF PutBufs, PutBuf
  <2> QED
    BY <1>0, <1>23, <2>1, Moves, CallFacts
    DEF PutBufsMoves, procVars, ProcInv, JoinInv, CallInv, Met, Stopping
<1>24. CASE ExitProc
  BY <1>0, CallFacts, <1>24, Moves
  DEF ExitProcMoves, ExitProc, NextStream, procVars, ProcInv, JoinInv, CallInv, Met, Stopping
<1>25. CASE ProcJoined
  BY <1>0, CallFacts, <1>25, Moves
  DEF ProcJoinedMoves, ProcJoined, NextStream, procVars, ProcInv, JoinInv, CallInv, Met, Stopping
<1>26. CASE DeleteChannel
  BY <1>0, CallFacts, <1>26, Moves
  DEF DeleteChannelMoves, DeleteChannel, Delete, DeleteStreams, ReleasePoll, Sig, procVars,
      ProcInv, JoinInv, CallInv, Met, Stopping
<1>27. CASE DeleteUnstarted
  BY <1>0, CallFacts, <1>27, Moves
  DEF DeleteUnstartedMoves, DeleteUnstarted, Delete, DeleteStreams, ReleasePoll, Sig, procVars,
      ProcInv, JoinInv, CallInv, Met, Stopping
<1>28. CASE ChannelDeleted
  BY <1>0, CallFacts, <1>28, Moves
  DEF ChannelDeletedMoves, ChannelDeleted, procVars, ProcInv, JoinInv, CallInv, Met, Stopping
<1> QED
  BY <1>1, <1>2, <1>3, <1>4, <1>5, <1>6, <1>7, <1>8, <1>9, <1>10, <1>11, <1>12, <1>13, <1>14,
     <1>15, <1>16, <1>17, <1>18, <1>19, <1>20, <1>21, <1>22, <1>23, <1>24, <1>25, <1>26, <1>27,
     <1>28
  DEF CallContinues, Start, Stop

\* The threads of a bundle are there from the start to the stop, and leave nothing.
LEMMA BundleKept ==
  ASSUME Typed, CallInv, BundleInv,
         AddChannel \/ StartChannel \/ StopChannel \/ DeleteChannel \/ CallContinues
  PROVE  BundleInv'
<1>0. /\ Place /\ kind \in Kinds /\ Stream = 1 .. Last /\ starts \in 0 .. MaxStarts
      /\ MaxStarts \in Nat
  BY Streams, StreamAssumption DEF Typed, CallInv
<1> USE DEF At, Goes, Returns, Idle, AddPcs, StartPcs, StopPcs, Bundled, Clean
<1>1. CASE AddChannel
  BY <1>0, CallFacts, <1>1, Moves
  DEF AddChannelMoves, AddChannel, LaunchPoll, bundleVars, BundleInv, CallInv, Met, Stopping
<1>2. CASE ChannelAdded
  BY <1>0, CallFacts, <1>2, Moves
  DEF ChannelAddedMoves, ChannelAdded, bundleVars, BundleInv, CallInv, Met, Stopping
<1>3. CASE AcquireStream
  BY <1>0, CallFacts, <1>3, Moves
  DEF AcquireStreamMoves, AcquireStream, Become, bundleVars, BundleInv, CallInv, Met, Stopping
<1>4. CASE ConfigStream
  BY <1>0, CallFacts, <1>4, Moves
  DEF ConfigStreamMoves, ConfigStream, Become, bundleVars, BundleInv, CallInv, Met, Stopping
<1>5. CASE StartChannel
  BY <1>0, CallFacts, <1>5, Moves
  DEF StartChannelMoves, StartChannel, bundleVars, BundleInv, CallInv, Met, Stopping
<1>6. CASE GetBuf
  BY <1>0, CallFacts, <1>6, Moves
  DEF GetBufMoves, GetBuf, Become, Undo, bundleVars, BundleInv, CallInv, Met, Stopping
<1>7. CASE RegBuf
  <2>1. UNCHANGED bundleVars /\ upsets \subseteq upsets'
    BY <1>0, <1>7 DEF RegBuf, Become, Undo
  <2> QED
    BY <1>0, <1>7, <2>1, Moves, CallFacts
    DEF RegBufMoves, bundleVars, BundleInv, CallInv, Met, Stopping
<1>8. CASE StartStream
  BY <1>0, CallFacts, <1>8, Moves
  DEF StartStreamMoves, StartStream, AddPollFd, Sig, bundleVars, BundleInv, CallInv, Met, Stopping
<1>9. CASE StreamOn
  BY <1>0, CallFacts, <1>9, Moves
  DEF StreamOnMoves, StreamOn, bundleVars, BundleInv, CallInv, Met, Stopping
<1>10. CASE StreamActive
  BY <1>0, CallFacts, <1>10, Moves
  DEF StreamActiveMoves, StreamActive, Become, bundleVars, BundleInv, CallInv, Met, Stopping
<1>11. CASE StreamOnFails
  BY <1>0, CallFacts, <1>11, Moves
  DEF StreamOnFailsMoves, StreamOnFails, DelPollFd, Sig, bundleVars, BundleInv, CallInv, Met,
      Stopping
<1>12. CASE ReleaseStrT
  BY <1>0, CallFacts, <1>12, Moves
  DEF ReleaseStrTMoves, ReleaseStrT, bundleVars, BundleInv, CallInv, Met, Stopping
<1>13. CASE StartFails
  BY <1>0, CallFacts, <1>13, Moves
  DEF StartFailsMoves, StartFails, Undo, bundleVars, BundleInv, CallInv, Met, Stopping
<1>14. CASE StopChannel
  BY <1>0, CallFacts, <1>14, Moves
  DEF StopChannelMoves, StopChannel, bundleVars, BundleInv, CallInv, Met, Stopping
<1>15. CASE StopStream
  <2>1. UNCHANGED bundleVars /\ upsets \subseteq upsets'
    BY <1>0, <1>15 DEF StopStream, DelPollFd, Sig
  <2> QED
    BY <1>0, <1>15, <2>1, Moves, CallFacts
    DEF StopStreamMoves, bundleVars, BundleInv, CallInv, Met, Stopping
<1>16. CASE StreamOff
  BY <1>0, CallFacts, <1>16, Moves
  DEF StreamOffMoves, StreamOff, bundleVars, BundleInv, CallInv, Met, Stopping
<1>17. CASE StreamStopped
  BY <1>0, CallFacts, <1>17, Moves
  DEF StreamStoppedMoves, StreamStopped, Become, bundleVars, BundleInv, CallInv, Met, Stopping
<1>18. CASE UnregBuf
  <2>1. UNCHANGED bundleVars /\ upsets \subseteq upsets'
    BY <1>0, <1>18 DEF UnregBuf, Become
  <2> QED
    BY <1>0, <1>18, <2>1, Moves, CallFacts
    DEF UnregBufMoves, bundleVars, BundleInv, CallInv, Met, Stopping
<1>19. CASE StreamUndone
  BY <1>0, CallFacts, <1>19, Moves
  DEF StreamUndoneMoves, StreamUndone, PutBuf, bundleVars, BundleInv, CallInv, Met, Stopping
<1>20. CASE StopCmdThread
  BY <1>0, CallFacts, <1>20, Moves
  DEF StopCmdThreadMoves, StopCmdThread, bundleVars, BundleInv, CallInv, Met, Stopping
<1>21. CASE StopCbThread
  BY <1>0, CallFacts, <1>21, Moves
  DEF StopCbThreadMoves, StopCbThread, bundleVars, BundleInv, CallInv, Met, Stopping
<1>22. CASE BundleStopped
  BY <1>0, CallFacts, <1>22, Moves
  DEF BundleStoppedMoves, BundleStopped, bundleVars, BundleInv, CallInv, Met, Stopping
<1>23. CASE PutBufs
  BY <1>0, CallFacts, <1>23, Moves
  DEF PutBufsMoves, PutBufs, PutBuf, bundleVars, BundleInv, CallInv, Met, Stopping
<1>24. CASE ExitProc
  BY <1>0, CallFacts, <1>24, Moves
  DEF ExitProcMoves, ExitProc, NextStream, bundleVars, BundleInv, CallInv, Met, Stopping
<1>25. CASE ProcJoined
  BY <1>0, CallFacts, <1>25, Moves
  DEF ProcJoinedMoves, ProcJoined, NextStream, bundleVars, BundleInv, CallInv, Met, Stopping
<1>26. CASE DeleteChannel
  <2>1. UNCHANGED bundleVars /\ upsets \subseteq upsets'
    BY <1>0, <1>26 DEF DeleteChannel, Delete, DeleteStreams, ReleasePoll, Sig
  <2> QED
    BY <1>0, <1>26, <2>1, Moves, CallFacts
    DEF DeleteChannelMoves, bundleVars, BundleInv, CallInv, Met, Stopping
<1>27. CASE DeleteUnstarted
  <2>1. UNCHANGED bundleVars /\ upsets \subseteq upsets'
    BY <1>0, <1>27 DEF DeleteUnstarted, Delete, DeleteStreams, ReleasePoll, Sig
  <2> QED
    BY <1>0, <1>27, <2>1, Moves, CallFacts
    DEF DeleteUnstartedMoves, bundleVars, BundleInv, CallInv, Met, Stopping
<1>28. CASE ChannelDeleted
  BY <1>0, CallFacts, <1>28, Moves
  DEF ChannelDeletedMoves, ChannelDeleted, bundleVars, BundleInv, CallInv, Met, Stopping
<1> QED
  BY <1>1, <1>2, <1>3, <1>4, <1>5, <1>6, <1>7, <1>8, <1>9, <1>10, <1>11, <1>12, <1>13, <1>14,
     <1>15, <1>16, <1>17, <1>18, <1>19, <1>20, <1>21, <1>22, <1>23, <1>24, <1>25, <1>26, <1>27,
     <1>28
  DEF CallContinues, Start, Stop

\* A start finds nothing on its way from the one before.
LEMMA FreshKept ==
  ASSUME Typed, CallInv, BundleInv, NEW i \in Stream, StateInv(i), PartsInv(i), ProcInv(i),
         FreshInv(i),
         AddChannel \/ StartChannel \/ StopChannel \/ DeleteChannel \/ CallContinues
  PROVE  FreshInv(i)'
<1>0. /\ Place /\ kind \in Kinds /\ Stream \subseteq Index /\ i \in Index /\ i \in 1 .. Last
      /\ Stream = 1 .. Last /\ starts \in 0 .. MaxStarts /\ MaxStarts \in Nat
  BY Streams, StreamAssumption DEF Typed, CallInv
<1> USE DEF At, Goes, Returns, Idle, AddPcs, StartPcs, StopPcs, NotYet
<1>1. CASE AddChannel
  <2>1. UNCHANGED <<chQ, matching, cbQ, strQ, mDataQ, procBuf, held, returning>> /\ upsets
                    \subseteq upsets'
    BY <1>0, <1>1 DEF AddChannel, LaunchPoll, bundleVars, strVars, procVars
  <2> QED
    BY <1>0, <1>1, <2>1, Moves, CallFacts DEF AddChannelMoves, FreshInv, Met, CallInv, Stopping
<1>2. CASE ChannelAdded
  <2>1. UNCHANGED <<chQ, matching, cbQ, strQ, mDataQ, procBuf, held, returning>> /\ upsets
                    \subseteq upsets'
    BY <1>0, <1>2 DEF ChannelAdded, bundleVars, strVars, procVars
  <2> QED
    BY <1>0, <1>2, <2>1, Moves, CallFacts DEF ChannelAddedMoves, FreshInv, Met, CallInv, Stopping
<1>3. CASE AcquireStream
  <2>1. UNCHANGED <<chQ, matching, cbQ, strQ, mDataQ, procBuf, held, returning>> /\ upsets
                    \subseteq upsets'
    BY <1>0, <1>3 DEF AcquireStream, Become, bundleVars, strVars, procVars
  <2> QED
    BY <1>0, <1>3, <2>1, Moves, CallFacts DEF AcquireStreamMoves, FreshInv, Met, CallInv, Stopping
<1>4. CASE ConfigStream
  <2>1. UNCHANGED <<chQ, matching, cbQ, strQ, mDataQ, procBuf, held, returning>> /\ upsets
                    \subseteq upsets'
    BY <1>0, <1>4 DEF ConfigStream, Become, bundleVars, strVars, procVars
  <2> QED
    BY <1>0, <1>4, <2>1, Moves, CallFacts
    DEF ConfigStreamMoves, FreshInv, ProcInv, None, Here, Last, Met, CallInv, Stopping
<1>5. CASE StartChannel
  <2>1. Configured(i) /\ Clean /\ strQ[i] = <<>> /\ mDataQ[i] = <<>>
    <3>1. ch = "STOPPED" /\ hal = Idle /\ (starts = 0 \/ kind = "video") /\ Configured(i)
      BY <1>5 DEF StartChannel, StateInv
    <3>2. strT[i] = "none" /\ strQ[i] = <<>>
      BY <1>0, <3>1 DEF PartsInv, Here, Configured, InState, Typed
    <3>3. starts = 0 => cmd_pid[i] = None
      BY DEF ProcInv, None
    <3> QED
      BY <3>1, <3>2, <3>3 DEF FreshInv, ProcInv, BundleInv, Bundled
  <2>2. /\ UNCHANGED <<chQ, matching, cbQ, strQ, mDataQ, procBuf, held, returning>>
        /\ starts' = starts + 1
        /\ ~Met({"stale"})' => \A k \in Thread : procBuf[i][k] = None
    BY <1>5 DEF StartChannel, strVars, Met
  <2>3. \A f \in held \cup returning : f.start # starts + 1
    BY <1>0 DEF Typed, Frame, Thread
  <2> QED
    BY <1>0, <1>5, <2>1, <2>2, <2>3, Moves DEF StartChannelMoves, FreshInv, Clean, Elems
<1>6. CASE GetBuf
  <2>1. UNCHANGED <<chQ, matching, cbQ, strQ, mDataQ, procBuf, held, returning>> /\ upsets
                    \subseteq upsets'
    BY <1>0, <1>6 DEF GetBuf, Become, Undo, bundleVars, strVars, procVars
  <2> QED
    BY <1>0, <1>6, <2>1, Moves, CallFacts DEF GetBufMoves, FreshInv, Met, CallInv, Stopping
<1>7. CASE RegBuf
  <2>1. UNCHANGED <<chQ, matching, cbQ, strQ, mDataQ, procBuf, held, returning>> /\ upsets
                    \subseteq upsets'
    BY <1>0, <1>7 DEF RegBuf, Become, Undo, bundleVars, strVars, procVars
  <2> QED
    BY <1>0, <1>7, <2>1, Moves, CallFacts DEF RegBufMoves, FreshInv, Met, CallInv, Stopping
<1>8. CASE StartStream
  <2>1. UNCHANGED <<chQ, matching, cbQ, strQ, mDataQ, procBuf, held, returning>> /\ upsets
                    \subseteq upsets'
    BY <1>0, <1>8 DEF StartStream, AddPollFd, Sig, bundleVars, strVars, procVars
  <2> QED
    BY <1>0, <1>8, <2>1, Moves, CallFacts DEF StartStreamMoves, FreshInv, Met, CallInv, Stopping
<1>9. CASE StreamOn
  <2>1. UNCHANGED <<chQ, matching, cbQ, strQ, mDataQ, procBuf, held, returning>> /\ upsets
                    \subseteq upsets'
    BY <1>0, <1>9 DEF StreamOn, bundleVars, strVars, procVars
  <2> QED
    BY <1>0, <1>9, <2>1, Moves, CallFacts DEF StreamOnMoves, FreshInv, Met, CallInv, Stopping
<1>10. CASE StreamActive
  <2>1. /\ UNCHANGED <<chQ, matching, cbQ, strQ, mDataQ, procBuf, returning, upsets>>
        /\ \A f \in held' : f \in held \/ f.i = hal.i
    BY <1>0, <1>10 DEF StreamActive, Become, bundleVars, strVars, procVars, Held
  <2> QED
    BY <1>0, <1>10, <2>1, Moves, CallFacts DEF StreamActiveMoves, FreshInv, Met
<1>11. CASE StreamOnFails
  <2>1. UNCHANGED <<chQ, matching, cbQ, strQ, mDataQ, procBuf, held, returning>> /\ upsets
                    \subseteq upsets'
    BY <1>0, <1>11 DEF StreamOnFails, DelPollFd, Sig, bundleVars, strVars, procVars
  <2> QED
    BY <1>0, <1>11, <2>1, Moves, CallFacts DEF StreamOnFailsMoves, FreshInv, Met, CallInv, Stopping
<1>12. CASE ReleaseStrT
  <2>1. UNCHANGED <<chQ, matching, cbQ, strQ, mDataQ, procBuf, held, returning>> /\ upsets
                    \subseteq upsets'
    BY <1>0, <1>12 DEF ReleaseStrT, bundleVars, strVars, procVars
  <2> QED
    BY <1>0, <1>12, <2>1, Moves, CallFacts DEF ReleaseStrTMoves, FreshInv, Met, CallInv, Stopping
<1>13. CASE StartFails
  <2>1. UNCHANGED <<chQ, matching, cbQ, strQ, mDataQ, procBuf, held, returning>> /\ upsets
                    \subseteq upsets'
    BY <1>0, <1>13 DEF StartFails, Undo, bundleVars, strVars, procVars
  <2> QED
    BY <1>0, <1>13, <2>1, Moves, CallFacts DEF StartFailsMoves, FreshInv, Met, CallInv, Stopping
<1>14. CASE StopChannel
  <2>1. UNCHANGED <<chQ, matching, cbQ, strQ, mDataQ, procBuf, held, returning>> /\ upsets
                    \subseteq upsets'
    BY <1>0, <1>14 DEF StopChannel, bundleVars, strVars, procVars
  <2> QED
    BY <1>0, <1>14, <2>1, Moves, CallFacts DEF StopChannelMoves, FreshInv, Met, CallInv, Stopping
<1>15. CASE StopStream
  <2>1. UNCHANGED <<chQ, matching, cbQ, strQ, mDataQ, procBuf, held, returning>> /\ upsets
                    \subseteq upsets'
    BY <1>0, <1>15 DEF StopStream, DelPollFd, Sig, bundleVars, strVars, procVars
  <2> QED
    BY <1>0, <1>15, <2>1, Moves, CallFacts DEF StopStreamMoves, FreshInv, Met, CallInv, Stopping
<1>16. CASE StreamOff
  <2>1. UNCHANGED <<chQ, matching, cbQ, strQ, mDataQ, procBuf, held, returning>> /\ upsets
                    \subseteq upsets'
    BY <1>0, <1>16 DEF StreamOff, bundleVars, strVars, procVars
  <2> QED
    BY <1>0, <1>16, <2>1, Moves, CallFacts DEF StreamOffMoves, FreshInv, Met, CallInv, Stopping
<1>17. CASE StreamStopped
  <2>1. UNCHANGED <<chQ, matching, cbQ, strQ, mDataQ, procBuf, held, returning>> /\ upsets
                    \subseteq upsets'
    BY <1>0, <1>17 DEF StreamStopped, Become, bundleVars, strVars, procVars
  <2> QED
    BY <1>0, <1>17, <2>1, Moves, CallFacts DEF StreamStoppedMoves, FreshInv, Met, CallInv, Stopping
<1>18. CASE UnregBuf
  <2>1. UNCHANGED <<chQ, matching, cbQ, strQ, mDataQ, procBuf, held, returning>> /\ upsets
                    \subseteq upsets'
    BY <1>0, <1>18 DEF UnregBuf, Become, bundleVars, strVars, procVars
  <2> QED
    BY <1>0, <1>18, <2>1, Moves, CallFacts DEF UnregBufMoves, FreshInv, Met, CallInv, Stopping
<1>19. CASE StreamUndone
  <2>1. UNCHANGED <<chQ, matching, cbQ, strQ, mDataQ, procBuf, held, returning>> /\ upsets
                    \subseteq upsets'
    BY <1>0, <1>19 DEF StreamUndone, PutBuf, bundleVars, strVars, procVars
  <2> QED
    BY <1>0, <1>19, <2>1, Moves, CallFacts
    DEF StreamUndoneMoves, FreshInv, ProcInv, None, Here, Last, Met, CallInv, Stopping
<1>20. CASE StopCmdThread
  <2>1. UNCHANGED <<chQ, matching, cbQ, strQ, mDataQ, procBuf, held, returning>> /\ upsets
                    \subseteq upsets'
    BY <1>0, <1>20 DEF StopCmdThread, bundleVars, strVars, procVars
  <2> QED
    BY <1>0, <1>20, <2>1, Moves, CallFacts DEF StopCmdThreadMoves, FreshInv, Met, CallInv, Stopping
<1>21. CASE StopCbThread
  <2>1. UNCHANGED <<chQ, matching, cbQ, strQ, mDataQ, procBuf, held, returning>> /\ upsets
                    \subseteq upsets'
    BY <1>0, <1>21 DEF StopCbThread, bundleVars, strVars, procVars
  <2> QED
    BY <1>0, <1>21, <2>1, Moves, CallFacts DEF StopCbThreadMoves, FreshInv, Met, CallInv, Stopping
<1>22. CASE BundleStopped
  <2>1. /\ UNCHANGED <<chQ, cbQ, strQ, mDataQ, procBuf, held, returning, upsets>>
        /\ matching' = {}
    BY <1>0, <1>22 DEF BundleStopped, bundleVars, strVars, procVars
  <2> QED
    BY <1>0, <1>22, <2>1, Moves, CallFacts DEF BundleStoppedMoves, FreshInv, Met, CallInv, Stopping
<1>23. CASE PutBufs
  <2>1. UNCHANGED <<chQ, matching, cbQ, strQ, mDataQ, procBuf, held, returning>> /\ upsets
                    \subseteq upsets'
    BY <1>0, <1>23 DEF PutBufs, PutBuf, bundleVars, strVars, procVars
  <2> QED
    BY <1>0, <1>23, <2>1, Moves, CallFacts DEF PutBufsMoves, FreshInv, Met, CallInv, Stopping
<1>24. CASE ExitProc
  <2>1. UNCHANGED <<chQ, matching, cbQ, strQ, mDataQ, procBuf, held, returning>> /\ upsets
                    \subseteq upsets'
    BY <1>0, <1>24 DEF ExitProc, NextStream, bundleVars, strVars, procVars
  <2> QED
    BY <1>0, <1>24, <2>1, Moves, CallFacts
    DEF ExitProcMoves, FreshInv, ProcInv, None, Here, Last, Met, CallInv, Stopping
<1>25. CASE ProcJoined
  <2>1. /\ UNCHANGED <<chQ, matching, cbQ, strQ, mDataQ, procBuf, held, returning, upsets>>
        /\ procs[hal.i][cmd_pid[hal.i]] = "gone"
    BY <1>0, <1>25 DEF ProcJoined, bundleVars, strVars
  <2> QED
    BY <1>0, <1>25, <2>1, Moves, CallFacts
    DEF ProcJoinedMoves, FreshInv, ProcInv, Alive, Here, Last, Met, CallInv, Stopping
<1>26. CASE DeleteChannel
  <2>1. UNCHANGED <<chQ, matching, cbQ, strQ, mDataQ, procBuf, held, returning>> /\ upsets
                    \subseteq upsets'
    BY <1>0, <1>26
    DEF DeleteChannel, Delete, DeleteStreams, ReleasePoll, Sig, bundleVars, strVars, procVars
  <2> QED
    BY <1>0, <1>26, <2>1, Moves, CallFacts DEF DeleteChannelMoves, FreshInv, Met, CallInv, Stopping
<1>27. CASE DeleteUnstarted
  <2>1. UNCHANGED <<chQ, matching, cbQ, strQ, mDataQ, procBuf, held, returning>> /\ upsets
                    \subseteq upsets'
    BY <1>0, <1>27
    DEF DeleteUnstarted, Delete, DeleteStreams, ReleasePoll, Sig, bundleVars, strVars, procVars
  <2> QED
    BY <1>0, <1>27, <2>1, Moves, CallFacts
    DEF DeleteUnstartedMoves, FreshInv, Met, CallInv, Stopping
<1>28. CASE ChannelDeleted
  <2>1. UNCHANGED <<chQ, matching, cbQ, strQ, mDataQ, procBuf, held, returning>> /\ upsets
                    \subseteq upsets'
    BY <1>0, <1>28 DEF ChannelDeleted, bundleVars, strVars, procVars
  <2> QED
    BY <1>0, <1>28, <2>1, Moves, CallFacts
    DEF ChannelDeletedMoves, FreshInv, Met, CallInv, Stopping
<1> QED
  BY <1>1, <1>2, <1>3, <1>4, <1>5, <1>6, <1>7, <1>8, <1>9, <1>10, <1>11, <1>12, <1>13, <1>14,
     <1>15, <1>16, <1>17, <1>18, <1>19, <1>20, <1>21, <1>22, <1>23, <1>24, <1>25, <1>26, <1>27,
     <1>28
  DEF CallContinues, Start, Stop

\* A buffer that the kernel has is not referred to.
LEMMA CountKept ==
  ASSUME Typed, CallInv, NEW i \in Stream, StateInv(i), CountInv(i),
         AddChannel \/ StartChannel \/ StopChannel \/ DeleteChannel \/ CallContinues
  PROVE  CountInv(i)'
<1>0. /\ Place /\ kind \in Kinds /\ Stream \subseteq Index /\ i \in Index /\ i \in 1 .. Last
      /\ Stream = 1 .. Last /\ state \in [Index -> States] /\ kernel \in [Index -> SUBSET Bufs]
      /\ buf_refcnt \in [Index -> [Bufs -> 0 .. 2]]
  BY Streams, StreamAssumption DEF Typed, CallInv
<1> USE DEF At, InState, Goes, Returns, Idle, AddPcs, StartPcs, StopPcs
<1>1. CASE AddChannel
  <2>1. /\ UNCHANGED <<kernel, buf_refcnt>> /\ upsets \subseteq upsets'
        /\ InState(i, "REG") \/ InState(i, "ACTIVE") => InState(i, "REG")' \/ InState(i, "ACTIVE")'
    BY <1>0, <1>1, Moves DEF AddChannel, AddChannelMoves, LaunchPoll, bufVars
  <2> QED
    BY <1>0, <2>1 DEF CountInv, Met
<1>2. CASE ChannelAdded
  <2>1. /\ UNCHANGED <<kernel, buf_refcnt>> /\ upsets \subseteq upsets'
        /\ InState(i, "REG") \/ InState(i, "ACTIVE") => InState(i, "REG")' \/ InState(i, "ACTIVE")'
    BY <1>0, <1>2, Moves DEF ChannelAdded, ChannelAddedMoves, bufVars
  <2> QED
    BY <1>0, <2>1 DEF CountInv, Met
<1>3. CASE AcquireStream
  <2>1. /\ UNCHANGED <<kernel, buf_refcnt>> /\ upsets \subseteq upsets'
        /\ InState(i, "REG") \/ InState(i, "ACTIVE") => InState(i, "REG")' \/ InState(i, "ACTIVE")'
    BY <1>0, <1>3, Moves, CallFacts
    DEF StateInv, New, CallInv, Stopping, AcquireStream, AcquireStreamMoves, Become, bufVars
  <2> QED
    BY <1>0, <2>1 DEF CountInv, Met
<1>4. CASE ConfigStream
  <2>1. /\ UNCHANGED <<kernel, buf_refcnt>> /\ upsets \subseteq upsets'
        /\ InState(i, "REG") \/ InState(i, "ACTIVE") => InState(i, "REG")' \/ InState(i, "ACTIVE")'
    BY <1>0, <1>4, Moves, CallFacts
    DEF StateInv, New, CallInv, Stopping, ConfigStream, ConfigStreamMoves, Become, bufVars
  <2> QED
    BY <1>0, <2>1 DEF CountInv, Met
<1>5. CASE StartChannel
  <2>1. /\ UNCHANGED <<kernel, buf_refcnt>> /\ upsets \subseteq upsets'
        /\ InState(i, "REG") \/ InState(i, "ACTIVE") => InState(i, "REG")' \/ InState(i, "ACTIVE")'
    BY <1>0, <1>5, Moves DEF StartChannel, StartChannelMoves, bufVars
  <2> QED
    BY <1>0, <2>1 DEF CountInv, Met
<1>6. CASE GetBuf
  <2>1. /\ UNCHANGED <<kernel, upsets>>
        /\ \/ UNCHANGED <<state, buf_refcnt>>
           \/ /\ InState(hal.i, "CFG") /\ Become(hal.i, "BUFFED")
              /\ buf_refcnt' = [buf_refcnt EXCEPT ![hal.i] = AllBufs(0)]
    BY <1>6 DEF GetBuf
  <2> QED
    BY <1>0, <2>1 DEF CountInv, Met, Become, AllBufs
<1>7. CASE RegBuf
  <2>1. CASE i # hal.i
    BY <1>0, <1>7, <2>1 DEF RegBuf, Become, CountInv, Met
  <2>2. CASE i = hal.i
    <3>1. PICK R \in {S \cap Buf : S \in InitialReg} :
            \/ /\ Become(i, "REG") /\ kernel' = [kernel EXCEPT ![i] = R]
               /\ buf_refcnt' = [buf_refcnt EXCEPT ![i] =
                                    [b \in Bufs |-> IF b \in Buf \ R THEN 1 ELSE 0]]
            \/ /\ upsets' = upsets \cup {"reg"} /\ state' = state
               /\ \E failed \in R \cup {0} :
                     /\ kernel' = [kernel EXCEPT ![i] = {b \in R : b < failed}]
                     /\ buf_refcnt' = [buf_refcnt EXCEPT ![i] =
                                          [b \in Bufs |-> IF b \in Buf \ R /\ b < failed
                                                          THEN 1 ELSE 0]]
      BY <1>7, <2>2 DEF RegBuf
    <3>2. \A S \in InitialReg : S \cap Buf \in SUBSET Bufs
      BY StreamAssumption
    <3>3. R \in SUBSET Bufs
      BY <3>2
    <3> QED
      BY <1>0, <3>1, <3>3 DEF CountInv, Met, Become
  <2> QED
    BY <2>1, <2>2
<1>8. CASE StartStream
  <2>1. /\ UNCHANGED <<kernel, buf_refcnt>> /\ upsets \subseteq upsets'
        /\ InState(i, "REG") \/ InState(i, "ACTIVE") => InState(i, "REG")' \/ InState(i, "ACTIVE")'
    BY <1>0, <1>8, Moves DEF StartStream, StartStreamMoves, AddPollFd, Sig, bufVars
  <2> QED
    BY <1>0, <2>1 DEF CountInv, Met
<1>9. CASE StreamOn
  <2>1. /\ UNCHANGED <<kernel, buf_refcnt>> /\ upsets \subseteq upsets'
        /\ InState(i, "REG") \/ InState(i, "ACTIVE") => InState(i, "REG")' \/ InState(i, "ACTIVE")'
    BY <1>0, <1>9, Moves DEF StreamOn, StreamOnMoves, bufVars
  <2> QED
    BY <1>0, <2>1 DEF CountInv, Met
<1>10. CASE StreamActive
  <2>1. /\ UNCHANGED <<kernel, buf_refcnt>> /\ upsets \subseteq upsets'
        /\ InState(i, "REG") \/ InState(i, "ACTIVE") => InState(i, "REG")' \/ InState(i, "ACTIVE")'
    BY <1>0, <1>10, Moves DEF StreamActive, StreamActiveMoves, Become, bufVars
  <2> QED
    BY <1>0, <2>1 DEF CountInv, Met
<1>11. CASE StreamOnFails
  <2>1. /\ UNCHANGED <<kernel, buf_refcnt>> /\ upsets \subseteq upsets'
        /\ InState(i, "REG") \/ InState(i, "ACTIVE") => InState(i, "REG")' \/ InState(i, "ACTIVE")'
    BY <1>0, <1>11, Moves DEF StreamOnFails, StreamOnFailsMoves, DelPollFd, Sig, bufVars
  <2> QED
    BY <1>0, <2>1 DEF CountInv, Met
<1>12. CASE ReleaseStrT
  <2>1. /\ UNCHANGED <<kernel, buf_refcnt>> /\ upsets \subseteq upsets'
        /\ InState(i, "REG") \/ InState(i, "ACTIVE") => InState(i, "REG")' \/ InState(i, "ACTIVE")'
    BY <1>0, <1>12, Moves DEF ReleaseStrT, ReleaseStrTMoves, bufVars
  <2> QED
    BY <1>0, <2>1 DEF CountInv, Met
<1>13. CASE StartFails
  <2>1. /\ UNCHANGED <<kernel, buf_refcnt>> /\ upsets \subseteq upsets'
        /\ InState(i, "REG") \/ InState(i, "ACTIVE") => InState(i, "REG")' \/ InState(i, "ACTIVE")'
    BY <1>0, <1>13, Moves DEF StartFails, StartFailsMoves, Undo, bufVars
  <2> QED
    BY <1>0, <2>1 DEF CountInv, Met
<1>14. CASE StopChannel
  <2>1. /\ UNCHANGED <<kernel, buf_refcnt>> /\ upsets \subseteq upsets'
        /\ InState(i, "REG") \/ InState(i, "ACTIVE") => InState(i, "REG")' \/ InState(i, "ACTIVE")'
    BY <1>0, <1>14, Moves DEF StopChannel, StopChannelMoves, bufVars
  <2> QED
    BY <1>0, <2>1 DEF CountInv, Met
<1>15. CASE StopStream
  <2>1. /\ UNCHANGED <<kernel, buf_refcnt>> /\ upsets \subseteq upsets'
        /\ InState(i, "REG") \/ InState(i, "ACTIVE") => InState(i, "REG")' \/ InState(i, "ACTIVE")'
    BY <1>0, <1>15, Moves DEF StopStream, StopStreamMoves, DelPollFd, Sig, bufVars
  <2> QED
    BY <1>0, <2>1 DEF CountInv, Met
<1>16. CASE StreamOff
  BY <1>0, <1>16 DEF StreamOff, CountInv, Met
<1>17. CASE StreamStopped
  <2>1. /\ UNCHANGED <<kernel, buf_refcnt>> /\ upsets \subseteq upsets'
        /\ InState(i, "REG") \/ InState(i, "ACTIVE") => InState(i, "REG")' \/ InState(i, "ACTIVE")'
    BY <1>0, <1>17, Moves DEF StreamStopped, StreamStoppedMoves, Become, bufVars
  <2> QED
    BY <1>0, <2>1 DEF CountInv, Met
<1>18. CASE UnregBuf
  <2>1. /\ UNCHANGED upsets
        /\ \/ UNCHANGED <<state, kernel, buf_refcnt>>
           \/ /\ Become(hal.i, "BUFFED") /\ kernel' = [kernel EXCEPT ![hal.i] = {}]
              /\ buf_refcnt' = [buf_refcnt EXCEPT ![hal.i] = AllBufs(0)]
    BY <1>18 DEF UnregBuf
  <2> QED
    BY <1>0, <2>1 DEF CountInv, Met, Become, AllBufs
<1>19. CASE StreamUndone
  <2>1. /\ UNCHANGED <<kernel, buf_refcnt>> /\ upsets \subseteq upsets'
        /\ InState(i, "REG") \/ InState(i, "ACTIVE") => InState(i, "REG")' \/ InState(i, "ACTIVE")'
    BY <1>0, <1>19, Moves DEF StreamUndone, StreamUndoneMoves, PutBuf, bufVars
  <2> QED
    BY <1>0, <2>1 DEF CountInv, Met
<1>20. CASE StopCmdThread
  <2>1. /\ UNCHANGED <<kernel, buf_refcnt>> /\ upsets \subseteq upsets'
        /\ InState(i, "REG") \/ InState(i, "ACTIVE") => InState(i, "REG")' \/ InState(i, "ACTIVE")'
    BY <1>0, <1>20, Moves DEF StopCmdThread, StopCmdThreadMoves, bufVars
  <2> QED
    BY <1>0, <2>1 DEF CountInv, Met
<1>21. CASE StopCbThread
  <2>1. /\ UNCHANGED <<kernel, buf_refcnt>> /\ upsets \subseteq upsets'
        /\ InState(i, "REG") \/ InState(i, "ACTIVE") => InState(i, "REG")' \/ InState(i, "ACTIVE")'
    BY <1>0, <1>21, Moves DEF StopCbThread, StopCbThreadMoves, bufVars
  <2> QED
    BY <1>0, <2>1 DEF CountInv, Met
<1>22. CASE BundleStopped
  <2>1. /\ UNCHANGED <<kernel, buf_refcnt>> /\ upsets \subseteq upsets'
        /\ InState(i, "REG") \/ InState(i, "ACTIVE") => InState(i, "REG")' \/ InState(i, "ACTIVE")'
    BY <1>0, <1>22, Moves DEF BundleStopped, BundleStoppedMoves, bufVars
  <2> QED
    BY <1>0, <2>1 DEF CountInv, Met
<1>23. CASE PutBufs
  <2>1. /\ UNCHANGED <<kernel, buf_refcnt>> /\ upsets \subseteq upsets'
        /\ InState(i, "REG") \/ InState(i, "ACTIVE") => InState(i, "REG")' \/ InState(i, "ACTIVE")'
    BY <1>0, <1>23, Moves DEF PutBufs, PutBufsMoves, PutBuf, bufVars
  <2> QED
    BY <1>0, <2>1 DEF CountInv, Met
<1>24. CASE ExitProc
  <2>1. /\ UNCHANGED <<kernel, buf_refcnt>> /\ upsets \subseteq upsets'
        /\ InState(i, "REG") \/ InState(i, "ACTIVE") => InState(i, "REG")' \/ InState(i, "ACTIVE")'
    BY <1>0, <1>24, Moves DEF ExitProc, ExitProcMoves, NextStream, bufVars
  <2> QED
    BY <1>0, <2>1 DEF CountInv, Met
<1>25. CASE ProcJoined
  <2>1. /\ UNCHANGED <<kernel, buf_refcnt>> /\ upsets \subseteq upsets'
        /\ InState(i, "REG") \/ InState(i, "ACTIVE") => InState(i, "REG")' \/ InState(i, "ACTIVE")'
    BY <1>0, <1>25, Moves DEF ProcJoined, ProcJoinedMoves, NextStream, bufVars
  <2> QED
    BY <1>0, <2>1 DEF CountInv, Met
<1>26. CASE DeleteChannel
  <2>1. /\ UNCHANGED <<kernel, buf_refcnt>> /\ upsets \subseteq upsets'
        /\ InState(i, "REG") \/ InState(i, "ACTIVE") => InState(i, "REG")' \/ InState(i, "ACTIVE")'
    BY <1>0, <1>26, Moves
    DEF DeleteChannel, DeleteChannelMoves, Delete, DeleteStreams, ReleasePoll, Sig, bufVars
  <2> QED
    BY <1>0, <2>1 DEF CountInv, Met
<1>27. CASE DeleteUnstarted
  <2>1. /\ UNCHANGED <<kernel, buf_refcnt>> /\ upsets \subseteq upsets'
        /\ InState(i, "REG") \/ InState(i, "ACTIVE") => InState(i, "REG")' \/ InState(i, "ACTIVE")'
    BY <1>0, <1>27, Moves
    DEF DeleteUnstarted, DeleteUnstartedMoves, Delete, DeleteStreams, ReleasePoll, Sig, bufVars
  <2> QED
    BY <1>0, <2>1 DEF CountInv, Met
<1>28. CASE ChannelDeleted
  <2>1. /\ UNCHANGED <<kernel, buf_refcnt>> /\ upsets \subseteq upsets'
        /\ InState(i, "REG") \/ InState(i, "ACTIVE") => InState(i, "REG")' \/ InState(i, "ACTIVE")'
    BY <1>0, <1>28, Moves DEF ChannelDeleted, ChannelDeletedMoves, bufVars
  <2> QED
    BY <1>0, <2>1 DEF CountInv, Met
<1> QED
  BY <1>1, <1>2, <1>3, <1>4, <1>5, <1>6, <1>7, <1>8, <1>9, <1>10, <1>11, <1>12, <1>13, <1>14,
     <1>15, <1>16, <1>17, <1>18, <1>19, <1>20, <1>21, <1>22, <1>23, <1>24, <1>25, <1>26, <1>27,
     <1>28
  DEF CallContinues, Start, Stop

\* A stream whose buffers are registered for a start that has not made it active.
Fresh(i) == InState(i, "REG") /\ NotYet(i)

\* Only the buffers of a stream that is on or fresh are accounted for.
LEMMA NotCounted ==
  ASSUME NEW i \in Stream, ~(InState(i, "ACTIVE") /\ i \in streaming)', ~Fresh(i)'
  PROVE  AccountInv(i)'
BY DEF AccountInv, Live, Fresh

\* What a buffer's places are read from, with held and returning.
FrameVars == <<strQ, mDataQ, procBuf, chQ, matching, cbQ, starts, kind>>

\* Counts and places stay right as long as none of the stream's changes and it does not
\* come on.
LEMMA AccountFrame ==
  ASSUME NEW i \in Stream, AccountInv(i), UNCHANGED FrameVars, upsets \subseteq upsets',
         \A b : BeingQueued(i, b)' <=> BeingQueued(i, b),
         \A f : f.i = i => (f \in held' <=> f \in held) /\ (f \in returning' <=> f \in returning),
         (InState(i, "ACTIVE") /\ i \in streaming)' => InState(i, "ACTIVE") /\ i \in streaming,
         Fresh(i)' => Fresh(i),
         Fresh(i)' \/ InState(i, "ACTIVE")' =>
            buf_refcnt'[i] = buf_refcnt[i] /\ kernel'[i] = kernel[i]
  PROVE  AccountInv(i)'
<1>1. Live(i)' => Live(i)
  BY DEF Live, Met
<1>2. \A b : /\ Held("stream", i, b)' = Held("stream", i, b)
             /\ Held("super", i, b)' = Held("super", i, b)
             /\ Held("stream", i, b).i = i /\ Held("super", i, b).i = i
  BY DEF Held, FrameVars
<1>3. \A b : /\ HeldNow("stream", i, b)' <=> HeldNow("stream", i, b)
             /\ HeldNow("super", i, b)' <=> HeldNow("super", i, b)
             /\ Held("stream", i, b)' \in held' \cap returning'
                <=> Held("stream", i, b) \in held \cap returning
             /\ Held("super", i, b)' \in held' \cap returning'
                <=> Held("super", i, b) \in held \cap returning
  BY <1>2 DEF HeldNow
<1>4. OnceInStream(i) => OnceInStream(i)'
  BY <1>3 DEF OnceInStream, FrameVars, Distinct, Elems, Thread
<1>5. OnceInBundle(i) => OnceInBundle(i)'
  BY <1>3 DEF OnceInBundle, FrameVars, Elems, InCbQ
<1>6. \A b : /\ InStream(i, b)' <=> InStream(i, b)
             /\ InBundle(i, b)' <=> InBundle(i, b)
  BY <1>3 DEF InStream, InBundle, FrameVars, Elems, Thread
<1>7. \A b : Holders(i, b)' = Holders(i, b)
  BY <1>6 DEF Holders, References, Bundled, FrameVars
<1>8. Buf' = Buf
  BY DEF Buf, Bundled, FrameVars
<1>9. Live(i)' => InState(i, "ACTIVE")'
  BY DEF Live
<1>10. ~Met({"stale"})' => ~Met({"stale"})
  BY DEF Met
<1> QED
  BY <1>1, <1>4, <1>5, <1>6, <1>7, <1>8, <1>9, <1>10 DEF AccountInv, Fresh

\* A start counts what it hands out, and no other step of a call has to do with frames.
LEMMA AccountKept ==
  ASSUME Typed, CallInv, UndoInv, CbInv, NEW i \in Stream, StateInv(i), PartsInv(i),
         FreshInv(i), CountInv(i), AccountInv(i),
         AddChannel \/ StartChannel \/ StopChannel \/ DeleteChannel \/ CallContinues
  PROVE  AccountInv(i)'
<1>0. /\ Place /\ kind \in Kinds /\ Stream \subseteq Index /\ i \in Index /\ i \in 1 .. Last
      /\ Stream = 1 .. Last /\ starts \in 0 .. MaxStarts /\ MaxStarts \in Nat
      /\ state \in [Index -> States] /\ kernel \in [Index -> SUBSET Bufs]
      /\ buf_refcnt \in [Index -> [Bufs -> 0 .. 2]]
  BY Streams, StreamAssumption DEF Typed, CallInv
<1> USE DEF At, InState, Goes, Returns, Idle, AddPcs, StartPcs, StopPcs, NotYet, Fresh
<1>1. CASE AddChannel
  <2>1. ~(InState(i, "ACTIVE") /\ i \in streaming)' /\ ~Fresh(i)'
    BY <1>0, <1>1, Moves, CallFacts
    DEF AddChannelMoves, AddChannel, LaunchPoll, bufVars, StateInv, New, Configured, Buffed,
        Registered, Active, UndoInv, CallInv, Stopping
  <2> QED
    BY <2>1, NotCounted
<1>2. CASE ChannelAdded
  <2>1. ~(InState(i, "ACTIVE") /\ i \in streaming)' /\ ~Fresh(i)'
    BY <1>0, <1>2, Moves, CallFacts
    DEF ChannelAddedMoves, ChannelAdded, bufVars, StateInv, New, Configured, Buffed, Registered,
        Active, UndoInv, CallInv, Stopping
  <2> QED
    BY <2>1, NotCounted
<1>3. CASE AcquireStream
  <2>1. ~(InState(i, "ACTIVE") /\ i \in streaming)' /\ ~Fresh(i)'
    BY <1>0, <1>3, Moves, CallFacts
    DEF AcquireStreamMoves, AcquireStream, Become, bufVars, StateInv, New, Configured, Buffed,
        Registered, Active, UndoInv, CallInv, Stopping
  <2> QED
    BY <2>1, NotCounted
<1>4. CASE ConfigStream
  <2>1. ~(InState(i, "ACTIVE") /\ i \in streaming)' /\ ~Fresh(i)'
    BY <1>0, <1>4, Moves, CallFacts
    DEF ConfigStreamMoves, ConfigStream, Become, bufVars, StateInv, New, Configured, Buffed,
        Registered, Active, UndoInv, CallInv, Stopping
  <2> QED
    BY <2>1, NotCounted
<1>5. CASE StartChannel
  <2>1. ~(InState(i, "ACTIVE") /\ i \in streaming)' /\ ~Fresh(i)'
    BY <1>0, <1>5, Moves, CallFacts
    DEF StartChannelMoves, StartChannel, bufVars, StateInv, New, Configured, Buffed, Registered,
        Active, UndoInv, CallInv, Stopping
  <2> QED
    BY <2>1, NotCounted
<1>6. CASE GetBuf
  <2>1. CASE i = hal.i
    <3>1. ~(InState(i, "ACTIVE") /\ i \in streaming)' /\ ~Fresh(i)'
      BY <1>0, <1>6, <2>1, Moves, CallFacts
      DEF GetBufMoves, GetBuf, Become, Undo, bufVars, StateInv, New, Configured, Buffed,
          Registered, Active, UndoInv
    <3> QED
      BY <3>1, NotCounted
  <2>2. CASE i # hal.i
    <3>1. /\ UNCHANGED FrameVars /\ upsets \subseteq upsets'
          /\ \A b : BeingQueued(i, b)' <=> BeingQueued(i, b)
          /\ \A f : f.i = i => (f \in held' <=> f \in held) /\ (f \in returning' <=> f \in returning)
      BY <1>0, <1>6, <2>2, Moves
      DEF GetBufMoves, GetBuf, Become, Undo, FrameVars, bundleVars, strVars, procVars, pollVars,
          BeingQueued, PollAt
    <3>2. /\ (InState(i, "ACTIVE") /\ i \in streaming)' => InState(i, "ACTIVE") /\ i \in streaming
          /\ Fresh(i)' => Fresh(i)
          /\ Fresh(i)' \/ InState(i, "ACTIVE")' =>
                buf_refcnt'[i] = buf_refcnt[i] /\ kernel'[i] = kernel[i]
      BY <1>0, <1>6, <2>2, Moves, CallFacts DEF GetBufMoves, GetBuf, Become, Undo, bufVars
    <3> QED
      BY <3>1, <3>2, AccountFrame
  <2> QED
    BY <2>1, <2>2
<1>7. CASE RegBuf
  <2>1. CASE i = hal.i
    <3>1. CASE Goes("undo", "stop", 1, hal.i)
      <4>1. state'[i] = "BUFFED"
        BY <1>0, <1>7, <2>1, <3>1, CallMoves, CallFacts
        DEF RegBuf, Become, Undo, StateInv, Configured, Buffed
      <4> QED
        BY <4>1, NotCounted
    <3>2. CASE Goes("start", "start", hal.i, hal.last)
      <4>1. /\ state'[i] = "REG"
            /\ \E R \in SUBSET Bufs :
                  /\ R \subseteq Buf
                  /\ kernel'[i] = R
                  /\ buf_refcnt'[i] = [b \in Bufs |-> IF b \in Buf \ R THEN 1 ELSE 0]
        <5>1. ~Undo
          BY <3>2 DEF Undo
        <5>2. PICK R \in {S \cap Buf : S \in InitialReg} :
                 /\ Become(hal.i, "REG")
                 /\ kernel' = [kernel EXCEPT ![hal.i] = R]
                 /\ buf_refcnt' = [buf_refcnt EXCEPT ![hal.i] =
                                      [b \in Bufs |-> IF b \in Buf \ R THEN 1 ELSE 0]]
          BY <1>7, <5>1 DEF RegBuf
        <5>3. R \subseteq Buf /\ R \subseteq Bufs
          <6>1. PICK S \in InitialReg : R = S \cap Buf
            BY <5>2
          <6>2. S \in SUBSET Bufs
            BY StreamAssumption
          <6> QED
            BY <6>1, <6>2
        <5> QED
          BY <1>0, <2>1, <5>2, <5>3 DEF Become
      <4>2. Buf' = Buf /\ Buf \subseteq Bufs
        BY <1>7, Moves, StreamAssumption DEF RegBufMoves, Buf, Bundled
      <4>3. \A b \in Buf : /\ buf_refcnt'[i][b] \in {0, 1}
                           /\ b \in kernel'[i] <=> buf_refcnt'[i][b] = 0
        BY <4>1, <4>2
      <4> QED
        BY <4>1, <4>2, <4>3 DEF AccountInv, Live
    <3> QED
      BY <3>1, <3>2, <1>7, Moves DEF RegBufMoves
  <2>2. CASE i # hal.i
    <3>1. /\ UNCHANGED FrameVars /\ upsets \subseteq upsets'
          /\ \A b : BeingQueued(i, b)' <=> BeingQueued(i, b)
          /\ \A f : f.i = i => (f \in held' <=> f \in held) /\ (f \in returning' <=> f \in returning)
      BY <1>0, <1>7, <2>2, Moves
      DEF RegBufMoves, RegBuf, Become, Undo, FrameVars, bundleVars, strVars, procVars, pollVars,
          BeingQueued, PollAt
    <3>2. /\ (InState(i, "ACTIVE") /\ i \in streaming)' => InState(i, "ACTIVE") /\ i \in streaming
          /\ Fresh(i)' => Fresh(i)
          /\ Fresh(i)' \/ InState(i, "ACTIVE")' =>
                buf_refcnt'[i] = buf_refcnt[i] /\ kernel'[i] = kernel[i]
      <4>1. /\ state'[i] = state[i] /\ streaming' = streaming
            /\ buf_refcnt'[i] = buf_refcnt[i] /\ kernel'[i] = kernel[i]
        BY <1>0, <1>7, <2>2 DEF RegBuf, Become, Undo, bufVars
      <4>2. NotYet(i)' => NotYet(i)
        BY <1>0, <1>7, <2>2, Moves, CallFacts DEF RegBufMoves
      <4> QED
        BY <4>1, <4>2
    <3> QED
      BY <3>1, <3>2, AccountFrame
  <2> QED
    BY <2>1, <2>2
<1>8. CASE StartStream
  <2>1. /\ UNCHANGED FrameVars /\ upsets \subseteq upsets'
        /\ \A b : BeingQueued(i, b)' <=> BeingQueued(i, b)
        /\ \A f : f.i = i => (f \in held' <=> f \in held) /\ (f \in returning' <=> f \in returning)
    BY <1>0, <1>8, Moves
    DEF StartStreamMoves, StartStream, AddPollFd, Sig, FrameVars, bundleVars, strVars, procVars,
        pollVars, BeingQueued, PollAt
  <2>2. /\ (InState(i, "ACTIVE") /\ i \in streaming)' => InState(i, "ACTIVE") /\ i \in streaming
        /\ Fresh(i)' => Fresh(i)
        /\ Fresh(i)' \/ InState(i, "ACTIVE")' =>
              buf_refcnt'[i] = buf_refcnt[i] /\ kernel'[i] = kernel[i]
    BY <1>0, <1>8, Moves, CallFacts DEF StartStreamMoves, StartStream, AddPollFd, Sig, bufVars
  <2> QED
    BY <2>1, <2>2, AccountFrame
<1>9. CASE StreamOn
  <2>1. /\ UNCHANGED FrameVars /\ upsets \subseteq upsets'
        /\ \A b : BeingQueued(i, b)' <=> BeingQueued(i, b)
        /\ \A f : f.i = i => (f \in held' <=> f \in held) /\ (f \in returning' <=> f \in returning)
    BY <1>0, <1>9, Moves
    DEF StreamOnMoves, StreamOn, FrameVars, bundleVars, strVars, procVars, pollVars, BeingQueued,
        PollAt
  <2>2. /\ (InState(i, "ACTIVE") /\ i \in streaming)' => InState(i, "ACTIVE") /\ i \in streaming
        /\ Fresh(i)' => Fresh(i)
        /\ Fresh(i)' \/ InState(i, "ACTIVE")' =>
              buf_refcnt'[i] = buf_refcnt[i] /\ kernel'[i] = kernel[i]
    BY <1>0, <1>9, Moves, CallFacts
    DEF StreamOnMoves, StreamOn, bufVars, StateInv, New, Configured, Buffed, Registered, Active,
        UndoInv
  <2> QED
    BY <2>1, <2>2, AccountFrame
<1>10. CASE StreamActive
  <2>1. CASE i = hal.i
    <3> DEFINE H == {Held("stream", i, b) : b \in {c \in Bufs : buf_refcnt[i][c] > 0}}
    <3>1. CASE ~Live(i)'
      <4>1. state'[i] = "ACTIVE"
        BY <1>0, <1>10, <2>1 DEF StreamActive, Become
      <4> QED
        BY <3>1, <4>1 DEF AccountInv
    <3>2. CASE Live(i)'
      <4>1. /\ UNCHANGED <<FrameVars, returning, buf_refcnt, kernel, upsets, poll_pc, cb>>
            /\ held' = held \cup H /\ state'[i] = "ACTIVE"
        BY <1>0, <1>10, <2>1, Moves
        DEF StreamActive, StreamActiveMoves, Become, FrameVars, bundleVars, strVars, procVars,
            pollVars
      <4>2. hal.op = "start" /\ NotYet(i) /\ Registered(i) /\ ~Met({"stale"})
        BY <1>0, <1>10, <2>1, <3>2, <4>1, Moves DEF StreamActiveMoves, StateInv, Live, Met
      <4>3. /\ cbQ = <<>>
            /\ \A b \in Bufs : <<i, b>> \notin Elems(chQ) \cup matching
            /\ strQ[i] = <<>> /\ mDataQ[i] = <<>>
            /\ \A k \in Thread : procBuf[i][k] = None
            /\ \A f \in held \cup returning : f.i = i => f.start # starts
        BY <4>2 DEF FreshInv
      <4>4. /\ \A b \in Buf : /\ buf_refcnt[i][b] \in {0, 1}
                              /\ b \in kernel[i] <=> buf_refcnt[i][b] = 0
            /\ Buf \subseteq Bufs /\ None \notin Bufs
        BY <4>2, StreamAssumption DEF AccountInv, Registered, Buf, None
      <4>5. \A b, p : /\ Held(p, i, b) \notin held \cup returning
                      /\ Held(p, i, b)' = Held(p, i, b)
        BY <4>1, <4>3 DEF Held, FrameVars
      <4>6. \A b \in Bufs : /\ Held("super", i, b) \notin H
                            /\ Held("stream", i, b) \in H <=> buf_refcnt[i][b] > 0
        BY DEF Held
      <4>7. \A b \in Bufs : /\ HeldNow("super", i, b)' <=> FALSE
                            /\ HeldNow("stream", i, b)' <=> buf_refcnt[i][b] > 0
        BY <4>1, <4>5, <4>6 DEF HeldNow
      <4>8. OnceInStream(i)'
        BY <4>1, <4>3, <4>4, <4>5 DEF OnceInStream, FrameVars, Distinct, Elems, Thread
      <4>14. \A m \in DOMAIN chQ : chQ[m][1] # i
        <5>1. \A m \in DOMAIN chQ : chQ[m] \in Stream \X Bufs /\ chQ[m] \in Elems(chQ)
          BY DEF Typed, Elems
        <5> QED
          BY <4>3, <5>1
      <4>9. OnceInBundle(i)'
        BY <4>1, <4>3, <4>5, <4>7, <4>14 DEF OnceInBundle, FrameVars, Distinct, Elems, InCbQ
      <4>10. \A b : ~BeingQueued(i, b)'
        BY <1>0, <4>1, <4>2 DEF BeingQueued, PollAt, FrameVars, Registered, CbInv
      <4>11. \A b \in Bufs : /\ InStream(i, b)' <=> buf_refcnt[i][b] > 0
                             /\ ~InBundle(i, b)'
        BY <4>1, <4>3, <4>4, <4>7 DEF InStream, InBundle, FrameVars, Elems, Thread
      <4>12. \A b \in Buf : Holders(i, b)' = buf_refcnt[i][b]
        BY <4>4, <4>10, <4>11 DEF Holders
      <4>13. Buf' = Buf
        BY <4>1 DEF Buf, Bundled, FrameVars
      <4> QED
        BY <4>1, <4>4, <4>8, <4>9, <4>10, <4>12, <4>13 DEF AccountInv
    <3> QED
      BY <3>1, <3>2
  <2>2. CASE i # hal.i
    <3>1. /\ UNCHANGED FrameVars /\ upsets \subseteq upsets'
          /\ \A b : BeingQueued(i, b)' <=> BeingQueued(i, b)
          /\ \A f : f.i = i => (f \in held' <=> f \in held) /\ (f \in returning' <=> f \in returning)
      BY <1>0, <1>10, <2>2, Moves
      DEF StreamActiveMoves, StreamActive, Become, FrameVars, bundleVars, strVars, procVars,
          pollVars, BeingQueued, PollAt, Held
    <3>2. /\ (InState(i, "ACTIVE") /\ i \in streaming)' => InState(i, "ACTIVE") /\ i \in streaming
          /\ Fresh(i)' => Fresh(i)
          /\ Fresh(i)' \/ InState(i, "ACTIVE")' =>
                buf_refcnt'[i] = buf_refcnt[i] /\ kernel'[i] = kernel[i]
      BY <1>0, <1>10, <2>2, Moves, CallFacts DEF StreamActiveMoves, StreamActive, Become, bufVars
    <3> QED
      BY <3>1, <3>2, AccountFrame
  <2> QED
    BY <2>1, <2>2
<1>11. CASE StreamOnFails
  <2>1. /\ UNCHANGED FrameVars /\ upsets \subseteq upsets'
        /\ \A b : BeingQueued(i, b)' <=> BeingQueued(i, b)
        /\ \A f : f.i = i => (f \in held' <=> f \in held) /\ (f \in returning' <=> f \in returning)
    BY <1>0, <1>11, Moves
    DEF StreamOnFailsMoves, StreamOnFails, DelPollFd, Sig, FrameVars, bundleVars, strVars,
        procVars, pollVars, BeingQueued, PollAt
  <2>2. /\ (InState(i, "ACTIVE") /\ i \in streaming)' => InState(i, "ACTIVE") /\ i \in streaming
        /\ Fresh(i)' => Fresh(i)
        /\ Fresh(i)' \/ InState(i, "ACTIVE")' =>
              buf_refcnt'[i] = buf_refcnt[i] /\ kernel'[i] = kernel[i]
    BY <1>0, <1>11, Moves, CallFacts DEF StreamOnFailsMoves, StreamOnFails, DelPollFd, Sig, bufVars
  <2> QED
    BY <2>1, <2>2, AccountFrame
<1>12. CASE ReleaseStrT
  <2>1. /\ UNCHANGED FrameVars /\ upsets \subseteq upsets'
        /\ \A b : BeingQueued(i, b)' <=> BeingQueued(i, b)
        /\ \A f : f.i = i => (f \in held' <=> f \in held) /\ (f \in returning' <=> f \in returning)
    BY <1>0, <1>12, Moves
    DEF ReleaseStrTMoves, ReleaseStrT, FrameVars, bundleVars, strVars, procVars, pollVars,
        BeingQueued, PollAt
  <2>2. /\ (InState(i, "ACTIVE") /\ i \in streaming)' => InState(i, "ACTIVE") /\ i \in streaming
        /\ Fresh(i)' => Fresh(i)
        /\ Fresh(i)' \/ InState(i, "ACTIVE")' =>
              buf_refcnt'[i] = buf_refcnt[i] /\ kernel'[i] = kernel[i]
    BY <1>0, <1>12, Moves, CallFacts DEF ReleaseStrTMoves, ReleaseStrT, bufVars
  <2> QED
    BY <2>1, <2>2, AccountFrame
<1>13. CASE StartFails
  <2>1. /\ UNCHANGED FrameVars /\ upsets \subseteq upsets'
        /\ \A b : BeingQueued(i, b)' <=> BeingQueued(i, b)
        /\ \A f : f.i = i => (f \in held' <=> f \in held) /\ (f \in returning' <=> f \in returning)
    BY <1>0, <1>13, Moves
    DEF StartFailsMoves, StartFails, Undo, FrameVars, bundleVars, strVars, procVars, pollVars,
        BeingQueued, PollAt
  <2>2. /\ (InState(i, "ACTIVE") /\ i \in streaming)' => InState(i, "ACTIVE") /\ i \in streaming
        /\ Fresh(i)' => Fresh(i)
        /\ Fresh(i)' \/ InState(i, "ACTIVE")' =>
              buf_refcnt'[i] = buf_refcnt[i] /\ kernel'[i] = kernel[i]
    BY <1>0, <1>13, Moves, CallFacts DEF StartFailsMoves, StartFails, Undo, bufVars
  <2> QED
    BY <2>1, <2>2, AccountFrame
<1>14. CASE StopChannel
  <2>1. /\ UNCHANGED FrameVars /\ upsets \subseteq upsets'
        /\ \A b : BeingQueued(i, b)' <=> BeingQueued(i, b)
        /\ \A f : f.i = i => (f \in held' <=> f \in held) /\ (f \in returning' <=> f \in returning)
    BY <1>0, <1>14, Moves
    DEF StopChannelMoves, StopChannel, FrameVars, bundleVars, strVars, procVars, pollVars,
        BeingQueued, PollAt
  <2>2. /\ (InState(i, "ACTIVE") /\ i \in streaming)' => InState(i, "ACTIVE") /\ i \in streaming
        /\ Fresh(i)' => Fresh(i)
        /\ Fresh(i)' \/ InState(i, "ACTIVE")' =>
              buf_refcnt'[i] = buf_refcnt[i] /\ kernel'[i] = kernel[i]
    BY <1>0, <1>14, Moves, CallFacts DEF StopChannelMoves, StopChannel, bufVars
  <2> QED
    BY <2>1, <2>2, AccountFrame
<1>15. CASE StopStream
  <2>1. /\ UNCHANGED FrameVars /\ upsets \subseteq upsets'
        /\ \A b : BeingQueued(i, b)' <=> BeingQueued(i, b)
        /\ \A f : f.i = i => (f \in held' <=> f \in held) /\ (f \in returning' <=> f \in returning)
    BY <1>0, <1>15, Moves
    DEF StopStreamMoves, StopStream, DelPollFd, Sig, FrameVars, bundleVars, strVars, procVars,
        pollVars, BeingQueued, PollAt
  <2>2. /\ (InState(i, "ACTIVE") /\ i \in streaming)' => InState(i, "ACTIVE") /\ i \in streaming
        /\ Fresh(i)' => Fresh(i)
        /\ Fresh(i)' \/ InState(i, "ACTIVE")' =>
              buf_refcnt'[i] = buf_refcnt[i] /\ kernel'[i] = kernel[i]
    <3>1. /\ state'[i] = state[i] /\ streaming' = streaming
          /\ buf_refcnt'[i] = buf_refcnt[i] /\ kernel'[i] = kernel[i]
      BY <1>0, <1>15 DEF StopStream, DelPollFd, Sig, bufVars
    <3>2. NotYet(i)' => NotYet(i)
      BY <1>0, <1>15, Moves, CallFacts DEF StopStreamMoves
    <3> QED
      BY <3>1, <3>2
  <2> QED
    BY <2>1, <2>2, AccountFrame
<1>16. CASE StreamOff
  <2>1. CASE i = hal.i
    <3>1. ~(InState(i, "ACTIVE") /\ i \in streaming)' /\ ~Fresh(i)'
      BY <1>0, <1>16, <2>1, Moves, CallFacts
      DEF StreamOffMoves, StreamOff, bufVars, StateInv, New, Configured, Buffed, Registered,
          Active, UndoInv
    <3> QED
      BY <3>1, NotCounted
  <2>2. CASE i # hal.i
    <3>1. /\ UNCHANGED FrameVars /\ upsets \subseteq upsets'
          /\ \A b : BeingQueued(i, b)' <=> BeingQueued(i, b)
          /\ \A f : f.i = i => (f \in held' <=> f \in held) /\ (f \in returning' <=> f \in returning)
      BY <1>0, <1>16, <2>2, Moves
      DEF StreamOffMoves, StreamOff, FrameVars, bundleVars, strVars, procVars, pollVars,
          BeingQueued, PollAt
    <3>2. /\ (InState(i, "ACTIVE") /\ i \in streaming)' => InState(i, "ACTIVE") /\ i \in streaming
          /\ Fresh(i)' => Fresh(i)
          /\ Fresh(i)' \/ InState(i, "ACTIVE")' =>
                buf_refcnt'[i] = buf_refcnt[i] /\ kernel'[i] = kernel[i]
      BY <1>0, <1>16, <2>2, Moves, CallFacts DEF StreamOffMoves, StreamOff, bufVars
    <3> QED
      BY <3>1, <3>2, AccountFrame
  <2> QED
    BY <2>1, <2>2
<1>17. CASE StreamStopped
  <2>1. CASE i = hal.i
    <3>1. ~(InState(i, "ACTIVE") /\ i \in streaming)' /\ ~Fresh(i)'
      BY <1>0, <1>17, <2>1, Moves, CallFacts
      DEF StreamStoppedMoves, StreamStopped, Become, bufVars, StateInv, New, Configured, Buffed,
          Registered, Active, UndoInv
    <3> QED
      BY <3>1, NotCounted
  <2>2. CASE i # hal.i
    <3>1. /\ UNCHANGED FrameVars /\ upsets \subseteq upsets'
          /\ \A b : BeingQueued(i, b)' <=> BeingQueued(i, b)
          /\ \A f : f.i = i => (f \in held' <=> f \in held) /\ (f \in returning' <=> f \in returning)
      BY <1>0, <1>17, <2>2, Moves
      DEF StreamStoppedMoves, StreamStopped, Become, FrameVars, bundleVars, strVars, procVars,
          pollVars, BeingQueued, PollAt
    <3>2. /\ (InState(i, "ACTIVE") /\ i \in streaming)' => InState(i, "ACTIVE") /\ i \in streaming
          /\ Fresh(i)' => Fresh(i)
          /\ Fresh(i)' \/ InState(i, "ACTIVE")' =>
                buf_refcnt'[i] = buf_refcnt[i] /\ kernel'[i] = kernel[i]
      BY <1>0, <1>17, <2>2, Moves, CallFacts DEF StreamStoppedMoves, StreamStopped, Become, bufVars
    <3> QED
      BY <3>1, <3>2, AccountFrame
  <2> QED
    BY <2>1, <2>2
<1>18. CASE UnregBuf
  <2>1. CASE i = hal.i
    <3>1. ~(InState(i, "ACTIVE") /\ i \in streaming)' /\ ~Fresh(i)'
      BY <1>0, <1>18, <2>1, Moves, CallFacts
      DEF UnregBufMoves, UnregBuf, Become, bufVars, StateInv, New, Configured, Buffed, Registered,
          Active, UndoInv
    <3> QED
      BY <3>1, NotCounted
  <2>2. CASE i # hal.i
    <3>1. /\ UNCHANGED FrameVars /\ upsets \subseteq upsets'
          /\ \A b : BeingQueued(i, b)' <=> BeingQueued(i, b)
          /\ \A f : f.i = i => (f \in held' <=> f \in held) /\ (f \in returning' <=> f \in returning)
      BY <1>0, <1>18, <2>2, Moves
      DEF UnregBufMoves, UnregBuf, Become, FrameVars, bundleVars, strVars, procVars, pollVars,
          BeingQueued, PollAt
    <3>2. /\ (InState(i, "ACTIVE") /\ i \in streaming)' => InState(i, "ACTIVE") /\ i \in streaming
          /\ Fresh(i)' => Fresh(i)
          /\ Fresh(i)' \/ InState(i, "ACTIVE")' =>
                buf_refcnt'[i] = buf_refcnt[i] /\ kernel'[i] = kernel[i]
      <4>1. /\ state'[i] = state[i] /\ streaming' = streaming
            /\ buf_refcnt'[i] = buf_refcnt[i] /\ kernel'[i] = kernel[i]
        BY <1>0, <1>18, <2>2 DEF UnregBuf, Become, bufVars
      <4>2. NotYet(i)' => NotYet(i)
        BY <1>0, <1>18, <2>2, Moves, CallFacts DEF UnregBufMoves
      <4> QED
        BY <4>1, <4>2
    <3> QED
      BY <3>1, <3>2, AccountFrame
  <2> QED
    BY <2>1, <2>2
<1>19. CASE StreamUndone
  <2>1. CASE i = hal.i
    <3>1. ~(InState(i, "ACTIVE") /\ i \in streaming)' /\ ~Fresh(i)'
      BY <1>0, <1>19, <2>1, Moves, CallFacts
      DEF StreamUndoneMoves, StreamUndone, PutBuf, bufVars, StateInv, New, Configured, Buffed,
          Registered, Active, UndoInv
    <3> QED
      BY <3>1, NotCounted
  <2>2. CASE i # hal.i
    <3>1. /\ UNCHANGED FrameVars /\ upsets \subseteq upsets'
          /\ \A b : BeingQueued(i, b)' <=> BeingQueued(i, b)
          /\ \A f : f.i = i => (f \in held' <=> f \in held) /\ (f \in returning' <=> f \in returning)
      BY <1>0, <1>19, <2>2, Moves
      DEF StreamUndoneMoves, StreamUndone, PutBuf, FrameVars, bundleVars, strVars, procVars,
          pollVars, BeingQueued, PollAt
    <3>2. /\ (InState(i, "ACTIVE") /\ i \in streaming)' => InState(i, "ACTIVE") /\ i \in streaming
          /\ Fresh(i)' => Fresh(i)
          /\ Fresh(i)' \/ InState(i, "ACTIVE")' =>
                buf_refcnt'[i] = buf_refcnt[i] /\ kernel'[i] = kernel[i]
      <4>1. /\ state'[i] = state[i] /\ streaming' = streaming
            /\ buf_refcnt'[i] = buf_refcnt[i] /\ kernel'[i] = kernel[i]
        BY <1>0, <1>19, <2>2 DEF StreamUndone, PutBuf, bufVars
      <4>2. NotYet(i)' => NotYet(i)
        BY <1>0, <1>19, <2>2, Moves, CallFacts DEF StreamUndoneMoves
      <4> QED
        BY <4>1, <4>2
    <3> QED
      BY <3>1, <3>2, AccountFrame
  <2> QED
    BY <2>1, <2>2
<1>20. CASE StopCmdThread
  <2>1. ~(InState(i, "ACTIVE") /\ i \in streaming)' /\ ~Fresh(i)'
    BY <1>0, <1>20, Moves, CallFacts
    DEF StopCmdThreadMoves, StopCmdThread, bufVars, StateInv, New, Configured, Buffed, Registered,
        Active, UndoInv, CallInv, Stopping
  <2> QED
    BY <2>1, NotCounted
<1>21. CASE StopCbThread
  <2>1. ~(InState(i, "ACTIVE") /\ i \in streaming)' /\ ~Fresh(i)'
    BY <1>0, <1>21, Moves, CallFacts
    DEF StopCbThreadMoves, StopCbThread, bufVars, StateInv, New, Configured, Buffed, Registered,
        Active, UndoInv, CallInv, Stopping
  <2> QED
    BY <2>1, NotCounted
<1>22. CASE BundleStopped
  <2>1. ~(InState(i, "ACTIVE") /\ i \in streaming)' /\ ~Fresh(i)'
    BY <1>0, <1>22, Moves, CallFacts
    DEF BundleStoppedMoves, BundleStopped, bufVars, StateInv, New, Configured, Buffed, Registered,
        Active, UndoInv, CallInv, Stopping
  <2> QED
    BY <2>1, NotCounted
<1>23. CASE PutBufs
  <2>1. ~(InState(i, "ACTIVE") /\ i \in streaming)' /\ ~Fresh(i)'
    BY <1>0, <1>23, Moves, CallFacts
    DEF PutBufsMoves, PutBufs, PutBuf, bufVars, StateInv, New, Configured, Buffed, Registered,
        Active, UndoInv, CallInv, Stopping
  <2> QED
    BY <2>1, NotCounted
<1>24. CASE ExitProc
  <2>1. ~(InState(i, "ACTIVE") /\ i \in streaming)' /\ ~Fresh(i)'
    BY <1>0, <1>24, Moves, CallFacts
    DEF ExitProcMoves, ExitProc, NextStream, bufVars, StateInv, New, Configured, Buffed,
        Registered, Active, UndoInv, CallInv, Stopping
  <2> QED
    BY <2>1, NotCounted
<1>25. CASE ProcJoined
  <2>1. ~(InState(i, "ACTIVE") /\ i \in streaming)' /\ ~Fresh(i)'
    BY <1>0, <1>25, Moves, CallFacts
    DEF ProcJoinedMoves, ProcJoined, NextStream, bufVars, StateInv, New, Configured, Buffed,
        Registered, Active, UndoInv, CallInv, Stopping
  <2> QED
    BY <2>1, NotCounted
<1>26. CASE DeleteChannel
  <2>1. ~(InState(i, "ACTIVE") /\ i \in streaming)' /\ ~Fresh(i)'
    BY <1>0, <1>26, Moves, CallFacts
    DEF DeleteChannelMoves, DeleteChannel, Delete, DeleteStreams, ReleasePoll, Sig, bufVars,
        StateInv, New, Configured, Buffed, Registered, Active, UndoInv, CallInv, Stopping
  <2> QED
    BY <2>1, NotCounted
<1>27. CASE DeleteUnstarted
  <2>1. ~(InState(i, "ACTIVE") /\ i \in streaming)' /\ ~Fresh(i)'
    BY <1>0, <1>27, Moves, CallFacts
    DEF DeleteUnstartedMoves, DeleteUnstarted, Delete, DeleteStreams, ReleasePoll, Sig, bufVars,
        StateInv, New, Configured, Buffed, Registered, Active, UndoInv, CallInv, Stopping
  <2> QED
    BY <2>1, NotCounted
<1>28. CASE ChannelDeleted
  <2>1. ~(InState(i, "ACTIVE") /\ i \in streaming)' /\ ~Fresh(i)'
    BY <1>0, <1>28, Moves, CallFacts
    DEF ChannelDeletedMoves, ChannelDeleted, bufVars, StateInv, New, Configured, Buffed,
        Registered, Active, UndoInv, CallInv, Stopping
  <2> QED
    BY <2>1, NotCounted
<1> QED
  BY <1>1, <1>2, <1>3, <1>4, <1>5, <1>6, <1>7, <1>8, <1>9, <1>10, <1>11, <1>12, <1>13, <1>14,
     <1>15, <1>16, <1>17, <1>18, <1>19, <1>20, <1>21, <1>22, <1>23, <1>24, <1>25, <1>26, <1>27,
     <1>28
  DEF CallContinues, Start, Stop

\* What does not change keeps its type.
LEMMA SameStreams ==
  ASSUME kind' = kind
  PROVE  Stream' = Stream /\ Last' = Last /\ Buf' = Buf /\ (Bundled' <=> Bundled)
BY DEF Stream, Last, Buf, Bundled

\* A variable that a step leaves alone keeps its type.
LEMMA TypedFrame ==
  ASSUME Typed, kind' = kind
  PROVE  /\ kind' = kind => (kind \in Kinds)'
         /\ ch' = ch => (ch \in {"NOTUSED", "STOPPED", "ACTIVE", "deleted"})'
         /\ starts' = starts => (starts \in 0 .. MaxStarts)'
         /\ state' = state => (state \in [Index -> States])'
         /\ allocated' = allocated => (allocated \subseteq Stream)'
         /\ streaming' = streaming => (streaming \subseteq Stream)'
         /\ poll_entries' = poll_entries => (poll_entries \subseteq Stream)'
         /\ poll_pc' = poll_pc =>
               (poll_pc \in {"none", "launched", "starting", "poll", "gone"} \cup Scanning)'
         /\ poll_state' = poll_state => (poll_state \in {"STOPPED", "POLL"})'
         /\ sig_wait' = sig_wait => (sig_wait \in BOOLEAN)'
         /\ poll_fds' = poll_fds => (poll_fds \subseteq Stream)'
         /\ buf_refcnt' = buf_refcnt => (buf_refcnt \in [Index -> [Bufs -> 0 .. 2]])'
         /\ kernel' = kernel => (kernel \in [Index -> SUBSET Bufs])'
         /\ cb' = cb => (cb \in [i : Stream \cup {None}, b : Bufs \cup {None}])'
         /\ strQ' = strQ => (strQ \in [Index -> Seq(Bufs)])'
         /\ strT' = strT => (strT \in [Index -> {"none", "run", "exiting"}])'
         /\ chQ' = chQ => (chQ \in Seq(Stream \X Bufs))'
         /\ chT' = chT => (chT \in {"none", "run", "exiting"})'
         /\ matching' = matching => (matching \subseteq Stream \X Bufs)'
         /\ cbQ' = cbQ => (cbQ \in Seq([Stream -> Bufs]))'
         /\ cbT' = cbT => (cbT \in {"none", "run", "exiting"})'
         /\ mDataQ' = mDataQ => (mDataQ \in [Index -> Seq(Bufs)])'
         /\ jobs' = jobs => (jobs \in [Index -> Nat])'
         /\ exits' = exits => (exits \in [Index -> 0 .. 1])'
         /\ cmd_pid' = cmd_pid => (cmd_pid \in [Index -> Thread \cup {None}])'
         /\ procs' = procs => (procs \in [Index -> [Thread -> {"none", "wait", "busy", "gone"}]])'
         /\ procBuf' = procBuf => (procBuf \in [Index -> [Thread -> Bufs \cup {None}]])'
         /\ held' = held => (held \subseteq Frame)'
         /\ returning' = returning => (returning \subseteq Frame)'
         /\ upsets' = upsets => (upsets \subseteq {"start", "reg", "put", "stale", "abandoned"})'
         /\ UNCHANGED <<held, returning, starts>> =>
               (\A f \in held \cup returning : f.i \in Stream /\ f.start <= starts)'
<1>0. Stream' = Stream
  BY SameStreams
<1>1. kind' = kind => (kind \in Kinds)'
  BY <1>0 DEF Typed
<1>2. ch' = ch => (ch \in {"NOTUSED", "STOPPED", "ACTIVE", "deleted"})'
  BY <1>0 DEF Typed
<1>3. starts' = starts => (starts \in 0 .. MaxStarts)'
  BY <1>0 DEF Typed
<1>4. state' = state => (state \in [Index -> States])'
  BY <1>0 DEF Typed, States
<1>5. allocated' = allocated => (allocated \subseteq Stream)'
  BY <1>0 DEF Typed
<1>6. streaming' = streaming => (streaming \subseteq Stream)'
  BY <1>0 DEF Typed
<1>7. poll_entries' = poll_entries => (poll_entries \subseteq Stream)'
  BY <1>0 DEF Typed
<1>8. poll_pc' = poll_pc =>
         (poll_pc \in {"none", "launched", "starting", "poll", "gone"} \cup Scanning)'
  BY <1>0 DEF Typed, Scanning
<1>9. poll_state' = poll_state => (poll_state \in {"STOPPED", "POLL"})'
  BY <1>0 DEF Typed
<1>10. sig_wait' = sig_wait => (sig_wait \in BOOLEAN)'
  BY <1>0 DEF Typed
<1>11. poll_fds' = poll_fds => (poll_fds \subseteq Stream)'
  BY <1>0 DEF Typed
<1>12. buf_refcnt' = buf_refcnt => (buf_refcnt \in [Index -> [Bufs -> 0 .. 2]])'
  BY <1>0 DEF Typed
<1>13. kernel' = kernel => (kernel \in [Index -> SUBSET Bufs])'
  BY <1>0 DEF Typed
<1>14. cb' = cb => (cb \in [i : Stream \cup {None}, b : Bufs \cup {None}])'
  BY <1>0 DEF Typed
<1>15. strQ' = strQ => (strQ \in [Index -> Seq(Bufs)])'
  BY <1>0 DEF Typed
<1>16. strT' = strT => (strT \in [Index -> {"none", "run", "exiting"}])'
  BY <1>0 DEF Typed
<1>17. chQ' = chQ => (chQ \in Seq(Stream \X Bufs))'
  BY <1>0 DEF Typed
<1>18. chT' = chT => (chT \in {"none", "run", "exiting"})'
  BY <1>0 DEF Typed
<1>19. matching' = matching => (matching \subseteq Stream \X Bufs)'
  BY <1>0 DEF Typed
<1>20. cbQ' = cbQ => (cbQ \in Seq([Stream -> Bufs]))'
  BY <1>0 DEF Typed
<1>21. cbT' = cbT => (cbT \in {"none", "run", "exiting"})'
  BY <1>0 DEF Typed
<1>22. mDataQ' = mDataQ => (mDataQ \in [Index -> Seq(Bufs)])'
  BY <1>0 DEF Typed
<1>23. jobs' = jobs => (jobs \in [Index -> Nat])'
  BY <1>0 DEF Typed
<1>24. exits' = exits => (exits \in [Index -> 0 .. 1])'
  BY <1>0 DEF Typed
<1>25. cmd_pid' = cmd_pid => (cmd_pid \in [Index -> Thread \cup {None}])'
  BY <1>0 DEF Typed, Thread
<1>26. procs' = procs => (procs \in [Index -> [Thread -> {"none", "wait", "busy", "gone"}]])'
  BY <1>0 DEF Typed, Thread
<1>27. procBuf' = procBuf => (procBuf \in [Index -> [Thread -> Bufs \cup {None}]])'
  BY <1>0 DEF Typed, Thread
<1>28. held' = held => (held \subseteq Frame)'
  BY <1>0 DEF Typed, Frame, Thread
<1>29. returning' = returning => (returning \subseteq Frame)'
  BY <1>0 DEF Typed, Frame, Thread
<1>30. upsets' = upsets => (upsets \subseteq {"start", "reg", "put", "stale", "abandoned"})'
  BY <1>0 DEF Typed
<1>31. UNCHANGED <<held, returning, starts>> =>
         (\A f \in held \cup returning : f.i \in Stream /\ f.start <= starts)'
  BY <1>0 DEF Typed
<1> QED
  BY <1>1, <1>2, <1>3, <1>4, <1>5, <1>6, <1>7, <1>8, <1>9, <1>10, <1>11, <1>12, <1>13, <1>14,
     <1>15, <1>16, <1>17, <1>18, <1>19, <1>20, <1>21, <1>22, <1>23, <1>24, <1>25, <1>26, <1>27,
     <1>28, <1>29, <1>30, <1>31

\* Every variable keeps its type.
LEMMA TypedKept ==
  ASSUME Typed, CallInv, \A i \in Stream : ProcInv(i),
         AddChannel \/ StartChannel \/ StopChannel \/ DeleteChannel \/ CallContinues
  PROVE  Typed'
<1>0. /\ Place /\ kind \in Kinds /\ Stream \subseteq Index /\ Stream = 1 .. Last
      /\ starts \in 0 .. MaxStarts /\ MaxStarts \in Nat /\ Stream' = Stream
  BY CallKept, Streams, StreamAssumption DEF Typed, CallInv
<1> USE DEF At, InState, Become, Goes, Returns, Idle, AddPcs, StartPcs, StopPcs
<1>1. CASE AddChannel
  <2>1. UNCHANGED <<kind, ch, starts, state, allocated, streaming, poll_entries, poll_state,
                    poll_fds, buf_refcnt, kernel, cb, strQ, strT, chQ, chT, matching, cbQ, cbT,
                    mDataQ, jobs, exits, cmd_pid, procs, procBuf, held, returning, upsets>>
    BY <1>1 DEF AddChannel, LaunchPoll, bufVars, strVars, bundleVars, procVars, pollVars
  <2>2. (poll_pc \in {"none", "launched", "starting", "poll", "gone"} \cup Scanning)'
    BY <1>0, <1>1, Moves, CallFacts, Commands
    DEF AddChannelMoves, AddChannel, LaunchPoll, Typed, bufVars, pollVars, strVars, States
  <2>3. (sig_wait \in BOOLEAN)'
    BY <1>0, <1>1, Moves, CallFacts, Commands
    DEF AddChannelMoves, AddChannel, LaunchPoll, Typed, bufVars, pollVars, strVars, States
  <2> QED
    BY <1>1, Moves, <2>1, <2>2, <2>3, TypedFrame DEF Typed, AddChannelMoves
<1>2. CASE ChannelAdded
  <2>1. UNCHANGED <<kind, starts, state, allocated, streaming, poll_entries, poll_pc,
                    poll_state, sig_wait, poll_fds, buf_refcnt, kernel, cb, strQ, strT, chQ,
                    chT, matching, cbQ, cbT, mDataQ, jobs, exits, cmd_pid, procs, procBuf, held,
                    returning, upsets>>
    BY <1>2 DEF ChannelAdded, bufVars, strVars, bundleVars, procVars, pollVars
  <2>2. (ch \in {"NOTUSED", "STOPPED", "ACTIVE", "deleted"})'
    BY <1>0, <1>2, Moves, CallFacts, Commands
    DEF ChannelAddedMoves, ChannelAdded, Typed, bufVars, pollVars, strVars, States
  <2> QED
    BY <1>2, Moves, <2>1, <2>2, TypedFrame DEF Typed, ChannelAddedMoves
<1>3. CASE AcquireStream
  <2>1. UNCHANGED <<kind, ch, starts, allocated, streaming, poll_entries, poll_pc, poll_state,
                    sig_wait, poll_fds, buf_refcnt, kernel, cb, strQ, strT, chQ, chT, matching,
                    cbQ, cbT, mDataQ, jobs, exits, cmd_pid, procs, procBuf, held, returning,
                    upsets>>
    BY <1>3 DEF AcquireStream, Become, bufVars, strVars, bundleVars, procVars, pollVars
  <2>2. (state \in [Index -> States])'
    BY <1>0, <1>3, Moves, CallFacts, Commands
    DEF AcquireStreamMoves, AcquireStream, Become, Typed, bufVars, pollVars, strVars, States
  <2> QED
    BY <1>3, Moves, <2>1, <2>2, TypedFrame DEF Typed, AcquireStreamMoves
<1>4. CASE ConfigStream
  <2>1. UNCHANGED <<kind, ch, starts, allocated, streaming, poll_entries, poll_pc, poll_state,
                    sig_wait, poll_fds, buf_refcnt, kernel, cb, strQ, strT, chQ, chT, matching,
                    cbQ, cbT, mDataQ, jobs, exits, cmd_pid, procs, procBuf, held, returning,
                    upsets>>
    BY <1>4 DEF ConfigStream, Become, bufVars, strVars, bundleVars, procVars, pollVars
  <2>2. (state \in [Index -> States])'
    BY <1>0, <1>4, Moves, CallFacts, Commands
    DEF ConfigStreamMoves, ConfigStream, Become, Typed, bufVars, pollVars, strVars, States
  <2> QED
    BY <1>4, Moves, <2>1, <2>2, TypedFrame DEF Typed, ConfigStreamMoves
<1>5. CASE StartChannel
  <2>1. UNCHANGED <<kind, ch, state, allocated, streaming, poll_entries, poll_pc, poll_state,
                    sig_wait, poll_fds, buf_refcnt, kernel, cb, strQ, strT, chQ, matching, cbQ,
                    mDataQ, jobs, exits, procBuf, held, returning>>
    BY <1>5 DEF StartChannel, bufVars, strVars, bundleVars, procVars, pollVars
  <2>2. (starts \in 0 .. MaxStarts)'
    BY <1>0, <1>5, Moves, CallFacts, Commands
    DEF StartChannelMoves, StartChannel, Typed, bufVars, pollVars, strVars, States
  <2>3. (cmd_pid \in [Index -> Thread \cup {None}])'
    <3>1. starts' \in Thread
      BY <1>0, <1>5 DEF StartChannel, Thread
    <3> QED
      BY <3>1, <1>5 DEF StartChannel
  <2>4. (procs \in [Index -> [Thread -> {"none", "wait", "busy", "gone"}]])'
    BY <1>0, <1>5, Moves, CallFacts, Commands
    DEF StartChannelMoves, StartChannel, Typed, bufVars, pollVars, strVars, States
  <2>5. (chT \in {"none", "run", "exiting"})'
    BY <1>0, <1>5, Moves, CallFacts, Commands
    DEF StartChannelMoves, StartChannel, Typed, bufVars, pollVars, strVars, States
  <2>6. (cbT \in {"none", "run", "exiting"})'
    BY <1>0, <1>5, Moves, CallFacts, Commands
    DEF StartChannelMoves, StartChannel, Typed, bufVars, pollVars, strVars, States
  <2>7. (upsets \subseteq {"start", "reg", "put", "stale", "abandoned"})'
    BY <1>0, <1>5, Moves, CallFacts, Commands
    DEF StartChannelMoves, StartChannel, Typed, bufVars, pollVars, strVars, States
  <2>8. (\A f \in held \cup returning : f.i \in Stream /\ f.start <= starts)'
    <3>1. \A f \in held \cup returning : f.i \in Stream /\ f.start <= starts /\ f.start \in Nat
      BY DEF Typed, Frame, Thread
    <3> QED
      BY <1>0, <3>1, <1>5 DEF StartChannel
  <2> QED
    BY <1>5, Moves, <2>1, <2>2, <2>3, <2>4, <2>5, <2>6, <2>7, <2>8, TypedFrame
    DEF Typed, StartChannelMoves
<1>6. CASE GetBuf
  <2>1. UNCHANGED <<kind, ch, starts, streaming, poll_entries, poll_pc, poll_state, sig_wait,
                    poll_fds, kernel, cb, strQ, strT, chQ, chT, matching, cbQ, cbT, mDataQ,
                    jobs, exits, cmd_pid, procs, procBuf, held, returning, upsets>>
    BY <1>6 DEF GetBuf, Become, Undo, bufVars, strVars, bundleVars, procVars, pollVars
  <2>2. (state \in [Index -> States])'
    BY <1>0, <1>6, Moves, CallFacts, Commands
    DEF GetBufMoves, GetBuf, Become, Undo, Typed, bufVars, pollVars, strVars, States
  <2>3. (allocated \subseteq Stream)'
    BY <1>0, <1>6, Moves, CallFacts, Commands
    DEF GetBufMoves, GetBuf, Become, Undo, Typed, bufVars, pollVars, strVars, States
  <2>4. (buf_refcnt \in [Index -> [Bufs -> 0 .. 2]])'
    <3>1. AllBufs(0) \in [Bufs -> 0 .. 2]
      BY DEF AllBufs
    <3> QED
      BY <3>1, <1>6 DEF GetBuf, Typed
  <2> QED
    BY <1>6, Moves, <2>1, <2>2, <2>3, <2>4, TypedFrame DEF Typed, GetBufMoves
<1>7. CASE RegBuf
  <2>1. UNCHANGED <<kind, ch, starts, allocated, streaming, poll_entries, poll_pc, poll_state,
                    sig_wait, poll_fds, cb, strQ, strT, chQ, chT, matching, cbQ, cbT, mDataQ,
                    jobs, exits, cmd_pid, procs, procBuf, held, returning>>
    BY <1>7 DEF RegBuf, Become, Undo, bufVars, strVars, bundleVars, procVars, pollVars
  <2>2. (state \in [Index -> States])'
    BY <1>0, <1>7, Moves, CallFacts, Commands
    DEF RegBufMoves, RegBuf, Become, Undo, Typed, bufVars, pollVars, strVars, States
  <2>3. (kernel \in [Index -> SUBSET Bufs])'
    <3>1. PICK R \in {S \cap Buf : S \in InitialReg} : 
                   \E K \in SUBSET R : kernel' = [kernel EXCEPT ![hal.i] = K]
      BY <1>7 DEF RegBuf
    <3>2. R \subseteq Bufs
      <4>1. PICK S \in InitialReg : R = S \cap Buf
        BY <3>1
      <4>2. S \in SUBSET Bufs
        BY StreamAssumption
      <4> QED
        BY <4>1, <4>2
    <3>3. PICK K \in SUBSET Bufs : kernel' = [kernel EXCEPT ![hal.i] = K]
      BY <3>1, <3>2
    <3> QED
      BY <3>3 DEF Typed
  <2>4. (buf_refcnt \in [Index -> [Bufs -> 0 .. 2]])'
    <3>1. \E n \in [Bufs -> 0 .. 2] : buf_refcnt' = [buf_refcnt EXCEPT ![hal.i] = n]
      <4>1. PICK R \in {S \cap Buf : S \in InitialReg} :
               \/ buf_refcnt' = [buf_refcnt EXCEPT ![hal.i] =
                                    [b \in Bufs |-> IF b \in Buf \ R THEN 1 ELSE 0]]
               \/ \E failed :
                     buf_refcnt' = [buf_refcnt EXCEPT ![hal.i] =
                                       [b \in Bufs |-> IF b \in Buf \ R /\ b < failed
                                                       THEN 1 ELSE 0]]
        BY <1>7 DEF RegBuf
      <4>2. /\ [b \in Bufs |-> IF b \in Buf \ R THEN 1 ELSE 0] \in [Bufs -> 0 .. 2]
            /\ \A failed : [b \in Bufs |-> IF b \in Buf \ R /\ b < failed THEN 1 ELSE 0]
                           \in [Bufs -> 0 .. 2]
        OBVIOUS
      <4> QED
        BY <4>1, <4>2
    <3> QED
      BY <3>1 DEF Typed
  <2>5. (upsets \subseteq {"start", "reg", "put", "stale", "abandoned"})'
    BY <1>0, <1>7, Moves, CallFacts, Commands
    DEF RegBufMoves, RegBuf, Become, Undo, Typed, bufVars, pollVars, strVars, States
  <2> QED
    BY <1>7, Moves, <2>1, <2>2, <2>3, <2>4, <2>5, TypedFrame DEF Typed, RegBufMoves
<1>8. CASE StartStream
  <2>1. UNCHANGED <<kind, ch, starts, state, allocated, streaming, poll_pc, poll_state,
                    poll_fds, buf_refcnt, kernel, cb, strQ, chQ, chT, matching, cbQ, cbT,
                    mDataQ, jobs, exits, cmd_pid, procs, procBuf, held, returning, upsets>>
    BY <1>8 DEF StartStream, AddPollFd, Sig, bufVars, strVars, bundleVars, procVars, pollVars
  <2>2. (strT \in [Index -> {"none", "run", "exiting"}])'
    BY <1>0, <1>8, Moves, CallFacts, Commands
    DEF StartStreamMoves, StartStream, AddPollFd, Sig, Typed, bufVars, pollVars, strVars, States
  <2>3. (poll_entries \subseteq Stream)'
    BY <1>0, <1>8, Moves, CallFacts, Commands
    DEF StartStreamMoves, StartStream, AddPollFd, Sig, Typed, bufVars, pollVars, strVars, States
  <2>4. (sig_wait \in BOOLEAN)'
    BY <1>0, <1>8, Moves, CallFacts, Commands
    DEF StartStreamMoves, StartStream, AddPollFd, Sig, Typed, bufVars, pollVars, strVars, States
  <2> QED
    BY <1>8, Moves, <2>1, <2>2, <2>3, <2>4, TypedFrame DEF Typed, StartStreamMoves
<1>9. CASE StreamOn
  <2>1. UNCHANGED <<kind, ch, starts, state, allocated, poll_entries, poll_pc, poll_state,
                    sig_wait, poll_fds, buf_refcnt, kernel, cb, strQ, strT, chQ, chT, matching,
                    cbQ, cbT, mDataQ, jobs, exits, cmd_pid, procs, procBuf, held, returning,
                    upsets>>
    BY <1>9 DEF StreamOn, bufVars, strVars, bundleVars, procVars, pollVars
  <2>2. (streaming \subseteq Stream)'
    BY <1>0, <1>9, Moves, CallFacts, Commands
    DEF StreamOnMoves, StreamOn, Typed, bufVars, pollVars, strVars, States
  <2> QED
    BY <1>9, Moves, <2>1, <2>2, TypedFrame DEF Typed, StreamOnMoves
<1>10. CASE StreamActive
  <2>1. UNCHANGED <<kind, starts, allocated, streaming, poll_entries, poll_pc, poll_state,
                    sig_wait, poll_fds, buf_refcnt, kernel, cb, strQ, strT, chQ, chT, matching,
                    cbQ, cbT, mDataQ, jobs, exits, cmd_pid, procs, procBuf, returning, upsets>>
    BY <1>10 DEF StreamActive, Become, bufVars, strVars, bundleVars, procVars, pollVars
  <2>2. (state \in [Index -> States])'
    BY <1>0, <1>10, Moves, CallFacts, Commands
    DEF StreamActiveMoves, StreamActive, Become, Typed, bufVars, pollVars, strVars, States
  <2>3. (held \subseteq Frame)'
    <3>1. \A b \in Bufs : Held("stream", hal.i, b) \in Frame
      BY <1>0, <1>10, Moves, CallFacts DEF StreamActiveMoves, Held, Frame, Thread, CallInv
    <3> QED
      BY <3>1, <1>10 DEF StreamActive, Typed, Frame, Thread
  <2>4. (ch \in {"NOTUSED", "STOPPED", "ACTIVE", "deleted"})'
    BY <1>0, <1>10, Moves, CallFacts, Commands
    DEF StreamActiveMoves, StreamActive, Become, Typed, bufVars, pollVars, strVars, States
  <2>5. (\A f \in held \cup returning : f.i \in Stream /\ f.start <= starts)'
    <3>1. hal.i \in Stream /\ starts \in Nat
      BY <1>0, <1>10, Moves, CallFacts DEF StreamActiveMoves
    <3>2. \A b : Held("stream", hal.i, b).i \in Stream /\ Held("stream", hal.i, b).start <= starts
      BY <3>1 DEF Held
    <3> QED
      BY <1>0, <3>2, <1>10 DEF StreamActive, Typed
  <2> QED
    BY <1>10, Moves, <2>1, <2>2, <2>3, <2>4, <2>5, TypedFrame DEF Typed, StreamActiveMoves
<1>11. CASE StreamOnFails
  <2>1. UNCHANGED <<kind, ch, starts, state, allocated, streaming, poll_pc, poll_state,
                    poll_fds, buf_refcnt, kernel, cb, strQ, strT, chQ, chT, matching, cbQ, cbT,
                    mDataQ, jobs, exits, cmd_pid, procs, procBuf, held, returning, upsets>>
    BY <1>11 DEF StreamOnFails, DelPollFd, Sig, bufVars, strVars, bundleVars, procVars, pollVars
  <2>2. (poll_entries \subseteq Stream)'
    BY <1>0, <1>11, Moves, CallFacts, Commands
    DEF StreamOnFailsMoves, StreamOnFails, DelPollFd, Sig, Typed, bufVars, pollVars, strVars,
        States
  <2>3. (sig_wait \in BOOLEAN)'
    BY <1>0, <1>11, Moves, CallFacts, Commands
    DEF StreamOnFailsMoves, StreamOnFails, DelPollFd, Sig, Typed, bufVars, pollVars, strVars,
        States
  <2> QED
    BY <1>11, Moves, <2>1, <2>2, <2>3, TypedFrame DEF Typed, StreamOnFailsMoves
<1>12. CASE ReleaseStrT
  <2>1. UNCHANGED <<kind, ch, starts, state, allocated, streaming, poll_entries, poll_pc,
                    poll_state, sig_wait, poll_fds, buf_refcnt, kernel, cb, strQ, chQ, chT,
                    matching, cbQ, cbT, mDataQ, jobs, exits, cmd_pid, procs, procBuf, held,
                    returning, upsets>>
    BY <1>12 DEF ReleaseStrT, bufVars, strVars, bundleVars, procVars, pollVars
  <2>2. (strT \in [Index -> {"none", "run", "exiting"}])'
    BY <1>0, <1>12, Moves, CallFacts, Commands
    DEF ReleaseStrTMoves, ReleaseStrT, Typed, bufVars, pollVars, strVars, States
  <2> QED
    BY <1>12, Moves, <2>1, <2>2, TypedFrame DEF Typed, ReleaseStrTMoves
<1>13. CASE StartFails
  <2>1. UNCHANGED <<kind, ch, starts, state, allocated, streaming, poll_entries, poll_pc,
                    poll_state, sig_wait, poll_fds, buf_refcnt, kernel, cb, strQ, strT, chQ,
                    chT, matching, cbQ, cbT, mDataQ, jobs, exits, cmd_pid, procs, procBuf, held,
                    returning, upsets>>
    BY <1>13 DEF StartFails, Undo, bufVars, strVars, bundleVars, procVars, pollVars
  <2> QED
    BY <1>13, Moves, <2>1, TypedFrame DEF Typed, StartFailsMoves
<1>14. CASE StopChannel
  <2>1. UNCHANGED <<kind, ch, starts, state, allocated, streaming, poll_entries, poll_pc,
                    poll_state, sig_wait, poll_fds, buf_refcnt, kernel, cb, strQ, strT, chQ,
                    chT, matching, cbQ, cbT, mDataQ, jobs, exits, cmd_pid, procs, procBuf, held,
                    returning, upsets>>
    BY <1>14 DEF StopChannel, bufVars, strVars, bundleVars, procVars, pollVars
  <2> QED
    BY <1>14, Moves, <2>1, TypedFrame DEF Typed, StopChannelMoves
<1>15. CASE StopStream
  <2>1. UNCHANGED <<kind, ch, starts, state, allocated, streaming, poll_pc, poll_state,
                    poll_fds, buf_refcnt, kernel, cb, strQ, strT, chQ, chT, matching, cbQ, cbT,
                    mDataQ, jobs, exits, cmd_pid, procs, procBuf, held, returning, upsets>>
    BY <1>15 DEF StopStream, DelPollFd, Sig, bufVars, strVars, bundleVars, procVars, pollVars
  <2>2. (poll_entries \subseteq Stream)'
    BY <1>0, <1>15, Moves, CallFacts, Commands
    DEF StopStreamMoves, StopStream, DelPollFd, Sig, Typed, bufVars, pollVars, strVars, States
  <2>3. (sig_wait \in BOOLEAN)'
    BY <1>0, <1>15, Moves, CallFacts, Commands
    DEF StopStreamMoves, StopStream, DelPollFd, Sig, Typed, bufVars, pollVars, strVars, States
  <2> QED
    BY <1>15, Moves, <2>1, <2>2, <2>3, TypedFrame DEF Typed, StopStreamMoves
<1>16. CASE StreamOff
  <2>1. UNCHANGED <<kind, ch, starts, state, allocated, poll_entries, poll_pc, poll_state,
                    sig_wait, poll_fds, buf_refcnt, cb, strQ, chQ, chT, matching, cbQ, cbT,
                    mDataQ, jobs, exits, cmd_pid, procs, procBuf, held, returning, upsets>>
    BY <1>16 DEF StreamOff, bufVars, strVars, bundleVars, procVars, pollVars
  <2>2. (streaming \subseteq Stream)'
    BY <1>0, <1>16, Moves, CallFacts, Commands
    DEF StreamOffMoves, StreamOff, Typed, bufVars, pollVars, strVars, States
  <2>3. (kernel \in [Index -> SUBSET Bufs])'
    BY <1>0, <1>16, Moves, CallFacts, Commands
    DEF StreamOffMoves, StreamOff, Typed, bufVars, pollVars, strVars, States
  <2>4. (strT \in [Index -> {"none", "run", "exiting"}])'
    BY <1>0, <1>16, Moves, CallFacts, Commands
    DEF StreamOffMoves, StreamOff, Typed, bufVars, pollVars, strVars, States
  <2> QED
    BY <1>16, Moves, <2>1, <2>2, <2>3, <2>4, TypedFrame DEF Typed, StreamOffMoves
<1>17. CASE StreamStopped
  <2>1. UNCHANGED <<kind, ch, starts, allocated, streaming, poll_entries, poll_pc, poll_state,
                    sig_wait, poll_fds, buf_refcnt, kernel, cb, strQ, strT, chQ, chT, matching,
                    cbQ, cbT, mDataQ, jobs, exits, cmd_pid, procs, procBuf, held, returning,
                    upsets>>
    BY <1>17 DEF StreamStopped, Become, bufVars, strVars, bundleVars, procVars, pollVars
  <2>2. (state \in [Index -> States])'
    BY <1>0, <1>17, Moves, CallFacts, Commands
    DEF StreamStoppedMoves, StreamStopped, Become, Typed, bufVars, pollVars, strVars, States
  <2> QED
    BY <1>17, Moves, <2>1, <2>2, TypedFrame DEF Typed, StreamStoppedMoves
<1>18. CASE UnregBuf
  <2>1. UNCHANGED <<kind, ch, starts, allocated, streaming, poll_entries, poll_pc, poll_state,
                    sig_wait, poll_fds, cb, strQ, strT, chQ, chT, matching, cbQ, cbT, mDataQ,
                    jobs, exits, cmd_pid, procs, procBuf, held, returning, upsets>>
    BY <1>18 DEF UnregBuf, Become, bufVars, strVars, bundleVars, procVars, pollVars
  <2>2. (state \in [Index -> States])'
    <3>1. state' = state \/ state' = [state EXCEPT ![hal.i] = "BUFFED"]
      BY <1>18 DEF UnregBuf
    <3> QED
      BY <3>1 DEF Typed, States
  <2>3. (buf_refcnt \in [Index -> [Bufs -> 0 .. 2]])'
    <3>1. buf_refcnt' = buf_refcnt \/ buf_refcnt' = [buf_refcnt EXCEPT ![hal.i] = AllBufs(0)]
      BY <1>18 DEF UnregBuf
    <3>2. AllBufs(0) \in [Bufs -> 0 .. 2]
      BY DEF AllBufs
    <3> QED
      BY <3>1, <3>2 DEF Typed
  <2>4. (kernel \in [Index -> SUBSET Bufs])'
    BY <1>0, <1>18, Moves, CallFacts, Commands
    DEF UnregBufMoves, UnregBuf, Become, Typed, bufVars, pollVars, strVars, States
  <2> QED
    BY <1>18, Moves, <2>1, <2>2, <2>3, <2>4, TypedFrame DEF Typed, UnregBufMoves
<1>19. CASE StreamUndone
  <2>1. UNCHANGED <<kind, ch, starts, streaming, poll_entries, poll_pc, poll_state, sig_wait,
                    poll_fds, buf_refcnt, kernel, cb, strQ, strT, chQ, chT, matching, cbQ, cbT,
                    mDataQ, jobs, exits, cmd_pid, procs, procBuf, held, returning>>
    BY <1>19 DEF StreamUndone, PutBuf, bufVars, strVars, bundleVars, procVars, pollVars
  <2>2. (allocated \subseteq Stream)'
    BY <1>0, <1>19, Moves, CallFacts, Commands
    DEF StreamUndoneMoves, StreamUndone, PutBuf, Typed, bufVars, pollVars, strVars, States
  <2>3. (state \in [Index -> States])'
    BY <1>0, <1>19, Moves, CallFacts, Commands
    DEF StreamUndoneMoves, StreamUndone, PutBuf, Typed, bufVars, pollVars, strVars, States
  <2>4. (upsets \subseteq {"start", "reg", "put", "stale", "abandoned"})'
    BY <1>0, <1>19, Moves, CallFacts, Commands
    DEF StreamUndoneMoves, StreamUndone, PutBuf, Typed, bufVars, pollVars, strVars, States
  <2> QED
    BY <1>19, Moves, <2>1, <2>2, <2>3, <2>4, TypedFrame DEF Typed, StreamUndoneMoves
<1>20. CASE StopCmdThread
  <2>1. UNCHANGED <<kind, ch, starts, state, allocated, streaming, poll_entries, poll_pc,
                    poll_state, sig_wait, poll_fds, buf_refcnt, kernel, cb, strQ, strT, chQ,
                    matching, cbQ, cbT, mDataQ, jobs, exits, cmd_pid, procs, procBuf, held,
                    returning, upsets>>
    BY <1>20 DEF StopCmdThread, bufVars, strVars, bundleVars, procVars, pollVars
  <2>2. (chT \in {"none", "run", "exiting"})'
    BY <1>0, <1>20, Moves, CallFacts, Commands
    DEF StopCmdThreadMoves, StopCmdThread, Typed, bufVars, pollVars, strVars, States
  <2> QED
    BY <1>20, Moves, <2>1, <2>2, TypedFrame DEF Typed, StopCmdThreadMoves
<1>21. CASE StopCbThread
  <2>1. UNCHANGED <<kind, ch, starts, state, allocated, streaming, poll_entries, poll_pc,
                    poll_state, sig_wait, poll_fds, buf_refcnt, kernel, cb, strQ, strT, chQ,
                    chT, matching, cbQ, mDataQ, jobs, exits, cmd_pid, procs, procBuf, held,
                    returning, upsets>>
    BY <1>21 DEF StopCbThread, bufVars, strVars, bundleVars, procVars, pollVars
  <2>2. (cbT \in {"none", "run", "exiting"})'
    BY <1>0, <1>21, Moves, CallFacts, Commands
    DEF StopCbThreadMoves, StopCbThread, Typed, bufVars, pollVars, strVars, States
  <2> QED
    BY <1>21, Moves, <2>1, <2>2, TypedFrame DEF Typed, StopCbThreadMoves
<1>22. CASE BundleStopped
  <2>1. UNCHANGED <<kind, ch, starts, state, allocated, streaming, poll_entries, poll_pc,
                    poll_state, sig_wait, poll_fds, buf_refcnt, kernel, cb, strQ, strT, chQ,
                    chT, cbQ, cbT, mDataQ, jobs, exits, cmd_pid, procs, procBuf, held,
                    returning, upsets>>
    BY <1>22 DEF BundleStopped, bufVars, strVars, bundleVars, procVars, pollVars
  <2>2. (matching \subseteq Stream \X Bufs)'
    BY <1>0, <1>22, Moves, CallFacts, Commands
    DEF BundleStoppedMoves, BundleStopped, Typed, bufVars, pollVars, strVars, States
  <2> QED
    BY <1>22, Moves, <2>1, <2>2, TypedFrame DEF Typed, BundleStoppedMoves
<1>23. CASE PutBufs
  <2>1. UNCHANGED <<kind, starts, streaming, poll_entries, poll_pc, poll_state, sig_wait,
                    poll_fds, buf_refcnt, kernel, cb, strQ, strT, chQ, chT, matching, cbQ, cbT,
                    mDataQ, jobs, exits, cmd_pid, procs, procBuf, held, returning>>
    BY <1>23 DEF PutBufs, PutBuf, bufVars, strVars, bundleVars, procVars, pollVars
  <2>2. (allocated \subseteq Stream)'
    BY <1>0, <1>23, Moves, CallFacts, Commands
    DEF PutBufsMoves, PutBufs, PutBuf, Typed, bufVars, pollVars, strVars, States
  <2>3. (state \in [Index -> States])'
    BY <1>0, <1>23, Moves, CallFacts, Commands
    DEF PutBufsMoves, PutBufs, PutBuf, Typed, bufVars, pollVars, strVars, States
  <2>4. (upsets \subseteq {"start", "reg", "put", "stale", "abandoned"})'
    BY <1>0, <1>23, Moves, CallFacts, Commands
    DEF PutBufsMoves, PutBufs, PutBuf, Typed, bufVars, pollVars, strVars, States
  <2>5. (ch \in {"NOTUSED", "STOPPED", "ACTIVE", "deleted"})'
    BY <1>0, <1>23, Moves, CallFacts, Commands
    DEF PutBufsMoves, PutBufs, PutBuf, Typed, bufVars, pollVars, strVars, States
  <2> QED
    BY <1>23, Moves, <2>1, <2>2, <2>3, <2>4, <2>5, TypedFrame DEF Typed, PutBufsMoves
<1>24. CASE ExitProc
  <2>1. UNCHANGED <<kind, ch, starts, state, allocated, streaming, poll_entries, poll_pc,
                    poll_state, sig_wait, poll_fds, buf_refcnt, kernel, cb, strQ, strT, chQ,
                    chT, matching, cbQ, cbT, mDataQ, jobs, cmd_pid, procs, procBuf, held,
                    returning, upsets>>
    BY <1>24 DEF ExitProc, NextStream, bufVars, strVars, bundleVars, procVars, pollVars
  <2>2. (exits \in [Index -> 0 .. 1])'
    <3>1. hal.i \in Stream /\ ~Here(hal.i, {"joinproc"})
      BY <1>0, <1>24, CallFacts, Moves DEF ExitProcMoves, Here
    <3>2. exits[hal.i] = 0
      BY <3>1 DEF ProcInv
    <3>3. exits' = exits \/ exits' = [exits EXCEPT ![hal.i] = 1]
      BY <3>2, <1>24 DEF ExitProc
    <3>4. exits \in [Index -> 0 .. 1] /\ 1 \in 0 .. 1
      BY DEF Typed
    <3> QED
      BY <3>3, <3>4
  <2> QED
    BY <1>24, Moves, <2>1, <2>2, TypedFrame DEF Typed, ExitProcMoves
<1>25. CASE ProcJoined
  <2>1. UNCHANGED <<kind, ch, starts, state, allocated, streaming, poll_entries, poll_pc,
                    poll_state, sig_wait, poll_fds, buf_refcnt, kernel, cb, strQ, strT, chQ,
                    chT, matching, cbQ, cbT, mDataQ, jobs, exits, procs, procBuf, held,
                    returning, upsets>>
    BY <1>25 DEF ProcJoined, NextStream, bufVars, strVars, bundleVars, procVars, pollVars
  <2>2. (cmd_pid \in [Index -> Thread \cup {None}])'
    BY <1>0, <1>25, Moves, CallFacts, Commands
    DEF ProcJoinedMoves, ProcJoined, NextStream, Typed, bufVars, pollVars, strVars, States
  <2> QED
    BY <1>25, Moves, <2>1, <2>2, TypedFrame DEF Typed, ProcJoinedMoves
<1>26. CASE DeleteChannel
  <2>1. UNCHANGED <<kind, starts, allocated, streaming, poll_entries, poll_pc, poll_state,
                    poll_fds, buf_refcnt, kernel, cb, strQ, strT, chQ, chT, matching, cbQ, cbT,
                    mDataQ, jobs, exits, cmd_pid, procs, procBuf, held, returning>>
    BY <1>26
    DEF DeleteChannel, Delete, DeleteStreams, ReleasePoll, Sig, bufVars, strVars, bundleVars,
        procVars, pollVars
  <2>2. (state \in [Index -> States])'
    BY <1>0, <1>26, Moves, CallFacts, Commands
    DEF DeleteChannelMoves, DeleteChannel, Delete, DeleteStreams, ReleasePoll, Sig, Typed,
        bufVars, pollVars, strVars, States
  <2>3. (sig_wait \in BOOLEAN)'
    BY <1>0, <1>26, Moves, CallFacts, Commands
    DEF DeleteChannelMoves, DeleteChannel, Delete, DeleteStreams, ReleasePoll, Sig, Typed,
        bufVars, pollVars, strVars, States
  <2>4. (ch \in {"NOTUSED", "STOPPED", "ACTIVE", "deleted"})'
    BY <1>0, <1>26, Moves, CallFacts, Commands
    DEF DeleteChannelMoves, DeleteChannel, Delete, DeleteStreams, ReleasePoll, Sig, Typed,
        bufVars, pollVars, strVars, States
  <2>5. (upsets \subseteq {"start", "reg", "put", "stale", "abandoned"})'
    BY <1>0, <1>26, Moves, CallFacts, Commands
    DEF DeleteChannelMoves, DeleteChannel, Delete, DeleteStreams, ReleasePoll, Sig, Typed,
        bufVars, pollVars, strVars, States
  <2> QED
    BY <1>26, Moves, <2>1, <2>2, <2>3, <2>4, <2>5, TypedFrame DEF Typed, DeleteChannelMoves
<1>27. CASE DeleteUnstarted
  <2>1. UNCHANGED <<kind, starts, allocated, streaming, poll_entries, poll_pc, poll_state,
                    poll_fds, buf_refcnt, kernel, cb, strQ, strT, chQ, chT, matching, cbQ, cbT,
                    mDataQ, jobs, exits, cmd_pid, procs, procBuf, held, returning>>
    BY <1>27
    DEF DeleteUnstarted, Delete, DeleteStreams, ReleasePoll, Sig, bufVars, strVars, bundleVars,
        procVars, pollVars
  <2>2. (state \in [Index -> States])'
    BY <1>0, <1>27, Moves, CallFacts, Commands
    DEF DeleteUnstartedMoves, DeleteUnstarted, Delete, DeleteStreams, ReleasePoll, Sig, Typed,
        bufVars, pollVars, strVars, States
  <2>3. (sig_wait \in BOOLEAN)'
    BY <1>0, <1>27, Moves, CallFacts, Commands
    DEF DeleteUnstartedMoves, DeleteUnstarted, Delete, DeleteStreams, ReleasePoll, Sig, Typed,
        bufVars, pollVars, strVars, States
  <2>4. (ch \in {"NOTUSED", "STOPPED", "ACTIVE", "deleted"})'
    BY <1>0, <1>27, Moves, CallFacts, Commands
    DEF DeleteUnstartedMoves, DeleteUnstarted, Delete, DeleteStreams, ReleasePoll, Sig, Typed,
        bufVars, pollVars, strVars, States
  <2>5. (upsets \subseteq {"start", "reg", "put", "stale", "abandoned"})'
    BY <1>0, <1>27, Moves, CallFacts, Commands
    DEF DeleteUnstartedMoves, DeleteUnstarted, Delete, DeleteStreams, ReleasePoll, Sig, Typed,
        bufVars, pollVars, strVars, States
  <2> QED
    BY <1>27, Moves, <2>1, <2>2, <2>3, <2>4, <2>5, TypedFrame DEF Typed, DeleteUnstartedMoves
<1>28. CASE ChannelDeleted
  <2>1. UNCHANGED <<kind, starts, state, allocated, streaming, poll_entries, poll_pc,
                    poll_state, sig_wait, poll_fds, buf_refcnt, kernel, cb, strQ, strT, chQ,
                    chT, matching, cbQ, cbT, mDataQ, jobs, exits, cmd_pid, procs, procBuf, held,
                    returning, upsets>>
    BY <1>28 DEF ChannelDeleted, bufVars, strVars, bundleVars, procVars, pollVars
  <2>2. (ch \in {"NOTUSED", "STOPPED", "ACTIVE", "deleted"})'
    BY <1>0, <1>28, Moves, CallFacts, Commands
    DEF ChannelDeletedMoves, ChannelDeleted, Typed, bufVars, pollVars, strVars, States
  <2> QED
    BY <1>28, Moves, <2>1, <2>2, TypedFrame DEF Typed, ChannelDeletedMoves
<1> QED
  BY <1>1, <1>2, <1>3, <1>4, <1>5, <1>6, <1>7, <1>8, <1>9, <1>10, <1>11, <1>12, <1>13, <1>14,
     <1>15, <1>16, <1>17, <1>18, <1>19, <1>20, <1>21, <1>22, <1>23, <1>24, <1>25, <1>26, <1>27,
     <1>28
  DEF CallContinues, Start, Stop

\* The threads of a started channel are the last that were launched.
LEMMA LaunchKept ==
  ASSUME Typed, CallInv, NEW i \in Stream, LaunchInv(i),
         AddChannel \/ StartChannel \/ StopChannel \/ DeleteChannel \/ CallContinues
  PROVE  LaunchInv(i)'
<1>0. /\ Place /\ kind \in Kinds /\ Stream \subseteq Index /\ i \in Index /\ i \in 1 .. Last
      /\ Stream = 1 .. Last /\ starts \in 0 .. MaxStarts /\ MaxStarts \in Nat
      /\ cmd_pid \in [Index -> Thread \cup {None}]
  BY Streams, StreamAssumption DEF Typed, CallInv
<1> USE DEF At, Goes, Returns, Idle, AddPcs, StartPcs, StopPcs
<1>1. CASE AddChannel
  <2>1. UNCHANGED cmd_pid
    BY <1>1 DEF AddChannel, LaunchPoll, procVars
  <2> QED
    BY <1>0, <1>1, <2>1, Moves, CallFacts DEF AddChannelMoves, LaunchInv, CallInv, Stopping
<1>2. CASE ChannelAdded
  <2>1. UNCHANGED cmd_pid
    BY <1>2 DEF ChannelAdded, procVars
  <2> QED
    BY <1>0, <1>2, <2>1, Moves, CallFacts DEF ChannelAddedMoves, LaunchInv, CallInv, Stopping
<1>3. CASE AcquireStream
  <2>1. UNCHANGED cmd_pid
    BY <1>3 DEF AcquireStream, Become, procVars
  <2> QED
    BY <1>0, <1>3, <2>1, Moves, CallFacts DEF AcquireStreamMoves, LaunchInv, CallInv, Stopping
<1>4. CASE ConfigStream
  <2>1. UNCHANGED cmd_pid
    BY <1>4 DEF ConfigStream, Become, procVars
  <2> QED
    BY <1>0, <1>4, <2>1, Moves, CallFacts DEF ConfigStreamMoves, LaunchInv, CallInv, Stopping
<1>5. CASE StartChannel
  BY <1>0, <1>5, Moves, CallFacts DEF StartChannelMoves, StartChannel, LaunchInv, CallInv, Stopping
<1>6. CASE GetBuf
  <2>1. UNCHANGED cmd_pid
    BY <1>6 DEF GetBuf, Become, Undo, procVars
  <2> QED
    BY <1>0, <1>6, <2>1, Moves, CallFacts DEF GetBufMoves, LaunchInv, CallInv, Stopping
<1>7. CASE RegBuf
  <2>1. UNCHANGED cmd_pid
    BY <1>7 DEF RegBuf, Become, Undo, procVars
  <2> QED
    BY <1>0, <1>7, <2>1, Moves, CallFacts DEF RegBufMoves, LaunchInv, CallInv, Stopping
<1>8. CASE StartStream
  <2>1. UNCHANGED cmd_pid
    BY <1>8 DEF StartStream, AddPollFd, Sig, procVars
  <2> QED
    BY <1>0, <1>8, <2>1, Moves, CallFacts DEF StartStreamMoves, LaunchInv, CallInv, Stopping
<1>9. CASE StreamOn
  <2>1. UNCHANGED cmd_pid
    BY <1>9 DEF StreamOn, procVars
  <2> QED
    BY <1>0, <1>9, <2>1, Moves, CallFacts DEF StreamOnMoves, LaunchInv, CallInv, Stopping
<1>10. CASE StreamActive
  <2>1. UNCHANGED cmd_pid
    BY <1>10 DEF StreamActive, Become, procVars
  <2> QED
    BY <1>0, <1>10, <2>1, Moves, CallFacts DEF StreamActiveMoves, LaunchInv, CallInv, Stopping
<1>11. CASE StreamOnFails
  <2>1. UNCHANGED cmd_pid
    BY <1>11 DEF StreamOnFails, DelPollFd, Sig, procVars
  <2> QED
    BY <1>0, <1>11, <2>1, Moves, CallFacts DEF StreamOnFailsMoves, LaunchInv, CallInv, Stopping
<1>12. CASE ReleaseStrT
  <2>1. UNCHANGED cmd_pid
    BY <1>12 DEF ReleaseStrT, procVars
  <2> QED
    BY <1>0, <1>12, <2>1, Moves, CallFacts DEF ReleaseStrTMoves, LaunchInv, CallInv, Stopping
<1>13. CASE StartFails
  <2>1. UNCHANGED cmd_pid
    BY <1>13 DEF StartFails, Undo, procVars
  <2> QED
    BY <1>0, <1>13, <2>1, Moves, CallFacts DEF StartFailsMoves, LaunchInv, CallInv, Stopping
<1>14. CASE StopChannel
  <2>1. UNCHANGED cmd_pid
    BY <1>14 DEF StopChannel, procVars
  <2> QED
    BY <1>0, <1>14, <2>1, Moves, CallFacts DEF StopChannelMoves, LaunchInv, CallInv, Stopping
<1>15. CASE StopStream
  <2>1. UNCHANGED cmd_pid
    BY <1>15 DEF StopStream, DelPollFd, Sig, procVars
  <2> QED
    BY <1>0, <1>15, <2>1, Moves, CallFacts DEF StopStreamMoves, LaunchInv, CallInv, Stopping
<1>16. CASE StreamOff
  <2>1. UNCHANGED cmd_pid
    BY <1>16 DEF StreamOff, procVars
  <2> QED
    BY <1>0, <1>16, <2>1, Moves, CallFacts DEF StreamOffMoves, LaunchInv, CallInv, Stopping
<1>17. CASE StreamStopped
  <2>1. UNCHANGED cmd_pid
    BY <1>17 DEF StreamStopped, Become, procVars
  <2> QED
    BY <1>0, <1>17, <2>1, Moves, CallFacts DEF StreamStoppedMoves, LaunchInv, CallInv, Stopping
<1>18. CASE UnregBuf
  <2>1. UNCHANGED cmd_pid
    BY <1>18 DEF UnregBuf, Become, procVars
  <2> QED
    BY <1>0, <1>18, <2>1, Moves, CallFacts DEF UnregBufMoves, LaunchInv, CallInv, Stopping
<1>19. CASE StreamUndone
  <2>1. UNCHANGED cmd_pid
    BY <1>19 DEF StreamUndone, PutBuf, procVars
  <2> QED
    BY <1>0, <1>19, <2>1, Moves, CallFacts DEF StreamUndoneMoves, LaunchInv, CallInv, Stopping
<1>20. CASE StopCmdThread
  <2>1. UNCHANGED cmd_pid
    BY <1>20 DEF StopCmdThread, procVars
  <2> QED
    BY <1>0, <1>20, <2>1, Moves, CallFacts DEF StopCmdThreadMoves, LaunchInv, CallInv, Stopping
<1>21. CASE StopCbThread
  <2>1. UNCHANGED cmd_pid
    BY <1>21 DEF StopCbThread, procVars
  <2> QED
    BY <1>0, <1>21, <2>1, Moves, CallFacts DEF StopCbThreadMoves, LaunchInv, CallInv, Stopping
<1>22. CASE BundleStopped
  <2>1. UNCHANGED cmd_pid
    BY <1>22 DEF BundleStopped, procVars
  <2> QED
    BY <1>0, <1>22, <2>1, Moves, CallFacts DEF BundleStoppedMoves, LaunchInv, CallInv, Stopping
<1>23. CASE PutBufs
  <2>1. UNCHANGED cmd_pid
    BY <1>23 DEF PutBufs, PutBuf, procVars
  <2> QED
    BY <1>0, <1>23, <2>1, Moves, CallFacts DEF PutBufsMoves, LaunchInv, CallInv, Stopping
<1>24. CASE ExitProc
  <2>1. UNCHANGED cmd_pid
    BY <1>24 DEF ExitProc, NextStream, procVars
  <2> QED
    BY <1>0, <1>24, <2>1, Moves, CallFacts DEF ExitProcMoves, LaunchInv, CallInv, Stopping
<1>25. CASE ProcJoined
  BY <1>0, <1>25, Moves, CallFacts
  DEF ProcJoinedMoves, ProcJoined, NextStream, LaunchInv, CallInv, Stopping
<1>26. CASE DeleteChannel
  <2>1. UNCHANGED cmd_pid
    BY <1>26 DEF DeleteChannel, Delete, DeleteStreams, ReleasePoll, Sig, procVars
  <2> QED
    BY <1>0, <1>26, <2>1, Moves, CallFacts DEF DeleteChannelMoves, LaunchInv, CallInv, Stopping
<1>27. CASE DeleteUnstarted
  <2>1. UNCHANGED cmd_pid
    BY <1>27 DEF DeleteUnstarted, Delete, DeleteStreams, ReleasePoll, Sig, procVars
  <2> QED
    BY <1>0, <1>27, <2>1, Moves, CallFacts DEF DeleteUnstartedMoves, LaunchInv, CallInv, Stopping
<1>28. CASE ChannelDeleted
  <2>1. UNCHANGED cmd_pid
    BY <1>28 DEF ChannelDeleted, procVars
  <2> QED
    BY <1>0, <1>28, <2>1, Moves, CallFacts DEF ChannelDeletedMoves, LaunchInv, CallInv, Stopping
<1> QED
  BY <1>1, <1>2, <1>3, <1>4, <1>5, <1>6, <1>7, <1>8, <1>9, <1>10, <1>11, <1>12, <1>13, <1>14,
     <1>15, <1>16, <1>17, <1>18, <1>19, <1>20, <1>21, <1>22, <1>23, <1>24, <1>25, <1>26, <1>27,
     <1>28
  DEF CallContinues, Start, Stop

\* A bundled channel uses the buffers of a bundle.
LEMMA OwnKept ==
  ASSUME Typed, CallInv, NEW i \in Stream, OwnInv(i),
         AddChannel \/ StartChannel \/ StopChannel \/ DeleteChannel \/ CallContinues
  PROVE  OwnInv(i)'
<1>0. /\ Place /\ kind \in Kinds /\ Stream \subseteq Index /\ i \in Index /\ i \in 1 .. Last
      /\ Stream = 1 .. Last /\ kernel \in [Index -> SUBSET Bufs]
      /\ buf_refcnt \in [Index -> [Bufs -> 0 .. 2]]
  BY Streams, StreamAssumption DEF Typed, CallInv
<1>b. Buf' = Buf /\ Buf \subseteq Bufs
  <2>1. kind' = kind
    BY Moves
    DEF CallContinues, Start, Stop, AddChannelMoves, ChannelAddedMoves, AcquireStreamMoves,
        ConfigStreamMoves, StartChannelMoves, GetBufMoves, RegBufMoves, StartStreamMoves,
        StreamOnMoves, StreamActiveMoves, StreamOnFailsMoves, ReleaseStrTMoves, StartFailsMoves,
        StopChannelMoves, StopStreamMoves, StreamOffMoves, StreamStoppedMoves, UnregBufMoves,
        StreamUndoneMoves, StopCmdThreadMoves, StopCbThreadMoves, BundleStoppedMoves,
        PutBufsMoves, ExitProcMoves, ProcJoinedMoves, DeleteChannelMoves, DeleteUnstartedMoves,
        ChannelDeletedMoves
  <2> QED
    BY <2>1, StreamAssumption DEF Buf, Bundled
<1>1. CASE AddChannel
  <2>1. UNCHANGED <<buf_refcnt, kernel>>
    BY <1>1 DEF AddChannel, LaunchPoll, bufVars
  <2> QED
    BY <1>b, <2>1 DEF OwnInv
<1>2. CASE ChannelAdded
  <2>1. UNCHANGED <<buf_refcnt, kernel>>
    BY <1>2 DEF ChannelAdded, bufVars
  <2> QED
    BY <1>b, <2>1 DEF OwnInv
<1>3. CASE AcquireStream
  <2>1. UNCHANGED <<buf_refcnt, kernel>>
    BY <1>3 DEF AcquireStream, Become, bufVars
  <2> QED
    BY <1>b, <2>1 DEF OwnInv
<1>4. CASE ConfigStream
  <2>1. UNCHANGED <<buf_refcnt, kernel>>
    BY <1>4 DEF ConfigStream, Become, bufVars
  <2> QED
    BY <1>b, <2>1 DEF OwnInv
<1>5. CASE StartChannel
  <2>1. UNCHANGED <<buf_refcnt, kernel>>
    BY <1>5 DEF StartChannel, bufVars
  <2> QED
    BY <1>b, <2>1 DEF OwnInv
<1>6. CASE GetBuf
  <2>1. /\ kernel'[i] \subseteq kernel[i]
        /\ buf_refcnt'[i] = buf_refcnt[i] \/ buf_refcnt'[i] = AllBufs(0)
    BY <1>0, <1>6 DEF GetBuf, Become, Undo, bufVars
  <2> QED
    BY <1>0, <1>b, <2>1 DEF OwnInv, AllBufs
<1>7. CASE RegBuf
  <2>1. CASE i # hal.i
    <3>1. kernel'[i] = kernel[i] /\ buf_refcnt'[i] = buf_refcnt[i]
      BY <1>0, <1>7, <2>1 DEF RegBuf
    <3> QED
      BY <1>b, <3>1 DEF OwnInv
  <2>2. CASE i = hal.i
    <3>1. PICK R \in {S \cap Buf : S \in InitialReg} :
             \/ /\ kernel' = [kernel EXCEPT ![i] = R]
                /\ buf_refcnt' = [buf_refcnt EXCEPT ![i] =
                                     [b \in Bufs |-> IF b \in Buf \ R THEN 1 ELSE 0]]
             \/ \E failed :
                   /\ kernel' = [kernel EXCEPT ![i] = {b \in R : b < failed}]
                   /\ buf_refcnt' = [buf_refcnt EXCEPT ![i] =
                                        [b \in Bufs |-> IF b \in Buf \ R /\ b < failed
                                                        THEN 1 ELSE 0]]
      BY <1>7, <2>2 DEF RegBuf
    <3>2. R \subseteq Buf
      BY <3>1
    <3> QED
      BY <1>0, <1>b, <3>1, <3>2 DEF OwnInv
  <2> QED
    BY <2>1, <2>2
<1>8. CASE StartStream
  <2>1. UNCHANGED <<buf_refcnt, kernel>>
    BY <1>8 DEF StartStream, AddPollFd, Sig, bufVars
  <2> QED
    BY <1>b, <2>1 DEF OwnInv
<1>9. CASE StreamOn
  <2>1. UNCHANGED <<buf_refcnt, kernel>>
    BY <1>9 DEF StreamOn, bufVars
  <2> QED
    BY <1>b, <2>1 DEF OwnInv
<1>10. CASE StreamActive
  <2>1. UNCHANGED <<buf_refcnt, kernel>>
    BY <1>10 DEF StreamActive, Become, bufVars
  <2> QED
    BY <1>b, <2>1 DEF OwnInv
<1>11. CASE StreamOnFails
  <2>1. UNCHANGED <<buf_refcnt, kernel>>
    BY <1>11 DEF StreamOnFails, DelPollFd, Sig, bufVars
  <2> QED
    BY <1>b, <2>1 DEF OwnInv
<1>12. CASE ReleaseStrT
  <2>1. UNCHANGED <<buf_refcnt, kernel>>
    BY <1>12 DEF ReleaseStrT, bufVars
  <2> QED
    BY <1>b, <2>1 DEF OwnInv
<1>13. CASE StartFails
  <2>1. UNCHANGED <<buf_refcnt, kernel>>
    BY <1>13 DEF StartFails, Undo, bufVars
  <2> QED
    BY <1>b, <2>1 DEF OwnInv
<1>14. CASE StopChannel
  <2>1. UNCHANGED <<buf_refcnt, kernel>>
    BY <1>14 DEF StopChannel, bufVars
  <2> QED
    BY <1>b, <2>1 DEF OwnInv
<1>15. CASE StopStream
  <2>1. UNCHANGED <<buf_refcnt, kernel>>
    BY <1>15 DEF StopStream, DelPollFd, Sig, bufVars
  <2> QED
    BY <1>b, <2>1 DEF OwnInv
<1>16. CASE StreamOff
  <2>1. /\ kernel'[i] \subseteq kernel[i]
        /\ buf_refcnt'[i] = buf_refcnt[i] \/ buf_refcnt'[i] = AllBufs(0)
    BY <1>0, <1>16 DEF StreamOff, bufVars
  <2> QED
    BY <1>0, <1>b, <2>1 DEF OwnInv, AllBufs
<1>17. CASE StreamStopped
  <2>1. UNCHANGED <<buf_refcnt, kernel>>
    BY <1>17 DEF StreamStopped, Become, bufVars
  <2> QED
    BY <1>b, <2>1 DEF OwnInv
<1>18. CASE UnregBuf
  <2>1. /\ kernel'[i] \subseteq kernel[i]
        /\ buf_refcnt'[i] = buf_refcnt[i] \/ buf_refcnt'[i] = AllBufs(0)
    BY <1>0, <1>18 DEF UnregBuf, Become, bufVars
  <2> QED
    BY <1>0, <1>b, <2>1 DEF OwnInv, AllBufs
<1>19. CASE StreamUndone
  <2>1. UNCHANGED <<buf_refcnt, kernel>>
    BY <1>19 DEF StreamUndone, PutBuf, bufVars
  <2> QED
    BY <1>b, <2>1 DEF OwnInv
<1>20. CASE StopCmdThread
  <2>1. UNCHANGED <<buf_refcnt, kernel>>
    BY <1>20 DEF StopCmdThread, bufVars
  <2> QED
    BY <1>b, <2>1 DEF OwnInv
<1>21. CASE StopCbThread
  <2>1. UNCHANGED <<buf_refcnt, kernel>>
    BY <1>21 DEF StopCbThread, bufVars
  <2> QED
    BY <1>b, <2>1 DEF OwnInv
<1>22. CASE BundleStopped
  <2>1. UNCHANGED <<buf_refcnt, kernel>>
    BY <1>22 DEF BundleStopped, bufVars
  <2> QED
    BY <1>b, <2>1 DEF OwnInv
<1>23. CASE PutBufs
  <2>1. UNCHANGED <<buf_refcnt, kernel>>
    BY <1>23 DEF PutBufs, PutBuf, bufVars
  <2> QED
    BY <1>b, <2>1 DEF OwnInv
<1>24. CASE ExitProc
  <2>1. UNCHANGED <<buf_refcnt, kernel>>
    BY <1>24 DEF ExitProc, NextStream, bufVars
  <2> QED
    BY <1>b, <2>1 DEF OwnInv
<1>25. CASE ProcJoined
  <2>1. UNCHANGED <<buf_refcnt, kernel>>
    BY <1>25 DEF ProcJoined, NextStream, bufVars
  <2> QED
    BY <1>b, <2>1 DEF OwnInv
<1>26. CASE DeleteChannel
  <2>1. UNCHANGED <<buf_refcnt, kernel>>
    BY <1>26 DEF DeleteChannel, Delete, DeleteStreams, ReleasePoll, Sig, bufVars
  <2> QED
    BY <1>b, <2>1 DEF OwnInv
<1>27. CASE DeleteUnstarted
  <2>1. UNCHANGED <<buf_refcnt, kernel>>
    BY <1>27 DEF DeleteUnstarted, Delete, DeleteStreams, ReleasePoll, Sig, bufVars
  <2> QED
    BY <1>b, <2>1 DEF OwnInv
<1>28. CASE ChannelDeleted
  <2>1. UNCHANGED <<buf_refcnt, kernel>>
    BY <1>28 DEF ChannelDeleted, bufVars
  <2> QED
    BY <1>b, <2>1 DEF OwnInv
<1> QED
  BY <1>1, <1>2, <1>3, <1>4, <1>5, <1>6, <1>7, <1>8, <1>9, <1>10, <1>11, <1>12, <1>13, <1>14,
     <1>15, <1>16, <1>17, <1>18, <1>19, <1>20, <1>21, <1>22, <1>23, <1>24, <1>25, <1>26, <1>27,
     <1>28
  DEF CallContinues, Start, Stop

\* The entries beyond the channel's streams stay unused.
LEMMA SpareKept ==
  ASSUME Typed, CallInv, NEW i \in Index \ Stream, Spare(i),
         AddChannel \/ StartChannel \/ StopChannel \/ DeleteChannel \/ CallContinues
  PROVE  Spare(i)'
<1>1. Place /\ kind \in Kinds
  BY DEF Typed, CallInv
<1>2. procs \in [Index -> [Thread -> {"none", "wait", "busy", "gone"}]]
      /\ strT \in [Index -> {"none", "run", "exiting"}]
  BY DEF Typed

<1>3. CASE AddChannel
  BY <1>2, <1>3 DEF AddChannel, LaunchPoll, strVars, procVars, Spare
<1>4. CASE ChannelAdded
  BY <1>2, <1>4 DEF ChannelAdded, strVars, procVars, Spare
<1>5. CASE AcquireStream
  BY <1>2, <1>5 DEF AcquireStream, Become, strVars, procVars, Spare
<1>6. CASE ConfigStream
  BY <1>2, <1>6 DEF ConfigStream, Become, strVars, procVars, Spare
<1>7. CASE StartChannel
  BY <1>2, <1>7 DEF StartChannel, strVars, procVars, Spare
<1>8. CASE GetBuf
  BY <1>2, <1>8 DEF GetBuf, Become, Undo, strVars, procVars, Spare
<1>9. CASE RegBuf
  BY <1>2, <1>9 DEF RegBuf, Become, Undo, strVars, procVars, Spare
<1>10. CASE StartStream
  <2>1. hal.i \in Stream
    BY <1>1, <1>10, Moves, CallFacts DEF StartStreamMoves
  <2> QED
    BY <1>2, <1>10, <2>1 DEF StartStream, AddPollFd, Sig, procVars, Spare
<1>11. CASE StreamOn
  BY <1>2, <1>11 DEF StreamOn, strVars, procVars, Spare
<1>12. CASE StreamActive
  BY <1>2, <1>12 DEF StreamActive, Become, strVars, procVars, Spare
<1>13. CASE StreamOnFails
  BY <1>2, <1>13 DEF StreamOnFails, DelPollFd, Sig, strVars, procVars, Spare
<1>14. CASE ReleaseStrT
  <2>1. hal.i \in Stream
    BY <1>1, <1>14, Moves, CallFacts DEF ReleaseStrTMoves
  <2> QED
    BY <1>2, <1>14, <2>1 DEF ReleaseStrT, procVars, Spare
<1>15. CASE StartFails
  BY <1>2, <1>15 DEF StartFails, Undo, strVars, procVars, Spare
<1>16. CASE StopChannel
  BY <1>2, <1>16 DEF StopChannel, strVars, procVars, Spare
<1>17. CASE StopStream
  BY <1>2, <1>17 DEF StopStream, DelPollFd, Sig, strVars, procVars, Spare
<1>18. CASE StreamOff
  <2>1. hal.i \in Stream
    BY <1>1, <1>18, Moves, CallFacts DEF StreamOffMoves
  <2> QED
    BY <1>2, <1>18, <2>1 DEF StreamOff, procVars, Spare
<1>19. CASE StreamStopped
  BY <1>2, <1>19 DEF StreamStopped, Become, strVars, procVars, Spare
<1>20. CASE UnregBuf
  BY <1>2, <1>20 DEF UnregBuf, Become, strVars, procVars, Spare
<1>21. CASE StreamUndone
  BY <1>2, <1>21 DEF StreamUndone, PutBuf, strVars, procVars, Spare
<1>22. CASE StopCmdThread
  BY <1>2, <1>22 DEF StopCmdThread, strVars, procVars, Spare
<1>23. CASE StopCbThread
  BY <1>2, <1>23 DEF StopCbThread, strVars, procVars, Spare
<1>24. CASE BundleStopped
  BY <1>2, <1>24 DEF BundleStopped, strVars, procVars, Spare
<1>25. CASE PutBufs
  BY <1>2, <1>25 DEF PutBufs, PutBuf, strVars, procVars, Spare
<1>26. CASE ExitProc
  BY <1>2, <1>26 DEF ExitProc, NextStream, strVars, procVars, Spare
<1>27. CASE ProcJoined
  BY <1>2, <1>27 DEF ProcJoined, NextStream, strVars, procVars, Spare
<1>28. CASE DeleteChannel
  BY <1>2, <1>28
  DEF DeleteChannel, Delete, DeleteStreams, ReleasePoll, Sig, strVars, procVars, Spare
<1>29. CASE DeleteUnstarted
  BY <1>2, <1>29
  DEF DeleteUnstarted, Delete, DeleteStreams, ReleasePoll, Sig, strVars, procVars, Spare
<1>30. CASE ChannelDeleted
  BY <1>2, <1>30 DEF ChannelDeleted, strVars, procVars, Spare
<1> QED
  BY <1>3, <1>4, <1>5, <1>6, <1>7, <1>8, <1>9, <1>10, <1>11, <1>12, <1>13, <1>14, <1>15, <1>16,
     <1>17, <1>18, <1>19, <1>20, <1>21, <1>22, <1>23, <1>24, <1>25, <1>26, <1>27, <1>28, <1>29,
     <1>30
  DEF CallContinues, Start, Stop

-----------------------------------------------------------------------------
(* The steps of the threads                                                  *)

ThreadStep ==
    \/ PollThreadSteps
    \/ \E i \in Index : DispatchAppData(i) \/ StrExits(i)
    \/ \E i \in Index, k \in Thread : Proc(i, k)
    \/ Bundle \/ ServeRequest
    \/ \E i \in Index, b \in Bufs : ReturnFrame(i, b)

\* Who returns a frame has it.
LEMMA ThreadSteps ==
  ASSUME ThreadStep
  PROVE  \/ Poll \/ CallStream \/ CheckState \/ ReadFrame \/ QueueFrame
         \/ \E i \in Index : DispatchAppData(i) \/ StrExits(i)
         \/ \E i \in Index, k \in Thread : TakeFrame(i, k) \/ FrameDone(i, k) \/ ProcExits(i, k)
         \/ ProcessStreamBuf \/ ServeRequest \/ CmdExits \/ DispatchSuperBuf \/ CbExits
         \/ \E f : f \in held /\ Qbuf(f)
         \/ \E f : f \in returning /\ QbufEnds(f)
BY DEF ThreadStep, PollThreadSteps, Proc, Bundle, ReturnFrame, Qbuf, QbufEnds

\* What only a call of the HAL changes.
CallOwned == <<kind, ch, hal, starts, state, allocated, streaming, poll_entries, cmd_pid>>

\* No thread takes part in a call of the HAL or changes what only a call does.
LEMMA ThreadFrame ==
  ASSUME ThreadStep
  PROVE  UNCHANGED CallOwned /\ (upsets' = upsets \/ upsets' = upsets \cup {"stale"})
<1> USE DEF CallOwned, bufVars, procVars, pollVars
<1>1. CASE Poll
  BY <1>1 DEF Poll, CbVars, PollLoop, PollStarts, PollEnters, PollCommand, ScanEnds, PollData
<1>2. CASE CallStream
  BY <1>2 DEF CallStream, CbVars, Scan
<1>3. CASE CheckState
  BY <1>3 DEF CheckState, CbVars, PollGoto
<1>4. CASE ReadFrame
  BY <1>4 DEF ReadFrame, CbVars, PollGoto
<1>5. CASE QueueFrame
  BY <1>5 DEF QueueFrame, CbVars, PollGoto
<1>6. ASSUME NEW i \in Index, DispatchAppData(i) \/ StrExits(i) PROVE UNCHANGED <<CallOwned, upsets>>
  BY <1>6 DEF DispatchAppData, StrExits, ThreadVars
<1>7. ASSUME NEW i \in Index, NEW k \in Thread, TakeFrame(i, k) \/ FrameDone(i, k) \/ ProcExits(i, k)
      PROVE  UNCHANGED <<CallOwned, upsets>>
  BY <1>7 DEF TakeFrame, FrameDone, ProcExits, ThreadVars
<1>8. CASE ProcessStreamBuf \/ ServeRequest \/ CmdExits \/ DispatchSuperBuf \/ CbExits
  BY <1>8 DEF ProcessStreamBuf, ServeRequest, CmdExits, DispatchSuperBuf, CbExits, ThreadVars
<1>9. ASSUME NEW f, Qbuf(f) PROVE UNCHANGED <<CallOwned, upsets>>
  BY <1>9 DEF Qbuf, ThreadVars
<1>10. ASSUME NEW f, QbufEnds(f)
       PROVE  UNCHANGED CallOwned /\ (upsets' = upsets \/ upsets' = upsets \cup {"stale"})
  BY <1>10 DEF QbufEnds
<1> QED
  BY ThreadSteps, <1>1, <1>2, <1>3, <1>4, <1>5, <1>6, <1>7, <1>8, <1>9, <1>10

\* So the call, and the state of each stream, are as before.
LEMMA CallStays ==
  ASSUME ThreadStep
  PROVE  /\ Stream' = Stream /\ Last' = Last /\ Buf' = Buf /\ (Bundled' <=> Bundled)
         /\ Met({"start"})' <=> Met({"start"})
         /\ Met({"reg"})' <=> Met({"reg"})
         /\ Met({"put"})' <=> Met({"put"})
         /\ Met({"stale"}) => Met({"stale"})'
         /\ Place' <=> Place
         /\ CallInv' <=> CallInv
         /\ UndoInv' <=> UndoInv
         /\ \A i : StateInv(i)' <=> StateInv(i)
         /\ \A i : LaunchInv(i)' <=> LaunchInv(i)
         /\ \A i : NotYet(i)' <=> NotYet(i)
         /\ \A i, pcs : Here(i, pcs)' <=> Here(i, pcs)
<1>1. UNCHANGED CallOwned /\ (upsets' = upsets \/ upsets' = upsets \cup {"stale"})
  BY ThreadFrame
<1>2. Stream' = Stream /\ Last' = Last /\ Buf' = Buf /\ (Bundled' <=> Bundled)
  BY <1>1, SameStreams DEF CallOwned
<1>3. /\ Met({"start"})' <=> Met({"start"})
      /\ Met({"reg"})' <=> Met({"reg"})
      /\ Met({"put"})' <=> Met({"put"})
      /\ Met({"stale"}) => Met({"stale"})'
  BY <1>1 DEF Met
<1>4. Place' <=> Place
  BY <1>1, <1>2 DEF Place, CallOwned
<1>5. CallInv' <=> CallInv
  BY <1>1, <1>4 DEF CallInv, CallOwned, At, Stopping
<1>6. UndoInv' <=> UndoInv
  BY <1>1 DEF UndoInv, CallOwned
<1>7. \A i : StateInv(i)' <=> StateInv(i)
  BY <1>1, <1>3 DEF StateInv, CallOwned, InState, At, Configured, Buffed, Registered, Active, New
<1>8. /\ \A i : LaunchInv(i)' <=> LaunchInv(i)
      /\ \A i : NotYet(i)' <=> NotYet(i)
      /\ \A i, pcs : Here(i, pcs)' <=> Here(i, pcs)
  BY <1>1 DEF LaunchInv, NotYet, Here, CallOwned
<1> QED
  BY <1>2, <1>3, <1>4, <1>5, <1>6, <1>7, <1>8

\* Only the poll thread changes what is its own.
LEMMA OtherThreads ==
  ASSUME ThreadStep, ~PollThreadSteps
  PROVE  UNCHANGED <<pollVars, cb>>
BY ThreadSteps
DEF PollThreadSteps, DispatchAppData, StrExits, TakeFrame, FrameDone, ProcExits, ProcessStreamBuf,
    ServeRequest, CmdExits, DispatchSuperBuf, CbExits, Qbuf, QbufEnds, ThreadVars

\* The first of the ready descriptors is one of them.
LEMMA FirstReady ==
  ASSUME kind \in Kinds, ready \subseteq Stream, ready # {}
  PROVE  NextReady \in ready
<1>1. Stream \in {{1}, {1, 2}}
  BY Streams
<1>2. \E i \in ready : \A k \in ready : i <= k
  <2>1. CASE 1 \in ready
    BY <1>1, <2>1
  <2>2. CASE 1 \notin ready
    <3>1. \A k \in ready : k = 2
      BY <1>1, <2>2
    <3>2. 2 \in ready
      BY <3>1
    <3> QED
      BY <3>1, <3>2
  <2> QED
    BY <2>1, <2>2
<1> QED
  BY <1>2 DEF NextReady

\* The poll thread has what it polls from the calls that wait for it.
LEMMA PollStays ==
  ASSUME Typed, CallInv, PollInv, CbInv, ThreadStep
  PROVE  PollInv'
<1>0. UNCHANGED CallOwned
  BY ThreadFrame
<1> USE DEF At, CallOwned
<1>1. CASE Poll
  <2>1. ready = {} \/ poll_pc \in Scanning
    BY DEF CbInv
  <2>2. CASE PollStarts
    BY <1>0, <2>2 DEF PollStarts, PollInv, Scanning
  <2>3. CASE PollEnters
    BY <1>0, <2>3 DEF PollEnters, PollInv, Scanning
  <2>4. CASE PollCommand
    <3>1. /\ poll_pc = "poll" /\ pipe # <<>> /\ pipe' = <<>> /\ ~sig_wait'
          /\ \/ /\ pipe = <<"UPDATED">> /\ poll_fds' = poll_entries
                /\ poll_pc' = poll_pc /\ poll_state' = poll_state
             \/ /\ pipe = <<"EXIT">> /\ poll_fds' = poll_fds
                /\ poll_pc' = "gone" /\ poll_state' = "STOPPED"
      BY <2>4, Commands DEF PollCommand, PollInv
    <3> QED
      BY <1>0, <3>1, Commands DEF PollInv, Scanning, CallInv
  <2>5. CASE ScanEnds
    BY <1>0, <2>5 DEF ScanEnds, PollInv, Scanning
  <2>6. CASE PollData({i \in streaming : kernel[i] # {}})
    BY <1>0, <2>6 DEF PollData, PollInv, Scanning
  <2> QED
    BY <1>1, <2>2, <2>3, <2>4, <2>5, <2>6 DEF Poll, PollLoop
<1>2. CASE CallStream
  BY <1>0, <1>2 DEF CallStream, Scan, PollInv, Scanning
<1>3. CASE CheckState
  BY <1>0, <1>3 DEF CheckState, PollAt, PollGoto, PollInv, Scanning
<1>4. CASE ReadFrame
  BY <1>0, <1>4 DEF ReadFrame, PollAt, PollGoto, PollInv, Scanning
<1>5. CASE QueueFrame
  BY <1>0, <1>5 DEF QueueFrame, PollAt, PollGoto, PollInv, Scanning
<1>6. CASE ~PollThreadSteps
  BY <1>0, <1>6, OtherThreads DEF PollInv, pollVars
<1> QED
  BY <1>1, <1>2, <1>3, <1>4, <1>5, <1>6 DEF PollThreadSteps

\* It calls a stream that is on, and reads and queues a frame of one that is active.
LEMMA CbStays ==
  ASSUME Typed, CallInv, PollInv, CbInv, ThreadStep, \A i \in Stream : OwnInv(i)
  PROVE  CbInv'
<1>0. /\ UNCHANGED CallOwned /\ Buf' = Buf /\ Buf \subseteq Bufs
      /\ kind \in Kinds /\ kernel \in [Index -> SUBSET Bufs]
      /\ cb \in [i : Stream \cup {None}, b : Bufs \cup {None}]
      /\ poll_fds \subseteq Stream
  BY ThreadFrame, CallStays, StreamAssumption DEF Typed, Buf
<1> USE DEF InState, CallOwned
<1>1. CASE Poll
  <2>1. cb' = cb
    BY <1>1 DEF Poll
  <2>2. CASE PollStarts
    BY <1>0, <2>1, <2>2 DEF PollStarts, CbInv, Scanning
  <2>3. CASE PollEnters
    BY <1>0, <2>1, <2>3 DEF PollEnters, CbInv, Scanning
  <2>4. CASE PollCommand
    <3>1. poll_pc = "poll" /\ poll_pc' \in {"poll", "gone"} /\ ready' = ready
      BY <2>4 DEF PollCommand
    <3> QED
      BY <1>0, <2>1, <3>1 DEF CbInv, Scanning
  <2>5. CASE ScanEnds
    BY <1>0, <2>1, <2>5 DEF ScanEnds, CbInv, Scanning
  <2>6. CASE PollData({i \in streaming : kernel[i] # {}})
    <3>1. ready' \subseteq poll_fds \cap streaming
      BY <2>6 DEF PollData
    <3> QED
      BY <1>0, <2>1, <2>6, <3>1 DEF PollData, CbInv, Scanning
  <2> QED
    BY <1>1, <2>2, <2>3, <2>4, <2>5, <2>6 DEF Poll, PollLoop
<1>2. CASE CallStream
  <2>1. NextReady \in poll_fds \cap streaming
    BY <1>0, <1>2, FirstReady DEF CallStream, Scan, CbInv
  <2> QED
    BY <1>0, <1>2, <2>1 DEF CallStream, Scan, CbInv, Scanning
<1>3. CASE CheckState
  BY <1>0, <1>3 DEF CheckState, PollAt, PollGoto, CbInv, Scanning, NoStream
<1>4. CASE ReadFrame
  <2>1. cb.i \in Stream /\ cb.i \in poll_fds \cap streaming /\ InState(cb.i, "ACTIVE")
    BY <1>0, <1>4 DEF ReadFrame, PollAt, CbInv
  <2>2. kernel[cb.i] \subseteq Buf
    BY <1>0, <2>1, Streams DEF OwnInv
  <2> QED
    BY <1>0, <1>4, <2>1, <2>2 DEF ReadFrame, PollAt, PollGoto, CbInv, Scanning, NoStream
<1>5. CASE QueueFrame
  BY <1>0, <1>5 DEF QueueFrame, PollAt, PollGoto, CbInv, Scanning, NoStream
<1>6. CASE ~PollThreadSteps
  BY <1>0, <1>6, OtherThreads DEF CbInv, pollVars
<1> QED
  BY <1>1, <1>2, <1>3, <1>4, <1>5, <1>6 DEF PollThreadSteps

\* A poll thread that is gone does not come back.
LEMMA LeftStays ==
  ASSUME LeftInv, ThreadStep
  PROVE  LeftInv'
<1>1. UNCHANGED CallOwned /\ upsets \subseteq upsets'
  BY ThreadFrame
<1>2. poll_pc = "gone" => poll_pc' = "gone"
  <2>1. CASE Poll
    BY <2>1 DEF Poll, PollLoop, PollStarts, PollEnters, PollCommand, ScanEnds, PollData
  <2>2. CASE CallStream \/ CheckState \/ ReadFrame \/ QueueFrame
    BY <2>2 DEF CallStream, Scan, CheckState, ReadFrame, QueueFrame, PollAt
  <2>3. CASE ~PollThreadSteps
    BY <2>3, OtherThreads DEF pollVars
  <2> QED
    BY <2>1, <2>2, <2>3 DEF PollThreadSteps
<1> QED
  BY <1>1, <1>2 DEF LeftInv, CallOwned, Met

\* A frame is queued for a command thread that is there, and the thread goes when it has
\* none left.
LEMMA PartsStay ==
  ASSUME Typed, CallInv, CbInv, ThreadStep, \A j \in Stream : PartsInv(j), NEW i \in Stream
  PROVE  PartsInv(i)'
<1>0. /\ UNCHANGED CallOwned /\ kind \in Kinds /\ i \in Index
      /\ strT \in [Index -> {"none", "run", "exiting"}] /\ strQ \in [Index -> Seq(Bufs)]
      /\ \A pcs : Here(i, pcs)' <=> Here(i, pcs)
  BY ThreadFrame, CallStays, Streams DEF Typed
<1> USE DEF InState, CallOwned
<1>1. CASE strT' = strT /\ (strQ'[i] # <<>> => strT[i] # "none")
  BY <1>0, <1>1 DEF PartsInv
<1>2. PartsInv(i)
  OBVIOUS
<1>3. CASE Poll \/ CallStream \/ CheckState \/ ReadFrame
  <2>1. UNCHANGED strVars
    BY <1>3 DEF Poll, CallStream, CheckState, ReadFrame
  <2> QED
    BY <1>1, <1>2, <2>1 DEF PartsInv, strVars
<1>4. CASE QueueFrame
  <2>1. /\ strT' = strT
        /\ cb.i \in Stream /\ cb.i \in streaming /\ cb.i \in poll_fds
        /\ i # cb.i => strQ'[i] = strQ[i]
    BY <1>0, <1>4 DEF QueueFrame, PollAt, CbInv, Typed
  <2>2. i = cb.i => strT[i] = "run"
    BY <1>2, <2>1 DEF PartsInv, Here
  <2> QED
    BY <1>1, <1>2, <2>1, <2>2 DEF PartsInv
<1>5. ASSUME NEW j \in Index, DispatchAppData(j) PROVE PartsInv(i)'
  <2>1. strT' = strT /\ (strQ'[i] # <<>> => strQ[i] # <<>>)
    BY <1>0, <1>5 DEF DispatchAppData
  <2> QED
    BY <1>1, <1>2, <2>1 DEF PartsInv
<1>6. ASSUME NEW j \in Index, StrExits(j) PROVE PartsInv(i)'
  BY <1>0, <1>2, <1>6 DEF StrExits, PartsInv
<1>7. ASSUME UNCHANGED strVars PROVE PartsInv(i)'
  BY <1>1, <1>2, <1>7 DEF PartsInv, strVars
<1>8. ASSUME NEW j \in Index, NEW k \in Thread, TakeFrame(j, k) \/ FrameDone(j, k) \/ ProcExits(j, k)
      PROVE  UNCHANGED strVars
  BY <1>8 DEF TakeFrame, FrameDone, ProcExits
<1>9. ASSUME \/ ProcessStreamBuf \/ ServeRequest \/ CmdExits \/ DispatchSuperBuf \/ CbExits
             \/ \E f : Qbuf(f) \/ QbufEnds(f)
      PROVE  UNCHANGED strVars
  BY <1>9 DEF ProcessStreamBuf, ServeRequest, CmdExits, DispatchSuperBuf, CbExits, Qbuf, QbufEnds
<1> QED
  BY ThreadSteps, <1>3, <1>4, <1>5, <1>6, <1>7, <1>8, <1>9

\* The command thread of a stream only has a frame while the HAL's thread of it is there.
LEMMA ProcRuns ==
  ASSUME Typed, CallInv, NEW i \in Stream, StateInv(i), PartsInv(i), ProcInv(i), LaunchInv(i),
         strT[i] # "none"
  PROVE  cmd_pid[i] # None /\ ~Here(i, {"joinproc"}) /\ (hal = Idle => ch = "ACTIVE")
<1>0. /\ Place /\ kind \in Kinds /\ i \in Index /\ i \in 1 .. Last
      /\ strT \in [Index -> {"none", "run", "exiting"}]
      /\ ch \in {"NOTUSED", "STOPPED", "ACTIVE", "deleted"}
  BY Streams DEF Typed, CallInv
<1>1. \/ InState(i, "ACTIVE")
      \/ Here(i, {"on", "added", "notadded", "join", "joinfailed"})
  BY <1>0 DEF PartsInv, Here
<1>2. \/ hal.op \in {"start", "undo"} \/ ch = "ACTIVE"
  <2>1. CASE hal.op \in {"start", "undo"}
    BY <2>1
  <2>2. CASE hal.op = "stop"
    BY <1>0, <1>1, <2>2, CallFacts
    DEF CallInv, Stopping, Here, StateInv, InState, Configured, At, Idle
  <2>3. CASE hal.op = "none"
    BY <1>0, <1>1, <2>3, CallFacts
    DEF Here, StateInv, InState, Configured, New, At, Idle
  <2>4. CASE hal.op = "add"
    BY <1>0, <1>1, <2>4, CallFacts
    DEF CallInv, Here, StateInv, InState, New, At, AddPcs
  <2>5. CASE hal.op = "delete"
    BY <1>0, <1>1, <2>5, CallFacts DEF Here, StateInv, InState
  <2> QED
    BY <1>0, <2>1, <2>2, <2>3, <2>4, <2>5, CallFacts
<1>3. starts > 0 /\ ~Here(i, {"joinproc"})
  BY <1>0, <1>2, CallFacts DEF CallInv, Stopping, Here, Idle
<1> QED
  BY <1>0, <1>2, <1>3, CallFacts DEF LaunchInv, None, Idle

\* A thread of the HAL takes the EXIT that is meant for it, and forgets its frames then.
LEMMA ProcStays ==
  ASSUME Typed, CallInv, ThreadStep, NEW i \in Stream, StateInv(i), PartsInv(i), LaunchInv(i),
         JoinInv(i), ProcInv(i)
  PROVE  ProcInv(i)' /\ JoinInv(i)'
<1>0. /\ UNCHANGED CallOwned /\ kind \in Kinds /\ i \in Index
      /\ strT \in [Index -> {"none", "run", "exiting"}] /\ strQ \in [Index -> Seq(Bufs)]
      /\ exits \in [Index -> 0 .. 1] /\ cmd_pid \in [Index -> Thread \cup {None}]
      /\ procs \in [Index -> [Thread -> {"none", "wait", "busy", "gone"}]]
      /\ procBuf \in [Index -> [Thread -> Bufs \cup {None}]]
      /\ mDataQ \in [Index -> Seq(Bufs)]
      /\ \A pcs : Here(i, pcs)' <=> Here(i, pcs)
      /\ Met({"start"})' <=> Met({"start"})
      /\ None \notin Bufs
  BY ThreadFrame, CallStays, Streams, StreamAssumption DEF Typed, None
<1> USE DEF CallOwned, At
<1>1. ASSUME UNCHANGED <<procs, procBuf, exits, mDataQ>> PROVE ProcInv(i)' /\ JoinInv(i)'
  BY <1>0, <1>1 DEF ProcInv, JoinInv
<1>2. CASE PollThreadSteps
  BY <1>1, <1>2
  DEF PollThreadSteps, Poll, CallStream, CheckState, ReadFrame, QueueFrame, CbVars, procVars
<1>3. ASSUME NEW j \in Index, DispatchAppData(j) PROVE ProcInv(i)' /\ JoinInv(i)'
  <2>1. UNCHANGED <<procs, procBuf, exits>> /\ (j # i => mDataQ'[i] = mDataQ[i])
    BY <1>0, <1>3 DEF DispatchAppData
  <2>2. j = i => cmd_pid[i] # None /\ ~Here(i, {"joinproc"})
    BY <1>3, ProcRuns DEF DispatchAppData
  <2>3. ProcInv(i)'
    BY <1>0, <2>1, <2>2 DEF ProcInv
  <2>4. JoinInv(i)'
    BY <1>0, <2>1 DEF JoinInv
  <2> QED
    BY <2>3, <2>4
<1>4. ASSUME NEW j \in Index, StrExits(j) PROVE ProcInv(i)' /\ JoinInv(i)'
  BY <1>1, <1>4 DEF StrExits, procVars
<1>5. ASSUME NEW j \in Index, NEW k \in Thread, TakeFrame(j, k) PROVE ProcInv(i)' /\ JoinInv(i)'
  <2>1. CASE j # i
    <3>1. /\ procs'[i] = procs[i] /\ procBuf'[i] = procBuf[i] /\ exits'[i] = exits[i]
          /\ mDataQ'[i] = mDataQ[i]
      BY <1>0, <1>5, <2>1 DEF TakeFrame
    <3> QED
      BY <1>0, <3>1 DEF ProcInv, JoinInv
  <2>2. CASE j = i /\ mDataQ[i] = <<>>
    BY <1>1, <1>5, <2>2 DEF TakeFrame
  <2>3. CASE j = i /\ mDataQ[i] # <<>>
    <3>1. /\ procs[i][k] = "wait" /\ exits' = exits
          /\ procs' = [procs EXCEPT ![i][k] = "busy"]
          /\ procBuf' = [procBuf EXCEPT ![i][k] = Head(mDataQ[i])]
          /\ mDataQ[i] # <<>> /\ Head(mDataQ[i]) \in Bufs
      BY <1>0, <1>5, <2>3 DEF TakeFrame
    <3>2. ProcInv(i)'
      BY <1>0, <2>3, <3>1 DEF ProcInv, Alive
    <3>3. JoinInv(i)'
      BY <1>0, <3>1 DEF JoinInv
    <3> QED
      BY <3>2, <3>3
  <2> QED
    BY <2>1, <2>2, <2>3
<1>6. ASSUME NEW j \in Index, NEW k \in Thread, FrameDone(j, k) PROVE ProcInv(i)' /\ JoinInv(i)'
  <2>1. CASE j # i
    <3>1. /\ procs'[i] = procs[i] /\ procBuf'[i] = procBuf[i] /\ exits'[i] = exits[i]
          /\ mDataQ'[i] = mDataQ[i]
      BY <1>0, <1>6, <2>1 DEF FrameDone
    <3> QED
      BY <1>0, <3>1 DEF ProcInv, JoinInv
  <2>2. CASE j = i
    <3>1. /\ procs[i][k] = "busy" /\ UNCHANGED <<exits, mDataQ>>
          /\ procs' = [procs EXCEPT ![i][k] = "wait"]
          /\ procBuf' = [procBuf EXCEPT ![i][k] = None]
      BY <1>0, <1>6, <2>2 DEF FrameDone
    <3>2. ProcInv(i)'
      BY <1>0, <3>1 DEF ProcInv, Alive
    <3>3. JoinInv(i)'
      BY <1>0, <3>1 DEF JoinInv
    <3> QED
      BY <3>2, <3>3
  <2> QED
    BY <2>1, <2>2
<1>7. ASSUME NEW j \in Index, NEW k \in Thread, ProcExits(j, k) PROVE ProcInv(i)' /\ JoinInv(i)'
  <2>1. CASE j # i
    <3>1. /\ procs'[i] = procs[i] /\ procBuf'[i] = procBuf[i] /\ exits'[i] = exits[i]
          /\ mDataQ'[i] = mDataQ[i]
      BY <1>0, <1>7, <2>1 DEF ProcExits
    <3> QED
      BY <1>0, <3>1 DEF ProcInv, JoinInv
  <2>2. CASE j = i
    <3>1. /\ procs[i][k] = "wait" /\ exits[i] > 0 /\ procBuf' = procBuf
          /\ procs' = [procs EXCEPT ![i][k] = "gone"]
          /\ exits'[i] = exits[i] - 1 /\ mDataQ'[i] = <<>>
      BY <1>0, <1>7, <2>2 DEF ProcExits
    <3>2. exits[i] = 1 /\ exits'[i] = 0 /\ Here(i, {"joinproc"})
      BY <1>0, <3>1 DEF ProcInv
    <3>3. ProcInv(i)'
      BY <1>0, <3>1, <3>2 DEF ProcInv, Alive
    <3>4. JoinInv(i)'
      BY <1>0, <3>1 DEF JoinInv
    <3> QED
      BY <3>3, <3>4
  <2> QED
    BY <2>1, <2>2
<1>8. ASSUME \/ ProcessStreamBuf \/ ServeRequest \/ CmdExits \/ DispatchSuperBuf \/ CbExits
             \/ \E f : Qbuf(f) \/ QbufEnds(f)
      PROVE  ProcInv(i)' /\ JoinInv(i)'
  BY <1>1, <1>8
  DEF ProcessStreamBuf, ServeRequest, CmdExits, DispatchSuperBuf, CbExits, Qbuf, QbufEnds, procVars
<1> QED
  BY ThreadSteps, <1>2, <1>3, <1>4, <1>5, <1>6, <1>7, <1>8 DEF PollThreadSteps

\* No thread does anything for a stream that is not there.
LEMMA SpareStays ==
  ASSUME Typed, CbInv, ThreadStep, NEW i \in Index \ Stream, Spare(i)
  PROVE  Spare(i)'
<1>0. /\ strT \in [Index -> {"none", "run", "exiting"}]
      /\ procs \in [Index -> [Thread -> {"none", "wait", "busy", "gone"}]]
  BY DEF Typed
<1>1. ASSUME UNCHANGED <<strT, procs>> PROVE Spare(i)'
  BY <1>1 DEF Spare
<1>2. CASE PollThreadSteps
  BY <1>1, <1>2
  DEF PollThreadSteps, Poll, CallStream, CheckState, ReadFrame, QueueFrame, CbVars, procVars,
      strVars
<1>3. ASSUME NEW j \in Index, DispatchAppData(j) \/ StrExits(j) PROVE Spare(i)'
  BY <1>0, <1>1, <1>3 DEF DispatchAppData, StrExits, Spare, procVars
<1>4. ASSUME NEW j \in Index, NEW k \in Thread, TakeFrame(j, k) \/ FrameDone(j, k) \/ ProcExits(j, k)
      PROVE  Spare(i)'
  BY <1>0, <1>4 DEF TakeFrame, FrameDone, ProcExits, Spare, strVars
<1>5. ASSUME \/ ProcessStreamBuf \/ ServeRequest \/ CmdExits \/ DispatchSuperBuf \/ CbExits
             \/ \E f : Qbuf(f) \/ QbufEnds(f)
      PROVE  Spare(i)'
  BY <1>1, <1>5
  DEF ProcessStreamBuf, ServeRequest, CmdExits, DispatchSuperBuf, CbExits, Qbuf, QbufEnds,
      procVars,
      strVars
<1> QED
  BY ThreadSteps, <1>2, <1>3, <1>4, <1>5 DEF PollThreadSteps

\* While a stream is active the channel is on, or going on or off.
LEMMA ActiveNow ==
  ASSUME Typed, CallInv, NEW i \in Stream, StateInv(i), InState(i, "ACTIVE")
  PROVE  /\ \/ hal.op \in {"start", "undo"}
            \/ hal = Idle /\ ch = "ACTIVE"
            \/ hal.op = "stop" /\ hal.pc \in StopPcs
         /\ starts > 0 /\ ~NotYet(i) /\ i \in allocated
<1>0. /\ Place /\ kind \in Kinds /\ i \in Index /\ i \in 1 .. Last
      /\ ch \in {"NOTUSED", "STOPPED", "ACTIVE", "deleted"}
  BY Streams DEF Typed, CallInv
<1> USE DEF InState
<1>1. CASE hal.op = "start"
  BY <1>0, <1>1, CallFacts
  DEF CallInv, StateInv, NotYet, Configured, Active, Buffed, Registered, At, StartPcs, Idle
<1>2. CASE hal.op = "undo"
  BY <1>0, <1>2, CallFacts
  DEF CallInv, StateInv, NotYet, Configured, Active, Buffed, Registered, At, StopPcs, Idle
<1>3. CASE hal.op = "stop"
  BY <1>0, <1>3, CallFacts
  DEF CallInv, StateInv, NotYet, Configured, Active, Buffed, Registered, At, StopPcs, Idle
<1>4. CASE hal.op = "none"
  BY <1>0, <1>4, CallFacts DEF CallInv, StateInv, Configured, Active, New, NotYet, At, Idle
<1>5. CASE hal.op = "add"
  BY <1>0, <1>5, CallFacts DEF CallInv, StateInv, New, At, AddPcs
<1>6. CASE hal.op = "delete"
  BY <1>0, <1>6, CallFacts DEF StateInv
<1> QED
  BY <1>0, <1>1, <1>2, <1>3, <1>4, <1>5, <1>6, CallFacts

\* The threads of a bundle pass its frames on as long as there is one.
LEMMA BundleStays ==
  ASSUME Typed, CallInv, CbInv, BundleInv, ThreadStep, \A i \in Stream : StateInv(i)
  PROVE  BundleInv'
<1>0. /\ UNCHANGED CallOwned /\ kind \in Kinds
      /\ Bundled' <=> Bundled
      /\ Met({"start"})' <=> Met({"start"})
      /\ cb \in [i : Stream \cup {None}, b : Bufs \cup {None}]
      /\ chQ \in Seq(Stream \X Bufs) /\ cbQ \in Seq([Stream -> Bufs])
      /\ chT \in {"none", "run", "exiting"} /\ cbT \in {"none", "run", "exiting"}
  BY ThreadFrame, CallStays DEF Typed
<1> USE DEF CallOwned, At
<1>1. ASSUME UNCHANGED bundleVars PROVE BundleInv'
  BY <1>0, <1>1 DEF BundleInv, Clean, bundleVars
<1>2. CASE Poll \/ CallStream \/ CheckState \/ ReadFrame
  BY <1>1, <1>2 DEF Poll, CallStream, CheckState, ReadFrame
<1>3. CASE QueueFrame
  <2>1. cb.i \in Stream /\ InState(cb.i, "ACTIVE")
    BY <1>0, <1>3 DEF QueueFrame, PollAt, CbInv, Typed
  <2>2. /\ \/ hal.op \in {"start", "undo"}
           \/ hal = Idle /\ ch = "ACTIVE"
           \/ hal.op = "stop" /\ hal.pc \in StopPcs
        /\ starts > 0
    BY <2>1, ActiveNow
  <2>3. CASE ~Bundled
    BY <1>0, <1>1, <1>3, <2>3 DEF QueueFrame, bundleVars
  <2>4. CASE Bundled
    <3>1. chT = "run" /\ cbT = "run"
      BY <2>2, <2>4 DEF BundleInv
    <3>2. UNCHANGED <<chT, matching, cbQ, cbT>>
      BY <1>3 DEF QueueFrame
    <3>3. hal.op = "stop" => ch = "ACTIVE" /\ hal.pc \notin {"joincmd", "joincb", "put"}
      <4>1. hal.op = "stop" => hal # Idle /\ hal.pc \notin {"exit", "joinproc", "launch"}
        BY <2>2, CallFacts DEF StopPcs, CallInv, Idle, Typed
      <4> QED
        BY <2>2, <4>1 DEF CallInv, Stopping, StopPcs
    <3>4. hal.op \in {"start", "undo"} => hal.pc \notin {"joincmd", "joincb", "put"}
      BY <1>0, CallFacts DEF CallInv
    <3>5. hal = Idle => hal.pc \notin {"joincmd", "joincb", "put"}
      BY DEF Idle
    <3> QED
      BY <1>0, <2>2, <2>4, <3>1, <3>2, <3>3, <3>4, <3>5 DEF BundleInv, Clean
  <2> QED
    BY <2>3, <2>4
<1>4. ASSUME NEW j \in Index, DispatchAppData(j) \/ StrExits(j) PROVE UNCHANGED bundleVars
  BY <1>4 DEF DispatchAppData, StrExits
<1>5. ASSUME NEW j \in Index, NEW k \in Thread, TakeFrame(j, k) \/ FrameDone(j, k) \/ ProcExits(j, k)
      PROVE  UNCHANGED bundleVars
  BY <1>5 DEF TakeFrame, FrameDone, ProcExits
<1>6. CASE ProcessStreamBuf
  <2>1. chT # "none" /\ chQ # <<>> /\ UNCHANGED <<chT, cbT>> /\ chQ' = Tail(chQ)
    BY <1>6 DEF ProcessStreamBuf
  <2> QED
    BY <1>0, <2>1 DEF BundleInv, Clean
<1>7. CASE ServeRequest
  <2>1. chT = "run" /\ UNCHANGED <<chQ, chT, cbT>>
    BY <1>7 DEF ServeRequest
  <2> QED
    BY <1>0, <2>1 DEF BundleInv, Clean
<1>8. CASE CmdExits
  <2>1. chT = "exiting" /\ chQ = <<>> /\ chT' = "none" /\ UNCHANGED <<chQ, matching, cbQ, cbT>>
    BY <1>8 DEF CmdExits
  <2>2. hal.op = "stop" /\ hal # Idle /\ ch = "ACTIVE"
    <3>1. At("joincmd") /\ Place
      BY <2>1 DEF BundleInv, CallInv
    <3> QED
      BY <1>0, <3>1, CallFacts DEF CallInv, Stopping, Idle
  <2> QED
    BY <1>0, <2>1, <2>2 DEF BundleInv, Clean, StopPcs
<1>9. CASE DispatchSuperBuf
  <2>1. cbT # "none" /\ cbQ # <<>> /\ UNCHANGED <<chQ, chT, matching, cbT>>
    BY <1>9 DEF DispatchSuperBuf
  <2> QED
    BY <1>0, <2>1 DEF BundleInv, Clean
<1>10. CASE CbExits
  <2>1. cbT = "exiting" /\ cbQ = <<>> /\ cbT' = "none" /\ UNCHANGED <<chQ, chT, matching, cbQ>>
    BY <1>10 DEF CbExits
  <2> QED
    BY <1>0, <2>1 DEF BundleInv, Clean
<1>11. ASSUME NEW f, Qbuf(f) \/ QbufEnds(f) PROVE UNCHANGED bundleVars
  BY <1>11 DEF Qbuf, QbufEnds
<1> QED
  BY ThreadSteps, <1>1, <1>2, <1>3, <1>4, <1>5, <1>6, <1>7, <1>8, <1>9, <1>10, <1>11

\* The effects of a step on the references: none, a frame that is read, or a reference
\* given up; and none on a stream that has not got its buffers registered.
LEMMA BufSteps ==
  ASSUME Typed, CbInv, ThreadStep
  PROVE  \/ UNCHANGED <<buf_refcnt, kernel>>
         \/ /\ ReadFrame
            /\ cb.i \in Stream /\ InState(cb.i, "ACTIVE")
            /\ \E b \in kernel[cb.i] :
                  /\ kernel' = [kernel EXCEPT ![cb.i] = @ \ {b}]
                  /\ buf_refcnt' = [buf_refcnt EXCEPT ![cb.i][b] = @ + References]
         \/ \E i \in Stream, b \in Bufs : /\ BufDone(i, b) /\ InState(i, "ACTIVE")
                                          /\ ProcessStreamBuf
         \/ \E f \in returning : f.i \in Stream /\ f.b \in Bufs /\ BufDone(f.i, f.b) /\ QbufEnds(f)
<1>1. CASE Poll \/ CallStream \/ CheckState \/ QueueFrame
  BY <1>1 DEF Poll, CallStream, CheckState, QueueFrame, bufVars
<1>2. CASE ReadFrame
  <2>1. cb.i \in Stream /\ InState(cb.i, "ACTIVE")
    BY <1>2 DEF ReadFrame, PollAt, CbInv, Typed
  <2> QED
    BY <1>2, <2>1 DEF ReadFrame
<1>3. ASSUME NEW j \in Index, DispatchAppData(j) \/ StrExits(j) PROVE UNCHANGED <<buf_refcnt, kernel>>
  BY <1>3 DEF DispatchAppData, StrExits, bufVars
<1>4. ASSUME NEW j \in Index, NEW k \in Thread, TakeFrame(j, k) \/ FrameDone(j, k) \/ ProcExits(j, k)
      PROVE  UNCHANGED <<buf_refcnt, kernel>>
  BY <1>4 DEF TakeFrame, FrameDone, ProcExits, bufVars
<1>5. CASE ProcessStreamBuf
  <2> DEFINE M == matching \cup {Head(chQ)}
  <2>1. \A f \in M : f[1] \in Stream /\ f[2] \in Bufs
    BY <1>5 DEF ProcessStreamBuf, Typed
  <2>2. CASE Unused(M)
    <3>1. PICK f \in M : IF InState(f[1], "ACTIVE") THEN BufDone(f[1], f[2])
                                                  ELSE UNCHANGED <<buf_refcnt, kernel>>
      BY <2>2 DEF Unused
    <3> QED
      BY <1>5, <2>1, <3>1
  <2>3. CASE SuperBuf(M) \/ Kept(M)
    BY <2>3 DEF SuperBuf, Kept
  <2> QED
    BY <1>5, <2>2, <2>3 DEF ProcessStreamBuf
<1>6. CASE ServeRequest \/ CmdExits \/ DispatchSuperBuf \/ CbExits
  BY <1>6 DEF ServeRequest, SuperBuf, CmdExits, DispatchSuperBuf, CbExits, bufVars
<1>7. ASSUME NEW f, Qbuf(f) PROVE UNCHANGED <<buf_refcnt, kernel>>
  BY <1>7 DEF Qbuf, bufVars
<1>8. ASSUME NEW f \in returning, QbufEnds(f)
      PROVE  f.i \in Stream /\ f.b \in Bufs /\ BufDone(f.i, f.b)
  BY <1>8 DEF QbufEnds, Typed, Frame
<1> QED
  BY ThreadSteps, <1>1, <1>2, <1>3, <1>4, <1>5, <1>6, <1>7, <1>8

\* The kernel only has buffers without a reference, and there are references only of
\* buffers that are registered.
LEMMA CountStays ==
  ASSUME Typed, CallInv, CbInv, ThreadStep, \A j \in Stream : CountInv(j) /\ OwnInv(j),
         NEW i \in Stream
  PROVE  CountInv(i)' /\ OwnInv(i)'
<1>0. /\ UNCHANGED CallOwned /\ kind \in Kinds /\ i \in Index /\ Stream \subseteq Index
      /\ Met({"reg"})' <=> Met({"reg"})
      /\ Buf' = Buf
      /\ buf_refcnt \in [Index -> [Bufs -> 0 .. 2]] /\ kernel \in [Index -> SUBSET Bufs]
  BY ThreadFrame, CallStays, Streams DEF Typed
<1> USE DEF CallOwned, InState
<1>1. CountInv(i) /\ OwnInv(i)
  OBVIOUS
<1>2. ASSUME kernel'[i] = kernel[i], buf_refcnt'[i] = buf_refcnt[i] PROVE CountInv(i)' /\ OwnInv(i)'
  BY <1>0, <1>1, <1>2 DEF CountInv, OwnInv
<1>3. ASSUME NEW b \in kernel[cb.i], cb.i \in Stream, InState(cb.i, "ACTIVE"),
             kernel' = [kernel EXCEPT ![cb.i] = @ \ {b}],
             buf_refcnt' = [buf_refcnt EXCEPT ![cb.i][b] = @ + References]
      PROVE  CountInv(i)' /\ OwnInv(i)'
  <2>1. CASE i # cb.i
    BY <1>0, <1>2, <1>3, <2>1
  <2>2. CASE i = cb.i
    <3>1. b \in Buf /\ b \in Bufs /\ i \in Index
      BY <1>0, <1>1, <1>3, <2>2 DEF OwnInv
    <3>2. /\ kernel'[i] = kernel[i] \ {b}
          /\ \A c \in Bufs : c # b => buf_refcnt'[i][c] = buf_refcnt[i][c]
      BY <1>0, <1>3, <2>2, <3>1
    <3> QED
      BY <1>0, <1>1, <1>3, <2>2, <3>1, <3>2 DEF CountInv, OwnInv
  <2> QED
    BY <2>1, <2>2
<1>4. ASSUME NEW j \in Stream, NEW b \in Bufs, BufDone(j, b) PROVE CountInv(i)' /\ OwnInv(i)'
  <2>1. CASE i # j \/ buf_refcnt[j][b] = 0
    BY <1>0, <1>2, <1>4, <2>1 DEF BufDone
  <2>2. CASE i = j /\ buf_refcnt[j][b] # 0
    <3>1. /\ kernel'[i] = IF buf_refcnt[i][b] = 1 THEN kernel[i] \cup {b} ELSE kernel[i]
          /\ buf_refcnt'[i][b] = buf_refcnt[i][b] - 1
          /\ \A c \in Bufs : c # b => buf_refcnt'[i][c] = buf_refcnt[i][c]
      BY <1>0, <1>4, <2>2 DEF BufDone
    <3>2. b \in Buf /\ (InState(i, "REG") \/ InState(i, "ACTIVE") \/ Met({"reg"}))
      BY <1>1, <2>2 DEF CountInv, OwnInv
    <3>3. CountInv(i)'
      BY <1>0, <1>1, <2>2, <3>1, <3>2 DEF CountInv
    <3>4. OwnInv(i)'
      BY <1>0, <1>1, <2>2, <3>1, <3>2 DEF OwnInv
    <3> QED
      BY <3>3, <3>4
  <2> QED
    BY <2>1, <2>2
<1> QED
  BY BufSteps, <1>2, <1>3, <1>4

\* What is in a sequence after the first is taken off or another put behind.
LEMMA ElemsOf ==
  ASSUME NEW S, NEW s \in Seq(S)
  PROVE  /\ Elems(<<>>) = {}
         /\ Elems(s) \subseteq S
         /\ \A e \in S : Append(s, e) \in Seq(S) /\ Elems(Append(s, e)) = Elems(s) \cup {e}
         /\ s # <<>> => /\ Head(s) \in S /\ Tail(s) \in Seq(S)
                        /\ Elems(s) = {Head(s)} \cup Elems(Tail(s))
<1>1. Elems(<<>>) = {}
  BY DEF Elems
<1>2. Elems(s) \subseteq S
  BY DEF Elems
<1>3. ASSUME NEW e \in S
      PROVE  Append(s, e) \in Seq(S) /\ Elems(Append(s, e)) = Elems(s) \cup {e}
  <2>1. /\ Append(s, e) \in Seq(S) /\ Len(Append(s, e)) = Len(s) + 1
        /\ \A n \in 1 .. Len(s) : Append(s, e)[n] = s[n]
        /\ Append(s, e)[Len(s) + 1] = e
        /\ Len(s) \in Nat
    OBVIOUS
  <2>2. DOMAIN s = 1 .. Len(s) /\ DOMAIN Append(s, e) = 1 .. Len(s) + 1
    BY <2>1
  <2>3. \A x \in Elems(Append(s, e)) : x \in Elems(s) \cup {e}
    BY <2>1, <2>2 DEF Elems
  <2>4. \A x \in Elems(s) \cup {e} : x \in Elems(Append(s, e))
    <3>1. \A n \in 1 .. Len(s) : n \in 1 .. Len(s) + 1
      BY <2>1
    <3>2. Len(s) + 1 \in 1 .. Len(s) + 1
      BY <2>1
    <3> QED
      BY <2>1, <2>2, <3>1, <3>2 DEF Elems
  <2> QED
    BY <2>1, <2>3, <2>4
<1>4. ASSUME s # <<>>
      PROVE  /\ Head(s) \in S /\ Tail(s) \in Seq(S)
             /\ Elems(s) = {Head(s)} \cup Elems(Tail(s))
  <2>1. /\ Head(s) = s[1] /\ Head(s) \in S /\ Tail(s) \in Seq(S)
        /\ Len(s) \in Nat \ {0} /\ Len(Tail(s)) = Len(s) - 1
        /\ \A n \in 1 .. Len(s) - 1 : Tail(s)[n] = s[n + 1]
    BY <1>4
  <2>2. DOMAIN s = 1 .. Len(s) /\ DOMAIN Tail(s) = 1 .. Len(s) - 1
    BY <2>1
  <2>3. \A x \in Elems(s) : x \in {Head(s)} \cup Elems(Tail(s))
    <3>1. \A n \in 1 .. Len(s) : n = 1 \/ (n - 1 \in 1 .. Len(s) - 1 /\ s[n] = Tail(s)[n - 1])
      BY <2>1
    <3>2. \A x \in Elems(s) : \E n \in 1 .. Len(s) : x = s[n]
      BY <2>2 DEF Elems
    <3>3. \A n \in 1 .. Len(s) - 1 : Tail(s)[n] \in Elems(Tail(s))
      BY <2>2 DEF Elems
    <3> QED
      BY <2>1, <3>1, <3>2, <3>3
  <2>4. \A x \in {Head(s)} \cup Elems(Tail(s)) : x \in Elems(s)
    <3>1. \A n \in 1 .. Len(s) - 1 : n + 1 \in 1 .. Len(s) /\ Tail(s)[n] = s[n + 1]
      BY <2>1
    <3>2. 1 \in 1 .. Len(s)
      BY <2>1
    <3>3. s[1] \in Elems(s) /\ \A n \in 1 .. Len(s) - 1 : s[n + 1] \in Elems(s)
      BY <2>2, <3>1, <3>2 DEF Elems
    <3>4. \A x \in Elems(Tail(s)) : \E n \in 1 .. Len(s) - 1 : x = Tail(s)[n]
      BY <2>2 DEF Elems
    <3> QED
      BY <2>1, <3>3, <3>4
  <2> QED
    BY <2>1, <2>3, <2>4
<1> QED
  BY <1>1, <1>2, <1>3, <1>4

\* If the entries of a sequence are all different, so they are
\* after the first is taken off, or another put behind that was not there.
LEMMA DistinctOf ==
  ASSUME NEW S, NEW s \in Seq(S), Distinct(s)
  PROVE  /\ \A e \in S : e \notin Elems(s) => Distinct(Append(s, e))
         /\ s # <<>> => Distinct(Tail(s)) /\ Head(s) \notin Elems(Tail(s))
<1>1. ASSUME NEW e \in S, e \notin Elems(s) PROVE Distinct(Append(s, e))
  <2>1. /\ Len(s) \in Nat /\ DOMAIN s = 1 .. Len(s) /\ DOMAIN Append(s, e) = 1 .. Len(s) + 1
        /\ \A n \in 1 .. Len(s) : Append(s, e)[n] = s[n]
        /\ Append(s, e)[Len(s) + 1] = e
    OBVIOUS
  <2>2. \A n \in 1 .. Len(s) : s[n] # e
    BY <1>1, <2>1 DEF Elems
  <2>3. \A n \in 1 .. Len(s) + 1 : n \in 1 .. Len(s) \/ n = Len(s) + 1
    BY <2>1
  <2> QED
    BY <2>1, <2>2, <2>3 DEF Distinct
<1>2. ASSUME s # <<>> PROVE Distinct(Tail(s)) /\ Head(s) \notin Elems(Tail(s))
  <2>1. /\ Len(s) \in Nat \ {0} /\ DOMAIN s = 1 .. Len(s) /\ DOMAIN Tail(s) = 1 .. Len(s) - 1
        /\ Head(s) = s[1]
        /\ \A n \in 1 .. Len(s) - 1 : Tail(s)[n] = s[n + 1] /\ n + 1 \in DOMAIN s
    BY <1>2
  <2>2. Distinct(Tail(s))
    BY <2>1 DEF Distinct
  <2>3. Head(s) \notin Elems(Tail(s))
    <3>1. \A n \in 1 .. Len(s) - 1 : s[n + 1] # s[1]
      BY <2>1 DEF Distinct
    <3> QED
      BY <2>1, <3>1 DEF Elems
  <2> QED
    BY <2>2, <2>3
<1> QED
  BY <1>1, <1>2

\* No frame gets to a stream, or from one into a super buffer, that is not yet active.
LEMMA FreshStays ==
  ASSUME Typed, CallInv, CbInv, ThreadStep, NEW i \in Stream, \A j \in Stream : StateInv(j),
         PartsInv(i), ProcInv(i), LaunchInv(i), FreshInv(i)
  PROVE  FreshInv(i)'
<1>0. /\ UNCHANGED CallOwned /\ kind \in Kinds /\ i \in Index /\ Stream \subseteq Index
      /\ NotYet(i)' <=> NotYet(i)
      /\ Met({"stale"}) => Met({"stale"})'
      /\ strQ \in [Index -> Seq(Bufs)] /\ mDataQ \in [Index -> Seq(Bufs)]
      /\ chQ \in Seq(Stream \X Bufs)
      /\ procs \in [Index -> [Thread -> {"none", "wait", "busy", "gone"}]]
      /\ procBuf \in [Index -> [Thread -> Bufs \cup {None}]]
  BY ThreadFrame, CallStays, Streams DEF Typed
<1> USE DEF CallOwned
<1>1. ASSUME UNCHANGED <<chQ, matching, cbQ, strQ, mDataQ, procBuf>>,
             held' \cup returning' \subseteq held \cup returning
      PROVE  FreshInv(i)'
  BY <1>0, <1>1 DEF FreshInv
<1>2. CASE Poll \/ CallStream \/ CheckState \/ ReadFrame
  <2>1. UNCHANGED <<bundleVars, strVars, procVars, held, returning>>
    BY <1>2 DEF Poll, CallStream, CheckState, ReadFrame, CbVars
  <2> QED
    BY <1>1, <2>1 DEF bundleVars, strVars, procVars
<1>3. CASE QueueFrame
  <2>1. cb.i \in Stream /\ InState(cb.i, "ACTIVE") /\ cb.b \in Bufs
    BY <1>3, StreamAssumption DEF QueueFrame, PollAt, CbInv, Typed, Buf
  <2>2. ~NotYet(cb.i)
    BY <2>1, ActiveNow
  <2>3. UNCHANGED <<matching, cbQ, mDataQ, procBuf, held, returning>>
    BY <1>3 DEF QueueFrame, CbVars, procVars
  <2>4. i # cb.i => strQ'[i] = strQ[i]
    BY <1>0, <1>3 DEF QueueFrame
  <2>5. i # cb.i => \A b : <<i, b>> \in Elems(chQ') => <<i, b>> \in Elems(chQ)
    <3>1. <<cb.i, cb.b>> \in Stream \X Bufs
      BY <2>1
    <3>2. chQ' = chQ \/ chQ' = Append(chQ, <<cb.i, cb.b>>)
      BY <1>3 DEF QueueFrame
    <3>3. PICK P : P = Stream \X Bufs
      OBVIOUS
    <3>4. chQ \in Seq(P) /\ <<cb.i, cb.b>> \in P
      BY <1>0, <3>1, <3>3
    <3>5. Elems(Append(chQ, <<cb.i, cb.b>>)) = Elems(chQ) \cup {<<cb.i, cb.b>>}
      BY <3>4, ElemsOf
    <3>6. Elems(chQ') \subseteq Elems(chQ) \cup {<<cb.i, cb.b>>}
      BY <3>2, <3>5
    <3> QED
      BY <3>6
  <2> QED
    BY <1>0, <2>2, <2>3, <2>4, <2>5 DEF FreshInv, Elems
<1>4. ASSUME NEW j \in Index, DispatchAppData(j) PROVE FreshInv(i)'
  <2>1. UNCHANGED <<matching, cbQ, chQ, procBuf, held, returning>>
    BY <1>4 DEF DispatchAppData, bundleVars
  <2>2. /\ j # i => strQ'[i] = strQ[i] /\ mDataQ'[i] = mDataQ[i]
        /\ strQ[j] # <<>> /\ strT[j] # "none"
    BY <1>0, <1>4 DEF DispatchAppData
  <2>3. j = i => ~(hal = Idle /\ ch = "STOPPED")
    BY <2>2, ProcRuns
  <2> QED
    BY <1>0, <2>1, <2>2, <2>3 DEF FreshInv, Elems
<1>5. ASSUME NEW j \in Index, StrExits(j) PROVE FreshInv(i)'
  <2>1. UNCHANGED <<bundleVars, strQ, procVars, held, returning>>
    BY <1>5 DEF StrExits
  <2> QED
    BY <1>1, <2>1 DEF bundleVars, procVars
<1>6. ASSUME NEW j \in Index, NEW k \in Thread, TakeFrame(j, k) PROVE FreshInv(i)'
  <2>1. UNCHANGED <<matching, cbQ, chQ, strQ, held, returning>>
    BY <1>6 DEF TakeFrame, bundleVars, strVars
  <2>2. CASE j # i \/ mDataQ[i] = <<>>
    <3>1. mDataQ'[i] = mDataQ[i] /\ procBuf'[i] = procBuf[i]
      BY <1>0, <1>6, <2>2 DEF TakeFrame
    <3> QED
      BY <1>0, <2>1, <3>1 DEF FreshInv, Elems
  <2>3. CASE j = i /\ mDataQ[i] # <<>>
    <3>1. ~NotYet(i) /\ ~(hal = Idle /\ ch = "STOPPED" /\ kind = "video")
      BY <2>3 DEF FreshInv
    <3> QED
      BY <1>0, <3>1 DEF FreshInv
  <2> QED
    BY <2>2, <2>3
<1>7. ASSUME NEW j \in Index, NEW k \in Thread, FrameDone(j, k) PROVE FreshInv(i)'
  <2>1. /\ UNCHANGED <<matching, cbQ, chQ, strQ, mDataQ, returning>>
        /\ procBuf' = [procBuf EXCEPT ![j][k] = None]
        /\ procs[j][k] = "busy"
        /\ held' \subseteq held \cup {Held("stream", j, procBuf[j][k])}
    BY <1>6, <1>7 DEF FrameDone, bundleVars, strVars
  <2>2. \A l \in Thread : procBuf'[i][l] = None \/ procBuf'[i][l] = procBuf[i][l]
    BY <1>0, <2>1
  <2>3. Held("stream", j, procBuf[j][k]).i = j
    BY DEF Held
  <2>4. j = i => procBuf[i][k] # None
    BY <2>1 DEF ProcInv
  <2> QED
    BY <1>0, <2>1, <2>2, <2>3, <2>4 DEF FreshInv, Elems
<1>8. ASSUME NEW j \in Index, NEW k \in Thread, ProcExits(j, k) PROVE FreshInv(i)'
  <2>1. /\ UNCHANGED <<matching, cbQ, chQ, strQ, procBuf, held, returning>>
        /\ mDataQ'[i] \in {mDataQ[i], <<>>}
    BY <1>0, <1>8 DEF ProcExits, bundleVars, strVars
  <2> QED
    BY <1>0, <2>1 DEF FreshInv, Elems
<1>9. ASSUME ProcessStreamBuf \/ ServeRequest PROVE FreshInv(i)'
  <2>1. UNCHANGED <<strQ, mDataQ, procBuf, held, returning>>
    BY <1>9 DEF ProcessStreamBuf, ServeRequest, strVars, procVars
  <2>2. CASE ~NotYet(i)
    BY <1>0, <2>1, <2>2 DEF FreshInv
  <2>3. CASE NotYet(i)
    <3>1. /\ \A b \in Bufs : <<i, b>> \notin Elems(chQ) \cup matching
          /\ cbQ = <<>>
      BY <2>3 DEF FreshInv
    <3>2. PICK M : /\ M \subseteq matching \cup Elems(chQ)
                   /\ Unused(M) \/ SuperBuf(M) \/ Kept(M)
                   /\ Elems(chQ') \subseteq Elems(chQ)
      <4>1. CASE ProcessStreamBuf
        <5>1. Elems(chQ) = {Head(chQ)} \cup Elems(Tail(chQ))
          BY <1>0, <4>1, ElemsOf DEF ProcessStreamBuf
        <5> QED
          BY <4>1, <5>1 DEF ProcessStreamBuf
      <4>2. CASE ServeRequest
        BY <4>2 DEF ServeRequest
      <4> QED
        BY <1>9, <4>1, <4>2
    <3>3. ~SuperBuf(M)
      <4>1. Buf \subseteq Bufs
        BY StreamAssumption DEF Buf
      <4> QED
        BY <3>1, <3>2, <4>1 DEF SuperBuf
    <3>4. matching' \subseteq M /\ cbQ' = cbQ
      BY <3>2, <3>3 DEF Unused, Kept
    <3> QED
      BY <1>0, <2>1, <3>1, <3>2, <3>4 DEF FreshInv, Elems
  <2> QED
    BY <2>2, <2>3
<1>10. CASE CmdExits \/ CbExits
  <2>1. UNCHANGED <<chQ, matching, cbQ, strQ, mDataQ, procBuf, held, returning>>
    BY <1>10 DEF CmdExits, CbExits, strVars, procVars
  <2> QED
    BY <1>1, <2>1
<1>11. CASE DispatchSuperBuf
  <2>1. cbQ # <<>> /\ UNCHANGED <<chQ, matching, strQ, mDataQ, procBuf>>
    BY <1>11 DEF DispatchSuperBuf, strVars, procVars
  <2> QED
    BY <1>0, <2>1 DEF FreshInv
<1>12. ASSUME NEW f, (f \in held /\ Qbuf(f)) \/ (f \in returning /\ QbufEnds(f)) PROVE FreshInv(i)'
  <2>1. /\ UNCHANGED <<bundleVars, strVars, procVars>>
        /\ held' \cup returning' \subseteq held \cup returning
    BY <1>12 DEF Qbuf, QbufEnds
  <2> QED
    BY <1>1, <2>1 DEF bundleVars, strVars, procVars
<1> QED
  BY ThreadSteps, <1>2, <1>3, <1>4, <1>5, <1>6, <1>7, <1>8, <1>9, <1>10, <1>11, <1>12

\* Every variable keeps its type.
LEMMA TypedStays ==
  ASSUME Typed, CallInv, PollInv, CbInv, BundleInv, ThreadStep,
         \A i \in Stream : ProcInv(i) /\ CountInv(i) /\ PartsInv(i), \A i \in Index \ Stream : Spare(i)
  PROVE  Typed'
<1>0. UNCHANGED CallOwned /\ Stream' = Stream /\ kind \in Kinds /\ Stream \subseteq Index
  BY ThreadFrame, CallStays, Streams DEF Typed
<1>1. (upsets \subseteq {"start", "reg", "put", "stale", "abandoned"})'
  BY ThreadFrame DEF Typed
<1>2. /\ (kind \in Kinds)' /\ (ch \in {"NOTUSED", "STOPPED", "ACTIVE", "deleted"})'
      /\ (starts \in 0 .. MaxStarts)' /\ (state \in [Index -> States])'
      /\ (allocated \subseteq Stream)' /\ (streaming \subseteq Stream)'
      /\ (poll_entries \subseteq Stream)' /\ (cmd_pid \in [Index -> Thread \cup {None}])'
  BY <1>0, TypedFrame DEF CallOwned
<1>3. (buf_refcnt \in [Index -> [Bufs -> 0 .. 2]])' /\ (kernel \in [Index -> SUBSET Bufs])'
  <2>1. buf_refcnt \in [Index -> [Bufs -> 0 .. 2]] /\ kernel \in [Index -> SUBSET Bufs]
    BY DEF Typed
  <2>2. ASSUME UNCHANGED <<buf_refcnt, kernel>>
        PROVE  (buf_refcnt \in [Index -> [Bufs -> 0 .. 2]])' /\ (kernel \in [Index -> SUBSET Bufs])'
    BY <2>1, <2>2
  <2>3. ASSUME NEW b \in kernel[cb.i], cb.i \in Stream,
               kernel' = [kernel EXCEPT ![cb.i] = @ \ {b}],
               buf_refcnt' = [buf_refcnt EXCEPT ![cb.i][b] = @ + References]
        PROVE  (buf_refcnt \in [Index -> [Bufs -> 0 .. 2]])' /\ (kernel \in [Index -> SUBSET Bufs])'
    <3>1. b \in Bufs /\ buf_refcnt[cb.i][b] = 0 /\ cb.i \in Index
      BY <1>0, <2>3 DEF CountInv
    <3>2. buf_refcnt' = [buf_refcnt EXCEPT ![cb.i][b] = References] /\ References \in 0 .. 2
      BY <2>1, <2>3, <3>1 DEF References
    <3>3. (buf_refcnt \in [Index -> [Bufs -> 0 .. 2]])'
      BY <2>1, <3>1, <3>2
    <3>4. (kernel \in [Index -> SUBSET Bufs])'
      BY <2>1, <2>3, <3>1
    <3> QED
      BY <3>3, <3>4
  <2>4. ASSUME NEW i \in Stream, NEW b \in Bufs, BufDone(i, b)
        PROVE  (buf_refcnt \in [Index -> [Bufs -> 0 .. 2]])' /\ (kernel \in [Index -> SUBSET Bufs])'
    <3>1. CASE buf_refcnt[i][b] = 0
      BY <2>2, <2>4, <3>1 DEF BufDone
    <3>2. CASE buf_refcnt[i][b] # 0
      <4>1. /\ buf_refcnt' = [buf_refcnt EXCEPT ![i][b] = @ - 1]
            /\ kernel' = kernel \/ kernel' = [kernel EXCEPT ![i] = @ \cup {b}]
        BY <2>4, <3>2 DEF BufDone
      <4>2. i \in Index /\ buf_refcnt[i][b] \in 1 .. 2
        BY <1>0, <2>1, <3>2
      <4>3. (buf_refcnt \in [Index -> [Bufs -> 0 .. 2]])'
        BY <2>1, <4>1, <4>2
      <4>4. (kernel \in [Index -> SUBSET Bufs])'
        BY <2>1, <4>1, <4>2
      <4> QED
        BY <4>3, <4>4
    <3> QED
      BY <3>1, <3>2
  <2> QED
    BY <2>2, <2>3, <2>4, BufSteps
<1>4. CASE Poll \/ CallStream \/ CheckState \/ ReadFrame
  <2>1. UNCHANGED <<strVars, bundleVars, procVars, held, returning, starts>>
    BY <1>4 DEF Poll, CallStream, CheckState, ReadFrame, CbVars
  <2>2. /\ (poll_pc \in {"none", "launched", "starting", "poll", "gone"} \cup Scanning)'
        /\ (poll_state \in {"STOPPED", "POLL"})' /\ (sig_wait \in BOOLEAN)'
        /\ (poll_fds \subseteq Stream)'
    <3>1. CASE Poll
      BY <1>0, <3>1
      DEF Poll, PollLoop, PollStarts, PollEnters, PollCommand, ScanEnds, PollData, Typed, Scanning
    <3>2. CASE CallStream \/ CheckState \/ ReadFrame
      BY <1>0, <3>2 DEF CallStream, Scan, CheckState, ReadFrame, PollGoto, Typed, Scanning
    <3> QED
      BY <1>4, <3>1, <3>2
  <2>3. (cb \in [i : Stream \cup {None}, b : Bufs \cup {None}])'
    <3>1. CASE Poll
      BY <1>0, <3>1 DEF Poll, Typed
    <3>2. CASE CallStream
      <4>1. NextReady \in Stream
        BY <1>0, <3>2, FirstReady DEF CallStream, Scan, CbInv, Typed
      <4> QED
        BY <1>0, <3>2, <4>1 DEF CallStream
    <3>3. CASE CheckState
      BY <1>0, <3>3 DEF CheckState, Typed, NoStream
    <3>4. CASE ReadFrame
      <4>1. cb.i \in Stream
        BY <1>0, <3>4 DEF ReadFrame, PollAt, CbInv, Typed
      <4>2. kernel[cb.i] \subseteq Bufs
        BY <1>0, <4>1 DEF Typed
      <4>3. cb \in [i : Stream \cup {None}, b : Bufs \cup {None}]
        BY DEF Typed
      <4>4. cb' = NoStream \/ \E b \in kernel[cb.i] : cb' = [cb EXCEPT !.b = b]
        BY <3>4 DEF ReadFrame
      <4> QED
        BY <1>0, <4>2, <4>3, <4>4 DEF NoStream
    <3> QED
      BY <1>4, <3>1, <3>2, <3>3, <3>4
  <2> QED
    BY <1>0, <1>1, <1>2, <1>3, <2>1, <2>2, <2>3, TypedFrame
    DEF Typed, CallOwned, strVars, bundleVars, procVars
<1>5. CASE QueueFrame
  <2>1. UNCHANGED <<strT, chT, matching, cbQ, cbT, procVars, held, returning, starts>>
    BY <1>5 DEF QueueFrame, CbVars
  <2>2. UNCHANGED <<poll_state, sig_wait, poll_fds>> /\ poll_pc' = "scan" /\ cb' = NoStream
    BY <1>5 DEF QueueFrame, PollGoto
  <2>3. cb.i \in Stream /\ cb.b \in Bufs
    BY <1>5, StreamAssumption DEF QueueFrame, PollAt, CbInv, Typed, Buf
  <2>4. (strQ \in [Index -> Seq(Bufs)])'
    <3>1. strQ[cb.i] \in Seq(Bufs) /\ strQ \in [Index -> Seq(Bufs)]
      BY <1>0, <2>3 DEF Typed
    <3>2. Append(strQ[cb.i], cb.b) \in Seq(Bufs)
      BY <2>3, <3>1
    <3> QED
      BY <1>5, <3>1, <3>2 DEF QueueFrame
  <2>5. (chQ \in Seq(Stream \X Bufs))'
    <3>1. <<cb.i, cb.b>> \in Stream \X Bufs
      BY <2>3
    <3>2. Append(chQ, <<cb.i, cb.b>>) \in Seq(Stream \X Bufs)
      BY <3>1 DEF Typed
    <3> QED
      BY <1>0, <1>5, <3>2 DEF QueueFrame, Typed
  <2>6. /\ (poll_pc \in {"none", "launched", "starting", "poll", "gone"} \cup Scanning)'
        /\ (cb \in [i : Stream \cup {None}, b : Bufs \cup {None}])'
    BY <1>0, <2>2 DEF Scanning, NoStream
  <2> QED
    BY <1>0, <1>1, <1>2, <1>3, <2>1, <2>2, <2>4, <2>5, <2>6, TypedFrame
    DEF Typed, CallOwned, procVars
<1>6. ASSUME NEW j \in Index, DispatchAppData(j) PROVE Typed'
  <2>1. UNCHANGED <<strT, bundleVars, exits, procs, procBuf, held, returning, starts, pollVars, cb>>
    BY <1>6 DEF DispatchAppData, ThreadVars
  <2>2. strQ \in [Index -> Seq(Bufs)] /\ mDataQ \in [Index -> Seq(Bufs)] /\ jobs \in [Index -> Nat]
    BY DEF Typed
  <2>3. Tail(strQ[j]) \in Seq(Bufs) /\ Append(mDataQ[j], Head(strQ[j])) \in Seq(Bufs)
    <3>1. strQ[j] \in Seq(Bufs) /\ strQ[j] # <<>> /\ mDataQ[j] \in Seq(Bufs)
      BY <1>6, <2>2 DEF DispatchAppData
    <3> QED
      BY <3>1
  <2>4. (strQ \in [Index -> Seq(Bufs)])' /\ (mDataQ \in [Index -> Seq(Bufs)])'
    BY <1>6, <2>2, <2>3 DEF DispatchAppData
  <2>5. (jobs \in [Index -> Nat])'
    BY <1>6, <2>2 DEF DispatchAppData
  <2> QED
    BY <1>0, <1>1, <1>2, <1>3, <2>1, <2>4, <2>5, TypedFrame
    DEF Typed, CallOwned, bundleVars, pollVars
<1>7. ASSUME NEW j \in Index, StrExits(j) PROVE Typed'
  <2>1. UNCHANGED <<strQ, bundleVars, procVars, held, returning, starts, pollVars, cb>>
    BY <1>7 DEF StrExits, ThreadVars
  <2>2. (strT \in [Index -> {"none", "run", "exiting"}])'
    BY <1>7 DEF StrExits, Typed
  <2> QED
    BY <1>0, <1>1, <1>2, <1>3, <2>1, <2>2, TypedFrame
    DEF Typed, CallOwned, bundleVars, procVars, pollVars
<1>8. ASSUME NEW j \in Index, NEW k \in Thread, TakeFrame(j, k) PROVE Typed'
  <2>1. UNCHANGED <<strVars, bundleVars, exits, held, returning, starts, pollVars, cb>>
    BY <1>8 DEF TakeFrame, ThreadVars
  <2>2. /\ mDataQ \in [Index -> Seq(Bufs)] /\ jobs \in [Index -> Nat]
        /\ procs \in [Index -> [Thread -> {"none", "wait", "busy", "gone"}]]
        /\ procBuf \in [Index -> [Thread -> Bufs \cup {None}]]
    BY DEF Typed
  <2>3. (jobs \in [Index -> Nat])'
    <3>1. jobs[j] \in Nat /\ jobs[j] > 0
      BY <1>8, <2>2 DEF TakeFrame
    <3> QED
      BY <1>8, <2>2, <3>1 DEF TakeFrame
  <2>4. /\ (mDataQ \in [Index -> Seq(Bufs)])'
        /\ (procs \in [Index -> [Thread -> {"none", "wait", "busy", "gone"}]])'
        /\ (procBuf \in [Index -> [Thread -> Bufs \cup {None}]])'
    <3>1. CASE mDataQ[j] = <<>>
      BY <1>8, <2>2, <3>1 DEF TakeFrame, Thread
    <3>2. CASE mDataQ[j] # <<>>
      <4>1. Head(mDataQ[j]) \in Bufs /\ Tail(mDataQ[j]) \in Seq(Bufs)
        BY <2>2, <3>2
      <4>2. /\ mDataQ' = [mDataQ EXCEPT ![j] = Tail(@)]
            /\ procs' = [procs EXCEPT ![j][k] = "busy"]
            /\ procBuf' = [procBuf EXCEPT ![j][k] = Head(mDataQ[j])]
        BY <1>8, <3>2 DEF TakeFrame
      <4>3. (mDataQ \in [Index -> Seq(Bufs)])'
        BY <2>2, <4>1, <4>2
      <4>4. (procs \in [Index -> [Thread -> {"none", "wait", "busy", "gone"}]])'
        BY <2>2, <4>2 DEF Thread
      <4>5. (procBuf \in [Index -> [Thread -> Bufs \cup {None}]])'
        BY <2>2, <4>1, <4>2 DEF Thread
      <4> QED
        BY <4>3, <4>4, <4>5
    <3> QED
      BY <3>1, <3>2
  <2> QED
    BY <1>0, <1>1, <1>2, <1>3, <2>1, <2>3, <2>4, TypedFrame
    DEF Typed, CallOwned, bundleVars, strVars, pollVars
<1>9. ASSUME NEW j \in Index, NEW k \in Thread, FrameDone(j, k) PROVE Typed'
  <2>1. UNCHANGED <<strVars, bundleVars, exits, mDataQ, jobs, returning, starts, pollVars, cb>>
    BY <1>9 DEF FrameDone, ThreadVars
  <2>2. /\ procs \in [Index -> [Thread -> {"none", "wait", "busy", "gone"}]]
        /\ procBuf \in [Index -> [Thread -> Bufs \cup {None}]]
        /\ held \subseteq Frame /\ returning \subseteq Frame /\ starts \in 0 .. MaxStarts
        /\ \A f \in held \cup returning : f.i \in Stream /\ f.start <= starts
    BY DEF Typed
  <2>3. /\ (procs \in [Index -> [Thread -> {"none", "wait", "busy", "gone"}]])'
        /\ (procBuf \in [Index -> [Thread -> Bufs \cup {None}]])'
    BY <1>9, <2>2 DEF FrameDone, Thread
  <2>4. /\ j \in Stream /\ procBuf[j][k] \in Bufs /\ starts \in Thread
    <3>1. j \in Stream
      BY <1>9 DEF FrameDone, Spare
    <3>2. procBuf[j][k] # None /\ ~(k > starts)
      BY <1>9, <3>1 DEF FrameDone, ProcInv
    <3> QED
      BY <2>2, <3>1, <3>2, StreamAssumption DEF Thread
  <2>5. Held("stream", j, procBuf[j][k]) \in Frame
    BY <2>4 DEF Held, Frame
  <2>6. Held("stream", j, procBuf[j][k]).i = j /\ Held("stream", j, procBuf[j][k]).start = starts
    BY DEF Held
  <2>7. /\ (held \subseteq Frame)'
        /\ (\A f \in held \cup returning : f.i \in Stream /\ f.start <= starts)'
    <3>1. held' \subseteq held \cup {Held("stream", j, procBuf[j][k])}
      BY <1>9 DEF FrameDone
    <3>2. held' \subseteq Frame
      BY <2>2, <2>5, <3>1
    <3>3. \A f \in held' \cup returning' : f.i \in Stream /\ f.start <= starts
      BY <2>1, <2>2, <2>4, <2>6, <3>1
    <3> QED
      BY <1>0, <2>1, <3>2, <3>3 DEF Frame, Thread
  <2> QED
    BY <1>0, <1>1, <1>2, <1>3, <2>1, <2>3, <2>7, TypedFrame
    DEF Typed, CallOwned, bundleVars, strVars, pollVars
<1>10. ASSUME NEW j \in Index, NEW k \in Thread, ProcExits(j, k) PROVE Typed'
  <2>1. UNCHANGED <<strVars, bundleVars, jobs, procBuf, held, returning, starts, pollVars, cb>>
    BY <1>10 DEF ProcExits, ThreadVars
  <2>2. /\ mDataQ \in [Index -> Seq(Bufs)] /\ exits \in [Index -> 0 .. 1]
        /\ procs \in [Index -> [Thread -> {"none", "wait", "busy", "gone"}]]
    BY DEF Typed
  <2>3. exits[j] = 1
    BY <1>10, <2>2 DEF ProcExits
  <2>4. (exits \in [Index -> 0 .. 1])'
    <3>1. exits' = [exits EXCEPT ![j] = 0]
      BY <1>10, <2>3 DEF ProcExits
    <3> QED
      BY <2>2, <3>1
  <2>5. /\ (mDataQ \in [Index -> Seq(Bufs)])'
        /\ (procs \in [Index -> [Thread -> {"none", "wait", "busy", "gone"}]])'
    BY <1>10, <2>2 DEF ProcExits, Thread
  <2> QED
    BY <1>0, <1>1, <1>2, <1>3, <2>1, <2>4, <2>5, TypedFrame
    DEF Typed, CallOwned, bundleVars, strVars, pollVars
<1>11. CASE ProcessStreamBuf \/ ServeRequest
  <2>1. UNCHANGED <<strVars, chT, cbT, procVars, held, returning, starts, pollVars, cb>>
    BY <1>11 DEF ProcessStreamBuf, ServeRequest, ThreadVars
  <2>2. chQ \in Seq(Stream \X Bufs) /\ matching \subseteq Stream \X Bufs /\ cbQ \in Seq([Stream -> Bufs])
    BY DEF Typed
  <2>3. PICK M : /\ M \subseteq Stream \X Bufs /\ (chQ \in Seq(Stream \X Bufs))'
                 /\ Unused(M) \/ SuperBuf(M) \/ Kept(M)
    <3>1. CASE ProcessStreamBuf
      <4>1. Head(chQ) \in Stream \X Bufs /\ Tail(chQ) \in Seq(Stream \X Bufs)
        BY <2>2, <3>1 DEF ProcessStreamBuf
      <4> QED
        BY <1>0, <2>2, <3>1, <4>1 DEF ProcessStreamBuf
    <3>2. CASE ServeRequest
      BY <1>0, <2>2, <3>2 DEF ServeRequest
    <3> QED
      BY <1>11, <3>1, <3>2
  <2>4. (matching \subseteq Stream \X Bufs)' /\ (cbQ \in Seq([Stream -> Bufs]))'
    <3>1. CASE Unused(M) \/ Kept(M)
      BY <1>0, <2>2, <2>3, <3>1 DEF Unused, Kept
    <3>2. CASE SuperBuf(M)
      <4>1. PICK s \in [Stream -> Buf] : matching' \subseteq M /\ cbQ' = Append(cbQ, s)
        BY <3>2 DEF SuperBuf
      <4>2. s \in [Stream -> Bufs]
        BY StreamAssumption DEF Buf
      <4> QED
        BY <1>0, <2>2, <2>3, <4>1, <4>2
    <3> QED
      BY <2>3, <3>1, <3>2
  <2> QED
    BY <1>0, <1>1, <1>2, <1>3, <2>1, <2>3, <2>4, TypedFrame
    DEF Typed, CallOwned, procVars, strVars, pollVars
<1>12. CASE CmdExits \/ CbExits
  <2>1. /\ UNCHANGED <<strVars, chQ, matching, cbQ, procVars, held, returning, starts, pollVars, cb>>
        /\ chT' \in {chT, "none"} /\ cbT' \in {cbT, "none"}
    BY <1>12 DEF CmdExits, CbExits, ThreadVars
  <2>2. (chT \in {"none", "run", "exiting"})' /\ (cbT \in {"none", "run", "exiting"})'
    BY <2>1 DEF Typed
  <2> QED
    BY <1>0, <1>1, <1>2, <1>3, <2>1, <2>2, TypedFrame
    DEF Typed, CallOwned, procVars, strVars, pollVars
<1>13. CASE DispatchSuperBuf
  <2>1. /\ UNCHANGED <<strVars, chQ, chT, matching, cbT, procVars, returning, starts, pollVars, cb>>
        /\ cbQ # <<>> /\ cbT # "none" /\ cbQ' = Tail(cbQ)
        /\ held' = held \cup {Held("super", i, Head(cbQ)[i]) : i \in Stream}
    BY <1>13 DEF DispatchSuperBuf, ThreadVars
  <2>2. cbQ \in Seq([Stream -> Bufs]) /\ Head(cbQ) \in [Stream -> Bufs]
        /\ Tail(cbQ) \in Seq([Stream -> Bufs])
    BY <2>1 DEF Typed
  <2>3. starts \in Thread
    <3>1. starts # 0 /\ starts \in 0 .. MaxStarts
      BY <2>1 DEF BundleInv, Clean, Typed
    <3> QED
      BY <3>1, StreamAssumption DEF Thread
  <2>4. \A i \in Stream : /\ Held("super", i, Head(cbQ)[i]) \in Frame
                          /\ Held("super", i, Head(cbQ)[i]).i = i
                          /\ Held("super", i, Head(cbQ)[i]).start = starts
    BY <1>0, <2>2, <2>3 DEF Held, Frame
  <2>5. /\ held \subseteq Frame /\ returning \subseteq Frame /\ starts \in Nat
        /\ \A f \in held \cup returning : f.i \in Stream /\ f.start <= starts
    BY StreamAssumption DEF Typed
  <2>6. /\ (held \subseteq Frame)'
        /\ (\A f \in held \cup returning : f.i \in Stream /\ f.start <= starts)'
    <3>1. held' \subseteq Frame
      BY <2>1, <2>4, <2>5
    <3>2. \A f \in held' \cup returning' : f.i \in Stream /\ f.start <= starts
      BY <2>1, <2>4, <2>5
    <3> QED
      BY <1>0, <2>1, <3>1, <3>2 DEF Frame, Thread
  <2>7. (cbQ \in Seq([Stream -> Bufs]))'
    BY <1>0, <2>1, <2>2
  <2> QED
    BY <1>0, <1>1, <1>2, <1>3, <2>1, <2>6, <2>7, TypedFrame
    DEF Typed, CallOwned, procVars, strVars, pollVars
<1>14. ASSUME NEW f, (f \in held /\ Qbuf(f)) \/ (f \in returning /\ QbufEnds(f)) PROVE Typed'
  <2>1. /\ UNCHANGED <<strVars, bundleVars, procVars, starts, pollVars, cb>>
        /\ held' \cup returning' \subseteq held \cup returning
    BY <1>14 DEF Qbuf, QbufEnds, ThreadVars
  <2>2. /\ (held \subseteq Frame)' /\ (returning \subseteq Frame)'
        /\ (\A g \in held \cup returning : g.i \in Stream /\ g.start <= starts)'
    <3>1. /\ held \subseteq Frame /\ returning \subseteq Frame
          /\ \A g \in held \cup returning : g.i \in Stream /\ g.start <= starts
      BY DEF Typed
    <3>2. held' \subseteq Frame /\ returning' \subseteq Frame
      BY <2>1, <3>1
    <3>3. \A g \in held' \cup returning' : g.i \in Stream /\ g.start <= starts
      BY <2>1, <3>1
    <3> QED
      BY <1>0, <2>1, <3>2, <3>3 DEF Frame, Thread
  <2> QED
    BY <1>0, <1>1, <1>2, <1>3, <2>1, <2>2, TypedFrame
    DEF Typed, CallOwned, bundleVars, procVars, strVars, pollVars
<1> QED
  BY ThreadSteps, <1>4, <1>5, <1>6, <1>7, <1>8, <1>9, <1>10, <1>11, <1>12, <1>13, <1>14

\* A buffer on its way to the HAL's thread of a stream, and in super buffers.
Flow(q, d, P, b) == b \in Elems(q) \/ b \in Elems(d) \/ \E k \in Thread : P[k] = b
OnceFlow(q, d, P) ==
    /\ Distinct(q) /\ Distinct(d) /\ Elems(q) \cap Elems(d) = {}
    /\ \A k \in Thread : /\ P[k] \notin Elems(q) \cup Elems(d)
                         /\ \A l \in Thread : P[k] # None /\ P[k] = P[l] => k = l
InSuper(c, i, b) == \E n \in DOMAIN c : c[n][i] = b
Path(q, m, c, i, b) == <<i, b>> \in Elems(q) \/ <<i, b>> \in m \/ InSuper(c, i, b)
OncePath(q, m, c, i) ==
    /\ \A k, l \in DOMAIN q : q[k] = q[l] /\ q[k][1] = i => k = l
    /\ \A k, l \in DOMAIN c : c[k][i] = c[l][i] => k = l
    /\ \A b \in Bufs : /\ <<i, b>> \in m => <<i, b>> \notin Elems(q)
                       /\ InSuper(c, i, b) => <<i, b>> \notin Elems(q) \cup m

\* A frame goes on from the stream's command thread ...
LEMMA FlowDispatch ==
  ASSUME NEW q \in Seq(Bufs), NEW d \in Seq(Bufs), NEW P, OnceFlow(q, d, P), q # <<>>
  PROVE  /\ OnceFlow(Tail(q), Append(d, Head(q)), P)
         /\ \A b \in Bufs : Flow(Tail(q), Append(d, Head(q)), P, b) <=> Flow(q, d, P, b)
<1>1. /\ Head(q) \in Bufs /\ Tail(q) \in Seq(Bufs)
      /\ Elems(q) = {Head(q)} \cup Elems(Tail(q))
      /\ Distinct(Tail(q)) /\ Head(q) \notin Elems(Tail(q))
  BY ElemsOf, DistinctOf DEF OnceFlow
<1>2. Elems(Append(d, Head(q))) = Elems(d) \cup {Head(q)} /\ Distinct(Append(d, Head(q)))
  BY <1>1, ElemsOf, DistinctOf DEF OnceFlow
<1> QED
  BY <1>1, <1>2 DEF OnceFlow, Flow

\* ... to the HAL's thread.
LEMMA FlowTake ==
  ASSUME NEW q \in Seq(Bufs), NEW d \in Seq(Bufs), NEW P \in [Thread -> Bufs \cup {None}],
         NEW k \in Thread, OnceFlow(q, d, P), d # <<>>, P[k] = None
  PROVE  /\ OnceFlow(q, Tail(d), [P EXCEPT ![k] = Head(d)])
         /\ \A b \in Bufs : Flow(q, Tail(d), [P EXCEPT ![k] = Head(d)], b) <=> Flow(q, d, P, b)
<1>1. /\ Head(d) \in Bufs /\ Tail(d) \in Seq(Bufs)
      /\ Elems(d) = {Head(d)} \cup Elems(Tail(d))
      /\ Distinct(Tail(d)) /\ Head(d) \notin Elems(Tail(d))
  BY ElemsOf, DistinctOf DEF OnceFlow
<1>2. None \notin Bufs
  BY StreamAssumption DEF None
<1> DEFINE R == [P EXCEPT ![k] = Head(d)]
<1>3. R[k] = Head(d) /\ \A l \in Thread : l # k => R[l] = P[l]
  OBVIOUS
<1> HIDE DEF R
<1>4. \A l \in Thread : R[l] \notin Elems(q) \cup Elems(Tail(d))
  BY <1>1, <1>3 DEF OnceFlow
<1>5. \A l, n \in Thread : R[l] # None /\ R[l] = R[n] => l = n
  BY <1>1, <1>3 DEF OnceFlow
<1>6. OnceFlow(q, Tail(d), R)
  BY <1>1, <1>4, <1>5 DEF OnceFlow
<1>7. \A b \in Bufs : Flow(q, Tail(d), R, b) <=> Flow(q, d, P, b)
  BY <1>1, <1>2, <1>3 DEF Flow
<1> QED
  BY <1>6, <1>7 DEF R

\* The channel's command thread takes a frame ...
LEMMA PathTake ==
  ASSUME NEW S, NEW q \in Seq(S \X Bufs), NEW m, NEW c, NEW i, OncePath(q, m, c, i), q # <<>>
  PROVE  /\ OncePath(Tail(q), m \cup {Head(q)}, c, i)
         /\ \A b \in Bufs : Path(Tail(q), m \cup {Head(q)}, c, i, b) <=> Path(q, m, c, i, b)
<1>1. Elems(q) = {Head(q)} \cup Elems(Tail(q))
  BY ElemsOf
<1>2. /\ Len(q) \in Nat \ {0} /\ DOMAIN q = 1 .. Len(q) /\ DOMAIN Tail(q) = 1 .. Len(q) - 1
      /\ Head(q) = q[1]
      /\ \A n \in 1 .. Len(q) - 1 : /\ Tail(q)[n] = q[n + 1] /\ n + 1 \in DOMAIN q
                                    /\ n + 1 # 1
      /\ 1 \in DOMAIN q
  OBVIOUS
<1>3. \A k, l \in DOMAIN Tail(q) : Tail(q)[k] = Tail(q)[l] /\ Tail(q)[k][1] = i => k = l
  <2> SUFFICES ASSUME NEW k \in 1 .. Len(q) - 1, NEW l \in 1 .. Len(q) - 1,
                      q[k + 1] = q[l + 1], q[k + 1][1] = i
               PROVE  k = l
    BY <1>2
  <2>1. k + 1 = l + 1
    BY <1>2 DEF OncePath
  <2> QED
    BY <1>2, <2>1
<1>4. \A b \in Bufs : Head(q) = <<i, b>> => <<i, b>> \notin Elems(Tail(q))
  <2> SUFFICES ASSUME NEW b \in Bufs, q[1] = <<i, b>>, NEW n \in 1 .. Len(q) - 1,
                      q[n + 1] = <<i, b>>
               PROVE  FALSE
    BY <1>2 DEF Elems
  <2>1. q[n + 1] = q[1] /\ q[n + 1][1] = i
    OBVIOUS
  <2> QED
    BY <1>2, <2>1 DEF OncePath
<1>5. \A b \in Bufs : Head(q) = <<i, b>> => <<i, b>> \notin m
  BY <1>1 DEF OncePath
<1>6. OncePath(Tail(q), m \cup {Head(q)}, c, i)
  BY <1>1, <1>3, <1>4, <1>5 DEF OncePath
<1>7. \A b \in Bufs : Path(Tail(q), m \cup {Head(q)}, c, i, b) <=> Path(q, m, c, i, b)
  BY <1>1 DEF Path
<1> QED
  BY <1>6, <1>7

\* ... and makes super buffers of them ...
LEMMA PathSuper ==
  ASSUME NEW S, NEW q, NEW m, NEW n, NEW c \in Seq([S -> Bufs]), NEW s \in [S -> Bufs], NEW i \in S,
         OncePath(q, m, c, i), <<i, s[i]>> \in m,
         \A b \in Bufs : <<i, b>> \in n <=> <<i, b>> \in m /\ b # s[i]
  PROVE  /\ OncePath(q, n, Append(c, s), i)
         /\ \A b \in Bufs : Path(q, n, Append(c, s), i, b) <=> Path(q, m, c, i, b)
<1>2. s[i] \in Bufs
  OBVIOUS
<1>3. /\ Len(c) \in Nat /\ DOMAIN c = 1 .. Len(c) /\ DOMAIN Append(c, s) = 1 .. Len(c) + 1
      /\ \A k \in 1 .. Len(c) : Append(c, s)[k] = c[k]
      /\ Append(c, s)[Len(c) + 1] = s
      /\ \A k \in 1 .. Len(c) + 1 : k \in 1 .. Len(c) \/ k = Len(c) + 1
      /\ \A k \in 1 .. Len(c) : k \in 1 .. Len(c) + 1
      /\ Len(c) + 1 \in 1 .. Len(c) + 1
  OBVIOUS
<1>4. \A b \in Bufs : InSuper(Append(c, s), i, b) <=> InSuper(c, i, b) \/ b = s[i]
  BY <1>3 DEF InSuper
<1>5. ~InSuper(c, i, s[i])
  BY <1>2 DEF OncePath
<1>6. \A k, l \in DOMAIN Append(c, s) : Append(c, s)[k][i] = Append(c, s)[l][i] => k = l
  <2>1. \A k \in 1 .. Len(c) : c[k][i] # s[i]
    BY <1>3, <1>5 DEF InSuper
  <2>2. \A k, l \in 1 .. Len(c) : c[k][i] = c[l][i] => k = l
    BY <1>3 DEF OncePath
  <2> QED
    BY <1>3, <2>1, <2>2
<1>7. OncePath(q, n, Append(c, s), i)
  BY <1>2, <1>4, <1>6 DEF OncePath
<1>8. \A b \in Bufs : Path(q, n, Append(c, s), i, b) <=> Path(q, m, c, i, b)
  BY <1>2, <1>4 DEF Path
<1> QED
  BY <1>7, <1>8

\* ... that the callback thread takes one by one.
LEMMA PathDispatch ==
  ASSUME NEW S, NEW q, NEW m, NEW c \in Seq([S -> Bufs]), NEW i \in S, OncePath(q, m, c, i),
         c # <<>>
  PROVE  /\ OncePath(q, m, Tail(c), i)
         /\ Head(c)[i] \in Bufs /\ Path(q, m, c, i, Head(c)[i])
         /\ \A b \in Bufs : Path(q, m, Tail(c), i, b) <=> Path(q, m, c, i, b) /\ b # Head(c)[i]
<1>1. /\ Len(c) \in Nat \ {0} /\ DOMAIN c = 1 .. Len(c) /\ DOMAIN Tail(c) = 1 .. Len(c) - 1
      /\ Head(c) = c[1] /\ Head(c) \in [S -> Bufs]
      /\ \A n \in 1 .. Len(c) - 1 : /\ Tail(c)[n] = c[n + 1] /\ n + 1 \in 1 .. Len(c)
                                    /\ n + 1 # 1
      /\ 1 \in 1 .. Len(c)
      /\ \A n \in 1 .. Len(c) : n = 1 \/ (n - 1 \in 1 .. Len(c) - 1 /\ Tail(c)[n - 1] = c[n])
  OBVIOUS
<1>2. Head(c)[i] \in Bufs /\ InSuper(c, i, Head(c)[i])
  BY <1>1 DEF InSuper
<1>3. \A n \in 1 .. Len(c) - 1 : Tail(c)[n][i] # Head(c)[i]
  BY <1>1 DEF OncePath
<1>4. \A b \in Bufs : InSuper(Tail(c), i, b) <=> InSuper(c, i, b) /\ b # Head(c)[i]
  <2>1. ASSUME NEW b, NEW n \in 1 .. Len(c) - 1, Tail(c)[n][i] = b
        PROVE  InSuper(c, i, b) /\ b # Head(c)[i]
    <3>1. n + 1 \in DOMAIN c /\ c[n + 1][i] = b
      BY <1>1, <2>1
    <3> QED
      BY <1>3, <2>1, <3>1 DEF InSuper
  <2>2. ASSUME NEW b, b # Head(c)[i], NEW n \in 1 .. Len(c), c[n][i] = b
        PROVE  InSuper(Tail(c), i, b)
    <3>1. n # 1
      BY <1>1, <2>2
    <3>2. n - 1 \in DOMAIN Tail(c) /\ Tail(c)[n - 1][i] = b
      BY <1>1, <2>2, <3>1
    <3> QED
      BY <3>2 DEF InSuper
  <2> QED
    BY <1>1, <2>1, <2>2 DEF InSuper
<1>5. \A k, l \in DOMAIN Tail(c) : Tail(c)[k][i] = Tail(c)[l][i] => k = l
  <2> SUFFICES ASSUME NEW k \in 1 .. Len(c) - 1, NEW l \in 1 .. Len(c) - 1,
                      c[k + 1][i] = c[l + 1][i]
               PROVE  k = l
    BY <1>1
  <2>1. k + 1 = l + 1
    BY <1>1 DEF OncePath
  <2> QED
    BY <2>1
<1>6. OncePath(q, m, Tail(c), i)
  BY <1>4, <1>5 DEF OncePath
<1>7. \A b \in Bufs : Path(q, m, Tail(c), i, b) <=> Path(q, m, c, i, b) /\ b # Head(c)[i]
  BY <1>2, <1>4 DEF Path, OncePath
<1> QED
  BY <1>2, <1>6, <1>7 DEF Path

\* A frame that is in no super buffer is queued for the channel's command thread.
LEMMA PathQueue ==
  ASSUME NEW S, NEW q \in Seq(S \X Bufs), NEW m, NEW c, NEW i, NEW j \in S, NEW b \in Bufs,
         OncePath(q, m, c, i), i = j => ~Path(q, m, c, i, b)
  PROVE  /\ OncePath(Append(q, <<j, b>>), m, c, i)
         /\ \A d \in Bufs : Path(Append(q, <<j, b>>), m, c, i, d)
                            <=> Path(q, m, c, i, d) \/ (i = j /\ d = b)
<1>1. <<j, b>> \in S \X Bufs
  OBVIOUS
<1>2. Elems(Append(q, <<j, b>>)) = Elems(q) \cup {<<j, b>>}
  BY <1>1, ElemsOf
<1>3. /\ Len(q) \in Nat /\ DOMAIN q = 1 .. Len(q)
      /\ DOMAIN Append(q, <<j, b>>) = 1 .. Len(q) + 1
      /\ \A k \in 1 .. Len(q) : Append(q, <<j, b>>)[k] = q[k]
      /\ Append(q, <<j, b>>)[Len(q) + 1] = <<j, b>>
      /\ \A k \in 1 .. Len(q) + 1 : k \in 1 .. Len(q) \/ k = Len(q) + 1
  BY <1>1
<1>4. i = j => \A k \in 1 .. Len(q) : q[k] # <<j, b>>
  BY <1>3 DEF Path, Elems
<1>5. \A k, l \in DOMAIN Append(q, <<j, b>>) :
         Append(q, <<j, b>>)[k] = Append(q, <<j, b>>)[l] /\ Append(q, <<j, b>>)[k][1] = i => k = l
  <2>1. \A k, l \in 1 .. Len(q) : q[k] = q[l] /\ q[k][1] = i => k = l
    BY <1>3 DEF OncePath
  <2>2. <<j, b>>[1] = j
    OBVIOUS
  <2> QED
    BY <1>3, <1>4, <2>1, <2>2
<1>6. OncePath(Append(q, <<j, b>>), m, c, i)
  BY <1>2, <1>5 DEF OncePath, Path
<1>7. \A d \in Bufs : Path(Append(q, <<j, b>>), m, c, i, d)
                      <=> Path(q, m, c, i, d) \/ (i = j /\ d = b)
  BY <1>2 DEF Path
<1> QED
  BY <1>6, <1>7

\* How a stream's buffers are accounted for.
Counts(i) ==
    \A b \in Buf : /\ BeingQueued(i, b) => ~InStream(i, b) /\ ~InBundle(i, b)
                   /\ buf_refcnt[i][b] = Holders(i, b)
                   /\ b \in kernel[i] <=> buf_refcnt[i][b] = 0
Counted(i) == OnceInStream(i) /\ OnceInBundle(i) /\ Counts(i)

\* Whoever has a frame of a path keeps it, if only to return it.
SameHeld(path, i) ==
    /\ UNCHANGED starts
    /\ \A b \in Bufs :
          /\ Held(path, i, b) \in held' \cup returning' <=> Held(path, i, b) \in held \cup returning
          /\ Held(path, i, b) \in held' \cap returning' => Held(path, i, b) \in held \cap returning
SameInStream(i) == \A b \in Bufs : InStream(i, b)' <=> InStream(i, b)
SameInBundle(i) == \A b \in Bufs : InBundle(i, b)' <=> InBundle(i, b)

\* A frame may change its place on the way to the HAL's thread ...
LEMMA StreamMoves ==
  ASSUME NEW i \in Stream, OnceInStream(i), SameHeld("stream", i),
         OnceFlow(strQ'[i], mDataQ'[i], procBuf'[i]),
         \A b \in Bufs : Flow(strQ'[i], mDataQ'[i], procBuf'[i], b)
                         <=> Flow(strQ[i], mDataQ[i], procBuf[i], b)
  PROVE  OnceInStream(i)' /\ SameInStream(i)
<1>1. \A b \in Bufs : Held("stream", i, b)' = Held("stream", i, b)
  BY DEF Held, SameHeld
<1>2. \A b \in Bufs : HeldNow("stream", i, b)' <=> HeldNow("stream", i, b)
  BY <1>1 DEF HeldNow, SameHeld
<1>3. SameInStream(i)
  BY <1>2 DEF SameInStream, InStream, Flow
<1>4. \A b \in Bufs : HeldNow("stream", i, b) => ~Flow(strQ[i], mDataQ[i], procBuf[i], b)
  BY DEF OnceInStream, Flow
<1>5. \A b \in Bufs : HeldNow("stream", i, b) => Held("stream", i, b)' \notin held' \cap returning'
  BY <1>1 DEF OnceInStream, SameHeld
<1>6. \A b \in Bufs : HeldNow("stream", i, b)' => ~Flow(strQ'[i], mDataQ'[i], procBuf'[i], b)
  BY <1>2, <1>4
<1>7. OnceInStream(i)'
  BY <1>2, <1>5, <1>6 DEF OnceInStream, OnceFlow, Flow
<1> QED
  BY <1>3, <1>7

\* ... and on the way through the super buffers.
LEMMA BundleMoves ==
  ASSUME NEW i \in Stream, OnceInBundle(i), SameHeld("super", i),
         OncePath(chQ', matching', cbQ', i),
         \A b \in Bufs : Path(chQ', matching', cbQ', i, b) <=> Path(chQ, matching, cbQ, i, b)
  PROVE  OnceInBundle(i)' /\ SameInBundle(i)
<1>1. \A b \in Bufs : Held("super", i, b)' = Held("super", i, b)
  BY DEF Held, SameHeld
<1>2. \A b \in Bufs : HeldNow("super", i, b)' <=> HeldNow("super", i, b)
  BY <1>1 DEF HeldNow, SameHeld
<1>3. SameInBundle(i)
  BY <1>2 DEF SameInBundle, InBundle, Path, InSuper
<1>4. \A b \in Bufs : HeldNow("super", i, b) => ~Path(chQ, matching, cbQ, i, b)
  BY DEF OnceInBundle, Path, InSuper, InCbQ
<1>5. \A b \in Bufs : HeldNow("super", i, b) => Held("super", i, b)' \notin held' \cap returning'
  BY <1>1 DEF OnceInBundle, SameHeld
<1>6. \A b \in Bufs : HeldNow("super", i, b)' => ~Path(chQ', matching', cbQ', i, b)
  BY <1>2, <1>4
<1>7. OnceInBundle(i)'
  BY <1>2, <1>5, <1>6 DEF OnceInBundle, OncePath, Path, InSuper, InCbQ
<1> QED
  BY <1>3, <1>7

\* Each frame is at one place of each way.
LEMMA Once ==
  ASSUME NEW i \in Stream
  PROVE  /\ OnceInStream(i) => OnceFlow(strQ[i], mDataQ[i], procBuf[i])
         /\ OnceInBundle(i) => OncePath(chQ, matching, cbQ, i)
BY DEF OnceInStream, OnceInBundle, OnceFlow, OncePath, InSuper, InCbQ

\* The places unchanged, or a frame moved.
LEMMA StreamStays ==
  ASSUME NEW i \in Stream, OnceInStream(i), SameHeld("stream", i),
         strQ'[i] = strQ[i], mDataQ'[i] = mDataQ[i], procBuf'[i] = procBuf[i]
  PROVE  OnceInStream(i)' /\ SameInStream(i)
BY StreamMoves, Once

\* The same of the way to the super buffers.
LEMMA BundlePathStays ==
  ASSUME NEW i \in Stream, OnceInBundle(i), SameHeld("super", i),
         chQ' = chQ, matching' = matching, cbQ' = cbQ
  PROVE  OnceInBundle(i)' /\ SameInBundle(i)
BY BundleMoves, Once

\* The poll thread is queueing the same frame of the stream as before, if any.
SameQueued(i) == \A b \in Bufs : BeingQueued(i, b)' <=> BeingQueued(i, b)

\* The count of a stream's buffers is of those that have them, and stays right as long as
\* neither changes ...
LEMMA CountsStay ==
  ASSUME NEW i \in Stream, Counts(i), UNCHANGED kind, SameQueued(i), SameInStream(i),
         SameInBundle(i), buf_refcnt'[i] = buf_refcnt[i], kernel'[i] = kernel[i]
  PROVE  Counts(i)'
<1>1. Buf' = Buf /\ Buf \subseteq Bufs /\ References' = References
  BY StreamAssumption DEF Buf, Bundled, References
<1>2. \A b \in Bufs : Holders(i, b)' = Holders(i, b)
  BY <1>1 DEF Holders, SameQueued, SameInStream, SameInBundle
<1> QED
  BY <1>1, <1>2 DEF Counts, SameQueued, SameInStream, SameInBundle

\* ... or a buffer leaves one of its two ways and gives up a reference.
LEMMA CountsDone ==
  ASSUME NEW i \in Stream, NEW b \in Bufs, Typed, Counts(i), OwnInv(i), UNCHANGED kind,
         SameQueued(i), BufDone(i, b),
         \A c \in Bufs \ {b} : /\ InStream(i, c)' <=> InStream(i, c)
                               /\ InBundle(i, c)' <=> InBundle(i, c),
         \/ InStream(i, b) /\ ~InStream(i, b)' /\ (InBundle(i, b)' <=> InBundle(i, b))
         \/ InBundle(i, b) /\ ~InBundle(i, b)' /\ (InStream(i, b)' <=> InStream(i, b))
  PROVE  Counts(i)'
<1>0. /\ Buf' = Buf /\ Buf \subseteq Bufs /\ References' = References /\ i \in Index
      /\ buf_refcnt \in [Index -> [Bufs -> 0 .. 2]] /\ kernel \in [Index -> SUBSET Bufs]
  BY StreamAssumption, Streams DEF Buf, Bundled, References, Typed
<1>1. \A c \in Bufs \ {b} : Holders(i, c)' = Holders(i, c)
  BY <1>0 DEF Holders, SameQueued
<1>2. \A c \in Bufs \ {b} : /\ buf_refcnt'[i][c] = buf_refcnt[i][c]
                            /\ c \in kernel'[i] <=> c \in kernel[i]
  BY <1>0 DEF BufDone
<1>3. ASSUME b \in Buf
      PROVE  /\ ~BeingQueued(i, b)' /\ buf_refcnt'[i][b] = Holders(i, b)'
             /\ b \in kernel'[i] <=> buf_refcnt'[i][b] = 0
  <2>1. ~BeingQueued(i, b) /\ ~BeingQueued(i, b)'
    BY <1>3 DEF Counts, SameQueued
  <2>2. buf_refcnt[i][b] = Holders(i, b) /\ (b \in kernel[i] <=> buf_refcnt[i][b] = 0)
    BY <1>3 DEF Counts
  <2>3. Holders(i, b) \in {1, 2} /\ Holders(i, b)' = Holders(i, b) - 1
    BY <2>1 DEF Holders
  <2>4. /\ buf_refcnt'[i][b] = buf_refcnt[i][b] - 1
        /\ b \in kernel'[i] <=> b \in kernel[i] \/ buf_refcnt[i][b] = 1
    BY <1>0, <2>2, <2>3 DEF BufDone
  <2> QED
    BY <2>1, <2>2, <2>3, <2>4
<1> QED
  BY <1>0, <1>1, <1>2, <1>3 DEF Counts, SameQueued

\* The poll thread takes a buffer from the kernel and puts it on both of its ways.
LEMMA PollCounted ==
  ASSUME Typed, CbInv, NEW i \in Stream, Counted(i), OwnInv(i), PollThreadSteps
  PROVE  Counted(i)'
<1>0. /\ i \in Index /\ Buf \subseteq Bufs /\ kind \in Kinds /\ poll_fds \subseteq Stream
      /\ UNCHANGED <<kind, starts, held, returning, mDataQ, procBuf, matching, cbQ>>
      /\ SameHeld("stream", i) /\ SameHeld("super", i)
      /\ buf_refcnt \in [Index -> [Bufs -> 0 .. 2]] /\ kernel \in [Index -> SUBSET Bufs]
      /\ strQ \in [Index -> Seq(Bufs)]
      /\ cb \in [i : Stream \cup {None}, b : Bufs \cup {None}]
      /\ OnceInStream(i) /\ OnceInBundle(i) /\ Counts(i)
  BY Streams, StreamAssumption
  DEF Typed, PollThreadSteps, Poll, CallStream, CheckState, ReadFrame, QueueFrame, CbVars,
      procVars, bundleVars, SameHeld, Counted, Buf
<1>1. ASSUME UNCHANGED <<strQ, chQ>>
      PROVE  OnceInStream(i)' /\ OnceInBundle(i)' /\ SameInStream(i) /\ SameInBundle(i)
  BY <1>0, <1>1, StreamStays, BundlePathStays
<1>2. CASE Poll \/ CallStream \/ CheckState
  <2>1. UNCHANGED <<strQ, chQ, buf_refcnt, kernel>>
    BY <1>2 DEF Poll, CallStream, CheckState, strVars, bundleVars, bufVars
  <2>2. poll_pc # "queue" /\ poll_pc' # "queue"
    BY <1>2
    DEF Poll, PollLoop, PollStarts, PollEnters, PollCommand, ScanEnds, PollData, CallStream, Scan,
        CheckState, PollAt, PollGoto
  <2>3. SameQueued(i)
    BY <2>2 DEF SameQueued, BeingQueued, PollAt
  <2> QED
    BY <1>0, <1>1, <2>1, <2>3, CountsStay DEF Counted
<1>3. CASE ReadFrame
  <2>1. UNCHANGED <<strQ, chQ>> /\ cb.i \in Stream /\ poll_pc # "queue"
    BY <1>0, <1>3 DEF ReadFrame, strVars, bundleVars, PollAt, CbInv
  <2>2. CASE kernel[cb.i] = {} \/ cb.i # i
    <3>1. buf_refcnt'[i] = buf_refcnt[i] /\ kernel'[i] = kernel[i]
      BY <1>0, <1>3, <2>2 DEF ReadFrame
    <3>2. SameQueued(i)
      BY <1>3, <2>1, <2>2, <1>0 DEF ReadFrame, SameQueued, BeingQueued, PollAt, PollGoto
    <3> QED
      BY <1>0, <1>1, <2>1, <3>1, <3>2, CountsStay DEF Counted
  <2>3. CASE kernel[cb.i] # {} /\ cb.i = i
    <3>1. PICK b \in kernel[i] :
             /\ kernel' = [kernel EXCEPT ![i] = @ \ {b}]
             /\ buf_refcnt' = [buf_refcnt EXCEPT ![i][b] = @ + References]
             /\ cb' = [cb EXCEPT !.b = b]
             /\ PollGoto("queue")
      BY <1>3, <2>3 DEF ReadFrame
    <3>2. b \in Buf /\ b \in Bufs
      BY <1>0, <3>1 DEF OwnInv
    <3>3. buf_refcnt[i][b] = 0 /\ ~InStream(i, b) /\ ~InBundle(i, b)
      BY <3>1, <3>2, <1>0 DEF Counts, Holders, References
    <3>4. \A c \in Bufs : /\ BeingQueued(i, c)' <=> c = b
                          /\ ~BeingQueued(i, c)
      BY <1>0, <2>1, <2>3, <3>1 DEF BeingQueued, PollAt, PollGoto
    <3>5. /\ buf_refcnt'[i][b] = References /\ References \in {1, 2}
          /\ \A c \in Bufs \ {b} : buf_refcnt'[i][c] = buf_refcnt[i][c]
          /\ kernel'[i] = kernel[i] \ {b}
      BY <1>0, <3>1, <3>2, <3>3 DEF References
    <3>6. Buf' = Buf /\ References' = References
      BY <1>0 DEF Buf, Bundled, References
    <3>7. \A c \in Bufs \ {b} : Holders(i, c)' = Holders(i, c)
      BY <1>1, <2>1, <3>4 DEF Holders, SameInStream, SameInBundle
    <3>8. Holders(i, b)' = References
      BY <3>2, <3>4, <3>6 DEF Holders
    <3>9. ~InStream(i, b)' /\ ~InBundle(i, b)'
      BY <1>1, <2>1, <3>2, <3>3 DEF SameInStream, SameInBundle
    <3>10. Counts(i)'
      BY <1>0, <3>2, <3>4, <3>5, <3>6, <3>7, <3>8, <3>9 DEF Counts
    <3> QED
      BY <1>1, <2>1, <3>10 DEF Counted
  <2> QED
    BY <2>2, <2>3
<1>4. CASE QueueFrame
  <2>1. /\ poll_pc = "queue" /\ poll_pc' = "scan" /\ UNCHANGED <<buf_refcnt, kernel>>
        /\ chQ' = IF Bundled THEN Append(chQ, <<cb.i, cb.b>>) ELSE chQ
        /\ strQ' = [strQ EXCEPT ![cb.i] = Append(@, cb.b)]
        /\ chQ \in Seq(Stream \X Bufs)
    BY <1>4 DEF QueueFrame, PollAt, PollGoto, bufVars, Typed
  <2>2. cb.i \in Stream /\ cb.b \in Buf /\ cb.b \in Bufs
    BY <1>0, <2>1 DEF CbInv
  <2>3. /\ \A c \in Bufs : BeingQueued(i, c) <=> cb.i = i /\ c = cb.b
        /\ \A c \in Bufs : ~BeingQueued(i, c)'
    <3>1. cb = [i |-> cb.i, b |-> cb.b]
      BY <1>0
    <3> QED
      BY <2>1, <3>1 DEF BeingQueued, PollAt
  <2>4. cb.i = i => ~InStream(i, cb.b) /\ ~InBundle(i, cb.b)
    BY <1>0, <2>2, <2>3 DEF Counts
  <2>5. /\ OnceInBundle(i)'
        /\ \A c \in Bufs : InBundle(i, c)' <=> InBundle(i, c) \/ (Bundled /\ cb.i = i /\ c = cb.b)
    <3>1. CASE ~Bundled
      BY <1>0, <2>1, <3>1, BundlePathStays DEF SameInBundle
    <3>2. CASE Bundled
      <4>1. OncePath(chQ, matching, cbQ, i)
        BY <1>0, Once
      <4>2. cb.i = i => ~Path(chQ, matching, cbQ, i, cb.b)
        BY <2>4 DEF InBundle, Path, InSuper
      <4>3. PICK S : S = Stream
        OBVIOUS
      <4>4. /\ OncePath(Append(chQ, <<cb.i, cb.b>>), matching, cbQ, i)
            /\ \A d \in Bufs : Path(Append(chQ, <<cb.i, cb.b>>), matching, cbQ, i, d)
                               <=> Path(chQ, matching, cbQ, i, d) \/ (i = cb.i /\ d = cb.b)
        BY <2>1, <2>2, <4>1, <4>2, <4>3, PathQueue
      <4>5. /\ OncePath(chQ', matching', cbQ', i)
            /\ \A d \in Bufs : Path(chQ', matching', cbQ', i, d)
                               <=> Path(chQ, matching, cbQ, i, d) \/ (i = cb.i /\ d = cb.b)
        BY <1>0, <2>1, <3>2, <4>4
      <4>6. \A c \in Bufs : HeldNow("super", i, c)' <=> HeldNow("super", i, c)
        BY <1>0 DEF HeldNow, Held
      <4>7. \A c \in Bufs : /\ HeldNow("super", i, c) => ~Path(chQ, matching, cbQ, i, c)
                            /\ HeldNow("super", i, c) => ~(i = cb.i /\ c = cb.b)
        BY <1>0, <2>4 DEF OnceInBundle, Path, InSuper, InCbQ, InBundle
      <4>8. \A c \in Bufs : HeldNow("super", i, c)' =>
                               /\ ~Path(chQ', matching', cbQ', i, c)
                               /\ (Held("super", i, c) \notin held \cap returning)'
        <5>1. \A c \in Bufs : HeldNow("super", i, c) => Held("super", i, c) \notin held \cap returning
          BY <1>0 DEF OnceInBundle
        <5>2. \A c : Held("super", i, c)' = Held("super", i, c)
          BY <1>0 DEF Held
        <5> QED
          BY <1>0, <4>5, <4>6, <4>7, <5>1, <5>2
      <4>9. OnceInBundle(i)'
        BY <4>5, <4>8 DEF OnceInBundle, OncePath, Path, InSuper, InCbQ
      <4> QED
        BY <3>2, <4>5, <4>6, <4>9 DEF InBundle, Path, InSuper
    <3> QED
      BY <3>1, <3>2
  <2>6. /\ OnceInStream(i)'
        /\ \A c \in Bufs : InStream(i, c)' <=> InStream(i, c) \/ (cb.i = i /\ c = cb.b)
    <3>1. CASE cb.i # i
      BY <1>0, <2>1, <3>1, StreamStays DEF SameInStream
    <3>2. CASE cb.i = i
      <4>1. strQ'[i] = Append(strQ[i], cb.b) /\ strQ[i] \in Seq(Bufs)
        BY <1>0, <2>1, <3>2
      <4>2. cb.b \notin Elems(strQ[i]) \cup Elems(mDataQ[i]) /\ \A k \in Thread : procBuf[i][k] # cb.b
        BY <2>4, <3>2 DEF InStream
      <4>3. Elems(strQ'[i]) = Elems(strQ[i]) \cup {cb.b}
        BY <2>2, <4>1, ElemsOf
      <4>4. Distinct(strQ'[i])
        BY <1>0, <2>2, <4>1, <4>2, DistinctOf DEF OnceInStream
      <4>5. \A c \in Bufs : HeldNow("stream", i, c)' <=> HeldNow("stream", i, c)
        BY <1>0 DEF HeldNow, Held
      <4>6. \A c : Held("stream", i, c)' = Held("stream", i, c)
        BY <1>0 DEF Held
      <4>7. ~HeldNow("stream", i, cb.b)
        BY <2>4, <3>2 DEF InStream
      <4>8. OnceInStream(i)'
        BY <1>0, <4>2, <4>3, <4>4, <4>5, <4>6, <4>7 DEF OnceInStream
      <4> QED
        BY <1>0, <3>2, <4>3, <4>5, <4>8 DEF InStream
    <3> QED
      BY <3>1, <3>2
  <2>7. Buf' = Buf /\ References' = References
    BY <1>0 DEF Buf, Bundled, References
  <2>8. \A c \in Bufs : Holders(i, c)' = Holders(i, c)
    <3>1. ASSUME NEW c \in Bufs, cb.i = i, c = cb.b PROVE Holders(i, c)' = Holders(i, c)
      BY <2>3, <2>4, <2>5, <2>6, <3>1 DEF Holders, References
    <3>2. ASSUME NEW c \in Bufs, ~(cb.i = i /\ c = cb.b) PROVE Holders(i, c)' = Holders(i, c)
      BY <2>3, <2>5, <2>6, <3>2 DEF Holders
    <3> QED
      BY <3>1, <3>2
  <2>9. Counts(i)'
    BY <1>0, <2>1, <2>3, <2>7, <2>8 DEF Counts
  <2> QED
    BY <2>5, <2>6, <2>9 DEF Counted
<1> QED
  BY <1>2, <1>3, <1>4 DEF PollThreadSteps

\* The stream's own command thread and the HAL's threads pass the frame on.
LEMMA StreamCounted ==
  ASSUME Typed, CallInv, NEW i \in Stream, InState(i, "ACTIVE"), StateInv(i), ProcInv(i),
         Counted(i), UNCHANGED <<pollVars, cb>>,
         NEW j \in Index,
         \/ DispatchAppData(j) \/ StrExits(j)
         \/ \E k \in Thread : TakeFrame(j, k) \/ FrameDone(j, k) \/ ProcExits(j, k)
  PROVE  Counted(i)'
<1>0. /\ i \in Index
      /\ UNCHANGED <<kind, starts, returning, chQ, matching, cbQ, buf_refcnt, kernel>>
      /\ SameHeld("super", i) /\ SameQueued(i)
      /\ OnceInStream(i) /\ OnceInBundle(i) /\ Counts(i)
      /\ strQ \in [Index -> Seq(Bufs)] /\ mDataQ \in [Index -> Seq(Bufs)]
      /\ procs \in [Index -> [Thread -> {"none", "wait", "busy", "gone"}]]
      /\ procBuf \in [Index -> [Thread -> Bufs \cup {None}]]
  <2>1. UNCHANGED <<kind, starts, returning, chQ, matching, cbQ, buf_refcnt, kernel>>
    BY DEF DispatchAppData, StrExits, TakeFrame, FrameDone, ProcExits, ThreadVars, bundleVars,
       bufVars
  <2>2. \A b : Held("super", i, b) \in held' <=> Held("super", i, b) \in held
    BY DEF DispatchAppData, StrExits, TakeFrame, FrameDone, ProcExits, Held
  <2>3. SameHeld("super", i)
    BY <2>1, <2>2 DEF SameHeld
  <2>4. SameQueued(i)
    BY DEF SameQueued, BeingQueued, PollAt, pollVars
  <2> QED
    BY <2>1, <2>3, <2>4, Streams DEF Typed, Counted
<1>1. OnceInBundle(i)' /\ SameInBundle(i)
  BY <1>0, BundlePathStays
<1>2. ASSUME OnceInStream(i)', SameInStream(i) PROVE Counted(i)'
  BY <1>0, <1>1, <1>2, CountsStay DEF Counted
<1>3. OnceFlow(strQ[i], mDataQ[i], procBuf[i])
  BY <1>0, Once
<1>4. CASE DispatchAppData(j)
  <2>1. SameHeld("stream", i) /\ procBuf' = procBuf
    BY <1>0, <1>4 DEF DispatchAppData, SameHeld
  <2>2. CASE j # i
    <3>1. strQ'[i] = strQ[i] /\ mDataQ'[i] = mDataQ[i]
      BY <1>0, <1>4, <2>2 DEF DispatchAppData
    <3> QED
      BY <1>0, <1>2, <2>1, <3>1, StreamStays
  <2>3. CASE j = i
    <3>1. /\ strQ[i] # <<>> /\ strQ'[i] = Tail(strQ[i])
          /\ mDataQ'[i] = Append(mDataQ[i], Head(strQ[i]))
          /\ strQ[i] \in Seq(Bufs) /\ mDataQ[i] \in Seq(Bufs)
      BY <1>0, <1>4, <2>3 DEF DispatchAppData
    <3>2. /\ OnceFlow(strQ'[i], mDataQ'[i], procBuf'[i])
          /\ \A b \in Bufs : Flow(strQ'[i], mDataQ'[i], procBuf'[i], b)
                             <=> Flow(strQ[i], mDataQ[i], procBuf[i], b)
      BY <1>3, <2>1, <3>1, FlowDispatch
    <3> QED
      BY <1>0, <1>2, <2>1, <3>2, StreamMoves
  <2> QED
    BY <2>2, <2>3
<1>5. CASE StrExits(j)
  <2>1. SameHeld("stream", i) /\ UNCHANGED <<procBuf, strQ, mDataQ>>
    BY <1>0, <1>5 DEF StrExits, SameHeld, procVars
  <2> QED
    BY <1>0, <1>2, <2>1, StreamStays
<1>6. ASSUME NEW k \in Thread, TakeFrame(j, k) PROVE Counted(i)'
  <2>1. SameHeld("stream", i) /\ strQ' = strQ
    BY <1>0, <1>6 DEF TakeFrame, SameHeld, strVars
  <2>2. CASE j # i \/ mDataQ[i] = <<>>
    <3>1. procBuf'[i] = procBuf[i] /\ mDataQ'[i] = mDataQ[i]
      BY <1>0, <1>6, <2>2 DEF TakeFrame
    <3> QED
      BY <1>0, <1>2, <2>1, <3>1, StreamStays
  <2>3. CASE j = i /\ mDataQ[i] # <<>>
    <3>1. /\ mDataQ'[i] = Tail(mDataQ[i])
          /\ procBuf'[i] = [procBuf[i] EXCEPT ![k] = Head(mDataQ[i])]
          /\ strQ[i] \in Seq(Bufs) /\ mDataQ[i] \in Seq(Bufs)
          /\ procBuf[i] \in [Thread -> Bufs \cup {None}]
      BY <1>0, <1>6, <2>3 DEF TakeFrame
    <3>2. procBuf[i][k] = None
      BY <1>6, <2>3 DEF TakeFrame, ProcInv
    <3>3. /\ OnceFlow(strQ'[i], mDataQ'[i], procBuf'[i])
          /\ \A b \in Bufs : Flow(strQ'[i], mDataQ'[i], procBuf'[i], b)
                             <=> Flow(strQ[i], mDataQ[i], procBuf[i], b)
      BY <1>3, <2>1, <2>3, <3>1, <3>2, FlowTake
    <3> QED
      BY <1>0, <1>2, <2>1, <3>3, StreamMoves
  <2> QED
    BY <2>2, <2>3
<1>7. ASSUME NEW k \in Thread, FrameDone(j, k) PROVE Counted(i)'
  <2>1. UNCHANGED <<strQ, mDataQ>> /\ procBuf' = [procBuf EXCEPT ![j][k] = None]
    BY <1>7 DEF FrameDone, strVars
  <2>2. CASE j # i
    <3>1. procBuf'[i] = procBuf[i]
      BY <1>0, <2>1, <2>2
    <3>2. \A b : Held("stream", i, b) \in held' <=> Held("stream", i, b) \in held
      BY <1>7, <2>2 DEF FrameDone, Held
    <3>3. SameHeld("stream", i)
      BY <1>0, <3>2 DEF SameHeld
    <3> QED
      BY <1>0, <1>2, <2>1, <3>1, <3>3, StreamStays
  <2>3. CASE j = i
    <3> DEFINE b == procBuf[i][k]
    <3>1. i \in allocated
      BY ActiveNow
    <3>2. held' = held \cup {Held("stream", i, b)}
      BY <1>7, <2>3, <3>1 DEF FrameDone
    <3>3. /\ b \in Bufs /\ b # None
          /\ procBuf'[i][k] = None /\ \A l \in Thread : l # k => procBuf'[i][l] = procBuf[i][l]
      BY <1>0, <1>7, <2>1, <2>3 DEF FrameDone, ProcInv
    <3>4. \A c \in Bufs : Held("stream", i, c)' = Held("stream", i, c)
      BY <1>0 DEF Held
    <3>5. \A c \in Bufs : Held("stream", i, c) = Held("stream", i, b) <=> c = b
      BY DEF Held
    <3> HIDE DEF b
    <3>6. \A c \in Bufs : HeldNow("stream", i, c)' <=> HeldNow("stream", i, c) \/ c = b
      BY <1>0, <3>2, <3>4, <3>5 DEF HeldNow
    <3>7. /\ b \notin Elems(strQ[i]) \cup Elems(mDataQ[i]) /\ ~HeldNow("stream", i, b)
          /\ \A l \in Thread : procBuf[i][l] = b => l = k
      BY <1>0, <3>3 DEF OnceInStream, b
    <3>8. \A c \in Bufs : Held("stream", i, c)' \in held' \cap returning'
                          => Held("stream", i, c) \in held \cap returning
      BY <1>0, <3>2, <3>4, <3>5, <3>7 DEF HeldNow
    <3>9. None \notin Elems(strQ[i]) \cup Elems(mDataQ[i]) /\ None \notin Bufs
      <4>1. None \notin Bufs
        BY StreamAssumption DEF None
      <4>2. Elems(strQ[i]) \subseteq Bufs /\ Elems(mDataQ[i]) \subseteq Bufs
        BY <1>0, ElemsOf
      <4> QED
        BY <4>1, <4>2
    <3>10. \A c \in Bufs : HeldNow("stream", i, c)' =>
              /\ c \notin Elems(strQ[i]) \cup Elems(mDataQ[i])
              /\ \A l \in Thread : procBuf'[i][l] # c
      BY <1>0, <3>3, <3>6, <3>7, <3>9 DEF OnceInStream
    <3>11. \A l \in Thread :
              /\ procBuf'[i][l] \notin Elems(strQ[i]) \cup Elems(mDataQ[i])
              /\ \A m \in Thread : procBuf'[i][l] # None /\ procBuf'[i][l] = procBuf'[i][m] => l = m
      BY <1>0, <3>3, <3>9 DEF OnceInStream
    <3>12. OnceInStream(i)'
      <4>1. \A c \in Bufs : Held("stream", i, c) \notin held \cap returning
        BY <1>0 DEF OnceInStream, HeldNow
      <4>2. \A c \in Bufs : Held("stream", i, c)' \notin held' \cap returning'
        BY <3>8, <4>1
      <4> QED
        BY <1>0, <2>1, <3>10, <3>11, <4>2 DEF OnceInStream
    <3>13. SameInStream(i)
      <4>1. \A c \in Bufs : (\E l \in Thread : procBuf[i][l] = c)
                            <=> (c = b \/ \E l \in Thread : procBuf'[i][l] = c)
        BY <3>3, <3>7, <3>9 DEF b
      <4> QED
        BY <2>1, <3>6, <4>1 DEF SameInStream, InStream
    <3> QED
      BY <1>2, <3>12, <3>13
  <2> QED
    BY <2>2, <2>3
<1>8. ASSUME NEW k \in Thread, ProcExits(j, k) PROVE Counted(i)'
  <2>1. j # i
    <3>1. exits[i] > 0 => Here(i, {"joinproc"})
      BY DEF ProcInv
    <3>2. ~Here(i, {"joinproc"})
      BY ActiveNow, CallFacts DEF Here, Typed, CallInv, StopPcs, Idle
    <3> QED
      BY <1>8, <3>1, <3>2 DEF ProcExits
  <2>2. SameHeld("stream", i) /\ strQ'[i] = strQ[i] /\ mDataQ'[i] = mDataQ[i] /\ procBuf'[i] = procBuf[i]
    BY <1>0, <1>8, <2>1 DEF ProcExits, SameHeld, strVars
  <2> QED
    BY <1>0, <1>2, <2>2, StreamStays
<1> QED
  BY <1>4, <1>5, <1>6, <1>7, <1>8

\* The threads of the bundle pass the frames on, or give one up.
LEMMA BundleCounted ==
  ASSUME Typed, CallInv, NEW i \in Stream, InState(i, "ACTIVE"), OwnInv(i), Counted(i),
         UNCHANGED <<pollVars, cb>>,
         ProcessStreamBuf \/ ServeRequest \/ CmdExits \/ DispatchSuperBuf \/ CbExits
  PROVE  Counted(i)'
<1>0. /\ i \in Index /\ Buf \subseteq Bufs
      /\ UNCHANGED <<kind, starts, returning, strQ, mDataQ, procBuf>>
      /\ SameHeld("stream", i) /\ SameQueued(i)
      /\ OnceInStream(i) /\ OnceInBundle(i) /\ Counts(i)
      /\ buf_refcnt \in [Index -> [Bufs -> 0 .. 2]] /\ kernel \in [Index -> SUBSET Bufs]
      /\ chQ \in Seq(Stream \X Bufs) /\ matching \subseteq Stream \X Bufs
      /\ cbQ \in Seq([Stream -> Bufs])
      /\ Stream \subseteq Index
  <2>1. UNCHANGED <<kind, starts, returning, strQ, mDataQ, procBuf>>
    BY DEF ProcessStreamBuf, ServeRequest, CmdExits, DispatchSuperBuf, CbExits, ThreadVars,
           strVars, procVars
  <2>2. \A b : Held("stream", i, b) \in held' <=> Held("stream", i, b) \in held
    BY DEF ProcessStreamBuf, ServeRequest, CmdExits, DispatchSuperBuf, CbExits, Held
  <2>3. SameHeld("stream", i)
    BY <2>1, <2>2 DEF SameHeld
  <2>4. SameQueued(i)
    BY DEF SameQueued, BeingQueued, PollAt, pollVars
  <2> QED
    BY <2>1, <2>3, <2>4, Streams, StreamAssumption DEF Typed, Counted, Buf
<1>1. OnceInStream(i)' /\ SameInStream(i)
  BY <1>0, StreamStays
<1>2. ASSUME OnceInBundle(i)', SameInBundle(i), buf_refcnt'[i] = buf_refcnt[i],
             kernel'[i] = kernel[i]
      PROVE  Counted(i)'
  BY <1>0, <1>1, <1>2, CountsStay DEF Counted
<1>3. OncePath(chQ, matching, cbQ, i)
  BY <1>0, Once
<1>4. ASSUME NEW q, NEW M, M \subseteq Stream \X Bufs, OncePath(q, M, cbQ, i),
             \A b \in Bufs : Path(q, M, cbQ, i, b) <=> Path(chQ, matching, cbQ, i, b),
             chQ' = q, UNCHANGED held, Unused(M) \/ SuperBuf(M) \/ Kept(M)
      PROVE  Counted(i)'
  <2>1. SameHeld("super", i)
    BY <1>0, <1>4 DEF SameHeld
  <2>2. CASE Kept(M)
    <3>1. matching' = M /\ cbQ' = cbQ /\ UNCHANGED <<buf_refcnt, kernel>>
      BY <2>2 DEF Kept
    <3>2. OnceInBundle(i)' /\ SameInBundle(i)
      BY <1>0, <1>4, <2>1, <3>1, BundleMoves
    <3> QED
      BY <1>2, <3>1, <3>2
  <2>3. CASE SuperBuf(M)
    <3>1. PICK s \in [Stream -> Bufs] :
             /\ \A j \in Stream : <<j, s[j]>> \in M
             /\ matching' = M \ {<<j, s[j]>> : j \in Stream}
             /\ cbQ' = Append(cbQ, s)
             /\ UNCHANGED <<buf_refcnt, kernel>>
      BY <1>0, <2>3 DEF SuperBuf
    <3>2. <<i, s[i]>> \in M /\ \A b \in Bufs : <<i, b>> \in matching' <=> <<i, b>> \in M /\ b # s[i]
      BY <3>1
    <3>3. /\ OncePath(chQ', matching', cbQ', i)
          /\ \A b \in Bufs : Path(chQ', matching', cbQ', i, b)
                             <=> Path(chQ, matching, cbQ, i, b)
      <4>1. PICK S : S = Stream
        OBVIOUS
      <4>2. cbQ \in Seq([S -> Bufs]) /\ s \in [S -> Bufs] /\ i \in S
        BY <1>0, <4>1
      <4>3. PICK n : n = matching'
        OBVIOUS
      <4>4. /\ OncePath(q, n, Append(cbQ, s), i)
            /\ \A b \in Bufs : Path(q, n, Append(cbQ, s), i, b) <=> Path(q, M, cbQ, i, b)
        BY <1>4, <3>2, <4>2, <4>3, PathSuper
      <4> QED
        BY <1>4, <3>1, <4>3, <4>4
    <3>4. OnceInBundle(i)' /\ SameInBundle(i)
      BY <1>0, <2>1, <3>3, BundleMoves
    <3> QED
      BY <1>2, <3>1, <3>4
  <2>4. CASE Unused(M)
    <3>1. PICK f \in M : /\ matching' = M \ {f}
                         /\ IF InState(f[1], "ACTIVE")
                            THEN BufDone(f[1], f[2])
                            ELSE UNCHANGED <<buf_refcnt, kernel>>
                         /\ UNCHANGED cbQ
      BY <2>4 DEF Unused
    <3>2. PICK j \in Stream, b \in Bufs : f = <<j, b>> /\ f[1] = j /\ f[2] = b
      BY <1>4, <3>1
    <3>3. CASE j # i
      <4>1. \A c \in Bufs : <<i, c>> \in matching' <=> <<i, c>> \in M
        BY <3>1, <3>2, <3>3
      <4>2. OncePath(chQ', matching', cbQ', i)
        BY <1>4, <3>1, <4>1 DEF OncePath
      <4>3. \A c \in Bufs : Path(chQ', matching', cbQ', i, c) <=> Path(chQ, matching, cbQ, i, c)
        BY <1>4, <3>1, <4>1 DEF Path
      <4>4. OnceInBundle(i)' /\ SameInBundle(i)
        BY <1>0, <2>1, <4>2, <4>3, BundleMoves
      <4>5. buf_refcnt'[i] = buf_refcnt[i] /\ kernel'[i] = kernel[i]
        BY <1>0, <3>1, <3>2, <3>3 DEF BufDone
      <4> QED
        BY <1>2, <4>4, <4>5
    <3>4. CASE j = i
      <4>1. \A c \in Bufs : <<i, c>> \in matching' <=> <<i, c>> \in M /\ c # b
        BY <3>1, <3>2, <3>4
      <4>2. OncePath(chQ', matching', cbQ', i)
        BY <1>4, <3>1, <4>1 DEF OncePath
      <4>3. <<i, b>> \notin Elems(q) /\ ~InSuper(cbQ, i, b) /\ <<i, b>> \in M
        BY <1>4, <3>1, <3>2, <3>4 DEF OncePath
      <4>4. \A c \in Bufs : Path(chQ', matching', cbQ', i, c)
                            <=> Path(chQ, matching, cbQ, i, c) /\ c # b
        BY <1>4, <3>1, <4>1, <4>3 DEF Path
      <4>5. Path(chQ, matching, cbQ, i, b)
        BY <1>4, <4>3 DEF Path
      <4>6. \A c \in Bufs : /\ HeldNow("super", i, c)' <=> HeldNow("super", i, c)
                            /\ Held("super", i, c)' = Held("super", i, c)
        BY <1>0, <1>4 DEF HeldNow, Held
      <4>7. \A c \in Bufs : HeldNow("super", i, c) =>
               /\ ~Path(chQ, matching, cbQ, i, c)
               /\ Held("super", i, c) \notin held \cap returning
        BY <1>0 DEF OnceInBundle, Path, InSuper, InCbQ
      <4>8. \A c \in Bufs : HeldNow("super", i, c)' =>
               /\ ~Path(chQ', matching', cbQ', i, c)
               /\ Held("super", i, c)' \notin held' \cap returning'
        BY <1>0, <1>4, <4>4, <4>6, <4>7
      <4>9. OnceInBundle(i)'
        BY <4>2, <4>8 DEF OnceInBundle, OncePath, Path, InSuper, InCbQ
      <4>10. /\ \A c \in Bufs \ {b} : InBundle(i, c)' <=> InBundle(i, c)
             /\ InBundle(i, b) /\ ~InBundle(i, b)'
        BY <4>4, <4>5, <4>6, <4>7 DEF InBundle, Path, InSuper
      <4>11. BufDone(i, b)
        BY <3>1, <3>2, <3>4
      <4>12. Counts(i)'
        BY <1>0, <1>1, <4>10, <4>11, CountsDone DEF SameInStream
      <4> QED
        BY <1>1, <4>9, <4>12 DEF Counted
    <3> QED
      BY <3>3, <3>4
  <2> QED
    BY <1>4, <2>2, <2>3, <2>4
<1>5. CASE ProcessStreamBuf
  <2>1. /\ chQ # <<>> /\ chQ' = Tail(chQ) /\ UNCHANGED held
        /\ LET M == matching \cup {Head(chQ)} IN Unused(M) \/ SuperBuf(M) \/ Kept(M)
    BY <1>5 DEF ProcessStreamBuf
  <2>2. matching \cup {Head(chQ)} \subseteq Stream \X Bufs
    BY <1>0, <2>1
  <2>3. /\ OncePath(Tail(chQ), matching \cup {Head(chQ)}, cbQ, i)
        /\ \A b \in Bufs : Path(Tail(chQ), matching \cup {Head(chQ)}, cbQ, i, b)
                           <=> Path(chQ, matching, cbQ, i, b)
    BY <1>0, <1>3, <2>1, PathTake
  <2> QED
    BY <1>4, <2>1, <2>2, <2>3
<1>6. CASE ServeRequest
  <2>1. SuperBuf(matching) /\ UNCHANGED <<chQ, held>>
    BY <1>6 DEF ServeRequest
  <2> QED
    BY <1>0, <1>3, <1>4, <2>1
<1>7. CASE CmdExits \/ CbExits
  <2>1. UNCHANGED <<chQ, matching, cbQ, held, buf_refcnt, kernel>>
    BY <1>7 DEF CmdExits, CbExits, bufVars
  <2>2. SameHeld("super", i)
    BY <1>0, <2>1 DEF SameHeld
  <2> QED
    BY <1>0, <1>2, <2>1, <2>2, BundlePathStays
<1>8. CASE DispatchSuperBuf
  <2> DEFINE b == Head(cbQ)[i]
  <2>1. /\ cbQ # <<>> /\ cbQ' = Tail(cbQ)
        /\ held' = held \cup {Held("super", j, Head(cbQ)[j]) : j \in Stream}
        /\ UNCHANGED <<chQ, matching, buf_refcnt, kernel>>
    BY <1>8 DEF DispatchSuperBuf, bufVars
  <2>2. /\ OncePath(chQ, matching, Tail(cbQ), i)
        /\ b \in Bufs /\ Path(chQ, matching, cbQ, i, b)
        /\ \A c \in Bufs : Path(chQ, matching, Tail(cbQ), i, c)
                           <=> Path(chQ, matching, cbQ, i, c) /\ c # b
    BY <1>0, <1>3, <2>1, PathDispatch
  <2>3. \A c \in Bufs : /\ Held("super", i, c)' = Held("super", i, c)
                        /\ Held("super", i, c) \in held' <=> Held("super", i, c) \in held \/ c = b
    BY <1>0, <2>1 DEF Held
  <2> HIDE DEF b
  <2>4. \A c \in Bufs : HeldNow("super", i, c) =>
           /\ ~Path(chQ, matching, cbQ, i, c)
           /\ Held("super", i, c) \notin held \cap returning
    BY <1>0 DEF OnceInBundle, Path, InSuper, InCbQ
  <2>5. \A c \in Bufs : HeldNow("super", i, c)' <=> HeldNow("super", i, c) \/ c = b
    BY <1>0, <2>3 DEF HeldNow
  <2>6. \A c \in Bufs : Held("super", i, c)' \notin held' \cap returning'
    BY <1>0, <2>2, <2>3, <2>4 DEF HeldNow
  <2>7. \A c \in Bufs : HeldNow("super", i, c)' => ~Path(chQ', matching', cbQ', i, c)
    BY <2>1, <2>2, <2>4, <2>5
  <2>8. OnceInBundle(i)'
    BY <2>1, <2>2, <2>6, <2>7 DEF OnceInBundle, OncePath, Path, InSuper, InCbQ
  <2>9. SameInBundle(i)
    BY <2>1, <2>2, <2>5 DEF SameInBundle, InBundle, Path, InSuper
  <2> QED
    BY <1>2, <2>1, <2>8, <2>9
<1> QED
  BY <1>5, <1>6, <1>7, <1>8

\* Who has a frame returns it.
LEMMA ReturnCounted ==
  ASSUME Typed, NEW i \in Stream, InState(i, "ACTIVE"), OwnInv(i), Counted(i),
         UNCHANGED <<pollVars, cb>>, ~Met({"stale"})', NEW f,
         \/ f \in held /\ Qbuf(f)
         \/ f \in returning /\ QbufEnds(f)
  PROVE  Counted(i)'
<1>0. /\ i \in Index
      /\ UNCHANGED <<kind, starts, strQ, mDataQ, procBuf, chQ, matching, cbQ>>
      /\ SameQueued(i)
      /\ OnceInStream(i) /\ OnceInBundle(i) /\ Counts(i)
      /\ buf_refcnt \in [Index -> [Bufs -> 0 .. 2]] /\ kernel \in [Index -> SUBSET Bufs]
      /\ f \in Frame
  <2>1. UNCHANGED <<kind, starts, strQ, mDataQ, procBuf, chQ, matching, cbQ>>
    BY DEF Qbuf, QbufEnds, ThreadVars, strVars, procVars, bundleVars
  <2>2. SameQueued(i)
    BY DEF SameQueued, BeingQueued, PollAt, pollVars
  <2> QED
    BY <2>1, <2>2, Streams DEF Typed, Counted
<1>1. ASSUME SameHeld("stream", i), SameHeld("super", i),
             buf_refcnt'[i] = buf_refcnt[i], kernel'[i] = kernel[i]
      PROVE  Counted(i)'
  BY <1>0, <1>1, StreamStays, BundlePathStays, CountsStay DEF Counted
<1>2. CASE f \in held /\ Qbuf(f)
  <2>1. /\ held' = held \ {f} /\ UNCHANGED <<buf_refcnt, kernel>>
        /\ returning' = IF InState(f.i, "ACTIVE") THEN returning \cup {f} ELSE returning
    BY <1>2 DEF Qbuf, bufVars
  <2>2. \A path, b : Held(path, i, b) = f => f.i = i
    BY DEF Held
  <2>3. SameHeld("stream", i) /\ SameHeld("super", i)
    BY <1>0, <1>2, <2>1, <2>2 DEF SameHeld
  <2> QED
    BY <1>1, <2>1, <2>3
<1>3. CASE f \in returning /\ QbufEnds(f)
  <2>1. returning' = returning \ {f} /\ held' = held /\ BufDone(f.i, f.b)
    BY <1>3 DEF QbufEnds
  <2>2. f.start = starts
    BY <1>3 DEF QbufEnds, Met
  <2>3. f = Held(f.path, f.i, f.b) /\ f.path \in {"stream", "super"} /\ f.b \in Bufs /\ f.i \in Index
    BY <1>0, <2>2 DEF Frame, Held
  <2>4. \A path, c : Held(path, i, c)' = Held(path, i, c)
    BY <1>0 DEF Held
  <2>5. CASE f.i # i
    <3>1. \A path, b : Held(path, i, b) # f
      BY <2>5 DEF Held
    <3>2. SameHeld("stream", i) /\ SameHeld("super", i)
      BY <1>0, <2>1, <3>1 DEF SameHeld
    <3>3. buf_refcnt'[i] = buf_refcnt[i] /\ kernel'[i] = kernel[i]
      BY <1>0, <2>1, <2>3, <2>5 DEF BufDone
    <3> QED
      BY <1>1, <3>2, <3>3
  <2>6. CASE f.i = i /\ f.path = "stream"
    <3>1. f = Held("stream", i, f.b) /\ \A c \in Bufs : Held("stream", i, c) = f <=> c = f.b
      BY <2>3, <2>6 DEF Held
    <3>2. \A c : Held("super", i, c) # f
      BY <2>3, <2>6 DEF Held
    <3>3. SameHeld("super", i)
      BY <1>0, <2>1, <3>2 DEF SameHeld
    <3>4. OnceInBundle(i)' /\ SameInBundle(i)
      BY <1>0, <3>3, BundlePathStays
    <3>5. HeldNow("stream", i, f.b) /\ f \notin held
      BY <1>0, <1>3, <2>3, <3>1 DEF OnceInStream, HeldNow
    <3>6. \A c \in Bufs : HeldNow("stream", i, c)' <=> HeldNow("stream", i, c) /\ c # f.b
      BY <2>1, <2>4, <3>1, <3>5 DEF HeldNow
    <3>7. \A c \in Bufs : HeldNow("stream", i, c) => Held("stream", i, c) \notin held \cap returning
      BY <1>0 DEF OnceInStream
    <3>8. \A c \in Bufs : HeldNow("stream", i, c)' => Held("stream", i, c)' \notin held' \cap returning'
      BY <2>1, <2>4, <3>6, <3>7
    <3>9. OnceInStream(i)'
      BY <1>0, <3>6, <3>8 DEF OnceInStream
    <3>10. /\ \A c \in Bufs \ {f.b} : InStream(i, c)' <=> InStream(i, c)
           /\ InStream(i, f.b) /\ ~InStream(i, f.b)'
      BY <1>0, <2>3, <3>5, <3>6 DEF InStream, OnceInStream
    <3>11. Counts(i)'
      BY <1>0, <2>1, <2>3, <2>6, <3>4, <3>10, CountsDone DEF SameInBundle
    <3> QED
      BY <3>4, <3>9, <3>11 DEF Counted
  <2>7. CASE f.i = i /\ f.path = "super"
    <3>1. f = Held("super", i, f.b) /\ \A c \in Bufs : Held("super", i, c) = f <=> c = f.b
      BY <2>3, <2>7 DEF Held
    <3>2. \A c : Held("stream", i, c) # f
      BY <2>3, <2>7 DEF Held
    <3>3. SameHeld("stream", i)
      BY <1>0, <2>1, <3>2 DEF SameHeld
    <3>4. OnceInStream(i)' /\ SameInStream(i)
      BY <1>0, <3>3, StreamStays
    <3>5. HeldNow("super", i, f.b) /\ f \notin held
      BY <1>0, <1>3, <2>3, <3>1 DEF OnceInBundle, HeldNow
    <3>6. \A c \in Bufs : HeldNow("super", i, c)' <=> HeldNow("super", i, c) /\ c # f.b
      BY <2>1, <2>4, <3>1, <3>5 DEF HeldNow
    <3>7. \A c \in Bufs : HeldNow("super", i, c) => Held("super", i, c) \notin held \cap returning
      BY <1>0 DEF OnceInBundle
    <3>8. \A c \in Bufs : HeldNow("super", i, c)' => Held("super", i, c)' \notin held' \cap returning'
      BY <2>1, <2>4, <3>6, <3>7
    <3>9. OnceInBundle(i)'
      BY <1>0, <3>6, <3>8 DEF OnceInBundle, InCbQ
    <3>10. /\ \A c \in Bufs \ {f.b} : InBundle(i, c)' <=> InBundle(i, c)
           /\ InBundle(i, f.b) /\ ~InBundle(i, f.b)'
      BY <1>0, <2>3, <3>5, <3>6 DEF InBundle, OnceInBundle, InCbQ
    <3>11. Counts(i)'
      BY <1>0, <2>1, <2>3, <2>7, <3>4, <3>10, CountsDone DEF SameInStream
    <3> QED
      BY <3>4, <3>9, <3>11 DEF Counted
  <2> QED
    BY <2>3, <2>5, <2>6, <2>7
<1> QED
  BY <1>2, <1>3

\* So every buffer of a stream that is on stays accounted for, whatever the threads do, and
\* those of a stream that is not on yet are left alone.
LEMMA AccountStays ==
  ASSUME Typed, CallInv, CbInv, ThreadStep, \A j \in Stream : StateInv(j), NEW i \in Stream,
         ProcInv(i), FreshInv(i), OwnInv(i), AccountInv(i)
  PROVE  AccountInv(i)'
<1>0. /\ UNCHANGED CallOwned
      /\ Met({"stale"}) => Met({"stale"})'
      /\ NotYet(i)' <=> NotYet(i)
      /\ Buf' = Buf /\ i \in Index /\ Stream \subseteq Index
      /\ buf_refcnt \in [Index -> [Bufs -> 0 .. 2]] /\ kernel \in [Index -> SUBSET Bufs]
  BY ThreadFrame, CallStays, Streams DEF Typed
<1>1. ASSUME Live(i)' PROVE Counted(i)'
  <2>1. InState(i, "ACTIVE") /\ Live(i) /\ ~Met({"stale"})'
    BY <1>0, <1>1 DEF Live, InState, CallOwned
  <2>2. Counted(i)
    BY <2>1 DEF AccountInv, Counted, Counts
  <2>3. CASE PollThreadSteps
    BY <2>2, <2>3, PollCounted
  <2>4. CASE ~PollThreadSteps
    <3>1. UNCHANGED <<pollVars, cb>>
      BY <2>4, OtherThreads
    <3>2. ASSUME NEW j \in Index,
                 \/ DispatchAppData(j) \/ StrExits(j)
                 \/ \E k \in Thread : TakeFrame(j, k) \/ FrameDone(j, k) \/ ProcExits(j, k)
          PROVE  Counted(i)'
      BY <2>1, <2>2, <3>1, <3>2, StreamCounted
    <3>3. ASSUME ProcessStreamBuf \/ ServeRequest \/ CmdExits \/ DispatchSuperBuf \/ CbExits
          PROVE  Counted(i)'
      BY <2>1, <2>2, <3>1, <3>3, BundleCounted
    <3>4. ASSUME NEW f, (f \in held /\ Qbuf(f)) \/ (f \in returning /\ QbufEnds(f))
          PROVE  Counted(i)'
      BY <2>1, <2>2, <3>1, <3>4, ReturnCounted
    <3> QED
      BY <2>4, <3>2, <3>3, <3>4, ThreadSteps DEF PollThreadSteps
  <2> QED
    BY <2>3, <2>4
<1>2. ASSUME InState(i, "REG"), NotYet(i), ~Met({"stale"})'
      PROVE  buf_refcnt'[i] = buf_refcnt[i] /\ kernel'[i] = kernel[i]
  <2>1. ~InState(i, "ACTIVE")
    BY <1>2 DEF InState
  <2>2. CASE UNCHANGED <<buf_refcnt, kernel>>
    BY <2>2
  <2>3. ASSUME NEW b, cb.i \in Stream, cb.i # i,
               kernel' = [kernel EXCEPT ![cb.i] = @ \ {b}],
               buf_refcnt' = [buf_refcnt EXCEPT ![cb.i][b] = @ + References]
        PROVE  buf_refcnt'[i] = buf_refcnt[i] /\ kernel'[i] = kernel[i]
    BY <1>0, <2>3
  <2>4. ASSUME NEW j \in Stream, j # i, NEW b, BufDone(j, b)
        PROVE  buf_refcnt'[i] = buf_refcnt[i] /\ kernel'[i] = kernel[i]
    BY <1>0, <2>4 DEF BufDone
  <2>5. ASSUME NEW f \in returning, QbufEnds(f) PROVE f.i # i
    <3>1. f.i = i => f.start # starts
      BY <1>0, <1>2 DEF FreshInv
    <3>2. f.start # starts => Met({"stale"})'
      BY <2>5 DEF QbufEnds, Met
    <3> QED
      BY <1>2, <3>1, <3>2
  <2> QED
    BY <2>1, <2>2, <2>3, <2>4, <2>5, BufSteps
<1>3. InState(i, "REG")' <=> InState(i, "REG")
  BY <1>0 DEF InState, CallOwned
<1> QED
  BY <1>0, <1>1, <1>2, <1>3 DEF AccountInv, Counted, Counts

-----------------------------------------------------------------------------
(* The invariant is inductive                                                *)

\* Before the channel is added there is no thread, no frame and no reference.
LEMMA InitEstablishesIInv ==
  ASSUME Init
  PROVE  IInv
<1>0. /\ kind \in Kinds /\ ch = "NOTUSED" /\ hal = Idle /\ starts = 0
      /\ state = [i \in Index |-> "NOTUSED"] /\ allocated = {} /\ streaming = {}
      /\ kernel = [i \in Index |-> {}] /\ buf_refcnt = [i \in Index |-> AllBufs(0)]
      /\ cb = NoStream /\ held = {} /\ returning = {} /\ upsets = {}
      /\ strQ = [i \in Index |-> <<>>] /\ strT = [i \in Index |-> "none"]
      /\ chQ = <<>> /\ chT = "none" /\ matching = {} /\ cbQ = <<>> /\ cbT = "none"
      /\ mDataQ = [i \in Index |-> <<>>]
      /\ jobs = [i \in Index |-> 0] /\ exits = [i \in Index |-> 0]
      /\ cmd_pid = [i \in Index |-> None]
      /\ procs = [i \in Index |-> [k \in Thread |-> "none"]]
      /\ procBuf = [i \in Index |-> [k \in Thread |-> None]]
      /\ poll_entries = {} /\ poll_fds = {} /\ pipe = <<>> /\ ready = {} /\ ~sig_wait
      /\ poll_state = "STOPPED" /\ poll_pc = "none" /\ sig_wait \in BOOLEAN
      /\ Stream \subseteq Index /\ MaxStarts \in Nat
      /\ \A k \in Thread : k > 0 /\ k # None
      /\ hal.op = "none" /\ hal.pc = "none" /\ hal.i = 0 /\ hal.last = 0
  <2>1. hal = Idle
    BY DEF Init
  <2>2. hal.op = "none" /\ hal.pc = "none" /\ hal.i = 0 /\ hal.last = 0
    BY <2>1 DEF Idle
  <2>3. \A k \in Thread : k > 0 /\ k # None
    BY StreamAssumption DEF Thread, None
  <2>4. kind \in Kinds
    BY DEF Init
  <2> QED
    BY <2>1, <2>2, <2>3, <2>4, Streams, StreamAssumption DEF Init, PollInit
<1>1. Typed
  <2>1. \A S : <<>> \in Seq(S)
    OBVIOUS
  <2>2. strQ \in [Index -> Seq(Bufs)] /\ mDataQ \in [Index -> Seq(Bufs)]
    BY <1>0, <2>1
  <2>3. chQ \in Seq(Stream \X Bufs) /\ cbQ \in Seq([Stream -> Bufs])
    BY <1>0, <2>1
  <2>4. procs \in [Index -> [Thread -> {"none", "wait", "busy", "gone"}]]
    BY <1>0
  <2>5. procBuf \in [Index -> [Thread -> Bufs \cup {None}]]
    BY <1>0
  <2>6. buf_refcnt \in [Index -> [Bufs -> 0 .. 2]] /\ kernel \in [Index -> SUBSET Bufs]
    BY <1>0 DEF AllBufs
  <2>7. cb \in [i : Stream \cup {None}, b : Bufs \cup {None}]
    BY <1>0 DEF NoStream
  <2> QED
    BY <1>0, <2>2, <2>3, <2>4, <2>5, <2>6, <2>7 DEF Typed, States
<1>2. CallInv /\ UndoInv /\ LeftInv
  BY <1>0 DEF CallInv, Place, UndoInv, LeftInv, At, Idle
<1>3. PollInv /\ CbInv /\ BundleInv
  BY <1>0 DEF PollInv, CbInv, BundleInv, Clean, At, Scanning, NoStream
<1>4. \A i \in Index \ Stream : Spare(i)
  BY <1>0 DEF Spare
<1>5. ASSUME NEW i \in Stream PROVE StreamInv(i)
  <2>1. i \in Index /\ state[i] = "NOTUSED" /\ ~InState(i, "ACTIVE") /\ ~InState(i, "REG")
    BY <1>0 DEF InState
  <2>2. StateInv(i) /\ PartsInv(i)
    BY <1>0, <2>1 DEF StateInv, PartsInv, New, InState, At, Here, StopPcs
  <2>3. ProcInv(i) /\ JoinInv(i) /\ LaunchInv(i)
    BY <1>0, <2>1 DEF ProcInv, JoinInv, LaunchInv, Here
  <2>4. FreshInv(i)
    BY <1>0, <2>1 DEF FreshInv, NotYet
  <2>5. CountInv(i) /\ OwnInv(i)
    BY <1>0, <2>1 DEF CountInv, OwnInv, AllBufs
  <2>6. AccountInv(i)
    BY <2>1 DEF AccountInv, Live
  <2> QED
    BY <2>2, <2>3, <2>4, <2>5, <2>6 DEF StreamInv
<1> QED
  BY <1>1, <1>2, <1>3, <1>4, <1>5 DEF IInv

\* A step of a call of the HAL.
LEMMA CallKeepsIInv ==
  ASSUME IInv, AddChannel \/ StartChannel \/ StopChannel \/ DeleteChannel \/ CallContinues
  PROVE  IInv'
<1>0. /\ Typed /\ CallInv /\ UndoInv /\ LeftInv /\ PollInv /\ CbInv /\ BundleInv
      /\ \A i \in Index \ Stream : Spare(i)
      /\ \A i \in Stream : StreamInv(i)
  BY DEF IInv
<1>1. \A i \in Stream : /\ StateInv(i) /\ PartsInv(i) /\ ProcInv(i) /\ JoinInv(i)
                        /\ LaunchInv(i) /\ FreshInv(i) /\ CountInv(i) /\ OwnInv(i)
                        /\ AccountInv(i)
  BY <1>0 DEF StreamInv
<1>2. Typed' /\ CallInv' /\ Stream' = Stream
  BY <1>0, <1>1, TypedKept, CallKept
<1>3. UndoInv' /\ LeftInv'
  BY <1>0, <1>1, UndoKept, LeftKept
<1>4. PollInv' /\ CbInv' /\ BundleInv'
  BY <1>0, <1>1, PollKept, CbKept, BundleKept
<1>5. ASSUME NEW i \in Stream PROVE StreamInv(i)'
  <2>1. StateInv(i)' /\ PartsInv(i)'
    BY <1>0, <1>1, StateKept, PartsKept
  <2>2. ProcInv(i)' /\ JoinInv(i)' /\ LaunchInv(i)'
    BY <1>0, <1>1, ProcKept, JoinKept, LaunchKept
  <2>3. FreshInv(i)'
    BY <1>0, <1>1, FreshKept
  <2>4. CountInv(i)' /\ OwnInv(i)'
    BY <1>0, <1>1, CountKept, OwnKept
  <2>5. AccountInv(i)'
    BY <1>0, <1>1, AccountKept
  <2> QED
    BY <2>1, <2>2, <2>3, <2>4, <2>5 DEF StreamInv
<1>6. ASSUME NEW i \in Index \ Stream PROVE Spare(i)'
  BY <1>0, <1>6, SpareKept
<1> QED
  BY <1>2, <1>3, <1>4, <1>5, <1>6 DEF IInv

\* A step of a thread.
LEMMA ThreadKeepsIInv ==
  ASSUME IInv, ThreadStep
  PROVE  IInv'
<1>0. /\ Typed /\ CallInv /\ UndoInv /\ LeftInv /\ PollInv /\ CbInv /\ BundleInv
      /\ \A i \in Index \ Stream : Spare(i)
      /\ \A i \in Stream : StreamInv(i)
  BY DEF IInv
<1>1. \A i \in Stream : /\ StateInv(i) /\ PartsInv(i) /\ ProcInv(i) /\ JoinInv(i)
                        /\ LaunchInv(i) /\ FreshInv(i) /\ CountInv(i) /\ OwnInv(i)
                        /\ AccountInv(i)
  BY <1>0 DEF StreamInv
<1>2. Typed' /\ CallInv' /\ Stream' = Stream
  BY <1>0, <1>1, TypedStays, CallStays
<1>3. UndoInv' /\ LeftInv'
  BY <1>0, CallStays, LeftStays
<1>4. PollInv' /\ CbInv' /\ BundleInv'
  BY <1>0, <1>1, PollStays, CbStays, BundleStays
<1>5. ASSUME NEW i \in Stream PROVE StreamInv(i)'
  <2>1. StateInv(i)' /\ LaunchInv(i)'
    BY <1>1, CallStays
  <2>2. PartsInv(i)'
    BY <1>0, <1>1, PartsStay
  <2>3. ProcInv(i)' /\ JoinInv(i)'
    BY <1>0, <1>1, ProcStays
  <2>4. FreshInv(i)'
    BY <1>0, <1>1, FreshStays
  <2>5. CountInv(i)' /\ OwnInv(i)'
    BY <1>0, <1>1, CountStays
  <2>6. AccountInv(i)'
    BY <1>0, <1>1, AccountStays
  <2> QED
    BY <2>1, <2>2, <2>3, <2>4, <2>5, <2>6 DEF StreamInv
<1>6. ASSUME NEW i \in Index \ Stream PROVE Spare(i)'
  BY <1>0, <1>6, SpareStays
<1> QED
  BY <1>2, <1>3, <1>4, <1>5, <1>6 DEF IInv

\* Nothing happens.
LEMMA StutterKeepsIInv ==
  ASSUME IInv, UNCHANGED vars
  PROVE  IInv'
<1> USE DEF vars, pollVars, bufVars, strVars, bundleVars, procVars
<1>0. /\ Typed /\ CallInv /\ UndoInv /\ LeftInv /\ PollInv /\ CbInv /\ BundleInv
      /\ \A i \in Index \ Stream : Spare(i)
      /\ \A i \in Stream : StreamInv(i)
  BY DEF IInv
<1>1. Stream' = Stream /\ Last' = Last /\ Buf' = Buf /\ (Bundled' <=> Bundled)
  BY DEF Stream, Last, Buf, Bundled
<1>2. Typed'
  BY <1>0, <1>1 DEF Typed
<1>3. CallInv' /\ UndoInv' /\ LeftInv'
  BY <1>0, <1>1 DEF CallInv, Place, Stopping, UndoInv, LeftInv, At, Met
<1>4. PollInv' /\ CbInv' /\ BundleInv'
  BY <1>0, <1>1 DEF PollInv, CbInv, BundleInv, Clean, At, InState, Met
<1>5. ASSUME NEW i \in Index \ Stream PROVE Spare(i)'
  BY <1>0, <1>5 DEF Spare
<1>6. ASSUME NEW i \in Stream PROVE StreamInv(i)'
  <2>1. /\ StateInv(i) /\ PartsInv(i) /\ ProcInv(i) /\ JoinInv(i) /\ LaunchInv(i)
        /\ FreshInv(i) /\ CountInv(i) /\ OwnInv(i) /\ AccountInv(i)
    BY <1>0 DEF StreamInv
  <2>2. StateInv(i)' /\ PartsInv(i)'
    BY <2>1 DEF StateInv, PartsInv, New, Configured, Buffed, Registered, Active, InState, At,
                Here, Met
  <2>3. ProcInv(i)' /\ JoinInv(i)' /\ LaunchInv(i)'
    BY <2>1 DEF ProcInv, JoinInv, LaunchInv, Here, Met
  <2>4. FreshInv(i)'
    BY <2>1 DEF FreshInv, NotYet, Met
  <2>5. CountInv(i)' /\ OwnInv(i)'
    BY <1>1, <2>1 DEF CountInv, OwnInv, InState, Met
  <2>6. AccountInv(i)'
    <3>1. UNCHANGED FrameVars /\ \A b : BeingQueued(i, b)' <=> BeingQueued(i, b)
      BY DEF FrameVars, BeingQueued, PollAt
    <3> QED
      BY <2>1, <3>1, AccountFrame DEF Fresh, InState, NotYet
  <2> QED
    BY <2>1, <2>2, <2>3, <2>4, <2>5, <2>6 DEF StreamInv
<1> QED
  BY <1>1, <1>2, <1>3, <1>4, <1>5, <1>6 DEF IInv

\* Whatever the HAL calls and however its calls, the threads of the stack and the returns of
\* frames interleave, every part of the invariant holds.
THEOREM Invariance == Spec => []IInv
<1>1. IInv /\ [Next]_vars => IInv'
  BY CallKeepsIInv, ThreadKeepsIInv, StutterKeepsIInv DEF Next, ThreadStep
<1> QED
  BY InitEstablishesIInv, <1>1, PTL DEF Spec

-----------------------------------------------------------------------------
(* What follows from it                                                      *)

\* A stream that is registered or active has its buffers.
LEMMA HasBuffers ==
  ASSUME Typed, CallInv, UndoInv, NEW i \in Stream, StateInv(i), i \notin allocated
  PROVE  /\ ~InState(i, "REG") /\ ~InState(i, "ACTIVE")
         /\ hal.op = "start" => NotYet(i) /\ ~Here(i, {"added", "on", "notadded", "joinfailed"})
         /\ hal.op = "undo" => (NotYet(i) \/ i < hal.i) /\ ~Here(i, {"off", "join"})
         /\ hal.op = "stop" => ~Here(i, {"off", "join"})
<1>0. /\ Place /\ kind \in Kinds /\ i \in Index /\ i \in 1 .. Last
      /\ ch \in {"NOTUSED", "STOPPED", "ACTIVE", "deleted"}
  BY Streams DEF Typed, CallInv
<1> USE DEF InState
<1>1. CASE hal.op = "start"
  BY <1>0, <1>1, CallFacts
  DEF CallInv, StateInv, NotYet, Configured, Active, Buffed, Registered, At, StartPcs, Idle, Here
<1>2. CASE hal.op = "undo"
  BY <1>0, <1>2, CallFacts
  DEF CallInv, UndoInv, StateInv, NotYet, Configured, Active, Buffed, Registered, At, StopPcs,
      Idle, Here
<1>3. CASE hal.op = "stop"
  BY <1>0, <1>3, CallFacts
  DEF CallInv, StateInv, NotYet, Configured, Active, Buffed, Registered, At, StopPcs, Idle, Here
<1>4. CASE hal.op = "none"
  BY <1>0, <1>4, CallFacts DEF CallInv, StateInv, Configured, Active, New, At, Idle
<1>5. CASE hal.op = "add"
  BY <1>0, <1>5, CallFacts DEF CallInv, StateInv, New, At, AddPcs
<1>6. CASE hal.op = "delete"
  BY <1>0, <1>6, CallFacts DEF StateInv
<1> QED
  BY <1>0, <1>1, <1>2, <1>3, <1>4, <1>5, <1>6, CallFacts

\* The types of the variables, the poll thread's and a call's among them.
LEMMA ImpliesTypeOK ==
  ASSUME IInv
  PROVE  TypeOK
<1>0. /\ Typed /\ CallInv /\ PollInv /\ CbInv /\ Place /\ kind \in Kinds /\ Stream \subseteq Index
  BY Streams DEF IInv, Typed, CallInv
<1>1. PollTypeOK
  <2>1. ready \subseteq Index /\ poll_fds \subseteq Index /\ poll_entries \subseteq Index
    BY <1>0 DEF Typed, CbInv
  <2>2. pipe \in Seq({"UPDATED", "EXIT"})
    <3>1. pipe = <<>> \/ \E cmd \in {"UPDATED", "EXIT"} : pipe = <<cmd>>
      BY <1>0 DEF PollInv
    <3>2. <<>> \in Seq({"UPDATED", "EXIT"})
      OBVIOUS
    <3>3. \A S : \A cmd \in S : <<cmd>> \in Seq(S)
      OBVIOUS
    <3> QED
      BY <3>1, <3>2, <3>3
  <2> QED
    BY <1>0, <2>1, <2>2 DEF PollTypeOK, Typed, Scanning
<1>2. hal \in [op : {"none", "add", "start", "undo", "stop", "delete"}, pc : CallPcs,
               i : 0 .. 2, last : 0 .. 2]
  <2>1. hal.pc \in CallPcs
    <3>1. hal.pc \in {"none", "launch", "putone", "bundle", "joincmd", "joincb", "put", "exit",
                     "joinproc", "release"} \cup AddPcs \cup StartPcs \cup StopPcs
      BY <1>0, CallFacts
    <3> QED
      BY <3>1 DEF CallPcs, AddPcs, StartPcs, StopPcs
  <2> QED
    BY <1>0, <2>1, CallFacts
<1>3. chQ \in Seq(Index \X Bufs)
  <2>1. Stream \X Bufs \subseteq Index \X Bufs
    BY <1>0
  <2>2. PICK S : S = Stream \X Bufs
    OBVIOUS
  <2>3. PICK T : T = Index \X Bufs
    OBVIOUS
  <2>4. chQ \in Seq(S) /\ S \subseteq T
    BY <1>0, <2>1, <2>2, <2>3 DEF Typed
  <2>5. chQ \in Seq(T)
    BY <2>4
  <2> QED
    BY <2>3, <2>5
<1>4. cb \in [i : Index \cup {None}, b : Bufs \cup {None}] /\ matching \subseteq Index \X Bufs
  BY <1>0 DEF Typed
<1> QED
  BY <1>0, <1>1, <1>2, <1>3, <1>4 DEF TypeOK, Typed, States

\* The counts are a part of the invariant.
LEMMA ImpliesBuffersAccountedFor ==
  ASSUME IInv
  PROVE  BuffersAccountedFor
BY DEF IInv, StreamInv, AccountInv, Live, BuffersAccountedFor

\* A stream without buffers is neither registered nor active, so none of the things there
\* are for such a stream are there.
LEMMA ImpliesStackLetsGo ==
  ASSUME IInv
  PROVE  StackLetsGo
<1> SUFFICES ASSUME NEW i \in Stream, i \notin allocated
             PROVE  /\ kernel[i] # {} => Met({"reg"})
                    /\ i \notin poll_entries \cup streaming
                    /\ cb.i # i
                    /\ strQ[i] = <<>> /\ strT[i] = "none"
                    /\ (\E b \in Bufs : <<i, b>> \in Elems(chQ) \cup matching) \/ cbQ # <<>>
                       => Met({"start"})
  BY DEF StackLetsGo
<1>0. /\ Typed /\ CallInv /\ UndoInv /\ LeftInv /\ CbInv /\ BundleInv /\ Place /\ kind \in Kinds
      /\ StateInv(i) /\ PartsInv(i) /\ FreshInv(i) /\ CountInv(i)
      /\ i \in Index /\ i \in 1 .. Last /\ i # None
  BY Streams DEF IInv, StreamInv, Typed, CallInv
<1>1. /\ ~InState(i, "REG") /\ ~InState(i, "ACTIVE")
      /\ ~Here(i, {"added", "on", "notadded", "joinfailed"}) /\ ~Here(i, {"off", "join"})
  BY <1>0, HasBuffers, CallFacts DEF Here, StartPcs, StopPcs
<1>2. i \notin poll_entries \cup streaming /\ strT[i] = "none" /\ strQ[i] = <<>>
  BY <1>0, <1>1 DEF PartsInv, Here, Typed
<1>3. kernel[i] # {} => Met({"reg"})
  BY <1>0, <1>1 DEF CountInv
<1>4. cb.i # i
  BY <1>0, <1>2 DEF CbInv
<1>5. (\E b \in Bufs : <<i, b>> \in Elems(chQ) \cup matching) \/ cbQ # <<>> => Met({"start"})
  <2>1. CASE hal.op = "start"
    BY <1>0, <2>1, HasBuffers DEF FreshInv
  <2>2. CASE hal.op = "undo"
    <3>1. NotYet(i) \/ hal.i > 1
      BY <1>0, <2>2, HasBuffers, CallFacts
    <3> QED
      BY <1>0, <2>2, <3>1 DEF FreshInv, LeftInv
  <2>3. CASE hal.op \notin {"start", "undo"} /\ ch = "ACTIVE"
    <3>1. hal = Idle => FALSE
      BY <1>0, <1>1, <2>3 DEF StateInv, Active
    <3>2. hal.op = "stop" /\ hal.pc \in StopPcs \cup {"bundle", "joincmd", "joincb", "put"}
      BY <1>0, <2>3, <3>1, CallFacts DEF CallInv, Stopping, Place, At, StopPcs
    <3>3. hal.i \in 1 .. Last /\ i \in 1 .. Last /\ Last \in {1, 2}
      BY <1>0, <3>2, CallFacts
    <3>4. hal.pc \notin {"bundle", "joincmd", "joincb", "put"}
      BY <1>0, <3>2 DEF StateInv, Buffed
    <3>5. ~(i < hal.i)
      BY <1>0, <3>2, <3>4 DEF StateInv, Buffed
    <3>6. ~(i > hal.i) /\ i # hal.i
      BY <1>0, <3>2, <3>4 DEF StateInv, Active, Registered
    <3>7. FALSE
      BY <3>3, <3>5, <3>6
    <3> QED
      BY <3>7
  <2>4. CASE hal.op \notin {"start", "undo"} /\ ch # "ACTIVE"
    <3>1. ~Met({"start"}) => Clean
      BY <1>0, <2>4 DEF BundleInv
    <3>2. Elems(<<>>) = {}
      BY DEF Elems
    <3>3. Clean => /\ \A b \in Bufs : <<i, b>> \notin Elems(chQ) \cup matching
                   /\ cbQ = <<>>
      BY <3>2 DEF Clean
    <3> QED
      BY <3>1, <3>3
  <2> QED
    BY <2>1, <2>2, <2>3, <2>4
<1> QED
  BY <1>2, <1>3, <1>4, <1>5

\* The states of the streams, the threads and the queues of a channel that no call is on.
LEMMA ImpliesNothingLeftBehind ==
  ASSUME IInv
  PROVE  NothingLeftBehind
<1>0. /\ Typed /\ CallInv /\ LeftInv /\ BundleInv /\ Place /\ kind \in Kinds
      /\ Stream \subseteq Index
      /\ \A i \in Stream : StateInv(i) /\ PartsInv(i) /\ JoinInv(i)
      /\ \A i \in Index \ Stream : Spare(i)
  BY Streams DEF IInv, StreamInv, Typed, CallInv
<1>1. StoppedStreamsAreConfigured
  BY <1>0 DEF StoppedStreamsAreConfigured, StateInv, Configured
<1>2. NoThreadOutlivesTheChannel
  <2> SUFFICES ASSUME ch = "deleted", ~Met({"start"})
               PROVE  /\ poll_pc = "gone" \/ Met({"abandoned"})
                      /\ chT = "none" /\ cbT = "none"
                      /\ \A i \in Index : \A k \in Thread : procs[i][k] \in {"none", "gone"}
                      /\ \A i \in Index : strT[i] = "none"
    BY DEF NoThreadOutlivesTheChannel
  <2>1. hal = Idle /\ hal.op = "none" /\ hal.pc = "none" /\ hal.i = 0
    BY <1>0 DEF LeftInv, Idle
  <2>2. poll_pc = "gone" \/ Met({"abandoned"})
    BY <1>0 DEF LeftInv
  <2>3. chT = "none" /\ cbT = "none"
    BY <1>0, <2>1 DEF BundleInv, Clean
  <2>4. ASSUME NEW i \in Index, NEW k \in Thread PROVE procs[i][k] \in {"none", "gone"}
    <3>1. CASE i \in Stream
      <4>1. cmd_pid[i] = None /\ k # None
        BY <1>0, <2>1, <3>1 DEF JoinInv, Thread, None
      <4> QED
        BY <1>0, <3>1, <4>1 DEF JoinInv
    <3>2. CASE i \notin Stream
      BY <1>0, <3>2 DEF Spare
    <3> QED
      BY <3>1, <3>2
  <2>5. ASSUME NEW i \in Index PROVE strT[i] = "none"
    <3>1. CASE i \in Stream
      BY <1>0, <2>1, <3>1 DEF StateInv, PartsInv, Here, InState, Typed
    <3>2. CASE i \notin Stream
      BY <1>0, <3>2 DEF Spare
    <3> QED
      BY <3>1, <3>2
  <2> QED
    BY <2>2, <2>3, <2>4, <2>5
<1>3. NoFrameForADeadThread
  BY <1>0 DEF NoFrameForADeadThread, PartsInv, BundleInv
<1> QED
  BY <1>1, <1>2, <1>3 DEF NothingLeftBehind

\* Every variable has its type: the references of a buffer, as many as mm_stream_buf_done()
\* and the two ways of a frame can make of them, are two at most.
THEOREM TypeCorrect == Spec => []TypeOK
BY Invariance, ImpliesTypeOK, PTL

\* The references that mm_stream_read_msm_frame(), mm_stream_handle_rcvd_buf() and
\* mm_stream_buf_done() count are those who have the buffer, and the kernel has it if there
\* are none: no buffer of a stream that is on is lost or filled while it is read.
THEOREM BuffersNeverLost == Spec => []BuffersAccountedFor
BY Invariance, ImpliesBuffersAccountedFor, PTL

\* When mm_stream_unreg_buf() and the HAL give a stream's buffers back, the kernel, the poll
\* thread and the queues and threads of the stack have no way to them any more.
THEOREM BuffersGivenBackAreLetGo == Spec => []StackLetsGo
BY Invariance, ImpliesStackLetsGo, PTL

\* mm_channel_stop() and mm_channel_del() leave every stream where the next start takes it
\* from, no thread, and no frame queued for a thread that is gone.
THEOREM StoppingIsComplete == Spec => []NothingLeftBehind
BY Invariance, ImpliesNothingLeftBehind, PTL
=============================================================================
