--------------------------------- MODULE MmJpeg --------------------------------
(***************************************************************************)
(* The JPEG interface of the QCamera2 stack: mm_jpeg_interface.c, mm_jpeg.c *)
(* and mm_jpeg_queue.c.  Clients start, abort and close under g_intf_lock;  *)
(* the job manager's thread hands one job at a time to the OMX encoder; the *)
(* encoder's callbacks end a job and create a thread that calls the client. *)
(*                                                                          *)
(* The encoder is external.  Its callbacks come from one thread of its own, *)
(* in order.  It completes every state it is sent to, becomes idle by       *)
(* itself once it has its buffers (mm_jpeg.c waits for that and never asks  *)
(* for it), and gives its buffer back when it is flushed.  Thumbnails are   *)
(* left out: the input of one is compiled out, so that none is dropped.     *)
(*                                                                          *)
(* One step is what a thread does between two points at which it waits or   *)
(* gives up a lock.  A semaphore is posted in the step that ends before the *)
(* post, and waited for in the step that begins after the wait.  The model  *)
(* is one life of g_jpeg_obj, which malloc() and memset() make anew; what a *)
(* thread does to the object once it is freed is undefined and not a step.  *)
(***************************************************************************)
EXTENDS Naturals, Sequences, FiniteSets, Functions

CONSTANTS
    Clients,     \* users of the interface, each opening it once
    MaxJobs,     \* bound on the jobs of one behaviour
    MaxAborts,   \* bound on the calls of abort_job()
    BadConfigs   \* may a job's configuration be bad: mm_jpeg_omx_encode() refuses it

ASSUME MmJpegAssumption ==
    /\ IsFiniteSet(Clients) /\ Clients # {}
    /\ MaxJobs \in Nat /\ MaxAborts \in Nat
    /\ BadConfigs \subseteq BOOLEAN

Job  == 1 .. MaxJobs
None == 0
EXIT == MaxJobs + 1          \* the EXIT command, among the jobs of job_queue
NoCall    == [pc |-> "none", closes |-> {}, job |-> None]
OmxEvents == {"Idle", "Executing", "Loaded", "Flush"}    \* OMX_EventCmdComplete

VARIABLES
    g_jpeg_obj,    \* "NULL" before the first open, "open", and "freed"
    clients,       \* the clients that are open
    closed,        \* the clients that have closed
    started,       \* number of jobs started; the id of the last one
    owner,         \* client_hdl of a job
    deleted,       \* jobs taken out of a queue by abort_job() or close()
    aborts,        \* number of calls of abort_job() so far
    intf,          \* the call that holds g_intf_lock
    job_lock,      \* who holds it
    job_sem,
    job_queue,     \* jobs to do, and EXIT
    ongoing_job_q,
    cb_q,          \* jobs whose callback is being called
    jobmgr,        \* what the job manager's thread is at, and its job
    job_status,    \* status of a job that has ended
    notify,        \* what the thread that calls back for the job is at
    evt,           \* omx_evt_rcvd, the last event of the encoder
    omx_buf,       \* the job whose output buffer the encoder fills
    omx_events,    \* callbacks the encoder has still to make
    ftbdone,       \* the job whose mm_jpeg_ftbdone() is at job_lock
    upsets         \* which of the events that jobs may suffer from there were

clientVars == <<g_jpeg_obj, clients, closed, started, owner, aborts>>
lockVars   == <<job_lock, job_sem>>
queueVars  == <<job_queue, ongoing_job_q, cb_q>>
endVars    == <<deleted, job_status, notify, upsets>>
omxVars    == <<evt, omx_buf, omx_events, ftbdone>>
vars == <<clientVars, intf, lockVars, queueVars, jobmgr, endVars, omxVars>>

Elems(s) == {s[i] : i \in DOMAIN s}

Init ==
    /\ g_jpeg_obj = "NULL" /\ clients = {} /\ closed = {}
    /\ started = 0 /\ aborts = 0
    /\ owner = [j \in Job |-> None]
    /\ intf = NoCall
    /\ job_lock = "free" /\ job_sem = 0
    /\ job_queue = <<>> /\ ongoing_job_q = <<>> /\ cb_q = {}
    /\ jobmgr = [pc |-> "none", job |-> None]
    /\ deleted = {} /\ upsets = {}
    /\ job_status = [j \in Job |-> "none"] /\ notify = [j \in Job |-> "none"]
    /\ evt = "none" /\ omx_buf = None /\ omx_events = <<>> /\ ftbdone = None

-----------------------------------------------------------------------------
(* The interface.  g_intf_lock lets one call in at a time.                   *)

\* jpeg_open(): the first client creates the object and launches the thread.
Open(c) ==
    /\ intf = NoCall
    /\ g_jpeg_obj # "freed"
    /\ c \notin clients \cup closed
    /\ clients' = clients \cup {c}
    /\ g_jpeg_obj' = "open"
    /\ jobmgr' = IF g_jpeg_obj = "NULL" THEN [jobmgr EXCEPT !.pc = "wait"] ELSE jobmgr
    /\ UNCHANGED <<closed, started, owner, aborts, intf, lockVars, queueVars,
                   endVars, omxVars>>

\* mm_jpeg_start_job(), without job_lock: the job is queued and posted.
StartJob(c) ==
    /\ intf = NoCall
    /\ c \in clients
    /\ started < MaxJobs
    /\ started' = started + 1
    /\ owner' = [owner EXCEPT ![started'] = c]
    /\ job_queue' = Append(job_queue, started')
    /\ job_sem' = job_sem + 1
    /\ UNCHANGED <<g_jpeg_obj, clients, closed, aborts, intf, job_lock,
                   ongoing_job_q, cb_q, jobmgr, endVars, omxVars>>

\* mm_jpeg_abort_job() and mm_jpeg_close() up to job_lock.
AbortJob(j) ==
    /\ intf = NoCall
    /\ j <= started /\ owner[j] \in clients
    /\ aborts < MaxAborts
    /\ aborts' = aborts + 1
    /\ intf' = [pc |-> "lock", closes |-> {}, job |-> j]
    /\ UNCHANGED <<g_jpeg_obj, clients, closed, started, owner, lockVars, queueVars,
                   jobmgr, endVars, omxVars>>

Close(c) ==
    /\ intf = NoCall
    /\ c \in clients
    /\ intf' = [pc |-> "lock", closes |-> {c}, job |-> None]
    /\ UNCHANGED <<clientVars, lockVars, queueVars, jobmgr, endVars, omxVars>>

At(pc)        == intf.pc = pc
Goto(pc, job) == intf' = [intf EXCEPT !.pc = pc, !.job = job]
Closing       == intf.closes # {}
Mine(j)       == IF Closing THEN owner[j] \in intf.closes ELSE j = intf.job
\* Mutant: the jobs that are found stay in the queue.
OthersAndMine(q) == q

\* What is left of a queue without the jobs that are looked for: its k-th element
\* is the one at the k-th place that is kept.
Kept(q)    == {i \in DOMAIN q : q[i] = EXIT \/ ~Mine(q[i])}
Rank(K, i) == Cardinality({h \in K : h <= i})
Others(q)  == [k \in 1 .. Cardinality(Kept(q)) |->
                 q[CHOOSE i \in Kept(q) : Rank(Kept(q), i) = k]]

\* abort_job() gives up job_lock, wakes the job manager and returns.
AbortReturns ==
    /\ intf' = NoCall
    /\ job_lock' = "free"
    /\ job_sem' = job_sem + 1

Lock ==
    /\ At("lock")
    /\ job_lock = "free"
    /\ job_lock' = "intf"
    /\ Goto("ongoing", intf.job)
    /\ UNCHANGED <<clientVars, job_sem, queueVars, jobmgr, endVars, omxVars>>

\* The encoder's part of OMX_CommandFlush: its buffer comes back, the flush ends.
Returned == IF omx_buf = None \/ "FTBDONE" \in Elems(omx_events) THEN <<>> ELSE <<"FTBDONE">>
Flushed  == omx_events \o Returned \o <<"Flush">>

\* mm_jpeg_omx_abort_job() of the ongoing job, up to the wait for its end ...
Flush(j) ==
    /\ At("ongoing")
    /\ j \in Elems(ongoing_job_q) /\ Mine(j)
    /\ ongoing_job_q' = Others(ongoing_job_q)
    /\ omx_events' = Flushed
    /\ Goto("flush", j)
    /\ UNCHANGED <<clientVars, lockVars, job_queue, cb_q, jobmgr, endVars, evt, omx_buf,
                   ftbdone>>

\* What mm_jpeg_clean_omx_job() has the encoder answer.
Cleaned(events) == events \o <<"Idle", "Loaded">>

\* Mutant: the end of the flush is not waited for.
FlushEndsAtOnce ==
    /\ At("flush")
    /\ omx_events' = Cleaned(omx_events)
    /\ deleted' = deleted \cup {intf.job}
    /\ IF Closing
       THEN Goto("ongoing", None) /\ UNCHANGED <<upsets, lockVars>>
       ELSE AbortReturns /\ UNCHANGED upsets
    /\ UNCHANGED <<clientVars, queueVars, jobmgr, job_status, notify, evt, omx_buf, ftbdone>>

\* ... and after it: close() looks for more, abort_job() is done.
FlushEnds ==
    /\ At("flush")
    /\ evt = "DONE"
    /\ omx_events' = Cleaned(omx_events)
    /\ deleted' = deleted \cup {intf.job}
    /\ IF Closing
       THEN /\ Goto("ongoing", None)
            /\ upsets' = upsets \cup {"closed"}
            /\ UNCHANGED lockVars
       ELSE /\ AbortReturns
            /\ upsets' = upsets \cup {"aborted"}
    /\ UNCHANGED <<clientVars, queueVars, jobmgr, job_status, notify, evt, omx_buf, ftbdone>>

\* No such job is ongoing: those still to do are deleted.  abort_job() is then
\* done, unless there was none.
DropTodo ==
    /\ At("ongoing")
    /\ \A j \in Elems(ongoing_job_q) : ~Mine(j)
    /\ job_queue' = Others(job_queue)
    /\ deleted' = deleted \cup (Elems(job_queue) \ Elems(job_queue'))
    /\ IF Closing \/ job_queue' = job_queue
       THEN Goto("callbacks", intf.job) /\ UNCHANGED lockVars
       ELSE AbortReturns
    /\ UNCHANGED <<clientVars, ongoing_job_q, cb_q, jobmgr, job_status, notify, upsets,
                   omxVars>>

\* A callback that is being called is waited for.
JoinCallback(j) ==
    /\ At("callbacks")
    /\ j \in cb_q /\ Mine(j)
    /\ cb_q' = cb_q \ {j}
    /\ Goto("join", j)
    /\ UNCHANGED <<clientVars, lockVars, job_queue, ongoing_job_q, jobmgr, endVars, omxVars>>

CallbackJoined ==
    /\ At("join")
    /\ notify[intf.job] = "called"
    /\ Goto("callbacks", intf.job)
    /\ UNCHANGED <<clientVars, lockVars, queueVars, jobmgr, endVars, omxVars>>

\* No callback is left in cb_q.  close() does not wake the job manager; the last
\* client's has it exit.
Unlock ==
    /\ At("callbacks")
    /\ \A j \in cb_q : ~Mine(j)
    /\ \/ /\ ~Closing
          /\ AbortReturns
          /\ UNCHANGED <<clients, closed, job_queue>>
       \/ /\ Closing
          /\ job_lock' = "free"
          /\ clients' = clients \ intf.closes
          /\ closed' = closed \cup intf.closes
          /\ IF clients' # {}
             THEN /\ intf' = NoCall
                  /\ UNCHANGED <<job_queue, job_sem>>
             ELSE /\ Goto("exit", None)
                  /\ job_queue' = Append(job_queue, EXIT)
                  /\ job_sem' = job_sem + 1
    /\ UNCHANGED <<g_jpeg_obj, started, owner, aborts, ongoing_job_q, cb_q, jobmgr,
                   endVars, omxVars>>

\* mm_jpeg_jobmgr_thread_release() has joined the thread; the object is freed.
Deinit ==
    /\ At("exit")
    /\ jobmgr.pc = "gone"
    /\ g_jpeg_obj' = "freed"
    /\ job_queue' = <<>> /\ ongoing_job_q' = <<>> /\ cb_q' = {}
    /\ intf' = NoCall
    /\ UNCHANGED <<clients, closed, started, owner, aborts, lockVars, jobmgr, endVars,
                   omxVars>>

CallContinues == \/ Lock \/ FlushEnds \/ DropTodo \/ CallbackJoined \/ Unlock \/ Deinit
                 \/ \E j \in Job : Flush(j) \/ JoinCallback(j)

-----------------------------------------------------------------------------
(* The job manager, mm_jpeg_jobmgr_thread().                                 *)

\* It is woken.  With a job ongoing the wake-up is used up for nothing.
JobmgrWakes ==
    /\ jobmgr.pc = "wait"
    /\ job_sem > 0
    /\ job_sem' = job_sem - 1
    /\ jobmgr' = IF ongoing_job_q = <<>> THEN [jobmgr EXCEPT !.pc = "lock"] ELSE jobmgr
    /\ UNCHANGED <<clientVars, intf, job_lock, queueVars, endVars, omxVars>>

\* The thread that tells the client is created with the job's status.
EndJob(j, status) ==
    /\ job_status' = [job_status EXCEPT ![j] = status]
    /\ notify' = [notify EXCEPT ![j] = "created"]

\* A job the encoder refuses ends with an error, and nobody posts.
RefuseJob(j) ==
    /\ TRUE \in BadConfigs
    /\ EndJob(j, "ERROR")
    /\ upsets' = upsets \cup {"refused"}
    /\ jobmgr' = [jobmgr EXCEPT !.pc = "wait"]
    /\ UNCHANGED <<job_lock, omx_events>>

\* Mutant: the buffers are not given, so that the encoder does not become idle.
PrepareJobWithoutBuffers(j) ==
    /\ FALSE \in BadConfigs
    /\ job_lock' = "jobmgr"
    /\ jobmgr' = [pc |-> "idle", job |-> j]
    /\ UNCHANGED <<job_status, notify, upsets, omx_events>>

\* The encoder is given the buffers of any other, and job_lock is kept.
PrepareJob(j) ==
    /\ FALSE \in BadConfigs
    /\ job_lock' = "jobmgr"
    /\ omx_events' = Append(omx_events, "Idle")
    /\ jobmgr' = [pc |-> "idle", job |-> j]
    /\ UNCHANGED <<job_status, notify, upsets>>

\* Mutant: EXIT is taken for a job.
JobmgrTakesAny ==
    /\ jobmgr.pc = "lock"
    /\ job_lock = "free"
    /\ job_queue # <<>>
    /\ job_queue' = Tail(job_queue)
    /\ PrepareJob(Head(job_queue))
    /\ UNCHANGED <<clientVars, intf, job_sem, ongoing_job_q, cb_q, deleted, evt, omx_buf,
                   ftbdone>>

JobmgrTakes ==
    /\ jobmgr.pc = "lock"
    /\ job_lock = "free"
    /\ IF job_queue = <<>>
       THEN /\ jobmgr' = [jobmgr EXCEPT !.pc = "wait"]
            /\ UNCHANGED <<job_queue, job_lock, job_status, notify, upsets, omx_events>>
       ELSE /\ job_queue' = Tail(job_queue)
            /\ \/ /\ Head(job_queue) = EXIT
                  /\ jobmgr' = [jobmgr EXCEPT !.pc = "gone"]
                  /\ UNCHANGED <<job_lock, job_status, notify, upsets, omx_events>>
               \/ /\ Head(job_queue) # EXIT
                  /\ RefuseJob(Head(job_queue)) \/ PrepareJob(Head(job_queue))
    /\ UNCHANGED <<clientVars, intf, job_sem, ongoing_job_q, cb_q, deleted, evt, omx_buf,
                   ftbdone>>

\* mm_jpeg_job_wait_for_cmd_complete(OMX_StateIdle), then the next state.
SendExecuting ==
    /\ jobmgr.pc = "idle"
    /\ evt = "Idle"
    /\ omx_events' = Append(omx_events, "Executing")
    /\ jobmgr' = [jobmgr EXCEPT !.pc = "executing"]
    /\ UNCHANGED <<clientVars, intf, lockVars, queueVars, endVars, evt, omx_buf, ftbdone>>

\* OMX_FillThisBuffer(), and the job is ongoing.
StartEncoding ==
    /\ jobmgr.pc = "executing"
    /\ evt = "Executing"
    /\ omx_buf' = jobmgr.job
    /\ ongoing_job_q' = Append(ongoing_job_q, jobmgr.job)
    /\ job_lock' = "free"
    /\ jobmgr' = [pc |-> "wait", job |-> None]
    /\ UNCHANGED <<clientVars, intf, job_sem, job_queue, cb_q, endVars, evt, omx_events,
                   ftbdone>>

Jobmgr == JobmgrWakes \/ JobmgrTakes \/ SendExecuting \/ StartEncoding

-----------------------------------------------------------------------------
(* The encoder and its callbacks.                                            *)

Encoded ==
    /\ omx_buf # None
    /\ "FTBDONE" \notin Elems(omx_events)
    /\ omx_events' = Append(omx_events, "FTBDONE")
    /\ UNCHANGED <<clientVars, intf, lockVars, queueVars, jobmgr, endVars, evt, omx_buf,
                   ftbdone>>

\* mm_jpeg_handle_omx_event(), and mm_jpeg_ftbdone() up to job_lock.
OmxEvent ==
    /\ g_jpeg_obj = "open"
    /\ ftbdone = None
    /\ omx_events # <<>>
    /\ omx_events' = Tail(omx_events)
    /\ IF Head(omx_events) = "FTBDONE"
       THEN evt' = "DONE" /\ ftbdone' = omx_buf /\ omx_buf' = None
       ELSE evt' = Head(omx_events) /\ UNCHANGED <<ftbdone, omx_buf>>
    /\ UNCHANGED <<clientVars, intf, lockVars, queueVars, jobmgr, endVars>>

\* Mutant: the job manager is not woken.
JobDoneUnposted ==
    /\ g_jpeg_obj = "open"
    /\ ftbdone # None
    /\ job_lock = "free"
    /\ ftbdone' = None
    /\ IF ongoing_job_q = <<>>
       THEN UNCHANGED <<ongoing_job_q, job_status, notify, omx_events>>
       ELSE /\ ongoing_job_q' = Tail(ongoing_job_q)
            /\ EndJob(Head(ongoing_job_q), "DONE")
            /\ omx_events' = Cleaned(omx_events)
    /\ UNCHANGED <<clientVars, intf, lockVars, job_queue, cb_q, jobmgr, deleted, upsets,
                   evt, omx_buf>>

\* The rest of mm_jpeg_ftbdone(): the job that is ongoing, if any, is done.
JobDone ==
    /\ g_jpeg_obj = "open"
    /\ ftbdone # None
    /\ job_lock = "free"
    /\ ftbdone' = None
    /\ job_sem' = job_sem + 1
    /\ IF ongoing_job_q = <<>>
       THEN UNCHANGED <<ongoing_job_q, job_status, notify, omx_events>>
       ELSE /\ ongoing_job_q' = Tail(ongoing_job_q)
            /\ EndJob(Head(ongoing_job_q), "DONE")
            /\ omx_events' = Cleaned(omx_events)
    /\ UNCHANGED <<clientVars, intf, job_lock, job_queue, cb_q, jobmgr, deleted, upsets,
                   evt, omx_buf>>

-----------------------------------------------------------------------------
(* mm_jpeg_notify_thread(), one for each job that has ended: the job goes to *)
(* cb_q, the client is called, and the job leaves cb_q.                      *)

NotifyQueues(j) ==
    /\ g_jpeg_obj = "open"
    /\ notify[j] = "created"
    /\ notify' = [notify EXCEPT ![j] = "calls"]
    /\ cb_q' = cb_q \cup {j}
    /\ UNCHANGED <<clientVars, intf, lockVars, job_queue, ongoing_job_q, jobmgr, deleted,
                   job_status, upsets, omxVars>>

NotifyCalls(j) ==
    /\ notify[j] = "calls"
    /\ notify' = [notify EXCEPT ![j] = "called"]
    /\ cb_q' = cb_q \ {j}
    /\ UNCHANGED <<clientVars, intf, lockVars, job_queue, ongoing_job_q, jobmgr, deleted,
                   job_status, upsets, omxVars>>

-----------------------------------------------------------------------------
Next == \/ \E c \in Clients : Open(c) \/ StartJob(c) \/ Close(c)
        \/ \E j \in Job : AbortJob(j) \/ NotifyQueues(j) \/ NotifyCalls(j)
        \/ CallContinues
        \/ Jobmgr
        \/ Encoded \/ OmxEvent \/ JobDone

Spec == Init /\ [][Next]_vars

\* Every thread that can go on does, and the encoder ends what it began.
Fairness ==
    /\ WF_vars(CallContinues)
    /\ WF_vars(Jobmgr)
    /\ WF_vars(Encoded) /\ WF_vars(OmxEvent) /\ WF_vars(JobDone)
    /\ \A j \in Job : WF_vars(NotifyQueues(j)) /\ WF_vars(NotifyCalls(j))

FairSpec == Spec /\ Fairness

-----------------------------------------------------------------------------
(* Properties                                                                *)

\* Every variable has its type.
TypeOK ==
    /\ g_jpeg_obj \in {"NULL", "open", "freed"}
    /\ clients \subseteq Clients /\ closed \subseteq Clients
    /\ started \in 0 .. MaxJobs /\ aborts \in 0 .. MaxAborts
    /\ owner \in [Job -> Clients \cup {None}]
    /\ intf \in [pc : {"none", "lock", "ongoing", "flush", "callbacks", "join", "exit"},
                 closes : SUBSET Clients, job : Job \cup {None}]
    /\ job_lock \in {"free", "intf", "jobmgr"} /\ job_sem \in Nat
    /\ job_queue \in Seq(Job \cup {EXIT}) /\ ongoing_job_q \in Seq(Job) /\ cb_q \subseteq Job
    /\ jobmgr \in [pc : {"none", "wait", "lock", "idle", "executing", "gone"},
                   job : Job \cup {None}]
    /\ deleted \subseteq Job /\ upsets \subseteq {"refused", "closed", "aborted"}
    /\ job_status \in [Job -> {"none", "DONE", "ERROR"}]
    /\ notify \in [Job -> {"none", "created", "calls", "called"}]
    /\ evt \in OmxEvents \cup {"none", "DONE"}
    /\ omx_buf \in Job \cup {None} /\ ftbdone \in Job \cup {None}
    /\ omx_events \in Seq(OmxEvents \cup {"FTBDONE"})

\* Where a job that was started is: to do, with the job manager, with the
\* encoder, being flushed, deleted, or ended with its client called once.
Places(j) ==
    { p \in {"todo", "jobmgr", "ongoing", "flush", "deleted", "ended"} :
        CASE p = "todo"    -> j \in Elems(job_queue)
          [] p = "jobmgr"  -> jobmgr.job = j
          [] p = "ongoing" -> j \in Elems(ongoing_job_q)
          [] p = "flush"   -> At("flush") /\ intf.job = j
          [] p = "deleted" -> j \in deleted
          [] p = "ended"   -> notify[j] # "none" }

\* A job is in one place, whatever is aborted or closed meanwhile, and close()
\* leaves none of the client's jobs to the job manager or the encoder.
JobsAccountedFor ==
    /\ \A j \in 1 .. started :
         /\ Cardinality(Places(j)) = 1
         /\ owner[j] \in closed => Places(j) \subseteq {"deleted", "ended"}
    /\ IsInjective(job_queue) /\ IsInjective(ongoing_job_q)

\* The buffer the encoder gives back is taken for the job that is ongoing: it
\* is that job's, or the job was aborted and nothing is ongoing yet.
ResultIsOfTheJob ==
    /\ Len(ongoing_job_q) <= 1
    /\ omx_buf # None => \/ ongoing_job_q = <<omx_buf>>
                         \/ At("flush") /\ intf.job = omx_buf
    /\ ftbdone # None => ongoing_job_q \in {<<>>, <<ftbdone>>}

\* The client of every job is told how it ended, unless it takes the job back,
\* closes, or one of the events is met that leave jobs waiting.
Told(j) == notify[j] = "called" \/ j \in deleted
JobsEnd == \A j \in Job : (j <= started) ~> (Told(j) \/ owner[j] \in closed \/ upsets # {})

\* abort_job() and close() return, unless the encoder had to be flushed: then
\* the job manager may take job_lock before the encoder's thread, and wait for
\* events which that thread, waiting for job_lock, cannot bring.
CallsReturn == (intf # NoCall) ~> (intf = NoCall \/ upsets \cap {"aborted", "closed"} # {})

\* mm_jpeg_interface.h on start_job(): the result of the job will be received
\* through the callback.
ResultComes == \A j \in Job : (j <= started) ~> (Told(j) \/ owner[j] \in closed)
=============================================================================
