----------------------------- MODULE ApiHandshake -----------------------------
(***************************************************************************)
(* How an API call of the framework becomes a synchronous one: the caller   *)
(* locks m_lock, queues the request for the state machine thread, sleeps on *)
(* m_cond until the handler's signalAPIResult() stores an answer to the same*)
(* API, and unlocks (QCamera2HWI.cpp).  The thread waits on cmd_sem and     *)
(* empties api_queue before evt_queue (QCameraStateMachine.cpp).            *)
(*                                                                          *)
(* A step is what happens between two points where another thread can get   *)
(* in: queueing and sem_post() are two steps, a critical section that does  *)
(* not sleep is one.  The handlers themselves are QCameraStateMachine.      *)
(***************************************************************************)
EXTENDS Naturals, Sequences, FiniteSets

CONSTANTS
    Callers,      \* threads of the framework that call into the HAL
    Apis,         \* the API events, qcamera_sm_evt_enum_t up to DUMP
    MaxCalls,     \* bound on the calls of one behaviour
    MaxEvts,      \* bound on the events of one behaviour
    MaxSpurious   \* bound on the spurious wake-ups of pthread_cond_wait()

ASSUME HandshakeAssumption ==
    /\ MaxCalls \in Nat /\ MaxEvts \in Nat /\ MaxSpurious \in Nat
    /\ Callers # {} /\ Apis # {}

\* The framework's camera service makes its calls one at a time.
OneCaller == \A c, d \in Callers : c = d

VARIABLES
    pc,         \* where each caller is
    api,        \* the API each caller is calling
    call,       \* the number of each caller's call, 0 before the first
    got,        \* the number of the call whose answer the caller last returned
    calls,      \* number of calls made so far
    m_lock,     \* owner of the mutex, or Free
    waiters,    \* callers asleep in pthread_cond_wait(&m_cond)
    spurious,   \* wake-ups nobody signalled, so far
    m_apiResult,\* the answer stored: [api, of], of the call it answers
    api_queue,  \* requests queued for the state machine thread
    evt_queue,  \* events queued for it
    cmd_sem,    \* its semaphore
    posting,    \* events queued whose sem_post() is still to come
    evts,       \* number of events posted so far
    sm,         \* where the state machine thread is
    job         \* what it dequeued last

callerVars == <<pc, api, call, got, calls>>
lockVars   == <<m_lock, waiters, spurious, m_apiResult>>
evtVars    == <<evt_queue, posting, evts>>
smVars     == <<sm, job>>
vars == <<callerVars, lockVars, api_queue, evtVars, cmd_sem, smVars>>

Free == "free"
ASSUME FreeAssumption == Free \notin Callers

\* memset() leaves an answer to no API and of no call.
NoApi    == "no_api"
NoResult == [api |-> NoApi, of |-> 0]
ASSUME NoApiAssumption == NoApi \notin Apis

ExitCmd == [cmd |-> "EXIT", api |-> NoApi, of |-> 0]
EvtCmd  == [cmd |-> "EVT",  api |-> NoApi, of |-> 0]
ApiCmd(a, n) == [cmd |-> "API", api |-> a, of |-> n]

CallerPc == {"idle", "locked", "post", "reset", "check", "asleep", "relock",
             "answered", "deleting", "joining", "closed"}
SmPc == {"sem_wait", "take", "handle", "signal", "exited"}

-----------------------------------------------------------------------------
(* The caller                                                                *)

\* lockAPI().  Nobody calls into an object that is being deleted.
LockAPI(c) ==
    /\ pc[c] = "idle"
    /\ \A d \in Callers : pc[d] \notin {"deleting", "joining"}
    /\ m_lock = Free
    /\ calls < MaxCalls
    /\ m_lock' = c
    /\ calls' = calls + 1
    /\ call' = [call EXCEPT ![c] = calls + 1]
    /\ api' \in {[api EXCEPT ![c] = a] : a \in Apis}
    /\ pc' = [pc EXCEPT ![c] = "locked"]
    /\ UNCHANGED <<got, waiters, spurious, m_apiResult, api_queue, evtVars, cmd_sem, smVars>>

\* processAPI(): the request is queued ...
ProcAPI(c) ==
    /\ pc[c] = "locked"
    /\ api_queue' = Append(api_queue, ApiCmd(api[c], call[c]))
    /\ pc' = [pc EXCEPT ![c] = "post"]
    /\ UNCHANGED <<api, call, got, calls, lockVars, evtVars, cmd_sem, smVars>>

\* ... or there is no memory for its node: the call fails without waiting.
ProcAPINoMemory(c) ==
    /\ pc[c] = "locked"
    /\ m_lock' = Free
    /\ pc' = [pc EXCEPT ![c] = "idle"]
    /\ UNCHANGED <<api, call, got, calls, waiters, spurious, m_apiResult,
                   api_queue, evtVars, cmd_sem, smVars>>

SemPost(c) ==
    /\ pc[c] = "post"
    /\ cmd_sem' = cmd_sem + 1
    /\ pc' = [pc EXCEPT ![c] = "reset"]
    /\ UNCHANGED <<api, call, got, calls, lockVars, api_queue, evtVars, smVars>>

\* Planted error: the answer of an earlier call is not cleared.
KeepResult(c) ==
    /\ pc[c] = "reset"
    /\ pc' = [pc EXCEPT ![c] = "check"]
    /\ UNCHANGED <<api, call, got, calls, lockVars, api_queue, evtVars, cmd_sem, smVars>>

\* waitAPIResult(): the answer is cleared, with m_lock still held.
ResetResult(c) ==
    /\ pc[c] = "reset"
    /\ m_apiResult' = NoResult
    /\ pc' = [pc EXCEPT ![c] = "check"]
    /\ UNCHANGED <<api, call, got, calls, m_lock, waiters, spurious, api_queue,
                   evtVars, cmd_sem, smVars>>

\* The loop of waitAPIResult(): an answer to this API ends it, anything else
\* puts the caller to sleep, which gives up m_lock.
CheckResult(c) ==
    /\ pc[c] = "check"
    /\ IF m_apiResult.api = api[c]
       THEN /\ pc' = [pc EXCEPT ![c] = "answered"]
            /\ UNCHANGED <<m_lock, waiters>>
       ELSE /\ pc' = [pc EXCEPT ![c] = "asleep"]
            /\ m_lock' = Free
            /\ waiters' = waiters \cup {c}
    /\ UNCHANGED <<api, call, got, calls, spurious, m_apiResult, api_queue,
                   evtVars, cmd_sem, smVars>>

SpuriousWakeup(c) ==
    /\ c \in waiters
    /\ spurious < MaxSpurious
    /\ spurious' = spurious + 1
    /\ waiters' = waiters \ {c}
    /\ pc' = [pc EXCEPT ![c] = "relock"]
    /\ UNCHANGED <<api, call, got, calls, m_lock, m_apiResult, api_queue,
                   evtVars, cmd_sem, smVars>>

Relock(c) ==
    /\ pc[c] = "relock"
    /\ m_lock = Free
    /\ m_lock' = c
    /\ pc' = [pc EXCEPT ![c] = "check"]
    /\ UNCHANGED <<api, call, got, calls, waiters, spurious, m_apiResult,
                   api_queue, evtVars, cmd_sem, smVars>>

\* rc = m_apiResult.status; unlockAPI()
UnlockAPI(c) ==
    /\ pc[c] = "answered"
    /\ got' = [got EXCEPT ![c] = m_apiResult.of]
    /\ m_lock' = Free
    /\ pc' = [pc EXCEPT ![c] = "idle"]
    /\ UNCHANGED <<api, call, calls, waiters, spurious, m_apiResult, api_queue,
                   evtVars, cmd_sem, smVars>>

\* close_camera_device() deletes the object while no call is in progress; the
\* destructor of the state machine queues EXIT for the thread and joins it.
Delete(c) ==
    /\ \A d \in Callers : pc[d] = "idle"
    /\ api_queue' = Append(api_queue, ExitCmd)
    /\ pc' = [pc EXCEPT ![c] = "deleting"]
    /\ UNCHANGED <<api, call, got, calls, lockVars, evtVars, cmd_sem, smVars>>

DeletePost(c) ==
    /\ pc[c] = "deleting"
    /\ cmd_sem' = cmd_sem + 1
    /\ pc' = [pc EXCEPT ![c] = "joining"]
    /\ UNCHANGED <<api, call, got, calls, lockVars, api_queue, evtVars, smVars>>

Join(c) ==
    /\ pc[c] = "joining"
    /\ sm = "exited"
    /\ pc' = [d \in Callers |-> "closed"]
    /\ UNCHANGED <<api, call, got, calls, lockVars, api_queue, evtVars, cmd_sem, smVars>>

-----------------------------------------------------------------------------
(* The threads that post events: the event callback of the camera, the jpeg  *)
(* callback and the postprocessor's notify thread                            *)

ProcEvt ==
    /\ evts < MaxEvts
    /\ \A c \in Callers : pc[c] # "closed"
    /\ evt_queue' = Append(evt_queue, EvtCmd)
    /\ posting' = posting + 1
    /\ evts' = evts + 1
    /\ UNCHANGED <<callerVars, lockVars, api_queue, cmd_sem, smVars>>

ProcEvtPost ==
    /\ posting > 0
    /\ posting' = posting - 1
    /\ cmd_sem' = cmd_sem + 1
    /\ UNCHANGED <<callerVars, lockVars, api_queue, evt_queue, evts, smVars>>

-----------------------------------------------------------------------------
(* smEvtProcRoutine()                                                        *)

\* Planted error: the thread does not wait.
SmNoWait ==
    /\ sm = "sem_wait"
    /\ cmd_sem' = cmd_sem - 1
    /\ sm' = "take"
    /\ UNCHANGED <<callerVars, lockVars, api_queue, evtVars, job>>

SmSemWait ==
    /\ sm = "sem_wait"
    /\ cmd_sem > 0
    /\ cmd_sem' = cmd_sem - 1
    /\ sm' = "take"
    /\ UNCHANGED <<callerVars, lockVars, api_queue, evtVars, job>>

\* Planted error: evt_queue is never looked at.
SmTakeApiOnly ==
    /\ sm = "take"
    /\ IF api_queue # <<>>
       THEN job' = Head(api_queue) /\ api_queue' = Tail(api_queue) /\ sm' = "handle"
       ELSE sm' = "sem_wait" /\ UNCHANGED <<job, api_queue>>
    /\ UNCHANGED <<callerVars, lockVars, evtVars, cmd_sem>>

\* First the API queue, then the event queue; both may be empty, if what this
\* sem_post() announced was taken with an earlier one.
SmTake ==
    /\ sm = "take"
    /\ \/ /\ api_queue # <<>>
          /\ job' = Head(api_queue)
          /\ api_queue' = Tail(api_queue)
          /\ sm' = "handle"
          /\ UNCHANGED evt_queue
       \/ /\ api_queue = <<>> /\ evt_queue # <<>>
          /\ job' = Head(evt_queue)
          /\ evt_queue' = Tail(evt_queue)
          /\ sm' = "handle"
          /\ UNCHANGED api_queue
       \/ /\ api_queue = <<>> /\ evt_queue = <<>>
          /\ sm' = "sem_wait"
          /\ UNCHANGED <<job, api_queue, evt_queue>>
    /\ UNCHANGED <<callerVars, lockVars, posting, evts, cmd_sem>>

\* The handler runs; only an API is answered.
SmHandle ==
    /\ sm = "handle"
    /\ sm' = CASE job.cmd = "API"  -> "signal"
               [] job.cmd = "EVT"  -> "sem_wait"
               [] job.cmd = "EXIT" -> "exited"
    /\ UNCHANGED <<callerVars, lockVars, api_queue, evtVars, cmd_sem, job>>

\* Planted error: the answer is stored without taking m_lock.
SignalUnlocked ==
    /\ sm = "signal"
    /\ m_apiResult' = [api |-> job.api, of |-> job.of]
    /\ \/ /\ waiters = {}
          /\ UNCHANGED <<waiters, pc>>
       \/ \E c \in waiters :
            /\ waiters' = waiters \ {c}
            /\ pc' = [pc EXCEPT ![c] = "relock"]
    /\ sm' = "sem_wait"
    /\ UNCHANGED <<api, call, got, calls, m_lock, spurious, api_queue, evtVars,
                   cmd_sem, job>>

\* signalAPIResult(): stores the answer and wakes one sleeper, if there is one.
SignalAPIResult ==
    /\ sm = "signal"
    /\ m_lock = Free
    /\ m_apiResult' = [api |-> job.api, of |-> job.of]
    /\ \/ /\ waiters = {}
          /\ UNCHANGED <<waiters, pc>>
       \/ \E c \in waiters :
            /\ waiters' = waiters \ {c}
            /\ pc' = [pc EXCEPT ![c] = "relock"]
    /\ sm' = "sem_wait"
    /\ UNCHANGED <<api, call, got, calls, m_lock, spurious, api_queue, evtVars,
                   cmd_sem, job>>

-----------------------------------------------------------------------------

Init ==
    /\ pc = [c \in Callers |-> "idle"]
    /\ api = [c \in Callers |-> NoApi]
    /\ call = [c \in Callers |-> 0]
    /\ got = [c \in Callers |-> 0]
    /\ calls = 0
    /\ m_lock = Free
    /\ waiters = {}
    /\ spurious = 0
    /\ m_apiResult = NoResult
    /\ api_queue = <<>>
    /\ evt_queue = <<>>
    /\ cmd_sem = 0
    /\ posting = 0
    /\ evts = 0
    /\ sm = "sem_wait"
    /\ job = EvtCmd

CallerStep(c) == \/ ProcAPI(c) \/ ProcAPINoMemory(c)
                 \/ SemPost(c) \/ ResetResult(c) \/ CheckResult(c) \/ Relock(c)
                 \/ UnlockAPI(c) \/ DeletePost(c) \/ Join(c)

SmStep == SmSemWait \/ SmTake \/ SmHandle \/ SignalAPIResult

Next == \/ \E c \in Callers : \/ LockAPI(c) \/ CallerStep(c)
                              \/ SpuriousWakeup(c) \/ Delete(c)
        \/ ProcEvt \/ ProcEvtPost
        \/ SmStep

Spec == Init /\ [][Next]_vars

\* The scheduler runs every thread that can run.  Nobody has to call, to post an
\* event, to wake a sleeper spuriously or to delete the object.
Fairness == /\ \A c \in Callers : WF_vars(CallerStep(c))
            /\ WF_vars(ProcEvtPost)
            /\ WF_vars(SmStep)

FairSpec == Spec /\ Fairness

-----------------------------------------------------------------------------
(* Properties                                                                *)

Calls == 0 .. MaxCalls
Cmd == [cmd : {"API", "EVT", "EXIT"}, api : Apis \cup {NoApi}, of : Calls]

\* Every variable has its type; no counter ever goes below zero.
TypeOK ==
    /\ pc \in [Callers -> CallerPc]
    /\ api \in [Callers -> Apis \cup {NoApi}]
    /\ call \in [Callers -> Calls]
    /\ got \in [Callers -> Calls]
    /\ calls \in Calls
    /\ m_lock \in Callers \cup {Free}
    /\ waiters \subseteq Callers
    /\ spurious \in Nat
    /\ m_apiResult \in [api : Apis \cup {NoApi}, of : Calls]
    /\ api_queue \in Seq(Cmd)
    /\ evt_queue \in Seq(Cmd)
    /\ cmd_sem \in Nat
    /\ posting \in Nat
    /\ evts \in Nat
    /\ sm \in SmPc
    /\ job \in Cmd

\* A call returns with the answer to itself, not with one left over from an earlier
\* call of the same API.  With two threads that call at a time it does not hold.
AnswerIsForThisCall ==
    \A c \in Callers : pc[c] = "answered" => m_apiResult.of = call[c]

\* Every call returns.
EveryCallReturns ==
    \A c \in Callers : pc[c] \notin {"idle", "closed"} ~> pc[c] \in {"idle", "closed"}

\* An event is handled once the callers fall silent, even though an API always
\* goes first; only deleting the object leaves events behind.
EventsAreHandled == evt_queue # <<>> ~> (evt_queue = <<>> \/ sm = "exited")
=============================================================================
