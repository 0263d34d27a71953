-------------------------- MODULE ApiHandshake_proofs --------------------------
(***************************************************************************)
(* Why waitAPIResult() returns the answer to its own call, for any number of *)
(* calls, APIs, events and spurious wake-ups, as long as the calls come one  *)
(* at a time.  m_apiResult has no more than the API it answers: what makes   *)
(* it safe is that a request that was queued is at every moment at exactly   *)
(* one place, api_queue, the state machine thread or m_apiResult, and that   *)
(* the place is empty again before the next call is let in.                  *)
(***************************************************************************)
EXTENDS ApiHandshake, SequenceTheorems, TLAPS

-----------------------------------------------------------------------------
(* Types                                                                     *)

\* The commands are commands.
LEMMA CmdTypes ==
  /\ ExitCmd \in Cmd /\ EvtCmd \in Cmd
  /\ \A a \in Apis, n \in Calls : ApiCmd(a, n) \in Cmd
  /\ NoResult \in [api : Apis \cup {NoApi}, of : Calls]
BY HandshakeAssumption DEF ExitCmd, EvtCmd, ApiCmd, Cmd, NoResult, Calls

\* A caller has an API as long as it is calling, and events are on evt_queue.
InCall == {"locked", "post", "reset", "check", "asleep", "relock", "answered"}
Typed  == /\ TypeOK
          /\ evt_queue \in Seq({EvtCmd})
          /\ \A c \in Callers : pc[c] \in InCall \/ c \in waiters => api[c] \in Apis

\* What a queue gives and takes is of the queue's type.
LEMMA QueueTypes ==
  ASSUME NEW C, NEW q \in Seq(C)
  PROVE  /\ \A x \in C : Append(q, x) \in Seq(C)
         /\ q # <<>> => Head(q) \in C /\ Tail(q) \in Seq(C)
BY HeadTailProperties, AppendProperties

\* The steps of a caller keep the types.
LEMMA CallerTypes ==
  ASSUME Typed, NEW c \in Callers,
         LockAPI(c) \/ CallerStep(c) \/ SpuriousWakeup(c) \/ Delete(c)
  PROVE  Typed'
<1> USE DEF Typed, TypeOK, CallerPc, InCall, callerVars, lockVars, evtVars, smVars
<1>1. CASE LockAPI(c)
  <2>1. calls + 1 \in Calls
    BY <1>1, HandshakeAssumption DEF LockAPI, Calls
  <2>2. PICK a \in Apis : api' = [api EXCEPT ![c] = a]
    BY <1>1 DEF LockAPI
  <2> QED
    BY <1>1, <2>1, <2>2 DEF LockAPI
<1>2. CASE ProcAPI(c)
  <2>1. api_queue' \in Seq(Cmd)
    BY <1>2, CmdTypes, QueueTypes DEF ProcAPI
  <2> QED
    BY <1>2, <2>1 DEF ProcAPI
<1>3. CASE ProcAPINoMemory(c)
  BY <1>3 DEF ProcAPINoMemory
<1>4. CASE SemPost(c)
  BY <1>4 DEF SemPost
<1>5. CASE ResetResult(c)
  BY <1>5, CmdTypes DEF ResetResult
<1>6. CASE CheckResult(c)
  BY <1>6 DEF CheckResult
<1>7. CASE Relock(c)
  BY <1>7 DEF Relock
<1>8. CASE UnlockAPI(c)
  BY <1>8 DEF UnlockAPI
<1>9. CASE DeletePost(c)
  BY <1>9 DEF DeletePost
<1>10. CASE Join(c)
  BY <1>10 DEF Join
<1>11. CASE SpuriousWakeup(c)
  BY <1>11 DEF SpuriousWakeup
<1>12. CASE Delete(c)
  <2>1. api_queue' \in Seq(Cmd)
    BY <1>12, CmdTypes, QueueTypes DEF Delete
  <2> QED
    BY <1>12, <2>1 DEF Delete
<1> QED
  BY <1>1, <1>2, <1>3, <1>4, <1>5, <1>6, <1>7, <1>8, <1>9, <1>10, <1>11, <1>12 DEF CallerStep

\* So do those of the other threads.
LEMMA ThreadTypes ==
  ASSUME Typed, ProcEvt \/ ProcEvtPost \/ SmStep
  PROVE  Typed'
<1> USE DEF Typed, TypeOK, CallerPc, SmPc, InCall, callerVars, lockVars, evtVars, smVars
<1>1. CASE ProcEvt
  <2>1. evt_queue' \in Seq(Cmd) /\ evt_queue' \in Seq({EvtCmd})
    BY <1>1, CmdTypes, QueueTypes DEF ProcEvt
  <2> QED
    BY <1>1, <2>1 DEF ProcEvt
<1>2. CASE ProcEvtPost
  BY <1>2 DEF ProcEvtPost
<1>3. CASE SmSemWait
  BY <1>3 DEF SmSemWait
<1>4. CASE SmTake
  <2>a. api_queue # <<>> => Head(api_queue) \in Cmd /\ Tail(api_queue) \in Seq(Cmd)
    BY QueueTypes
  <2>b. evt_queue # <<>> => Head(evt_queue) \in Cmd /\ Tail(evt_queue) \in Seq(Cmd)
    BY QueueTypes
  <2>c. evt_queue # <<>> => Tail(evt_queue) \in Seq({EvtCmd})
    BY QueueTypes
  <2>1. job' \in Cmd /\ api_queue' \in Seq(Cmd) /\ evt_queue' \in Seq(Cmd) /\ sm' \in SmPc
    BY <1>4, <2>a, <2>b DEF SmTake
  <2>2. evt_queue' \in Seq({EvtCmd})
    BY <1>4, <2>c DEF SmTake
  <2> QED
    BY <1>4, <2>1, <2>2 DEF SmTake
<1>5. CASE SmHandle
  <2>1. sm' \in SmPc
    BY <1>5 DEF SmHandle, Cmd
  <2> QED
    BY <1>5, <2>1 DEF SmHandle
<1>6. CASE SignalAPIResult
  <2>1. m_apiResult' \in [api : Apis \cup {NoApi}, of : Calls]
    BY <1>6 DEF SignalAPIResult, Cmd
  <2> QED
    BY <1>6, <2>1 DEF SignalAPIResult
<1> QED
  BY <1>1, <1>2, <1>3, <1>4, <1>5, <1>6 DEF SmStep

\* At the start nobody calls.
LEMMA StartTypes == Init => Typed
BY CmdTypes, HandshakeAssumption, EmptySeq
   DEF Init, Typed, TypeOK, CallerPc, SmPc, InCall, Calls

\* The types always hold.
LEMMA TypesInvariant == Spec => []Typed
<1>1. Typed /\ [Next]_vars => Typed'
  <2> SUFFICES ASSUME Typed, [Next]_vars PROVE Typed'
    OBVIOUS
  <2>1. CASE Next
    BY <2>1, CallerTypes, ThreadTypes DEF Next
  <2>2. CASE UNCHANGED vars
    BY <2>2 DEF vars, callerVars, lockVars, evtVars, smVars, Typed, TypeOK
  <2> QED
    BY <2>1, <2>2
<1> QED
  BY <1>1, StartTypes, PTL DEF Spec

\* Every variable keeps its type, however many callers there are: cmd_sem never
\* goes below zero, since smEvtProcRoutine() waits for a sem_post().
THEOREM TypeCorrect == Spec => []TypeOK
<1>1. Typed => TypeOK
  BY DEF Typed
<1> QED
  BY <1>1, TypesInvariant, PTL

-----------------------------------------------------------------------------
(* The way of a request                                                      *)

\* The state machine thread is at work on an API request.
ApiJob == sm \in {"handle", "signal"} /\ job.cmd = "API"

\* The request of a caller is nowhere, still on its way, or answered.
NoRequest      == api_queue = <<>> /\ ~ApiJob
OnItsWay(c)    == \/ api_queue = <<ApiCmd(api[c], call[c])>> /\ ~ApiJob
                  \/ api_queue = <<>> /\ ApiJob /\ job = ApiCmd(api[c], call[c])
IsAnswered(c)  == NoRequest /\ m_apiResult = [api |-> api[c], of |-> call[c]]

\* Where it is depends on how far the caller has come.
RequestInv(c) ==
    /\ pc[c] \in {"idle", "locked"} => NoRequest
    /\ pc[c] \in {"post", "reset"} => OnItsWay(c)
    /\ pc[c] \in {"check", "asleep", "relock"} =>
         \/ OnItsWay(c) /\ m_apiResult = NoResult
         \/ IsAnswered(c)
    /\ pc[c] = "answered" => IsAnswered(c)
    /\ pc[c] \in {"deleting", "joining", "closed"} => api_queue \in {<<>>, <<ExitCmd>>} /\ ~ApiJob

\* The answer is stored under m_lock, which a caller keeps but for its sleep.
LockInv(c) ==
    /\ m_lock = c <=> pc[c] \in {"locked", "post", "reset", "check", "answered"}
    /\ c \in waiters <=> pc[c] = "asleep"

IInv == /\ Typed
        /\ sm = "signal" => job.cmd = "API"
        /\ \A c \in Callers : RequestInv(c) /\ LockInv(c)

\* At the start there is no request.
LEMMA Start == Init => IInv
<1> SUFFICES ASSUME Init PROVE IInv
  OBVIOUS
<1>1. ASSUME NEW c \in Callers PROVE RequestInv(c) /\ LockInv(c)
  BY FreeAssumption DEF Init, RequestInv, LockInv, NoRequest, ApiJob
<1> QED
  BY <1>1, StartTypes DEF Init, IInv

\* A caller's own steps move its request on, and no other caller's does.
LEMMA CallerKeeps ==
  ASSUME IInv, OneCaller, NEW c \in Callers,
         LockAPI(c) \/ CallerStep(c) \/ SpuriousWakeup(c) \/ Delete(c)
  PROVE  RequestInv(c)' /\ LockInv(c)' /\ (sm = "signal" => job.cmd = "API")'
<1> USE DEF callerVars, lockVars, evtVars, smVars
<1>0. /\ TypeOK /\ RequestInv(c) /\ LockInv(c) /\ (sm = "signal" => job.cmd = "API")
      /\ Free \notin Callers /\ NoApi \notin Apis
      /\ pc[c] \in InCall => api[c] \in Apis
  BY FreeAssumption, NoApiAssumption DEF IInv, Typed
<1>1. /\ pc \in [Callers -> CallerPc] /\ api \in [Callers -> Apis \cup {NoApi}]
      /\ call \in [Callers -> Calls]
  BY <1>0 DEF TypeOK
<1> USE <1>0, <1>1
<1>2. CASE LockAPI(c)
  BY <1>2 DEF LockAPI, RequestInv, LockInv, NoRequest, ApiJob
<1>3. CASE ProcAPI(c)
  <2>1. api_queue = <<>> /\ api_queue' = <<ApiCmd(api[c], call[c])>>
    BY <1>3 DEF ProcAPI, RequestInv, NoRequest
  <2> QED
    BY <1>3, <2>1 DEF ProcAPI, RequestInv, LockInv, NoRequest, OnItsWay, ApiJob
<1>4. CASE ProcAPINoMemory(c)
  BY <1>4 DEF ProcAPINoMemory, RequestInv, LockInv, NoRequest, ApiJob
<1>5. CASE SemPost(c)
  BY <1>5 DEF SemPost, RequestInv, LockInv, OnItsWay, ApiJob
<1>6. CASE ResetResult(c)
  BY <1>6 DEF ResetResult, RequestInv, LockInv, OnItsWay, ApiJob
<1>7. CASE CheckResult(c)
  <2>1. m_apiResult.api = api[c] => IsAnswered(c)
    BY <1>7 DEF CheckResult, RequestInv, NoResult, InCall
  <2> QED
    BY <1>7, <2>1 DEF CheckResult, RequestInv, LockInv, OnItsWay, IsAnswered, NoRequest, ApiJob
<1>8. CASE Relock(c)
  BY <1>8 DEF Relock, RequestInv, LockInv, OnItsWay, IsAnswered, NoRequest, ApiJob
<1>9. CASE UnlockAPI(c)
  BY <1>9 DEF UnlockAPI, RequestInv, LockInv, IsAnswered, NoRequest, ApiJob
<1>10. CASE DeletePost(c)
  BY <1>10 DEF DeletePost, RequestInv, LockInv, ApiJob
<1>11. CASE Join(c)
  BY <1>11 DEF Join, RequestInv, LockInv, ApiJob
<1>12. CASE SpuriousWakeup(c)
  BY <1>12 DEF SpuriousWakeup, RequestInv, LockInv, OnItsWay, IsAnswered, NoRequest, ApiJob
<1>13. CASE Delete(c)
  <2>1. api_queue = <<>>
    BY <1>13 DEF Delete, RequestInv, NoRequest
  <2>2. api_queue' = <<ExitCmd>>
    BY <1>13, <2>1 DEF Delete
  <2> QED
    BY <1>13, <2>1, <2>2 DEF Delete, RequestInv, LockInv, NoRequest, ApiJob
<1> QED
  BY <1>2, <1>3, <1>4, <1>5, <1>6, <1>7, <1>8, <1>9, <1>10, <1>11, <1>12, <1>13
     DEF CallerStep

\* Events change nothing of a request, and the state machine thread takes it,
\* handles it and stores its answer while the caller sleeps.
LEMMA ThreadKeeps ==
  ASSUME IInv, OneCaller, NEW c \in Callers, ProcEvt \/ ProcEvtPost \/ SmStep
  PROVE  RequestInv(c)' /\ LockInv(c)' /\ (sm = "signal" => job.cmd = "API")'
<1> USE DEF callerVars, lockVars, evtVars, smVars
<1>0. /\ TypeOK /\ RequestInv(c) /\ LockInv(c) /\ (sm = "signal" => job.cmd = "API")
      /\ Free \notin Callers
  BY FreeAssumption DEF IInv, Typed
<1>1. /\ pc \in [Callers -> CallerPc] /\ job \in Cmd /\ evt_queue \in Seq({EvtCmd})
  BY <1>0 DEF TypeOK, IInv, Typed
<1> USE <1>0, <1>1
<1>2. CASE ProcEvt
  BY <1>2 DEF ProcEvt, RequestInv, LockInv, OnItsWay, IsAnswered, NoRequest, ApiJob
<1>3. CASE ProcEvtPost
  BY <1>3 DEF ProcEvtPost, RequestInv, LockInv, OnItsWay, IsAnswered, NoRequest, ApiJob
<1>4. CASE SmSemWait
  BY <1>4 DEF SmSemWait, RequestInv, LockInv, OnItsWay, IsAnswered, NoRequest, ApiJob
<1>5. CASE SmHandle
  BY <1>5 DEF SmHandle, Cmd, RequestInv, LockInv, OnItsWay, IsAnswered, NoRequest, ApiJob
<1>6. CASE SmTake
  <2>1. ~ApiJob
    BY <1>6 DEF SmTake, ApiJob
  <2>2. api_queue \in {<<>>, <<ApiCmd(api[c], call[c])>>, <<ExitCmd>>}
    BY DEF RequestInv, OnItsWay, IsAnswered, NoRequest, CallerPc
  <2>3. CASE api_queue = <<>>
    <3>1. UNCHANGED <<pc, api, call, m_lock, waiters, m_apiResult, api_queue>> /\ ~ApiJob'
      <4>1. evt_queue # <<>> => job'.cmd = "EVT"
        BY <1>1, <1>6, <2>3, QueueTypes DEF SmTake, EvtCmd
      <4> QED
        BY <1>6, <2>3, <4>1 DEF SmTake, ApiJob
    <3> QED
      BY <1>6, <2>1, <2>3, <3>1
         DEF SmTake, RequestInv, LockInv, OnItsWay, IsAnswered, NoRequest
  <2>4. CASE api_queue # <<>>
    <3>1. UNCHANGED <<pc, api, call, m_lock, waiters, m_apiResult>> /\ job' = Head(api_queue)
          /\ api_queue' = <<>> /\ sm' = "handle"
      <4>1. PICK x : api_queue = <<x>>
        BY <2>2, <2>4
      <4>2. Tail(<<x>>) = <<>>
        OBVIOUS
      <4> QED
        BY <1>6, <2>4, <4>1, <4>2 DEF SmTake
    <3>2. CASE api_queue = <<ExitCmd>>
      <4>1. ~ApiJob' /\ ApiCmd(api[c], call[c]) # ExitCmd
        BY <3>1, <3>2 DEF ApiJob, ExitCmd, ApiCmd
      <4>2. api_queue # <<ApiCmd(api[c], call[c])>>
        BY <3>2, <4>1
      <4> QED
        BY <2>4, <3>1, <3>2, <4>1, <4>2
           DEF RequestInv, LockInv, OnItsWay, IsAnswered, NoRequest
    <3>3. CASE api_queue = <<ApiCmd(api[c], call[c])>>
      <4>1. ApiJob' /\ job' = ApiCmd(api[c], call[c])'
        BY <3>1, <3>3 DEF ApiJob, ApiCmd
      <4>2. api_queue # <<ExitCmd>>
        BY <3>3 DEF ExitCmd, ApiCmd
      <4> QED
        BY <2>4, <3>1, <3>3, <4>1, <4>2
           DEF RequestInv, LockInv, OnItsWay, IsAnswered, NoRequest
    <3> QED
      BY <2>2, <2>4, <3>2, <3>3
  <2> QED
    BY <2>3, <2>4
<1>7. CASE SignalAPIResult
  <2>1. ApiJob /\ m_lock = Free
    BY <1>7 DEF SignalAPIResult, ApiJob
  <2>2. pc[c] \in {"asleep", "relock"} /\ OnItsWay(c)
    BY <2>1 DEF RequestInv, LockInv, OnItsWay, IsAnswered, NoRequest, CallerPc
  <2>3. api_queue = <<>> /\ job = ApiCmd(api[c], call[c])
    BY <2>1, <2>2 DEF OnItsWay
  <2>4. m_apiResult' = [api |-> api[c], of |-> call[c]] /\ ~ApiJob'
    BY <1>7, <2>3 DEF SignalAPIResult, ApiCmd, ApiJob
  <2>5. UNCHANGED <<m_lock, api, call, api_queue>>
    BY <1>7 DEF SignalAPIResult
  <2>6. pc'[c] \in {"asleep", "relock"} /\ (c \in waiters' <=> pc'[c] = "asleep")
    BY <1>7, <2>2 DEF SignalAPIResult, LockInv, OneCaller
  <2>7. sm' = "sem_wait"
    BY <1>7 DEF SignalAPIResult
  <2> QED
    BY <2>1, <2>3, <2>4, <2>5, <2>6, <2>7 DEF RequestInv, LockInv, IsAnswered, NoRequest
<1> QED
  BY <1>2, <1>3, <1>4, <1>5, <1>6, <1>7 DEF SmStep

\* The invariant always holds with one caller.
LEMMA Invariance == OneCaller => (Spec => []IInv)
<1> SUFFICES ASSUME OneCaller PROVE Spec => []IInv
  OBVIOUS
<1>1. IInv /\ [Next]_vars => IInv'
  <2> SUFFICES ASSUME IInv, [Next]_vars PROVE IInv'
    OBVIOUS
  <2>1. Typed'
    <3>1. CASE Next
      BY <3>1, CallerTypes, ThreadTypes DEF Next, IInv
    <3>2. CASE UNCHANGED vars
      BY <3>2 DEF vars, callerVars, lockVars, evtVars, smVars, IInv, Typed, TypeOK
    <3> QED
      BY <3>1, <3>2
  <2>2. ASSUME NEW c \in Callers
        PROVE  RequestInv(c)' /\ LockInv(c)' /\ (sm = "signal" => job.cmd = "API")'
    <3>1. ASSUME NEW d \in Callers,
                 LockAPI(d) \/ CallerStep(d) \/ SpuriousWakeup(d) \/ Delete(d)
          PROVE  RequestInv(c)' /\ LockInv(c)' /\ (sm = "signal" => job.cmd = "API")'
      <4>1. d = c
        BY DEF OneCaller
      <4> QED
        BY <3>1, <4>1, CallerKeeps
    <3>2. CASE ProcEvt \/ ProcEvtPost \/ SmStep
      BY <3>2, ThreadKeeps
    <3>3. CASE UNCHANGED vars
      BY <3>3 DEF vars, callerVars, lockVars, evtVars, smVars, IInv, RequestInv, LockInv,
                  OnItsWay, IsAnswered, NoRequest, ApiJob
    <3> QED
      BY <3>1, <3>2, <3>3 DEF Next
  <2> QED
    BY <2>1, <2>2, HandshakeAssumption DEF IInv
<1> QED
  BY <1>1, Start, PTL DEF Spec

\* A call that the framework makes when its last one has returned gets the
\* answer to itself, not one left over: waitAPIResult() clears m_apiResult
\* while m_lock still keeps signalAPIResult() out.
THEOREM AnswersMatch == OneCaller => (Spec => []AnswerIsForThisCall)
<1> SUFFICES ASSUME OneCaller PROVE Spec => []AnswerIsForThisCall
  OBVIOUS
<1>1. IInv => AnswerIsForThisCall
  BY DEF IInv, RequestInv, IsAnswered, AnswerIsForThisCall
<1> QED
  BY <1>1, Invariance, PTL
===============================================================================
