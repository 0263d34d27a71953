----------------------------- MODULE MmJpeg_proofs -----------------------------
(***************************************************************************)
(* A job of the JPEG interface is in one place, and the buffer the encoder  *)
(* gives back is that of the job it is taken for: for any clients and any   *)
(* number of jobs and abort_job() calls, refused jobs included.             *)
(*                                                                         *)
(* The first rests on who may take a job out of a queue: the job manager    *)
(* and a call that ends jobs exclude each other by job_lock, and a client's *)
(* jobs are gone before the client is.  The second rests on what the        *)
(* encoder's thread has still to say: its events come in order, so that the *)
(* state the job manager waits for is the one of its own job.               *)
(***************************************************************************)
EXTENDS MmJpeg, SequenceTheorems, FiniteSetTheorems, FunctionTheorems, TLAPS

-----------------------------------------------------------------------------
(* The inductive invariant                                                   *)

\* The jobs that somebody still has to end.
Todo     == Elems(job_queue) \ {EXIT}
Ongoing  == Elems(ongoing_job_q)
Flushing == IF At("flush") THEN {intf.job} ELSE {}
Preparing == {jobmgr.job} \ {None}
Live     == Todo \cup Ongoing \cup Flushing \cup Preparing

\* job_lock is held by the job manager while it starts the encoder, and by a
\* call while it goes through the queues.
LockInv ==
    /\ job_lock = "jobmgr" <=> jobmgr.pc \in {"idle", "executing"}
    /\ job_lock = "intf" <=> intf.pc \in {"ongoing", "flush", "callbacks", "join"}
    /\ jobmgr.job # None <=> jobmgr.pc \in {"idle", "executing"}
    /\ jobmgr.pc = "none" <=> g_jpeg_obj = "NULL"

CallAt == {"none", "lock", "ongoing", "flush", "callbacks", "join", "exit"}

\* A call closes a client that is open, or aborts a job.
CallInv ==
    /\ intf.pc = "none" <=> intf = NoCall
    /\ intf.pc \in {"lock", "ongoing", "flush", "callbacks", "join"} =>
          intf.closes \subseteq clients
    /\ intf.pc \in {"flush", "join"} => intf.job \in Job
    /\ intf.pc = "exit" => clients = {}
    /\ EXIT \in Elems(job_queue) => intf.pc = "exit"
    /\ intf.pc \in {"callbacks", "join"} /\ Closing =>
          \A j \in Todo \cup Ongoing : owner[j] \notin intf.closes

\* A job belongs to a client, and one that is not over to one that is open.
OwnerInv ==
    /\ clients \cap closed = {}
    /\ \A j \in 1 .. started : owner[j] \in clients \cup closed
    /\ \A j \in Live : owner[j] \in clients

\* A job is in one place from its start on.
Spots == {"todo", "jobmgr", "ongoing", "flush", "deleted", "ended"}

IsAt(j, p) ==
    /\ j \in Elems(job_queue) <=> p = "todo"
    /\ jobmgr.job = j <=> p = "jobmgr"
    /\ j \in Elems(ongoing_job_q) <=> p = "ongoing"
    /\ (At("flush") /\ intf.job = j) <=> p = "flush"
    /\ j \in deleted <=> p = "deleted"
    /\ notify[j] # "none" <=> p = "ended"

PlaceInv ==
    /\ \A j \in Job : IF j <= started THEN \E p \in Spots : IsAt(j, p) ELSE IsAt(j, "none")
    /\ IsInjective(job_queue)

\* The encoder works for one job, and its thread has not yet been told of more
\* than belongs to that.
EncoderInv ==
    /\ Len(ongoing_job_q) <= 1
    /\ jobmgr.pc \in {"lock", "idle", "executing", "gone"} \/ At("flush") =>
          ongoing_job_q = <<>>
    /\ omx_buf # None =>
          /\ evt = "Executing" /\ ftbdone = None
          /\ \/ ongoing_job_q = <<omx_buf>> /\ omx_events \in {<<>>, <<"FTBDONE">>}
             \/ At("flush") /\ intf.job = omx_buf /\ omx_events = <<"FTBDONE", "Flush">>
    /\ ftbdone # None => evt = "DONE" /\ ongoing_job_q \in {<<>>, <<ftbdone>>}
    /\ "FTBDONE" \in Elems(omx_events) => omx_buf # None

\* The Executing that is waited for is the last thing the encoder has to say.
StateInv ==
    /\ \A i \in DOMAIN omx_events : omx_events[i] = "Executing" =>
          jobmgr.pc = "executing" /\ i = Len(omx_events)
    /\ jobmgr.pc = "executing" =>
          \/ evt = "Executing" /\ omx_events = <<>>
          \/ /\ evt # "Executing" /\ omx_events # <<>>
             /\ omx_events[Len(omx_events)] = "Executing"

IInv == /\ TypeOK
        /\ LockInv
        /\ CallInv
        /\ OwnerInv
        /\ PlaceInv
        /\ EncoderInv
        /\ StateInv

-----------------------------------------------------------------------------
(* Sequences as queues of jobs                                               *)

\* Neither nobody nor the EXIT command is a job.
LEMMA Numbers ==
  /\ MaxJobs \in Nat /\ MaxAborts \in Nat
  /\ None \notin Job /\ EXIT \notin Job /\ EXIT # None
BY MmJpegAssumption DEF Job, None, EXIT

\* What is appended is the one new element.
LEMMA Appended ==
  ASSUME NEW S, NEW q \in Seq(S), NEW e \in S
  PROVE  /\ Append(q, e) \in Seq(S)
         /\ Elems(Append(q, e)) = Elems(q) \cup {e}
         /\ IsInjective(q) /\ e \notin Elems(q) => IsInjective(Append(q, e))
<1>1. /\ Append(q, e) \in Seq(S) /\ Len(Append(q, e)) = Len(q) + 1
      /\ \A i \in 1 .. Len(q) : Append(q, e)[i] = q[i]
      /\ Append(q, e)[Len(q) + 1] = e
  BY AppendProperties
<1>2. /\ DOMAIN q = 1 .. Len(q) /\ Len(q) \in Nat
      /\ DOMAIN Append(q, e) = 1 .. Len(q) + 1
  BY <1>1, LenProperties
<1>3. \A i \in DOMAIN Append(q, e) : i \in DOMAIN q \/ i = Len(q) + 1
  BY <1>2
<1>4. \A i \in DOMAIN q : i \in DOMAIN Append(q, e) /\ Append(q, e)[i] = q[i]
  BY <1>1, <1>2
<1>5. Len(q) + 1 \in DOMAIN Append(q, e)
  BY <1>2
<1>6. Elems(Append(q, e)) = Elems(q) \cup {e}
  BY <1>1, <1>3, <1>4, <1>5 DEF Elems
<1>7. ASSUME IsInjective(q), e \notin Elems(q) PROVE IsInjective(Append(q, e))
  <2>1. \A i \in DOMAIN q : q[i] # e
    BY <1>7 DEF Elems
  <2> QED
    BY <1>1, <1>3, <1>4, <1>7, <2>1 DEF IsInjective
<1> QED
  BY <1>1, <1>6, <1>7

\* The head leaves the queue, and if it was there once it is out of it.
LEMMA Taken ==
  ASSUME NEW S, NEW q \in Seq(S), q # <<>>
  PROVE  /\ Head(q) \in S /\ Tail(q) \in Seq(S)
         /\ Elems(q) = Elems(Tail(q)) \cup {Head(q)}
         /\ IsInjective(q) => IsInjective(Tail(q)) /\ Head(q) \notin Elems(Tail(q))
<1>1. /\ Head(q) \in S /\ Tail(q) \in Seq(S) /\ Head(q) = q[1]
      /\ Len(Tail(q)) = Len(q) - 1
      /\ \A i \in 1 .. Len(Tail(q)) : Tail(q)[i] = q[i + 1]
  BY HeadTailProperties
<1>2. /\ DOMAIN q = 1 .. Len(q) /\ Len(q) \in Nat /\ Len(q) >= 1
      /\ DOMAIN Tail(q) = 1 .. Len(q) - 1
  BY <1>1, LenProperties, EmptySeq
<1>3. \A i \in DOMAIN Tail(q) : i + 1 \in DOMAIN q /\ Tail(q)[i] = q[i + 1] /\ i + 1 # 1
  BY <1>1, <1>2
<1>4. \A i \in DOMAIN q : i = 1 \/ (i - 1 \in DOMAIN Tail(q) /\ q[i] = Tail(q)[i - 1])
  BY <1>1, <1>2
<1>5. 1 \in DOMAIN q
  BY <1>2
<1>6. Elems(q) = Elems(Tail(q)) \cup {Head(q)}
  BY <1>1, <1>3, <1>4, <1>5 DEF Elems
<1>7. ASSUME IsInjective(q) PROVE IsInjective(Tail(q)) /\ Head(q) \notin Elems(Tail(q))
  <2>1. ASSUME NEW i \in DOMAIN Tail(q), NEW k \in DOMAIN Tail(q), Tail(q)[i] = Tail(q)[k]
        PROVE  i = k
    <3>1. i + 1 = k + 1
      BY <1>3, <1>7, <2>1 DEF IsInjective
    <3> QED
      BY <1>2, <3>1
  <2>2. \A i \in DOMAIN Tail(q) : Tail(q)[i] # q[1]
    BY <1>3, <1>5, <1>7 DEF IsInjective
  <2> QED
    BY <1>1, <2>1, <2>2 DEF IsInjective, Elems
<1> QED
  BY <1>1, <1>6, <1>7

\* The empty queue has no element, and a queue of at most one has its head.
LEMMA Short ==
  /\ Elems(<<>>) = {}
  /\ IsInjective(<<>>)
  /\ \A S : \A q \in Seq(S) :
       /\ q # <<>> <=> Elems(q) # {}
       /\ Len(q) <= 1 /\ q # <<>> => q = <<Head(q)>> /\ Tail(q) = <<>>
       /\ Elems(q) \subseteq S
  /\ \A e : Elems(<<e>>) = {e} /\ <<e>> # <<>> /\ Len(<<e>>) = 1 /\ Head(<<e>>) = e
            /\ Tail(<<e>>) = <<>>
<1>1. Elems(<<>>) = {} /\ IsInjective(<<>>)
  BY DEF Elems, IsInjective
<1>2. ASSUME NEW S, NEW q \in Seq(S)
      PROVE  /\ q # <<>> <=> Elems(q) # {}
             /\ Len(q) <= 1 /\ q # <<>> => q = <<Head(q)>> /\ Tail(q) = <<>>
             /\ Elems(q) \subseteq S
  <2>1. ASSUME q # <<>> PROVE Elems(q) # {}
    <3>1. Elems(q) = Elems(Tail(q)) \cup {Head(q)}
      BY <2>1, Taken
    <3> QED
      BY <3>1
  <2>2. q = <<>> => Elems(q) = {}
    BY <1>1
  <2>3. Elems(q) \subseteq S
    BY ElementOfSeq, LenProperties DEF Elems
  <2>4. Len(q) <= 1 /\ q # <<>> => q = <<Head(q)>> /\ Tail(q) = <<>>
    <3> SUFFICES ASSUME Len(q) <= 1, q # <<>> PROVE q = <<Head(q)>> /\ Tail(q) = <<>>
      OBVIOUS
    <3>1. Len(q) = 1
      <4>1. Len(q) \in Nat /\ Len(q) # 0
        BY EmptySeq, LenProperties
      <4> QED
        BY <4>1
    <3>2. Len(Tail(q)) = 0 /\ Tail(q) \in Seq(S) /\ Head(q) = q[1] /\ Head(q) \in S
      BY <3>1, HeadTailProperties
    <3>3. q = <<Head(q)>>
      BY <3>1, <3>2
    <3> QED
      BY <3>2, <3>3, EmptySeq
  <2> QED
    BY <2>1, <2>2, <2>3, <2>4
<1>3. ASSUME NEW e
      PROVE  Elems(<<e>>) = {e} /\ <<e>> # <<>> /\ Len(<<e>>) = 1 /\ Head(<<e>>) = e
             /\ Tail(<<e>>) = <<>>
  <2>1. DOMAIN <<e>> = {1} /\ <<e>>[1] = e /\ Len(<<e>>) = 1
    OBVIOUS
  <2> QED
    BY <2>1 DEF Elems
<1> QED
  BY <1>1, <1>2, <1>3

\* The rank of an element among n naturals counts from 1 up without a gap.
LEMMA Ranks ==
  ASSUME NEW n \in Nat, NEW K \in SUBSET (1 .. n)
  PROVE  /\ Cardinality(K) \in Nat /\ Cardinality(K) <= n
         /\ \A i \in K : Rank(K, i) \in 1 .. Cardinality(K)
         /\ \A i, k \in K : Rank(K, i) = Rank(K, k) => i = k
         /\ \A r \in 1 .. Cardinality(K) : \E i \in K : Rank(K, i) = r
<1> DEFINE Up(i) == {h \in K : h <= i}
           R     == [i \in K |-> Rank(K, i)]
<1>1. IsFiniteSet(K) /\ Cardinality(K) \in Nat /\ Cardinality(K) <= n
  <2>1. IsFiniteSet(1 .. n) /\ Cardinality(1 .. n) = n
    BY FS_Interval
  <2> QED
    BY <2>1, FS_Subset, FS_CardinalityType
<1>2. \A i \in K : /\ IsFiniteSet(Up(i)) /\ Cardinality(Up(i)) \in Nat
                   /\ Cardinality(Up(i)) <= Cardinality(K) /\ Cardinality(Up(i)) # 0
  <2> SUFFICES ASSUME NEW i \in K
               PROVE  /\ IsFiniteSet(Up(i)) /\ Cardinality(Up(i)) \in Nat
                      /\ Cardinality(Up(i)) <= Cardinality(K) /\ Cardinality(Up(i)) # 0
    OBVIOUS
  <2>1. Up(i) \in SUBSET K /\ i \in Up(i)
    OBVIOUS
  <2> HIDE DEF Up
  <2>2. IsFiniteSet(Up(i)) /\ Cardinality(Up(i)) <= Cardinality(K)
    BY <1>1, <2>1, FS_Subset
  <2> QED
    BY <2>1, <2>2, FS_CardinalityType, FS_EmptySet
<1>3. \A i \in K : Rank(K, i) = Cardinality(Up(i))
  BY DEF Rank
<1>4. ASSUME NEW i \in K, NEW k \in K, i < k PROVE Cardinality(Up(i)) < Cardinality(Up(k))
  <2>1. i \in 1 .. n /\ k \in 1 .. n /\ \A h \in K : h \in 1 .. n
    OBVIOUS
  <2>2. k <= k /\ ~(k <= i) /\ \A h \in 1 .. n : h <= i => h <= k
    BY <1>4, <2>1
  <2>3. Up(i) \in SUBSET Up(k) /\ k \in Up(k) /\ k \notin Up(i)
    BY <2>1, <2>2, ZenonT(30)
  <2>4. Up(i) # Up(k)
    BY <2>3
  <2> HIDE DEF Up
  <2>5. Cardinality(Up(i)) <= Cardinality(Up(k)) /\ Cardinality(Up(i)) # Cardinality(Up(k))
    BY <1>2, <2>3, <2>4, FS_Subset
  <2> QED
    BY <1>2, <2>5
<1> HIDE DEF Up
<1>5. \A i, k \in K : Rank(K, i) = Rank(K, k) => i = k
  <2> SUFFICES ASSUME NEW i \in K, NEW k \in K, Rank(K, i) = Rank(K, k), i # k PROVE FALSE
    OBVIOUS
  <2>1. i < k \/ k < i
    OBVIOUS
  <2>2. Cardinality(Up(i)) = Cardinality(Up(k))
    BY <1>3
  <2>3. ~(i < k)
    BY <1>2, <1>4, <2>2
  <2>4. ~(k < i)
    BY <1>2, <1>4, <2>2
  <2> QED
    BY <2>1, <2>3, <2>4
<1>6. \A i \in K : Rank(K, i) \in 1 .. Cardinality(K)
  BY <1>1, <1>2, <1>3
<1>7. R \in Injection(K, 1 .. Cardinality(K))
  <2>1. R \in [K -> 1 .. Cardinality(K)]
    BY <1>6
  <2>2. \A i, k \in K : R[i] = R[k] => i = k
    BY <1>5
  <2>3. DOMAIN R = K
    OBVIOUS
  <2> HIDE DEF R
  <2> QED
    BY <2>1, <2>2, <2>3 DEF Injection, IsInjective
<1>8. IsFiniteSet(1 .. Cardinality(K)) /\ Cardinality(1 .. Cardinality(K)) = Cardinality(K)
  BY <1>1, FS_Interval
<1>9. R \in Surjection(K, 1 .. Cardinality(K))
  <2> HIDE DEF R
  <2> QED
    BY <1>7, <1>8, FS_Injection
<1> QED
  BY <1>1, <1>5, <1>6, <1>9 DEF Surjection

\* Others() keeps what is not looked for, in order, and nothing else.
LEMMA OthersStay ==
  ASSUME NEW S, NEW q \in Seq(S)
  PROVE  /\ Others(q) \in Seq(S)
         /\ Len(Others(q)) <= Len(q)
         /\ Elems(Others(q)) = {e \in Elems(q) : e = EXIT \/ ~Mine(e)}
         /\ IsInjective(q) => IsInjective(Others(q))
<1> DEFINE K      == Kept(q)
           n      == Cardinality(K)
           Nth(k) == CHOOSE i \in K : Rank(K, i) = k
           r      == [k \in 1 .. n |-> q[Nth(k)]]
<1>1. /\ DOMAIN q = 1 .. Len(q) /\ Len(q) \in Nat
      /\ \A i \in DOMAIN q : q[i] \in S
  BY LenProperties, ElementOfSeq
<1>2. /\ K \in SUBSET (1 .. Len(q))
      /\ \A i : i \in K <=> i \in DOMAIN q /\ (q[i] = EXIT \/ ~Mine(q[i]))
  BY <1>1 DEF Kept
<1>3. Others(q) = r
  BY DEF Others
<1> HIDE DEF K
<1>4. /\ n \in Nat /\ n <= Len(q)
      /\ \A i \in K : Rank(K, i) \in 1 .. n
      /\ \A i, k \in K : Rank(K, i) = Rank(K, k) => i = k
      /\ \A k \in 1 .. n : \E i \in K : Rank(K, i) = k
  BY <1>1, <1>2, Ranks
<1> HIDE DEF n
<1>5. \A k \in 1 .. n : Nth(k) \in K /\ Rank(K, Nth(k)) = k
  BY <1>4
<1>6. \A i \in K : i = Nth(Rank(K, i))
  <2> SUFFICES ASSUME NEW i \in K PROVE i = Nth(Rank(K, i))
    OBVIOUS
  <2>1. Rank(K, i) \in 1 .. n
    BY <1>4
  <2>2. Nth(Rank(K, i)) \in K /\ Rank(K, Nth(Rank(K, i))) = Rank(K, i)
    BY <1>5, <2>1
  <2> HIDE DEF Nth
  <2> QED
    BY <1>4, <2>2
<1> HIDE DEF Nth
<1>7. DOMAIN r = 1 .. n /\ \A k \in 1 .. n : r[k] = q[Nth(k)] /\ r[k] \in S
  BY <1>1, <1>2, <1>5
<1>8. r \in Seq(S) /\ Len(r) = n
  <2>1. r \in [1 .. n -> S]
    BY <1>7
  <2> HIDE DEF r
  <2> QED
    BY <1>4, <1>7, <2>1, IsASeq, LenProperties
<1> HIDE DEF r
<1>9. Elems(r) = {e \in Elems(q) : e = EXIT \/ ~Mine(e)}
  <2>1. ASSUME NEW e \in Elems(r) PROVE e \in Elems(q) /\ (e = EXIT \/ ~Mine(e))
    <3>1. PICK k \in 1 .. n : e = r[k]
      BY <1>7 DEF Elems
    <3>2. Nth(k) \in K /\ e = q[Nth(k)]
      BY <1>5, <1>7, <3>1
    <3> QED
      BY <1>2, <3>2 DEF Elems
  <2>2. ASSUME NEW e \in Elems(q), e = EXIT \/ ~Mine(e) PROVE e \in Elems(r)
    <3>1. PICK i \in DOMAIN q : e = q[i]
      BY DEF Elems
    <3>2. i \in K
      BY <1>2, <2>2, <3>1
    <3>3. Rank(K, i) \in 1 .. n /\ r[Rank(K, i)] = q[i]
      BY <1>4, <1>6, <1>7, <3>2
    <3> QED
      BY <1>7, <3>1, <3>3 DEF Elems
  <2> QED
    BY <2>1, <2>2
<1>10. IsInjective(q) => IsInjective(r)
  <2> SUFFICES ASSUME IsInjective(q), NEW a \in 1 .. n, NEW b \in 1 .. n, r[a] = r[b]
               PROVE  a = b
    BY <1>7 DEF IsInjective
  <2>1. Nth(a) \in DOMAIN q /\ Nth(b) \in DOMAIN q /\ q[Nth(a)] = q[Nth(b)]
    BY <1>2, <1>5, <1>7
  <2>2. Nth(a) = Nth(b)
    BY <2>1 DEF IsInjective
  <2> QED
    BY <1>5, <2>2
<1> QED
  BY <1>3, <1>4, <1>8, <1>9, <1>10

-----------------------------------------------------------------------------
(* What an action leaves alone                                               *)

\* Every job stays where it is when no queue gets or loses one.
LEMMA PlacesKept ==
  ASSUME PlaceInv,
         started' = started, deleted' = deleted,
         job_queue' = job_queue, ongoing_job_q' = ongoing_job_q,
         jobmgr'.job = jobmgr.job,
         Flushing' = Flushing,
         \A j \in Job : notify'[j] = "none" <=> notify[j] = "none"
  PROVE  PlaceInv'
<1>1. \A j : (At("flush") /\ intf.job = j) <=> j \in Flushing
  BY DEF Flushing
<1>2. \A j : (At("flush") /\ intf.job = j)' <=> j \in Flushing'
  BY DEF Flushing
<1>3. Elems(job_queue)' = Elems(job_queue) /\ Elems(ongoing_job_q)' = Elems(ongoing_job_q)
  BY DEF Elems
<1>4. \A j \in Job : \A p : IsAt(j, p) => IsAt(j, p)'
  BY <1>1, <1>2, <1>3 DEF IsAt
<1> QED
  BY <1>4 DEF PlaceInv

\* Jobs keep their clients, and those that are not over are the same or fewer.
LEMMA OwnersKept ==
  ASSUME OwnerInv,
         clients' = clients, closed' = closed, started' = started, owner' = owner,
         Live' \subseteq Live
  PROVE  OwnerInv'
BY DEF OwnerInv

\* The encoder's thread and the job it works for are left alone.
LEMMA EncoderKept ==
  ASSUME EncoderInv,
         ongoing_job_q' = ongoing_job_q, UNCHANGED omxVars,
         Flushing' = Flushing,
         jobmgr'.pc \in {"lock", "idle", "executing", "gone"} =>
           jobmgr.pc \in {"lock", "idle", "executing", "gone"} \/ ongoing_job_q = <<>>
  PROVE  EncoderInv'
<1>1. \A j : (At("flush") /\ intf.job = j) <=> j \in Flushing
  BY DEF Flushing
<1>2. \A j : (At("flush") /\ intf.job = j)' <=> j \in Flushing'
  BY DEF Flushing
<1>3. At("flush")' <=> At("flush")
  BY <1>1, <1>2
<1> QED
  BY <1>1, <1>2, <1>3 DEF EncoderInv, Elems, omxVars

\* The job manager waits for the state it waited for.
LEMMA StateKept ==
  ASSUME StateInv, omx_events' = omx_events, evt' = evt,
         jobmgr'.pc = "executing" <=> jobmgr.pc = "executing"
  PROVE  StateInv'
BY DEF StateInv

\* A job that is somewhere was started, and one that is not over is somewhere.
LEMMA LiveJobs ==
  ASSUME IInv
  PROVE  /\ Live \subseteq 1 .. started
         /\ started \in Nat /\ started <= MaxJobs
         /\ \A j \in 1 .. started : j \in Job
<1>1. started \in Nat /\ started <= MaxJobs /\ \A j \in 1 .. started : j \in Job
  BY Numbers DEF IInv, TypeOK, Job
<1>2. Live \subseteq Job
  <2>1. Elems(job_queue) \subseteq Job \cup {EXIT} /\ Elems(ongoing_job_q) \subseteq Job
    BY Short DEF IInv, TypeOK
  <2>2. Flushing \subseteq Job
    BY DEF IInv, CallInv, Flushing, At
  <2>3. jobmgr.job \in Job \cup {None}
    BY DEF IInv, TypeOK
  <2> QED
    BY <2>1, <2>2, <2>3 DEF Live, Todo, Ongoing, Preparing
<1>3. \A j \in Live : j <= started
  <2> SUFFICES ASSUME NEW j \in Live, ~(j <= started) PROVE FALSE
    OBVIOUS
  <2>1. IsAt(j, "none")
    BY <1>2 DEF IInv, PlaceInv
  <2> QED
    BY <2>1, Numbers DEF IsAt, Live, Todo, Ongoing, Flushing, Preparing
<1>4. \A j \in Live : j \in 1 .. started
  <2> SUFFICES ASSUME NEW j \in Live PROVE j \in 1 .. started
    OBVIOUS
  <2>1. j \in Nat /\ j >= 1
    BY <1>2, Numbers DEF Job
  <2> QED
    BY <1>1, <1>3, <2>1
<1> QED
  BY <1>1, <1>4

-----------------------------------------------------------------------------
(* The calls                                                                 *)

\* A call that only goes on, or begins, moves no job.
LEMMA CallMoves ==
  ASSUME IInv, TypeOK', LockInv',
         UNCHANGED <<g_jpeg_obj, clients, closed, started, owner>>,
         UNCHANGED <<job_queue, ongoing_job_q, jobmgr, endVars, omxVars>>,
         ~At("flush"), ~At("flush")',
         At("none")' <=> intf' = NoCall,
         At("exit")' <=> At("exit"),
         intf'.closes \subseteq clients,
         At("join")' => intf'.job \in Job,
         At("callbacks")' \/ At("join")' =>
            /\ At("callbacks") \/ At("join")
            /\ intf'.closes = intf.closes
  PROVE  IInv'
<1>1. Flushing = {} /\ Flushing' = {}
  BY DEF Flushing
<1>2. Live' = Live /\ Todo' = Todo /\ Ongoing' = Ongoing
  BY <1>1 DEF Live, Todo, Ongoing, Preparing, Elems
<1>3. CallInv'
  BY <1>2 DEF IInv, CallInv, At, Elems, Closing
<1>4. OwnerInv'
  BY <1>2, OwnersKept DEF IInv
<1>5. PlaceInv'
  BY <1>1, PlacesKept DEF IInv, endVars
<1>6. EncoderInv'
  BY <1>1, EncoderKept DEF IInv
<1>7. StateInv'
  BY StateKept DEF IInv, omxVars
<1> QED
  BY <1>3, <1>4, <1>5, <1>6, <1>7 DEF IInv

\* intf once it is somewhere else.
LEMMA Going ==
  ASSUME TypeOK, NEW pc \in CallAt, NEW job \in Job \cup {None}, Goto(pc, job)
  PROVE  /\ intf'.pc = pc /\ intf'.job = job /\ intf'.closes = intf.closes
         /\ pc # "none" => intf' # NoCall
         /\ intf' \in [pc : CallAt, closes : SUBSET Clients, job : Job \cup {None}]
BY DEF TypeOK, Goto, NoCall, CallAt

\* abort_job() and close() begin without job_lock.
LEMMA AbortJobKeeps ==
  ASSUME IInv, NEW j \in Job, AbortJob(j) PROVE IInv'
<1>1. /\ At("none") /\ intf'.pc = "lock" /\ intf'.closes = {} /\ intf'.job = j
      /\ intf' # NoCall
      /\ intf' = [pc |-> "lock", closes |-> {}, job |-> j]
  BY DEF AbortJob, NoCall, At
<1>2. TypeOK'
  <2>1. aborts' \in 0 .. MaxAborts
    BY Numbers DEF IInv, TypeOK, AbortJob
  <2> QED
    BY <1>1, <2>1 DEF IInv, TypeOK, AbortJob, lockVars, queueVars, endVars, omxVars
<1>3. LockInv'
  BY <1>1 DEF IInv, LockInv, AbortJob, lockVars, At
<1> QED
  BY <1>1, <1>2, <1>3, CallMoves DEF AbortJob, queueVars, At

\* close() begins like abort_job(), for all the jobs of one client.
LEMMA CloseKeeps ==
  ASSUME IInv, NEW c \in Clients, Close(c) PROVE IInv'
<1>1. /\ At("none") /\ intf'.pc = "lock" /\ intf'.closes = {c} /\ intf'.job = None
      /\ intf' # NoCall
  BY DEF Close, NoCall, At
<1>2. TypeOK'
  BY <1>1 DEF IInv, TypeOK, Close, clientVars, lockVars, queueVars, endVars, omxVars
<1>3. LockInv'
  BY <1>1 DEF IInv, LockInv, Close, clientVars, lockVars, At
<1> QED
  BY <1>1, <1>2, <1>3, CallMoves DEF Close, clientVars, queueVars, At

\* With job_lock the call may go through the queues.
LEMMA LockKeeps ==
  ASSUME IInv, Lock PROVE IInv'
<1>1. /\ At("lock") /\ intf'.pc = "ongoing" /\ intf'.closes = intf.closes
      /\ intf'.job = intf.job /\ intf' # NoCall
      /\ intf' \in [pc : CallAt, closes : SUBSET Clients, job : Job \cup {None}]
  BY Going DEF Lock, IInv, TypeOK, CallAt
<1>2. TypeOK'
  BY <1>1 DEF IInv, TypeOK, Lock, CallAt, clientVars, queueVars, endVars, omxVars
<1>3. LockInv'
  BY <1>1 DEF IInv, LockInv, Lock, clientVars, At
<1>4. intf.closes \subseteq clients
  BY <1>1 DEF IInv, CallInv, At
<1> QED
  BY <1>1, <1>2, <1>3, <1>4, CallMoves DEF Lock, clientVars, queueVars, At

\* A callback that is joined is no place of a job.
LEMMA JoinCallbackKeeps ==
  ASSUME IInv, NEW j \in Job, JoinCallback(j) PROVE IInv'
<1>1. /\ At("callbacks") /\ intf'.pc = "join" /\ intf'.closes = intf.closes
      /\ intf'.job = j /\ intf' # NoCall
      /\ intf' \in [pc : CallAt, closes : SUBSET Clients, job : Job \cup {None}]
  BY Going DEF JoinCallback, IInv, CallAt
<1>2. TypeOK'
  BY <1>1 DEF IInv, TypeOK, JoinCallback, CallAt, clientVars, lockVars, endVars, omxVars
<1>3. LockInv'
  BY <1>1 DEF IInv, LockInv, JoinCallback, clientVars, lockVars, At
<1>4. intf.closes \subseteq clients
  BY <1>1 DEF IInv, CallInv, At
<1> QED
  BY <1>1, <1>2, <1>3, <1>4, CallMoves DEF JoinCallback, clientVars, At

\* The call goes on when the callback has returned.
LEMMA CallbackJoinedKeeps ==
  ASSUME IInv, CallbackJoined PROVE IInv'
<1>1. /\ At("join") /\ intf'.pc = "callbacks" /\ intf'.closes = intf.closes
      /\ intf'.job = intf.job /\ intf' # NoCall
      /\ intf' \in [pc : CallAt, closes : SUBSET Clients, job : Job \cup {None}]
  BY Going DEF CallbackJoined, IInv, TypeOK, CallAt
<1>2. TypeOK'
  BY <1>1 DEF IInv, TypeOK, CallbackJoined, CallAt, clientVars, lockVars, queueVars, endVars,
              omxVars
<1>3. LockInv'
  BY <1>1 DEF IInv, LockInv, CallbackJoined, clientVars, lockVars, At
<1>4. intf.closes \subseteq clients
  BY <1>1 DEF IInv, CallInv, At
<1> QED
  BY <1>1, <1>2, <1>3, <1>4, CallMoves DEF CallbackJoined, clientVars, queueVars, At

\* A client that opens has no jobs.
LEMMA OpenKeeps ==
  ASSUME IInv, NEW c \in Clients, Open(c) PROVE IInv'
<1>1. /\ intf' = intf /\ At("none") /\ intf = NoCall
      /\ jobmgr'.job = jobmgr.job
      /\ \/ g_jpeg_obj = "NULL" /\ jobmgr'.pc = "wait"
         \/ g_jpeg_obj = "open" /\ jobmgr' = jobmgr
      /\ g_jpeg_obj' = "open"
  BY DEF Open, NoCall, At, IInv, TypeOK
<1>2. TypeOK'
  BY <1>1 DEF IInv, TypeOK, Open, lockVars, queueVars, endVars, omxVars
<1>3. LockInv'
  BY <1>1 DEF IInv, LockInv, Open, lockVars, At
<1>4. Flushing = {} /\ Flushing' = {}
  BY <1>1 DEF Flushing, At
<1>5. Live' = Live /\ Elems(job_queue)' = Elems(job_queue)
  BY <1>1, <1>4 DEF Open, queueVars, Live, Todo, Ongoing, Preparing, Elems
<1>6. CallInv'
  BY <1>1, <1>5 DEF IInv, CallInv, At, Open, queueVars
<1>7. OwnerInv'
  BY <1>5 DEF IInv, OwnerInv, Open
<1>8. PlaceInv'
  BY <1>1, <1>4, PlacesKept DEF IInv, Open, queueVars, endVars
<1>9. EncoderInv'
  BY <1>1, <1>4, EncoderKept DEF IInv, Open, queueVars
<1>10. StateInv'
  BY <1>1, StateKept DEF IInv, Open, omxVars, LockInv
<1> QED
  BY <1>2, <1>3, <1>6, <1>7, <1>8, <1>9, <1>10 DEF IInv

\* The new job is nowhere yet, and comes to the end of the queue.
LEMMA StartJobKeeps ==
  ASSUME IInv, NEW c \in Clients, StartJob(c) PROVE IInv'
<1>0. PICK n : n = started'
  OBVIOUS
<1>1. /\ intf' = intf /\ At("none") /\ intf = NoCall /\ jobmgr' = jobmgr
      /\ ongoing_job_q' = ongoing_job_q /\ deleted' = deleted /\ notify' = notify
      /\ c \in clients /\ clients' = clients /\ closed' = closed
      /\ job_queue' = Append(job_queue, n) /\ owner' = [owner EXCEPT ![n] = c]
  BY <1>0 DEF StartJob, NoCall, At, endVars
<1>2. n = started + 1 /\ n \in Job /\ n # EXIT /\ n \notin 1 .. started /\ n \in 1 .. n
      /\ started \in Nat /\ n \in Nat /\ n <= MaxJobs
  BY <1>0, Numbers DEF IInv, TypeOK, StartJob, Job, EXIT
<1>3. job_queue \in Seq(Job \cup {EXIT}) /\ owner \in [Job -> Clients \cup {None}]
  BY DEF IInv, TypeOK
<1>4. /\ job_queue' \in Seq(Job \cup {EXIT})
      /\ Elems(job_queue)' = Elems(job_queue) \cup {n}
      /\ IsInjective(job_queue) /\ n \notin Elems(job_queue) => IsInjective(job_queue')
  <2>1. n \in Job \cup {EXIT} /\ Elems(job_queue)' = Elems(job_queue')
    BY <1>2 DEF Elems
  <2> QED
    BY <1>1, <1>3, <2>1, Appended
<1>5. TypeOK'
  <2>1. job_sem' \in Nat /\ started' \in 0 .. MaxJobs
    BY <1>0, <1>2, Numbers DEF IInv, TypeOK, StartJob
  <2>2. owner' \in [Job -> Clients \cup {None}]
    BY <1>1, <1>3
  <2> QED
    BY <1>1, <1>4, <2>1, <2>2 DEF IInv, TypeOK, StartJob, endVars, omxVars
<1>6. LockInv'
  BY <1>1 DEF IInv, LockInv, StartJob
<1>7. Flushing = {} /\ Flushing' = {}
  BY <1>1 DEF Flushing, At
<1>8. Live' = Live \cup {n}
  BY <1>1, <1>2, <1>4, <1>7 DEF Live, Todo, Ongoing, Preparing, Elems
<1>9. Live \subseteq 1 .. started /\ \A j \in 1 .. started : j \in Job
  BY LiveJobs
<1>10. n \notin Live /\ n \notin Elems(job_queue)
  BY <1>2, <1>9 DEF Live, Todo
<1>11. CallInv'
  BY <1>1, <1>2, <1>4 DEF IInv, CallInv, At
<1>12. OwnerInv'
  <2>1. owner'[n] = c /\ \A j \in Job : j # n => owner'[j] = owner[j]
    BY <1>1, <1>2, <1>3
  <2>2. \A j \in 1 .. n : j \in 1 .. started \/ j = n
    BY <1>2
  <2>3. \A j \in 1 .. n : owner'[j] \in clients' \cup closed'
    BY <1>1, <1>2, <1>9, <2>1, <2>2 DEF IInv, OwnerInv
  <2>4. \A j \in Live' : owner'[j] \in clients'
    BY <1>1, <1>2, <1>8, <1>9, <2>1 DEF IInv, OwnerInv
  <2> QED
    BY <1>0, <1>1, <2>3, <2>4 DEF IInv, OwnerInv
<1>13. PlaceInv'
  <2>1. IsInjective(job_queue')
    BY <1>4, <1>10 DEF IInv, PlaceInv
  <2>2. ASSUME NEW j \in Job, j # n
        PROVE  /\ \A p : IsAt(j, p) => IsAt(j, p)'
               /\ j <= n <=> j <= started
    <3>1. j <= n <=> j <= started
      BY <1>2, <2>2 DEF Job
    <3> QED
      BY <1>1, <1>4, <2>2, <3>1 DEF IsAt, At
  <2>3. IsAt(n, "todo")'
    <3>1. IsAt(n, "none")
      BY <1>2 DEF IInv, PlaceInv
    <3> QED
      BY <1>1, <1>4, <3>1 DEF IsAt, At
  <2>4. n <= n /\ "todo" \in Spots
    BY <1>2 DEF Spots
  <2> QED
    BY <1>0, <2>1, <2>2, <2>3, <2>4 DEF IInv, PlaceInv
<1>14. EncoderInv'
  BY <1>1, <1>7, EncoderKept DEF IInv, StartJob
<1>15. StateInv'
  BY <1>1, StateKept DEF IInv, StartJob, omxVars
<1> QED
  BY <1>5, <1>6, <1>11, <1>12, <1>13, <1>14, <1>15 DEF IInv

-----------------------------------------------------------------------------
(* The calls that end jobs                                                   *)

\* What the encoder has to say grows at the end.
LEMMA Longer ==
  ASSUME NEW S, NEW q \in Seq(S), NEW t \in Seq(S)
  PROVE  /\ q \o t \in Seq(S)
         /\ Elems(q \o t) = Elems(q) \cup Elems(t)
<1>1. /\ q \o t \in Seq(S) /\ Len(q \o t) = Len(q) + Len(t)
      /\ \A i \in 1 .. Len(q) + Len(t) : (q \o t)[i] = IF i <= Len(q) THEN q[i] ELSE t[i - Len(q)]
  BY ConcatProperties
<1>2. /\ DOMAIN q = 1 .. Len(q) /\ Len(q) \in Nat
      /\ DOMAIN t = 1 .. Len(t) /\ Len(t) \in Nat
      /\ DOMAIN (q \o t) = 1 .. Len(q) + Len(t)
  BY <1>1, LenProperties
<1>3. \A i \in DOMAIN q : i \in DOMAIN (q \o t) /\ (q \o t)[i] = q[i]
  BY <1>1, <1>2
<1>4. \A i \in DOMAIN t : /\ i + Len(q) \in DOMAIN (q \o t)
                          /\ (q \o t)[i + Len(q)] = t[i]
  BY <1>1, <1>2
<1>5. \A i \in DOMAIN (q \o t) : \/ i \in DOMAIN q /\ (q \o t)[i] = q[i]
                                 \/ /\ i - Len(q) \in DOMAIN t
                                    /\ (q \o t)[i] = t[i - Len(q)]
  BY <1>1, <1>2
<1>6. Elems(q \o t) \subseteq Elems(q) \cup Elems(t)
  BY <1>5 DEF Elems
<1>7. Elems(q) \subseteq Elems(q \o t)
  BY <1>3 DEF Elems
<1>8. Elems(t) \subseteq Elems(q \o t)
  BY <1>4 DEF Elems
<1> QED
  BY <1>1, <1>6, <1>7, <1>8

\* Two events one after the other.
LEMMA Pair ==
  ASSUME NEW a, NEW b PROVE <<a>> \o <<b>> = <<a, b>>
<1>0. PICK S : a \in S /\ b \in S
  <2>1. a \in {a, b} /\ b \in {a, b}
    OBVIOUS
  <2> QED
    BY <2>1
<1>1. <<a>> \in Seq(S) /\ Len(<<a>>) = 1 /\ <<a>>[1] = a
  BY <1>0
<1>2. <<b>> \in Seq(S) /\ Len(<<b>>) = 1 /\ <<b>>[1] = b
  BY <1>0
<1>3. <<a, b>> \in Seq(S) /\ Len(<<a, b>>) = 2 /\ <<a, b>>[1] = a /\ <<a, b>>[2] = b
  BY <1>0
<1>4. PICK s \in Seq(S), t \in Seq(S), u \in Seq(S) : s = <<a>> /\ t = <<b>> /\ u = <<a, b>>
  BY <1>1, <1>2, <1>3
<1>5. /\ s \o t \in Seq(S) /\ Len(s \o t) = 2
      /\ (s \o t)[1] = a /\ (s \o t)[2] = b
  <2>1. Len(s) = 1 /\ Len(t) = 1 /\ s[1] = a /\ t[1] = b
    BY <1>1, <1>2, <1>4
  <2> HIDE <1>4
  <2>2. /\ s \o t \in Seq(S) /\ Len(s \o t) = Len(s) + Len(t)
        /\ \A i \in 1 .. Len(s) + Len(t) : (s \o t)[i] = IF i <= Len(s) THEN s[i] ELSE t[i - Len(s)]
    BY ConcatProperties
  <2> QED
    BY <2>1, <2>2
<1>6. Len(u) = 2 /\ u[1] = a /\ u[2] = b
  BY <1>3, <1>4
<1>7. s \o t = u
  <2>1. \A i \in 1 .. 2 : i = 1 \/ i = 2
    OBVIOUS
  <2>2. Len(s \o t) = Len(u) /\ \A i \in 1 .. Len(s \o t) : (s \o t)[i] = u[i]
    BY <1>5, <1>6, <2>1
  <2> QED
    BY <1>5, <2>2, SeqEqual
<1> QED
  BY <1>4, <1>7

\* The answers the encoder is made to give by a flush and by the end of a job.
LEMMA Answers ==
  ASSUME TypeOK
  PROVE  LET S == OmxEvents \cup {"FTBDONE"}
         IN  /\ omx_events \in Seq(S)
             /\ Flushed \in Seq(S)
             /\ Elems(Flushed) = Elems(omx_events) \cup Elems(Returned) \cup {"Flush"}
             /\ Elems(Returned) \subseteq {"FTBDONE"}
             /\ Cleaned(omx_events) \in Seq(S)
             /\ Elems(Cleaned(omx_events)) = Elems(omx_events) \cup {"Idle", "Loaded"}
<1> DEFINE S == OmxEvents \cup {"FTBDONE"}
<1>1. omx_events \in Seq(S)
  BY DEF TypeOK
<1>2. {"Idle", "Loaded", "Flush", "FTBDONE"} \subseteq S
  BY DEF OmxEvents
<1> HIDE DEF S
<1>3. Returned \in Seq(S) /\ Elems(Returned) \subseteq {"FTBDONE"}
  BY <1>2, Short DEF Returned
<1>4. <<"Flush">> \in Seq(S) /\ Elems(<<"Flush">>) = {"Flush"}
  BY <1>2, Short
<1>5. <<"Idle", "Loaded">> \in Seq(S) /\ Elems(<<"Idle", "Loaded">>) = {"Idle", "Loaded"}
  <2>1. DOMAIN <<"Idle", "Loaded">> = {1, 2} /\ <<"Idle", "Loaded">> \in Seq(S)
    BY <1>2
  <2> QED
    BY <2>1 DEF Elems
<1>6. /\ omx_events \o Returned \in Seq(S)
      /\ Elems(omx_events \o Returned) = Elems(omx_events) \cup Elems(Returned)
  BY <1>1, <1>3, Longer
<1>7. /\ (omx_events \o Returned) \o <<"Flush">> \in Seq(S)
      /\ Elems((omx_events \o Returned) \o <<"Flush">>)
           = Elems(omx_events) \cup Elems(Returned) \cup {"Flush"}
  <2>1. PICK r, f : r = omx_events \o Returned /\ f = <<"Flush">>
    OBVIOUS
  <2>2. r \in Seq(S) /\ f \in Seq(S)
    BY <1>4, <1>6, <2>1
  <2>3. r \o f \in Seq(S) /\ Elems(r \o f) = Elems(r) \cup Elems(f)
    BY <2>2, Longer
  <2> QED
    BY <1>4, <1>6, <2>1, <2>3
<1>8. /\ omx_events \o <<"Idle", "Loaded">> \in Seq(S)
      /\ Elems(omx_events \o <<"Idle", "Loaded">>) = Elems(omx_events) \cup {"Idle", "Loaded"}
  <2>1. PICK f : f = <<"Idle", "Loaded">>
    OBVIOUS
  <2>0. f \in Seq(S)
    BY <1>5, <2>1
  <2>2. omx_events \o f \in Seq(S) /\ Elems(omx_events \o f) = Elems(omx_events) \cup Elems(f)
    BY <1>1, <2>0, Longer
  <2> QED
    BY <1>5, <2>1, <2>2
<1> QED
  BY <1>1, <1>3, <1>7, <1>8 DEF Flushed, Cleaned, S

\* While the job manager waits for no state, the encoder has none to tell it of,
\* and no other event changes that.
LEMMA NoStateComes ==
  ASSUME StateInv, jobmgr.pc # "executing"
  PROVE  "Executing" \notin Elems(omx_events)
BY DEF StateInv, Elems

\* No state is told of while none is waited for.
LEMMA StateFree ==
  ASSUME jobmgr'.pc # "executing", "Executing" \notin Elems(omx_events')
  PROVE  StateInv'
BY DEF StateInv, Elems

\* The ongoing job is flushed: its buffer comes back before the end of the flush.
LEMMA FlushKeeps ==
  ASSUME IInv, NEW j \in Job, Flush(j) PROVE IInv'
<1>1. /\ At("ongoing") /\ intf'.pc = "flush" /\ intf'.closes = intf.closes
      /\ intf'.job = j /\ intf' # NoCall
      /\ intf' \in [pc : CallAt, closes : SUBSET Clients, job : Job \cup {None}]
  BY Going DEF Flush, IInv, CallAt
<1>2. /\ clients' = clients /\ closed' = closed /\ started' = started /\ owner' = owner
      /\ g_jpeg_obj' = g_jpeg_obj /\ job_lock' = job_lock /\ jobmgr' = jobmgr
      /\ job_queue' = job_queue /\ deleted' = deleted /\ notify' = notify
      /\ evt' = evt /\ omx_buf' = omx_buf /\ ftbdone' = ftbdone
      /\ omx_events' = Flushed /\ ongoing_job_q' = Others(ongoing_job_q)
  BY DEF Flush, clientVars, lockVars, endVars
<1>3. ongoing_job_q = <<j>> /\ ongoing_job_q' = <<>>
  <2>1. /\ ongoing_job_q \in Seq(Job) /\ ongoing_job_q # <<>> /\ Len(ongoing_job_q) <= 1
        /\ j \in Elems(ongoing_job_q) /\ Mine(j)
    BY Short DEF IInv, TypeOK, EncoderInv, Flush
  <2>2. ongoing_job_q = <<Head(ongoing_job_q)>>
    BY <2>1, Short
  <2>3. Elems(ongoing_job_q) = {Head(ongoing_job_q)}
    BY <2>2, Short
  <2>4. ongoing_job_q = <<j>>
    BY <2>1, <2>2, <2>3
  <2>5. /\ Others(ongoing_job_q) \in Seq(Job)
        /\ Elems(Others(ongoing_job_q)) = {e \in Elems(ongoing_job_q) : e = EXIT \/ ~Mine(e)}
    BY <2>1, OthersStay
  <2>6. Elems(Others(ongoing_job_q)) = {}
    BY <2>1, <2>3, <2>5, Numbers
  <2>7. Others(ongoing_job_q) = <<>>
    BY <2>5, <2>6, Short
  <2> QED
    BY <1>2, <2>4, <2>7
<1>4. jobmgr.pc \notin {"lock", "idle", "executing", "gone"} /\ jobmgr.job = None
  BY <1>3, Short DEF IInv, EncoderInv, LockInv
<1>5. Elems(ongoing_job_q) = {j} /\ Elems(ongoing_job_q)' = {}
  BY <1>3, Short DEF Elems
<1>6. Flushing = {} /\ Flushing' = {j}
  BY <1>1 DEF Flushing, At
<1>7. TypeOK'
  <2>1. ongoing_job_q' \in Seq(Job)
    BY <1>3
  <2> QED
    BY <1>1, <1>2, <2>1, Answers
       DEF IInv, TypeOK, CallAt, Flush, clientVars, lockVars, endVars
<1>8. LockInv'
  BY <1>1, <1>2 DEF IInv, LockInv, At
<1>9. Live' = Live
  BY <1>2, <1>5, <1>6 DEF Live, Todo, Ongoing, Preparing, Elems
<1>10. CallInv'
  BY <1>1, <1>2 DEF IInv, CallInv, At
<1>11. OwnerInv'
  BY <1>2, <1>9, OwnersKept DEF IInv
<1>12. PlaceInv'
  <2>1. ASSUME NEW h \in Job, h # j, NEW p PROVE IsAt(h, p) => IsAt(h, p)'
    BY <1>1, <1>2, <1>5, <2>1 DEF IsAt, At
  <2>2. j <= started /\ IsAt(j, "ongoing")
    BY <1>5 DEF IInv, PlaceInv, IsAt
  <2>3. IsAt(j, "flush")' /\ "flush" \in Spots
    BY <1>1, <1>2, <1>5, <2>2 DEF IsAt, At, Spots
  <2> QED
    BY <1>2, <2>1, <2>2, <2>3 DEF IInv, PlaceInv
<1>13. EncoderInv'
  <2>1. CASE omx_buf = None
    <3>1. "FTBDONE" \notin Elems(omx_events) /\ Elems(Returned) = {}
      BY <2>1, Short DEF IInv, EncoderInv, Returned
    <3>2. "FTBDONE" \notin Elems(omx_events')
      BY <1>2, <3>1, Answers DEF IInv
    <3> QED
      BY <1>2, <1>3, <2>1, <3>2, Short DEF IInv, EncoderInv
  <2>2. CASE omx_buf # None
    <3>1. /\ evt = "Executing" /\ ftbdone = None /\ omx_buf = j
          /\ omx_events \in {<<>>, <<"FTBDONE">>}
      BY <1>1, <1>3, <2>2, Short DEF IInv, EncoderInv, At
    <3>2. Flushed = <<"FTBDONE", "Flush">>
      <4>1. omx_events \o Returned = <<"FTBDONE">>
        <5>1. CASE omx_events = <<>>
          <6>1. Returned = <<"FTBDONE">>
            BY <2>2, <5>1, Short DEF Returned
          <6>2. <<>> \o <<"FTBDONE">> = <<"FTBDONE">>
            OBVIOUS
          <6> QED
            BY <5>1, <6>1, <6>2
        <5>2. CASE omx_events = <<"FTBDONE">>
          <6>1. Returned = <<>>
            BY <5>2, Short DEF Returned
          <6>2. <<"FTBDONE">> \o <<>> = <<"FTBDONE">>
            OBVIOUS
          <6> QED
            BY <5>2, <6>1, <6>2
        <5> QED
          BY <3>1, <5>1, <5>2
      <4>2. <<"FTBDONE">> \o <<"Flush">> = <<"FTBDONE", "Flush">>
        BY Pair
      <4> QED
        BY <4>1, <4>2 DEF Flushed
    <3> QED
      BY <1>1, <1>2, <1>3, <2>2, <3>1, <3>2, Short DEF IInv, EncoderInv, At
  <2> QED
    BY <2>1, <2>2
<1>14. StateInv'
  BY <1>2, <1>4, NoStateComes, StateFree, Answers DEF IInv
<1> QED
  BY <1>7, <1>8, <1>10, <1>11, <1>12, <1>13, <1>14 DEF IInv

\* abort_job() leaves.
LEMMA Returning ==
  ASSUME IInv, AbortReturns, NEW pc, At(pc), pc # "exit", jobmgr' = jobmgr,
         UNCHANGED g_jpeg_obj
  PROVE  /\ intf' = NoCall /\ intf'.pc = "none" /\ job_sem' \in Nat
         /\ intf' \in [pc : CallAt, closes : SUBSET Clients, job : Job \cup {None}]
         /\ job_lock' = "free"
         /\ job_lock = "intf" => LockInv'
BY DEF AbortReturns, NoCall, CallAt, IInv, TypeOK, LockInv

\* The job that was flushed is over, and its output buffer is back.
LEMMA FlushEndsKeeps ==
  ASSUME IInv, FlushEnds PROVE IInv'
<1>1. /\ At("flush") /\ intf.job \in Job /\ evt = "DONE"
      /\ clients' = clients /\ closed' = closed /\ started' = started /\ owner' = owner
      /\ g_jpeg_obj' = g_jpeg_obj /\ jobmgr' = jobmgr
      /\ job_queue' = job_queue /\ ongoing_job_q' = ongoing_job_q
      /\ deleted' = deleted \cup {intf.job} /\ notify' = notify
      /\ evt' = evt /\ omx_buf' = omx_buf /\ ftbdone' = ftbdone
      /\ omx_events' = Cleaned(omx_events)
      /\ aborts' = aborts /\ cb_q' = cb_q /\ job_status' = job_status
  BY DEF FlushEnds, clientVars, queueVars, IInv, CallInv, At
<1>2. /\ intf' \in [pc : CallAt, closes : SUBSET Clients, job : Job \cup {None}]
      /\ intf'.pc \in {"none", "ongoing"}
      /\ intf'.pc = "none" <=> intf' = NoCall
      /\ intf'.closes \subseteq intf.closes
      /\ LockInv' /\ job_sem' \in Nat /\ job_lock' \in {"free", "intf", "jobmgr"}
      /\ upsets' \subseteq {"refused", "closed", "aborted"}
  <2>1. CASE Closing
    <3>1. Goto("ongoing", None) /\ upsets' = upsets \cup {"closed"} /\ UNCHANGED lockVars
      BY <2>1 DEF FlushEnds
    <3>2. /\ intf'.pc = "ongoing" /\ intf'.closes = intf.closes /\ intf' # NoCall
          /\ intf' \in [pc : CallAt, closes : SUBSET Clients, job : Job \cup {None}]
      BY <3>1, Going DEF IInv, CallAt
    <3>3. LockInv'
      BY <1>1, <3>1, <3>2 DEF IInv, LockInv, lockVars, At
    <3> QED
      BY <3>1, <3>2, <3>3 DEF IInv, TypeOK, lockVars
  <2>2. CASE ~Closing
    <3>1. AbortReturns /\ upsets' = upsets \cup {"aborted"}
      BY <2>2 DEF FlushEnds
    <3>2. job_lock = "intf"
      BY <1>1 DEF IInv, LockInv, At
    <3>3. /\ intf' = NoCall /\ intf'.pc = "none" /\ job_sem' \in Nat
          /\ intf' \in [pc : CallAt, closes : SUBSET Clients, job : Job \cup {None}]
          /\ job_lock' = "free" /\ LockInv'
      BY <1>1, <3>1, <3>2, Returning
    <3>4. intf'.closes = {}
      BY <3>3 DEF NoCall
    <3> QED
      BY <3>1, <3>3, <3>4 DEF IInv, TypeOK
  <2> QED
    BY <2>1, <2>2
<1>3. jobmgr.pc \notin {"idle", "executing"} /\ jobmgr.job = None
  BY <1>1 DEF IInv, LockInv, At
<1>4. omx_buf = None /\ "FTBDONE" \notin Elems(omx_events) /\ ongoing_job_q = <<>>
  BY <1>1 DEF IInv, EncoderInv
<1>5. TypeOK'
  BY <1>1, <1>2, Answers DEF IInv, TypeOK, CallAt
<1>6. Flushing = {intf.job} /\ Flushing' = {}
  BY <1>1, <1>2 DEF Flushing, At
<1>7. Live' \subseteq Live
  BY <1>1, <1>6 DEF Live, Todo, Ongoing, Preparing, Elems
<1>8. CallInv'
  BY <1>1, <1>2 DEF IInv, CallInv, At
<1>9. OwnerInv'
  BY <1>1, <1>7, OwnersKept DEF IInv
<1>10. PlaceInv'
  <2>1. ASSUME NEW h \in Job, h # intf.job, NEW p PROVE IsAt(h, p) => IsAt(h, p)'
    BY <1>1, <1>2, <2>1 DEF IsAt, At
  <2>2. intf.job <= started /\ IsAt(intf.job, "flush")
    BY <1>1 DEF IInv, PlaceInv, IsAt
  <2>3. PICK j : j = intf.job
    OBVIOUS
  <2>4. IsAt(j, "deleted")' /\ "deleted" \in Spots
    BY <1>1, <1>2, <2>2, <2>3 DEF IsAt, At, Spots
  <2> QED
    BY <1>1, <2>1, <2>2, <2>3, <2>4 DEF IInv, PlaceInv
<1>11. EncoderInv'
  <2>1. "FTBDONE" \notin Elems(omx_events')
    BY <1>1, <1>4, Answers DEF IInv
  <2> QED
    BY <1>1, <1>4, <2>1 DEF IInv, EncoderInv
<1>12. StateInv'
  BY <1>1, <1>3, NoStateComes, StateFree, Answers DEF IInv
<1> QED
  BY <1>2, <1>5, <1>8, <1>9, <1>10, <1>11, <1>12 DEF IInv

\* The jobs that are looked for are deleted, and the others keep their places.
LEMMA DropTodoKeeps ==
  ASSUME IInv, DropTodo PROVE IInv'
<1>1. /\ At("ongoing") /\ ~At("flush") /\ intf.closes \subseteq clients
      /\ clients' = clients /\ closed' = closed /\ started' = started /\ owner' = owner
      /\ g_jpeg_obj' = g_jpeg_obj /\ jobmgr' = jobmgr
      /\ ongoing_job_q' = ongoing_job_q /\ notify' = notify
      /\ \A j \in Elems(ongoing_job_q) : ~Mine(j)
      /\ UNCHANGED omxVars
      /\ aborts' = aborts /\ cb_q' = cb_q /\ job_status' = job_status /\ upsets' = upsets
  BY DEF DropTodo, clientVars, IInv, CallInv, At
<1>2. /\ job_queue' = Others(job_queue)
      /\ deleted' = deleted \cup (Elems(job_queue) \ Elems(job_queue'))
      /\ \/ (Closing \/ job_queue' = job_queue) /\ Goto("callbacks", intf.job) /\ UNCHANGED lockVars
         \/ ~Closing /\ AbortReturns
  BY DEF DropTodo
<1>3. job_queue \in Seq(Job \cup {EXIT})
  BY DEF IInv, TypeOK
<1>4. /\ job_queue' \in Seq(Job \cup {EXIT})
      /\ Elems(job_queue') = {e \in Elems(job_queue) : e = EXIT \/ ~Mine(e)}
      /\ IsInjective(job_queue) => IsInjective(job_queue')
  BY <1>2, <1>3, OthersStay
<1>5. Elems(job_queue) \subseteq Job \cup {EXIT}
  BY <1>3, Short
<1>6. /\ intf' \in [pc : CallAt, closes : SUBSET Clients, job : Job \cup {None}]
      /\ intf'.pc \in {"none", "callbacks"}
      /\ intf'.pc = "none" <=> intf' = NoCall
      /\ intf'.pc = "callbacks" => intf'.closes = intf.closes /\ (Closing \/ job_queue' = job_queue)
      /\ intf'.closes \subseteq intf.closes
      /\ LockInv' /\ job_sem' \in Nat /\ job_lock' \in {"free", "intf", "jobmgr"}
  <2>1. CASE /\ Closing \/ job_queue' = job_queue
             /\ Goto("callbacks", intf.job)
             /\ UNCHANGED lockVars
    <3>1. /\ intf'.pc = "callbacks" /\ intf'.closes = intf.closes /\ intf' # NoCall
          /\ intf' \in [pc : CallAt, closes : SUBSET Clients, job : Job \cup {None}]
      BY <2>1, Going DEF IInv, CallAt, TypeOK
    <3>2. LockInv'
      BY <1>1, <2>1, <3>1 DEF IInv, LockInv, lockVars, At
    <3> QED
      BY <2>1, <3>1, <3>2 DEF IInv, TypeOK, lockVars
  <2>2. CASE AbortReturns
    <3>1. job_lock = "intf"
      BY <1>1 DEF IInv, LockInv, At
    <3>2. /\ intf' = NoCall /\ intf'.pc = "none" /\ job_sem' \in Nat
          /\ intf' \in [pc : CallAt, closes : SUBSET Clients, job : Job \cup {None}]
          /\ job_lock' = "free" /\ LockInv'
      BY <1>1, <2>2, <3>1, Returning
    <3> QED
      BY <3>2 DEF NoCall
  <2> QED
    BY <1>2, <2>1, <2>2
<1>7. TypeOK'
  <2>1. deleted' \subseteq Job
    BY <1>2, <1>4, <1>5 DEF IInv, TypeOK
  <2> QED
    BY <1>1, <1>4, <1>6, <2>1 DEF IInv, TypeOK, CallAt, omxVars
<1>8. Flushing = {} /\ Flushing' = {}
  BY <1>1, <1>6 DEF Flushing, At
<1>9. Elems(ongoing_job_q)' = Elems(ongoing_job_q) /\ Elems(job_queue)' = Elems(job_queue')
  BY <1>1 DEF Elems
<1>10. Todo' \subseteq Todo /\ Ongoing' = Ongoing
  BY <1>4, <1>9 DEF Todo, Ongoing
<1>11. Live' \subseteq Live
  BY <1>1, <1>8, <1>10 DEF Live, Preparing
<1>12. CallInv'
  <2>1. ASSUME At("callbacks")', Closing', NEW j \in Todo' \cup Ongoing'
        PROVE  owner[j] \notin intf.closes
    <3>1. Closing
      BY <1>6, <2>1 DEF At, Closing
    <3>2. j \in Ongoing \/ ~Mine(j)
      BY <1>4, <1>9, <1>10, <2>1 DEF Todo
    <3> QED
      BY <1>1, <3>1, <3>2 DEF Mine, Ongoing
  <2>2. EXIT \notin Elems(job_queue)'
    BY <1>1, <1>4, <1>9 DEF IInv, CallInv, At
  <2> QED
    BY <1>1, <1>6, <2>1, <2>2 DEF IInv, CallInv, At
<1>13. OwnerInv'
  BY <1>1, <1>11, OwnersKept DEF IInv
<1>14. PlaceInv'
  <2>1. ASSUME NEW j \in Job, NEW p, IsAt(j, p), p # "todo" \/ j \in Elems(job_queue')
        PROVE  IsAt(j, p)'
    BY <1>1, <1>2, <1>4, <1>6, <1>9, <2>1 DEF IsAt, At
  <2>2. ASSUME NEW j \in Job, IsAt(j, "todo"), j \notin Elems(job_queue')
        PROVE  IsAt(j, "deleted")'
    BY <1>1, <1>2, <1>6, <1>9, <2>2 DEF IsAt, At
  <2>3. "deleted" \in Spots /\ "todo" \in Spots /\ "none" # "todo"
    BY DEF Spots
  <2>4. IsInjective(job_queue')
    BY <1>4 DEF IInv, PlaceInv
  <2>5. ASSUME NEW j \in Job, j <= started PROVE \E p \in Spots : IsAt(j, p)'
    <3>1. PICK p \in Spots : IsAt(j, p)
      BY <2>5 DEF IInv, PlaceInv
    <3> QED
      BY <2>1, <2>2, <2>3, <3>1
  <2>6. ASSUME NEW j \in Job, ~(j <= started) PROVE IsAt(j, "none")'
    BY <2>1, <2>3, <2>6 DEF IInv, PlaceInv
  <2> QED
    BY <1>1, <2>4, <2>5, <2>6 DEF IInv, PlaceInv
<1>15. EncoderInv'
  BY <1>1, <1>8, EncoderKept DEF IInv
<1>16. StateInv'
  BY <1>1, StateKept DEF IInv, omxVars
<1> QED
  BY <1>6, <1>7, <1>12, <1>13, <1>14, <1>15, <1>16 DEF IInv

\* None of the client's jobs is left when the client is no longer open.
LEMMA UnlockKeeps ==
  ASSUME IInv, Unlock PROVE IInv'
<1>1. /\ At("callbacks") /\ ~At("flush") /\ intf.closes \subseteq clients
      /\ started' = started /\ owner' = owner
      /\ g_jpeg_obj' = g_jpeg_obj /\ jobmgr' = jobmgr
      /\ ongoing_job_q' = ongoing_job_q
      /\ UNCHANGED omxVars /\ UNCHANGED endVars
      /\ aborts' = aborts /\ cb_q' = cb_q /\ job_lock' = "free" /\ job_lock = "intf"
  BY DEF Unlock, AbortReturns, IInv, CallInv, LockInv, At
<1>2. \/ AbortReturns /\ UNCHANGED <<clients, closed, job_queue>>
      \/ /\ Closing
         /\ clients' = clients \ intf.closes /\ closed' = closed \cup intf.closes
         /\ \/ intf' = NoCall /\ UNCHANGED <<job_queue, job_sem>>
            \/ /\ clients' = {} /\ Goto("exit", None)
               /\ job_queue' = Append(job_queue, EXIT) /\ job_sem' = job_sem + 1
  BY DEF Unlock
<1>3. job_queue \in Seq(Job \cup {EXIT}) /\ EXIT \notin Elems(job_queue)
      /\ IsInjective(job_queue)
  BY <1>1 DEF IInv, TypeOK, CallInv, PlaceInv, At
<1>4. /\ intf' \in [pc : CallAt, closes : SUBSET Clients, job : Job \cup {None}]
      /\ intf'.pc \in {"none", "exit"}
      /\ intf'.pc = "none" <=> intf' = NoCall
      /\ intf'.pc = "exit" => clients' = {}
      /\ job_sem' \in Nat /\ LockInv'
  <2>1. CASE AbortReturns \/ (intf' = NoCall /\ job_sem' = job_sem)
    <3>1. intf' = NoCall /\ intf'.pc = "none" /\ job_sem' \in Nat
          /\ intf' \in [pc : CallAt, closes : SUBSET Clients, job : Job \cup {None}]
      BY <2>1 DEF AbortReturns, NoCall, CallAt, IInv, TypeOK
    <3>2. LockInv'
      BY <1>1, <3>1 DEF IInv, LockInv, At
    <3> QED
      BY <3>1, <3>2
  <2>2. CASE clients' = {} /\ Goto("exit", None) /\ job_sem' = job_sem + 1
    <3>1. /\ intf'.pc = "exit" /\ intf' # NoCall
          /\ intf' \in [pc : CallAt, closes : SUBSET Clients, job : Job \cup {None}]
      BY <2>2, Going DEF IInv, CallAt
    <3>2. LockInv'
      BY <1>1, <3>1 DEF IInv, LockInv, At
    <3> QED
      BY <2>2, <3>1, <3>2 DEF IInv, TypeOK
  <2> QED
    BY <1>2, <2>1, <2>2
<1>5. /\ job_queue' \in Seq(Job \cup {EXIT}) /\ IsInjective(job_queue')
      /\ \/ Elems(job_queue') = Elems(job_queue)
         \/ Elems(job_queue') = Elems(job_queue) \cup {EXIT} /\ intf'.pc = "exit"
  <2>1. CASE job_queue' = job_queue
    BY <1>3, <2>1
  <2>2. CASE Goto("exit", None) /\ job_queue' = Append(job_queue, EXIT)
    <3>1. intf'.pc = "exit"
      BY <2>2, Going DEF IInv, CallAt
    <3>2. /\ Append(job_queue, EXIT) \in Seq(Job \cup {EXIT})
          /\ Elems(Append(job_queue, EXIT)) = Elems(job_queue) \cup {EXIT}
          /\ IsInjective(Append(job_queue, EXIT))
      BY <1>3, Appended
    <3> QED
      BY <2>2, <3>1, <3>2
  <2> QED
    BY <1>2, <2>1, <2>2
<1>6. Elems(ongoing_job_q)' = Elems(ongoing_job_q) /\ Elems(job_queue)' = Elems(job_queue')
  BY <1>1 DEF Elems
<1>7. \/ clients' = clients /\ closed' = closed
      \/ /\ Closing
         /\ clients' = clients \ intf.closes /\ closed' = closed \cup intf.closes
  BY <1>2
<1>8. TypeOK'
  <2>1. clients' \subseteq Clients /\ closed' \subseteq Clients
    BY <1>1, <1>7 DEF IInv, TypeOK
  <2> QED
    BY <1>1, <1>4, <1>5, <2>1 DEF IInv, TypeOK, CallAt, omxVars, endVars
<1>9. Flushing = {} /\ Flushing' = {} /\ jobmgr.job = None
  BY <1>1, <1>4 DEF Flushing, At, IInv, LockInv
<1>10. Todo' = Todo /\ Ongoing' = Ongoing /\ Live' = Live /\ Live = Todo \cup Ongoing
  BY <1>1, <1>3, <1>5, <1>6, <1>9 DEF Todo, Ongoing, Live, Preparing
<1>11. CallInv'
  BY <1>4, <1>5, <1>6, <1>3 DEF IInv, CallInv, At
<1>12. OwnerInv'
  <2>1. ASSUME Closing, clients' = clients \ intf.closes, closed' = closed \cup intf.closes
        PROVE  OwnerInv'
    <3>1. \A j \in Live : owner[j] \notin intf.closes
      BY <1>1, <1>10, <2>1 DEF IInv, CallInv, At
    <3> QED
      BY <1>1, <1>10, <2>1, <3>1 DEF IInv, OwnerInv
  <2>2. ASSUME clients' = clients, closed' = closed PROVE OwnerInv'
    BY <1>1, <1>10, <2>2, OwnersKept DEF IInv
  <2> QED
    BY <1>7, <2>1, <2>2
<1>13. PlaceInv'
  <2>1. \A j \in Job : j \in Elems(job_queue') <=> j \in Elems(job_queue)
    BY <1>5, Numbers
  <2>2. \A j \in Job : \A p : IsAt(j, p) => IsAt(j, p)'
    BY <1>1, <1>4, <1>6, <2>1 DEF IsAt, At, endVars
  <2> QED
    BY <1>1, <1>5, <2>2 DEF IInv, PlaceInv
<1>14. EncoderInv'
  BY <1>1, <1>9, EncoderKept DEF IInv
<1>15. StateInv'
  BY <1>1, StateKept DEF IInv, omxVars
<1> QED
  BY <1>4, <1>8, <1>11, <1>12, <1>13, <1>14, <1>15 DEF IInv

\* No client is open, so that what is thrown away with the object is no job.
LEMMA DeinitKeeps ==
  ASSUME IInv, Deinit PROVE IInv'
<1>1. /\ At("exit") /\ jobmgr.pc = "gone" /\ clients = {} /\ jobmgr.job = None
      /\ g_jpeg_obj' = "freed"
      /\ job_queue' = <<>> /\ ongoing_job_q' = <<>> /\ cb_q' = {} /\ intf' = NoCall
      /\ clients' = clients /\ closed' = closed /\ started' = started /\ owner' = owner
      /\ aborts' = aborts /\ job_lock' = job_lock /\ job_sem' = job_sem /\ jobmgr' = jobmgr
      /\ UNCHANGED omxVars /\ UNCHANGED endVars
  BY DEF Deinit, lockVars, IInv, CallInv, LockInv, At
<1>2. Live = {}
  BY <1>1 DEF IInv, OwnerInv
<1>3. \A j \in Job : j \notin Elems(job_queue)
  BY <1>2, Numbers DEF Live, Todo
<1>4. ongoing_job_q = <<>>
  BY <1>1 DEF IInv, EncoderInv
<1>5. Elems(job_queue)' = {} /\ Elems(ongoing_job_q)' = {} /\ Elems(ongoing_job_q) = {}
  BY <1>1, <1>4, Short DEF Elems
<1>6. Flushing = {} /\ Flushing' = {}
  BY <1>1 DEF Flushing, At, NoCall
<1>7. Live' = {}
  BY <1>1, <1>5, <1>6 DEF Live, Todo, Ongoing, Preparing
<1>8. TypeOK'
  <2>1. intf' \in [pc : CallAt, closes : SUBSET Clients, job : Job \cup {None}]
    BY <1>1 DEF NoCall, CallAt
  <2>2. job_queue' \in Seq(Job \cup {EXIT}) /\ ongoing_job_q' \in Seq(Job) /\ cb_q' \subseteq Job
    BY <1>1
  <2> QED
    BY <1>1, <2>1, <2>2 DEF IInv, TypeOK, CallAt, omxVars, endVars
<1>9. LockInv'
  BY <1>1 DEF IInv, LockInv, NoCall, At
<1>10. CallInv'
  BY <1>1, <1>5 DEF CallInv, NoCall, At
<1>11. OwnerInv'
  BY <1>1, <1>2, <1>7, OwnersKept DEF IInv
<1>12. PlaceInv'
  <2>1. \A j \in Job : \A p : IsAt(j, p) => IsAt(j, p)'
    BY <1>1, <1>3, <1>5 DEF IsAt, At, NoCall, endVars
  <2> QED
    BY <1>1, <2>1, Short DEF IInv, PlaceInv
<1>13. EncoderInv'
  BY <1>1, <1>4, <1>6, EncoderKept DEF IInv
<1>14. StateInv'
  BY <1>1, StateKept DEF IInv, omxVars
<1> QED
  BY <1>8, <1>9, <1>10, <1>11, <1>12, <1>13, <1>14 DEF IInv

-----------------------------------------------------------------------------
(* The job manager                                                           *)

\* The job manager takes a step and no job moves.
LEMMA JobmgrMoves ==
  ASSUME IInv, TypeOK',
         UNCHANGED clientVars, intf' = intf, job_lock' = job_lock, UNCHANGED queueVars,
         deleted' = deleted, notify' = notify,
         jobmgr'.job = jobmgr.job,
         jobmgr'.pc \in {"idle", "executing"} <=> jobmgr.pc \in {"idle", "executing"},
         jobmgr'.pc = "none" <=> jobmgr.pc = "none",
         EncoderInv', StateInv'
  PROVE  IInv'
<1>1. Flushing' = Flushing
  BY DEF Flushing, At
<1>2. Live' = Live /\ Todo' = Todo /\ Ongoing' = Ongoing /\ Elems(job_queue)' = Elems(job_queue)
  BY <1>1 DEF Live, Todo, Ongoing, Preparing, Elems, queueVars
<1>3. LockInv'
  BY DEF IInv, LockInv, clientVars
<1>4. CallInv'
  BY <1>2 DEF IInv, CallInv, At, Closing, clientVars
<1>5. OwnerInv'
  BY <1>2, OwnersKept DEF IInv, clientVars
<1>6. PlaceInv'
  BY <1>1, PlacesKept DEF IInv, clientVars, queueVars
<1> QED
  BY <1>3, <1>4, <1>5, <1>6 DEF IInv

\* The job manager leaves the wait only when nothing is ongoing.
LEMMA JobmgrWakesKeeps ==
  ASSUME IInv, JobmgrWakes PROVE IInv'
<1>1. /\ jobmgr.pc = "wait" /\ jobmgr'.job = jobmgr.job
      /\ \/ jobmgr' = jobmgr
         \/ ongoing_job_q = <<>> /\ jobmgr'.pc = "lock"
      /\ UNCHANGED clientVars /\ intf' = intf /\ job_lock' = job_lock /\ UNCHANGED queueVars
      /\ UNCHANGED endVars /\ UNCHANGED omxVars
  BY DEF JobmgrWakes, IInv, TypeOK
<1>2. TypeOK'
  <2>1. job_sem' \in Nat
    BY DEF IInv, TypeOK, JobmgrWakes
  <2>2. jobmgr' \in [pc : {"none", "wait", "lock", "idle", "executing", "gone"},
                     job : Job \cup {None}]
    BY DEF IInv, TypeOK, JobmgrWakes
  <2> QED
    BY <1>1, <2>1, <2>2 DEF IInv, TypeOK, clientVars, queueVars, endVars, omxVars
<1>3. Flushing' = Flushing
  BY <1>1 DEF Flushing, At
<1>4. EncoderInv'
  BY <1>1, <1>3, EncoderKept DEF IInv, queueVars
<1>5. StateInv'
  BY <1>1, StateKept DEF IInv, omxVars
<1> QED
  BY <1>1, <1>2, <1>4, <1>5, JobmgrMoves DEF endVars

\* The next state is asked for once the encoder has told of the last one.
LEMMA SendExecutingKeeps ==
  ASSUME IInv, SendExecuting PROVE IInv'
<1>1. /\ jobmgr.pc = "idle" /\ evt = "Idle"
      /\ jobmgr' = [pc |-> "executing", job |-> jobmgr.job]
      /\ jobmgr'.pc = "executing" /\ jobmgr'.job = jobmgr.job
      /\ omx_events' = Append(omx_events, "Executing")
      /\ evt' = evt /\ omx_buf' = omx_buf /\ ftbdone' = ftbdone
      /\ UNCHANGED clientVars /\ intf' = intf /\ UNCHANGED lockVars /\ UNCHANGED queueVars
      /\ UNCHANGED endVars
  BY DEF SendExecuting, IInv, TypeOK
<1>2. omx_events \in Seq(OmxEvents \cup {"FTBDONE"}) /\ "Executing" \in OmxEvents
  BY DEF IInv, TypeOK, OmxEvents
<1>3. /\ omx_events' \in Seq(OmxEvents \cup {"FTBDONE"})
      /\ Elems(omx_events') = Elems(omx_events) \cup {"Executing"}
  BY <1>1, <1>2, Appended
<1>4. /\ DOMAIN omx_events = 1 .. Len(omx_events) /\ Len(omx_events) \in Nat
      /\ DOMAIN omx_events' = 1 .. Len(omx_events')
      /\ Len(omx_events') = Len(omx_events) + 1
      /\ omx_events'[Len(omx_events')] = "Executing"
      /\ \A i \in 1 .. Len(omx_events) : omx_events'[i] = omx_events[i]
      /\ omx_events' # <<>>
  BY <1>1, <1>2, <1>3, AppendProperties, LenProperties
<1>5. TypeOK'
  BY <1>1, <1>3 DEF IInv, TypeOK, clientVars, lockVars, queueVars, endVars
<1>6. ongoing_job_q' = ongoing_job_q /\ At("flush")' = At("flush")
  BY <1>1 DEF queueVars, At
<1>7. omx_buf = None /\ "FTBDONE" \notin Elems(omx_events)
  BY <1>1 DEF IInv, EncoderInv
<1>8. EncoderInv'
  BY <1>1, <1>3, <1>6, <1>7 DEF IInv, EncoderInv
<1>9. StateInv'
  <2>1. ASSUME NEW i \in DOMAIN omx_events', omx_events'[i] = "Executing"
        PROVE  i = Len(omx_events')
    <3>1. i \in 1 .. Len(omx_events) \/ i = Len(omx_events')
      BY <1>4
    <3>2. \A k \in 1 .. Len(omx_events) : omx_events[k] # "Executing"
      BY <1>1, <1>4 DEF IInv, StateInv
    <3> QED
      BY <1>4, <2>1, <3>1, <3>2
  <2> QED
    BY <1>1, <1>4, <2>1 DEF StateInv
<1> QED
  BY <1>1, <1>5, <1>8, <1>9, JobmgrMoves DEF endVars, lockVars

\* The encoder is in Executing, has nothing more to say, and gets the job's buffer.
LEMMA StartEncodingKeeps ==
  ASSUME IInv, StartEncoding PROVE IInv'
<1>1. PICK j \in Job : jobmgr.job = j
  BY DEF IInv, LockInv, TypeOK, StartEncoding
<1>2. /\ jobmgr.pc = "executing" /\ evt = "Executing" /\ omx_buf' = j
      /\ ongoing_job_q' = Append(ongoing_job_q, j)
      /\ job_lock' = "free" /\ job_lock = "jobmgr"
      /\ jobmgr' = [pc |-> "wait", job |-> None]
      /\ jobmgr'.pc = "wait" /\ jobmgr'.job = None
      /\ UNCHANGED clientVars /\ intf' = intf /\ job_sem' = job_sem
      /\ job_queue' = job_queue /\ cb_q' = cb_q /\ UNCHANGED endVars
      /\ evt' = evt /\ omx_events' = omx_events /\ ftbdone' = ftbdone
  BY <1>1 DEF StartEncoding, IInv, LockInv
<1>3. ongoing_job_q = <<>> /\ omx_events = <<>> /\ ftbdone = None
  BY <1>2 DEF IInv, EncoderInv, StateInv
<1>4. ongoing_job_q' = <<j>>
  BY <1>2, <1>3
<1>5. Elems(ongoing_job_q) = {} /\ Elems(ongoing_job_q)' = {j}
  <2>1. Elems(<<>>) = {} /\ Elems(<<j>>) = {j}
    BY Short
  <2> QED
    BY <1>3, <1>4, <2>1
<1>6. ~At("flush") /\ ~At("callbacks") /\ ~At("join")
  BY <1>2 DEF IInv, LockInv, At
<1>7. TypeOK'
  <2>1. ongoing_job_q' \in Seq(Job)
    BY <1>4
  <2>2. jobmgr' \in [pc : {"none", "wait", "lock", "idle", "executing", "gone"},
                     job : Job \cup {None}]
    BY <1>2
  <2> QED
    BY <1>2, <2>1, <2>2 DEF IInv, TypeOK, clientVars, endVars
<1>8. LockInv'
  BY <1>2, Numbers DEF IInv, LockInv, clientVars
<1>9. Flushing = {} /\ Flushing' = {}
  BY <1>2, <1>6 DEF Flushing, At
<1>10. Live' = Live /\ Elems(job_queue)' = Elems(job_queue)
  BY <1>1, <1>2, <1>5, <1>9, Numbers DEF Live, Todo, Ongoing, Preparing, Elems
<1>11. CallInv'
  BY <1>2, <1>6, <1>10 DEF IInv, CallInv, At, clientVars
<1>12. OwnerInv'
  BY <1>2, <1>10, OwnersKept DEF IInv, clientVars
<1>13. PlaceInv'
  <2>1. ASSUME NEW h \in Job, h # j, NEW p PROVE IsAt(h, p) => IsAt(h, p)'
    BY <1>1, <1>2, <1>5, <1>10, <2>1, Numbers DEF IsAt, At, endVars
  <2>2. j <= started /\ IsAt(j, "jobmgr")
    BY <1>1 DEF IInv, PlaceInv, IsAt
  <2>3. IsAt(j, "ongoing")' /\ "ongoing" \in Spots
    BY <1>1, <1>2, <1>5, <1>10, <2>2, Numbers DEF IsAt, At, endVars, Spots
  <2> QED
    BY <1>2, <2>1, <2>2, <2>3 DEF IInv, PlaceInv, clientVars
<1>14. EncoderInv'
  <2>1. Len(<<j>>) <= 1 /\ "FTBDONE" \notin Elems(<<>>)
    BY Short
  <2> QED
    BY <1>1, <1>2, <1>3, <1>4, <1>6, <2>1, Numbers DEF EncoderInv, At
<1>15. StateInv'
  BY <1>2, <1>3, StateFree, Short
<1> QED
  BY <1>7, <1>8, <1>11, <1>12, <1>13, <1>14, <1>15 DEF IInv

\* An event that tells of no state the job manager waits for comes last.
LEMMA EventComes ==
  ASSUME TypeOK, NEW e \in OmxEvents \cup {"FTBDONE"}, omx_events' = Append(omx_events, e)
  PROVE  /\ omx_events' \in Seq(OmxEvents \cup {"FTBDONE"})
         /\ Elems(omx_events') = Elems(omx_events) \cup {e}
BY Appended DEF TypeOK

\* With nothing to do the job manager waits again.
LEMMA TakesNothing ==
  ASSUME IInv, JobmgrTakes, job_queue = <<>> PROVE IInv'
<1>1. /\ jobmgr.pc = "lock" /\ jobmgr' = [jobmgr EXCEPT !.pc = "wait"]
      /\ jobmgr'.pc = "wait" /\ jobmgr'.job = jobmgr.job
      /\ UNCHANGED clientVars /\ intf' = intf /\ UNCHANGED lockVars /\ UNCHANGED queueVars
      /\ UNCHANGED endVars /\ UNCHANGED omxVars
  BY DEF JobmgrTakes, lockVars, queueVars, endVars, omxVars, IInv, TypeOK
<1>2. TypeOK'
  <2>1. jobmgr' \in [pc : {"none", "wait", "lock", "idle", "executing", "gone"},
                     job : Job \cup {None}]
    BY <1>1 DEF IInv, TypeOK
  <2> QED
    BY <1>1, <2>1 DEF IInv, TypeOK, clientVars, lockVars, queueVars, endVars, omxVars
<1>3. Flushing' = Flushing
  BY <1>1 DEF Flushing, At
<1>4. EncoderInv'
  BY <1>1, <1>3, EncoderKept DEF IInv, queueVars
<1>5. StateInv'
  BY <1>1, StateKept DEF IInv, omxVars
<1> QED
  BY <1>1, <1>2, <1>4, <1>5, JobmgrMoves DEF endVars, lockVars

\* The head of the queue is a job, which the encoder refuses or is given, or EXIT.
LEMMA TakesHead ==
  ASSUME IInv, JobmgrTakes, job_queue # <<>> PROVE IInv'
<1>1. PICK h : h = Head(job_queue)
  OBVIOUS
<1>2. /\ jobmgr.pc = "lock" /\ job_lock = "free" /\ jobmgr.job = None
      /\ job_queue' = Tail(job_queue)
      /\ UNCHANGED clientVars /\ intf' = intf /\ job_sem' = job_sem
      /\ ongoing_job_q' = ongoing_job_q /\ cb_q' = cb_q /\ deleted' = deleted
      /\ evt' = evt /\ omx_buf' = omx_buf /\ ftbdone' = ftbdone
  BY DEF JobmgrTakes, IInv, LockInv
<1>3. \/ /\ h = EXIT /\ jobmgr' = [jobmgr EXCEPT !.pc = "gone"]
         /\ UNCHANGED <<job_lock, job_status, notify, upsets, omx_events>>
      \/ h # EXIT /\ RefuseJob(h)
      \/ h # EXIT /\ PrepareJob(h)
  BY <1>1 DEF JobmgrTakes
<1>4. job_queue \in Seq(Job \cup {EXIT}) /\ IsInjective(job_queue)
  BY DEF IInv, TypeOK, PlaceInv
<1>5. /\ h \in Job \cup {EXIT} /\ job_queue' \in Seq(Job \cup {EXIT})
      /\ Elems(job_queue) = Elems(job_queue') \cup {h}
      /\ IsInjective(job_queue') /\ h \notin Elems(job_queue')
  BY <1>1, <1>2, <1>4, Taken
<1>6. ongoing_job_q = <<>> /\ omx_buf = None /\ ~At("flush") /\ ~At("callbacks") /\ ~At("join")
  BY <1>2, Short DEF IInv, EncoderInv, LockInv, At
<1>7. Flushing = {} /\ Flushing' = {} /\ At("flush")' = At("flush")
  BY <1>2, <1>6 DEF Flushing, At
<1>8. Elems(job_queue)' = Elems(job_queue') /\ Elems(ongoing_job_q)' = Elems(ongoing_job_q)
  BY <1>2 DEF Elems
<1>9. "FTBDONE" \notin Elems(omx_events) /\ "Executing" \notin Elems(omx_events)
  BY <1>2, <1>6, NoStateComes DEF IInv, EncoderInv
<1>10. EXIT \in Elems(job_queue') => intf.pc = "exit"
  BY <1>5 DEF IInv, CallInv
<1>11. CallInv'
  BY <1>2, <1>6, <1>8, <1>10 DEF IInv, CallInv, At, clientVars
<1>12. jobmgr \in [pc : {"none", "wait", "lock", "idle", "executing", "gone"},
                   job : Job \cup {None}]
  BY DEF IInv, TypeOK
<1>13. CASE h = EXIT /\ jobmgr' = [jobmgr EXCEPT !.pc = "gone"]
            /\ UNCHANGED <<job_lock, job_status, notify, upsets, omx_events>>
  <2>1. jobmgr'.pc = "gone" /\ jobmgr'.job = None
        /\ jobmgr' \in [pc : {"none", "wait", "lock", "idle", "executing", "gone"},
                        job : Job \cup {None}]
    BY <1>2, <1>12, <1>13
  <2>2. TypeOK'
    BY <1>2, <1>5, <1>13, <2>1 DEF IInv, TypeOK, clientVars
  <2>3. LockInv'
    BY <1>2, <1>13, <2>1 DEF IInv, LockInv, clientVars
  <2>4. Live' \subseteq Live
    BY <1>2, <1>5, <1>7, <1>8, <2>1 DEF Live, Todo, Ongoing, Preparing
  <2>5. OwnerInv'
    BY <1>2, <2>4, OwnersKept DEF IInv, clientVars
  <2>6. PlaceInv'
    <3>1. \A j \in Job : j \in Elems(job_queue') <=> j \in Elems(job_queue)
      BY <1>5, <1>13, Numbers
    <3>2. \A j \in Job : \A p : IsAt(j, p) => IsAt(j, p)'
      BY <1>2, <1>8, <1>13, <2>1, <3>1 DEF IsAt, At
    <3> QED
      BY <1>2, <1>5, <3>2 DEF IInv, PlaceInv, clientVars
  <2>7. EncoderInv'
    BY <1>2, <1>7, <1>13, EncoderKept DEF IInv, omxVars
  <2>8. StateInv'
    BY <1>9, <1>13, <2>1, StateFree
  <2> QED
    BY <1>11, <2>2, <2>3, <2>5, <2>6, <2>7, <2>8 DEF IInv
<1>14. CASE h # EXIT /\ RefuseJob(h)
  <2>1. /\ job_status' = [job_status EXCEPT ![h] = "ERROR"]
        /\ notify' = [notify EXCEPT ![h] = "created"]
        /\ upsets' = upsets \cup {"refused"}
        /\ jobmgr' = [jobmgr EXCEPT !.pc = "wait"]
        /\ job_lock' = job_lock /\ omx_events' = omx_events
        /\ h \in Job
    BY <1>5, <1>14 DEF RefuseJob, EndJob
  <2>2. jobmgr'.pc = "wait" /\ jobmgr'.job = None
        /\ jobmgr' \in [pc : {"none", "wait", "lock", "idle", "executing", "gone"},
                        job : Job \cup {None}]
    BY <1>2, <1>12, <2>1
  <2>3. TypeOK'
    <3>1. /\ job_status' \in [Job -> {"none", "DONE", "ERROR"}]
          /\ notify' \in [Job -> {"none", "created", "calls", "called"}]
          /\ upsets' \subseteq {"refused", "closed", "aborted"}
      BY <2>1 DEF IInv, TypeOK
    <3> QED
      BY <1>2, <1>5, <2>1, <2>2, <3>1 DEF IInv, TypeOK, clientVars
  <2>4. LockInv'
    BY <1>2, <2>1, <2>2 DEF IInv, LockInv, clientVars
  <2>5. Live' \subseteq Live
    BY <1>2, <1>5, <1>7, <1>8, <2>2 DEF Live, Todo, Ongoing, Preparing
  <2>6. OwnerInv'
    BY <1>2, <2>5, OwnersKept DEF IInv, clientVars
  <2>7. PlaceInv'
    <3>1. notify'[h] = "created" /\ \A j \in Job : j # h => notify'[j] = notify[j]
      BY <2>1 DEF IInv, TypeOK
    <3>2. \A j \in Job : j # h => (j \in Elems(job_queue') <=> j \in Elems(job_queue))
      BY <1>5
    <3>3. ASSUME NEW j \in Job, j # h, NEW p PROVE IsAt(j, p) => IsAt(j, p)'
      BY <1>2, <1>8, <2>2, <3>1, <3>2, <3>3 DEF IsAt, At
    <3>4. h <= started /\ IsAt(h, "todo")
      BY <1>5, <2>1 DEF IInv, PlaceInv, IsAt
    <3>5. IsAt(h, "ended")' /\ "ended" \in Spots
      BY <1>2, <1>5, <1>8, <2>1, <2>2, <3>1, <3>4, Numbers DEF IsAt, At, Spots
    <3> QED
      BY <1>2, <1>5, <3>3, <3>4, <3>5 DEF IInv, PlaceInv, clientVars
  <2>8. EncoderInv'
    BY <1>2, <1>7, <2>1, <2>2, EncoderKept DEF IInv, omxVars
  <2>9. StateInv'
    BY <1>9, <2>1, <2>2, StateFree
  <2> QED
    BY <1>11, <2>3, <2>4, <2>6, <2>7, <2>8, <2>9 DEF IInv
<1>15. CASE h # EXIT /\ PrepareJob(h)
  <2>1. /\ job_lock' = "jobmgr" /\ omx_events' = Append(omx_events, "Idle")
        /\ jobmgr' = [pc |-> "idle", job |-> h] /\ jobmgr'.pc = "idle" /\ jobmgr'.job = h
        /\ UNCHANGED <<job_status, notify, upsets>>
        /\ h \in Job
    BY <1>5, <1>15 DEF PrepareJob
  <2>2. /\ omx_events' \in Seq(OmxEvents \cup {"FTBDONE"})
        /\ Elems(omx_events') = Elems(omx_events) \cup {"Idle"}
    BY <2>1, EventComes DEF IInv, OmxEvents
  <2>3. TypeOK'
    <3>1. jobmgr' \in [pc : {"none", "wait", "lock", "idle", "executing", "gone"},
                       job : Job \cup {None}]
      BY <2>1
    <3> QED
      BY <1>2, <1>5, <2>1, <2>2, <3>1 DEF IInv, TypeOK, clientVars
  <2>4. LockInv'
    BY <1>2, <2>1, Numbers DEF IInv, LockInv, clientVars
  <2>5. Live' \subseteq Live
    BY <1>2, <1>5, <1>7, <1>8, <1>15, <2>1 DEF Live, Todo, Ongoing, Preparing
  <2>6. OwnerInv'
    BY <1>2, <2>5, OwnersKept DEF IInv, clientVars
  <2>7. PlaceInv'
    <3>1. \A j \in Job : j # h => (j \in Elems(job_queue') <=> j \in Elems(job_queue))
      BY <1>5
    <3>2. ASSUME NEW j \in Job, j # h, NEW p PROVE IsAt(j, p) => IsAt(j, p)'
      BY <1>2, <1>8, <2>1, <3>1, <3>2, Numbers DEF IsAt, At
    <3>3. h <= started /\ IsAt(h, "todo")
      BY <1>5, <2>1 DEF IInv, PlaceInv, IsAt
    <3>4. IsAt(h, "jobmgr")' /\ "jobmgr" \in Spots
      BY <1>2, <1>5, <1>8, <2>1, <3>3 DEF IsAt, At, Spots
    <3> QED
      BY <1>2, <1>5, <3>2, <3>3, <3>4 DEF IInv, PlaceInv, clientVars
  <2>8. EncoderInv'
    BY <1>2, <1>6, <1>7, <1>9, <2>2 DEF IInv, EncoderInv
  <2>9. StateInv'
    BY <1>9, <2>1, <2>2, StateFree
  <2> QED
    BY <1>11, <2>3, <2>4, <2>6, <2>7, <2>8, <2>9 DEF IInv
<1> QED
  BY <1>3, <1>13, <1>14, <1>15

-----------------------------------------------------------------------------
(* The encoder and the threads that call back                                *)

\* The encoder's thread takes a step that moves no job.
LEMMA EncoderMoves ==
  ASSUME IInv, TypeOK',
         UNCHANGED <<clientVars, intf, lockVars, queueVars, jobmgr, endVars>>,
         EncoderInv', StateInv'
  PROVE  IInv'
BY JobmgrMoves DEF lockVars, endVars

\* The encoder fills the buffer of the ongoing job, and has said nothing else yet.
LEMMA EncodedKeeps ==
  ASSUME IInv, Encoded PROVE IInv'
<1>1. /\ omx_buf # None /\ "FTBDONE" \notin Elems(omx_events)
      /\ omx_events' = Append(omx_events, "FTBDONE")
      /\ evt' = evt /\ omx_buf' = omx_buf /\ ftbdone' = ftbdone
      /\ UNCHANGED <<clientVars, intf, lockVars, queueVars, jobmgr, endVars>>
  BY DEF Encoded
<1>2. /\ omx_events' \in Seq(OmxEvents \cup {"FTBDONE"})
      /\ Elems(omx_events') = Elems(omx_events) \cup {"FTBDONE"}
  BY <1>1, EventComes DEF IInv
<1>3. TypeOK'
  BY <1>1, <1>2 DEF IInv, TypeOK, clientVars, lockVars, queueVars, endVars
<1>4. "FTBDONE" \in Elems(<<"FTBDONE">>) /\ "FTBDONE" \in Elems(<<"FTBDONE", "Flush">>)
  BY DEF Elems
<1>5. omx_events = <<>> /\ ongoing_job_q = <<omx_buf>> /\ evt = "Executing" /\ ftbdone = None
  BY <1>1, <1>4 DEF IInv, EncoderInv
<1>6. omx_events' = <<"FTBDONE">>
  BY <1>1, <1>5
<1>7. ongoing_job_q' = ongoing_job_q /\ jobmgr' = jobmgr /\ At("flush")' = At("flush")
  BY <1>1 DEF queueVars, At
<1>8. EncoderInv'
  BY <1>1, <1>5, <1>6, <1>7 DEF IInv, EncoderInv
<1>9. jobmgr.pc # "executing"
  BY <1>5, Short DEF IInv, EncoderInv
<1>10. StateInv'
  BY <1>2, <1>7, <1>9, NoStateComes, StateFree DEF IInv
<1> QED
  BY <1>1, <1>3, <1>8, <1>10, EncoderMoves

\* The events come in order: a buffer before the end of the flush it is in, and the
\* state that is waited for after all others.
LEMMA OmxEventKeeps ==
  ASSUME IInv, OmxEvent PROVE IInv'
<1>1. PICK e : e = Head(omx_events)
  OBVIOUS
<1>2. /\ ftbdone = None /\ omx_events # <<>> /\ omx_events' = Tail(omx_events)
      /\ UNCHANGED <<clientVars, intf, lockVars, queueVars, jobmgr, endVars>>
      /\ \/ e = "FTBDONE" /\ evt' = "DONE" /\ ftbdone' = omx_buf /\ omx_buf' = None
         \/ e # "FTBDONE" /\ evt' = e /\ ftbdone' = ftbdone /\ omx_buf' = omx_buf
  BY <1>1 DEF OmxEvent
<1>3. omx_events \in Seq(OmxEvents \cup {"FTBDONE"})
  BY DEF IInv, TypeOK
<1>4. /\ e \in OmxEvents \cup {"FTBDONE"} /\ omx_events' \in Seq(OmxEvents \cup {"FTBDONE"})
      /\ Elems(omx_events) = Elems(omx_events') \cup {e}
  BY <1>1, <1>2, <1>3, Taken
<1>5. TypeOK'
  BY <1>2, <1>4 DEF IInv, TypeOK, clientVars, lockVars, queueVars, endVars
<1>6. ongoing_job_q' = ongoing_job_q /\ jobmgr' = jobmgr /\ At("flush")' = At("flush")
      /\ intf' = intf
  BY <1>2 DEF queueVars, At
<1>7. CASE e = "FTBDONE"
  <2>1. omx_buf # None
    BY <1>4, <1>7 DEF IInv, EncoderInv
  <2>2. /\ omx_events \in {<<"FTBDONE">>, <<"FTBDONE", "Flush">>}
        /\ ongoing_job_q \in {<<>>, <<omx_buf>>}
    BY <1>2, <2>1 DEF IInv, EncoderInv
  <2>3. "FTBDONE" \notin Elems(omx_events')
    <3>1. Tail(<<"FTBDONE">>) = <<>> /\ Tail(<<"FTBDONE", "Flush">>) = <<"Flush">>
      OBVIOUS
    <3>2. Elems(<<>>) = {} /\ Elems(<<"Flush">>) = {"Flush"}
      BY Short
    <3>3. omx_events = <<"FTBDONE">> \/ omx_events = <<"FTBDONE", "Flush">>
      BY <2>2
    <3>4. omx_events' = <<>> \/ omx_events' = <<"Flush">>
      BY <1>2, <3>1, <3>3
    <3> QED
      BY <3>2, <3>4
  <2>4. EncoderInv'
    BY <1>2, <1>6, <1>7, <2>2, <2>3 DEF IInv, EncoderInv
  <2>5. jobmgr.pc # "executing"
    <3>1. At("flush") => job_lock = "intf"
      BY DEF IInv, LockInv, At
    <3>2. ongoing_job_q # <<>> \/ At("flush")
      BY <2>1, Short DEF IInv, EncoderInv
    <3> QED
      BY <3>1, <3>2 DEF IInv, LockInv, EncoderInv
  <2>6. "Executing" \notin Elems(omx_events')
    BY <1>4, <2>5, NoStateComes DEF IInv
  <2>7. StateInv'
    BY <1>6, <2>5, <2>6, StateFree
  <2> QED
    BY <1>2, <1>5, <2>4, <2>7, EncoderMoves
<1>8. CASE e # "FTBDONE"
  <2>1. omx_buf = None
    <3>1. Head(<<"FTBDONE">>) = "FTBDONE" /\ Head(<<"FTBDONE", "Flush">>) = "FTBDONE"
      OBVIOUS
    <3>2. ASSUME omx_buf # None
          PROVE  omx_events = <<"FTBDONE">> \/ omx_events = <<"FTBDONE", "Flush">>
      BY <1>2, <3>2 DEF IInv, EncoderInv
    <3>3. omx_events # <<"FTBDONE">> /\ omx_events # <<"FTBDONE", "Flush">>
      BY <1>1, <1>8, <3>1
    <3> QED
      BY <3>2, <3>3
  <2>2. "FTBDONE" \notin Elems(omx_events')
    BY <1>4, <2>1 DEF IInv, EncoderInv
  <2>3. EncoderInv'
    BY <1>2, <1>6, <1>8, <2>1, <2>2 DEF IInv, EncoderInv
  <2>4. StateInv'
    <3>1. CASE jobmgr.pc # "executing"
      <4>1. "Executing" \notin Elems(omx_events')
        BY <1>4, <3>1, NoStateComes DEF IInv
      <4> QED
        BY <1>6, <3>1, <4>1, StateFree
    <3>2. CASE jobmgr.pc = "executing"
      <4>1. /\ evt # "Executing" /\ omx_events[Len(omx_events)] = "Executing"
            /\ \A i \in DOMAIN omx_events : omx_events[i] = "Executing" => i = Len(omx_events)
        BY <1>2, <3>2 DEF IInv, StateInv
      <4>2. /\ e = omx_events[1] /\ Len(omx_events') = Len(omx_events) - 1
            /\ \A i \in 1 .. Len(omx_events') : omx_events'[i] = omx_events[i + 1]
        BY <1>1, <1>2, <1>3, HeadTailProperties
      <4>3. /\ DOMAIN omx_events = 1 .. Len(omx_events)
            /\ Len(omx_events) \in Nat /\ Len(omx_events) # 0
            /\ DOMAIN omx_events' = 1 .. Len(omx_events')
            /\ Len(omx_events') \in Nat
        BY <1>2, <1>3, <1>4, LenProperties, EmptySeq
      <4>4. CASE Len(omx_events) = 1
        <5>1. omx_events' = <<>>
          BY <1>4, <4>2, <4>3, <4>4, EmptySeq
        <5> QED
          BY <1>2, <1>6, <1>8, <4>1, <4>2, <4>4, <5>1 DEF StateInv
      <4>5. CASE Len(omx_events) # 1
        <5>1. e # "Executing" /\ Len(omx_events') >= 1
          BY <4>1, <4>2, <4>3, <4>5
        <5>2. omx_events' # <<>> /\ omx_events'[Len(omx_events')] = "Executing"
          BY <4>1, <4>2, <4>3, <5>1, EmptySeq
        <5>3. ASSUME NEW i \in DOMAIN omx_events', omx_events'[i] = "Executing"
              PROVE  i = Len(omx_events')
          <6>1. i + 1 \in DOMAIN omx_events /\ omx_events[i + 1] = "Executing" /\ i \in Nat
            BY <4>2, <4>3, <5>3
          <6> QED
            BY <4>1, <4>2, <4>3, <6>1
        <5> QED
          BY <1>2, <1>6, <1>8, <3>2, <5>1, <5>2, <5>3 DEF StateInv
      <4> QED
        BY <4>4, <4>5
    <3> QED
      BY <3>1, <3>2
  <2> QED
    BY <1>2, <1>5, <2>3, <2>4, EncoderMoves
<1> QED
  BY <1>7, <1>8

\* The job that is done is the one whose buffer came back, if it is still there.
LEMMA JobDoneKeeps ==
  ASSUME IInv, JobDone PROVE IInv'
<1>1. /\ ftbdone # None /\ ftbdone' = None /\ job_lock = "free" /\ job_lock' = job_lock
      /\ job_sem' = job_sem + 1
      /\ UNCHANGED clientVars /\ intf' = intf /\ job_queue' = job_queue /\ cb_q' = cb_q
      /\ jobmgr' = jobmgr /\ deleted' = deleted /\ upsets' = upsets
      /\ evt' = evt /\ omx_buf' = omx_buf
  BY DEF JobDone
<1>2. /\ evt = "DONE" /\ omx_buf = None /\ ongoing_job_q \in {<<>>, <<ftbdone>>}
      /\ ftbdone \in Job /\ "FTBDONE" \notin Elems(omx_events)
  BY <1>1 DEF IInv, EncoderInv, TypeOK
<1>3. /\ ~At("flush") /\ ~At("callbacks") /\ ~At("join")
      /\ jobmgr.job = None /\ jobmgr.pc # "executing"
  BY <1>1 DEF IInv, LockInv, At
<1>4. Flushing = {} /\ Flushing' = {} /\ At("flush")' = At("flush")
  BY <1>1, <1>3 DEF Flushing, At
<1>5. "Executing" \notin Elems(omx_events) /\ job_sem' \in Nat
  BY <1>1, <1>3, NoStateComes DEF IInv, TypeOK
<1>6. LockInv'
  BY <1>1 DEF IInv, LockInv, clientVars
<1>7. Elems(job_queue)' = Elems(job_queue)
  BY <1>1 DEF Elems
<1>8. CallInv'
  BY <1>1, <1>3, <1>7 DEF IInv, CallInv, At, clientVars
<1>9. CASE ongoing_job_q = <<>>
  <2>1. /\ ongoing_job_q' = ongoing_job_q /\ job_status' = job_status /\ notify' = notify
        /\ omx_events' = omx_events
    BY <1>9 DEF JobDone
  <2>2. TypeOK'
    BY <1>1, <1>5, <2>1 DEF IInv, TypeOK, clientVars
  <2>3. Live' = Live
    BY <1>1, <1>4, <2>1 DEF Live, Todo, Ongoing, Preparing, Elems
  <2>4. OwnerInv'
    BY <1>1, <2>3, OwnersKept DEF IInv, clientVars
  <2>5. PlaceInv'
    BY <1>1, <1>4, <2>1, PlacesKept DEF IInv, clientVars
  <2>6. EncoderInv'
    BY <1>1, <1>2, <1>4, <2>1 DEF IInv, EncoderInv, Elems
  <2>7. StateInv'
    BY <1>1, <2>1, StateKept DEF IInv
  <2> QED
    BY <1>6, <1>8, <2>2, <2>4, <2>5, <2>6, <2>7 DEF IInv
<1>10. CASE ongoing_job_q # <<>>
  <2>1. PICK j \in Job : j = ftbdone
    BY <1>2
  <2>2. ongoing_job_q = <<j>> /\ Head(ongoing_job_q) = j /\ Tail(ongoing_job_q) = <<>>
    BY <1>2, <1>10, <2>1, Short
  <2>3. /\ ongoing_job_q' = <<>>
        /\ job_status' = [job_status EXCEPT ![j] = "DONE"]
        /\ notify' = [notify EXCEPT ![j] = "created"]
        /\ omx_events' = Cleaned(omx_events)
    BY <1>10, <2>2 DEF JobDone, EndJob
  <2>4. Elems(ongoing_job_q) = {j} /\ Elems(ongoing_job_q)' = {}
    <3>1. Elems(<<>>) = {} /\ Elems(<<j>>) = {j}
      BY Short
    <3> QED
      BY <2>2, <2>3, <3>1
  <2>5. /\ omx_events' \in Seq(OmxEvents \cup {"FTBDONE"})
        /\ Elems(omx_events') = Elems(omx_events) \cup {"Idle", "Loaded"}
    BY <2>3, Answers DEF IInv
  <2>6. TypeOK'
    <3>1. /\ job_status' \in [Job -> {"none", "DONE", "ERROR"}]
          /\ notify' \in [Job -> {"none", "created", "calls", "called"}]
          /\ ongoing_job_q' \in Seq(Job)
      BY <2>3 DEF IInv, TypeOK
    <3> QED
      BY <1>1, <1>5, <2>5, <3>1 DEF IInv, TypeOK, clientVars
  <2>7. Live' \subseteq Live
    BY <1>1, <1>4, <1>7, <2>4 DEF Live, Todo, Ongoing, Preparing
  <2>8. OwnerInv'
    BY <1>1, <2>7, OwnersKept DEF IInv, clientVars
  <2>9. PlaceInv'
    <3>1. notify'[j] = "created" /\ \A h \in Job : h # j => notify'[h] = notify[h]
      BY <2>3 DEF IInv, TypeOK
    <3>2. ASSUME NEW h \in Job, h # j, NEW p PROVE IsAt(h, p) => IsAt(h, p)'
      BY <1>1, <1>7, <2>4, <3>1, <3>2 DEF IsAt, At
    <3>3. j <= started /\ IsAt(j, "ongoing")
      BY <2>4 DEF IInv, PlaceInv, IsAt
    <3>4. IsAt(j, "ended")' /\ "ended" \in Spots
      BY <1>1, <1>7, <2>4, <3>1, <3>3 DEF IsAt, At, Spots
    <3> QED
      BY <1>1, <3>2, <3>3, <3>4 DEF IInv, PlaceInv, clientVars
  <2>10. EncoderInv'
    BY <1>1, <1>2, <2>3, <2>5, Short DEF EncoderInv
  <2>11. StateInv'
    BY <1>1, <1>3, <1>5, <2>5, StateFree
  <2> QED
    BY <1>6, <1>8, <2>6, <2>8, <2>9, <2>10, <2>11 DEF IInv
<1> QED
  BY <1>9, <1>10

\* A job that has ended stays so while its client is called.
LEMMA NotifyKeeps ==
  ASSUME IInv, NEW j \in Job, NotifyQueues(j) \/ NotifyCalls(j) PROVE IInv'
<1>1. /\ notify[j] # "none"
      /\ \E s \in {"calls", "called"} : notify' = [notify EXCEPT ![j] = s]
      /\ cb_q' \subseteq cb_q \cup {j}
      /\ UNCHANGED clientVars /\ intf' = intf /\ UNCHANGED lockVars
      /\ job_queue' = job_queue /\ ongoing_job_q' = ongoing_job_q /\ jobmgr' = jobmgr
      /\ deleted' = deleted /\ job_status' = job_status /\ upsets' = upsets
      /\ UNCHANGED omxVars
  BY DEF NotifyQueues, NotifyCalls
<1>2. /\ notify' \in [Job -> {"none", "created", "calls", "called"}]
      /\ \A h \in Job : notify'[h] = "none" <=> notify[h] = "none"
  BY <1>1 DEF IInv, TypeOK
<1>3. TypeOK'
  BY <1>1, <1>2 DEF IInv, TypeOK, clientVars, lockVars, omxVars
<1>4. Flushing' = Flushing
  BY <1>1 DEF Flushing, At
<1>5. Live' = Live /\ Todo' = Todo /\ Ongoing' = Ongoing /\ Elems(job_queue)' = Elems(job_queue)
  BY <1>1, <1>4 DEF Live, Todo, Ongoing, Preparing, Elems
<1>6. LockInv'
  BY <1>1 DEF IInv, LockInv, clientVars, lockVars
<1>7. CallInv'
  BY <1>1, <1>5 DEF IInv, CallInv, At, Closing, clientVars
<1>8. OwnerInv'
  BY <1>1, <1>5, OwnersKept DEF IInv, clientVars
<1>9. PlaceInv'
  BY <1>1, <1>2, <1>4, PlacesKept DEF IInv, clientVars
<1>10. EncoderInv'
  BY <1>1, <1>4, EncoderKept DEF IInv
<1>11. StateInv'
  BY <1>1, StateKept DEF IInv, omxVars
<1> QED
  BY <1>3, <1>6, <1>7, <1>8, <1>9, <1>10, <1>11 DEF IInv

-----------------------------------------------------------------------------
(* The theorems                                                              *)

\* At the beginning no job is anywhere.
LEMMA Begins == Init => IInv
<1> SUFFICES ASSUME Init PROVE IInv
  OBVIOUS
<1>1. /\ Elems(job_queue) = {} /\ Elems(ongoing_job_q) = {} /\ Elems(omx_events) = {}
      /\ IsInjective(job_queue) /\ Len(ongoing_job_q) = 0
  BY Short DEF Init
<1>2. TypeOK
  BY Numbers DEF Init, TypeOK, NoCall, OmxEvents
<1>3. LockInv
  BY DEF Init, LockInv, NoCall, None
<1>4. CallInv
  BY <1>1 DEF Init, CallInv, NoCall
<1>5. Live = {}
  BY <1>1 DEF Init, Live, Todo, Ongoing, Flushing, Preparing, At, NoCall
<1>6. OwnerInv
  BY <1>5 DEF Init, OwnerInv
<1>7. \A j \in Job : ~(j <= started) /\ IsAt(j, "none")
  BY <1>1, Numbers DEF Init, IsAt, At, NoCall, Job
<1>8. PlaceInv
  BY <1>1, <1>7 DEF PlaceInv
<1>9. EncoderInv
  BY <1>1 DEF Init, EncoderInv
<1>10. StateInv
  BY DEF Init, StateInv
<1> QED
  BY <1>2, <1>3, <1>4, <1>6, <1>8, <1>9, <1>10 DEF IInv

\* Every action keeps the invariant.
LEMMA GoesOn == IInv /\ [Next]_vars => IInv'
<1> SUFFICES ASSUME IInv, [Next]_vars PROVE IInv'
  OBVIOUS
<1>1. CASE UNCHANGED vars
  <2>1. UNCHANGED <<clientVars, intf, lockVars, queueVars, jobmgr, endVars, omxVars>>
    BY <1>1 DEF vars
  <2>2. TypeOK'
    BY <2>1 DEF IInv, TypeOK, clientVars, lockVars, queueVars, endVars, omxVars
  <2>3. Flushing' = Flushing
    BY <2>1 DEF Flushing, At
  <2>4. EncoderInv'
    BY <2>1, <2>3, EncoderKept DEF IInv, queueVars
  <2>5. StateInv'
    BY <2>1, StateKept DEF IInv, omxVars
  <2> QED
    BY <2>1, <2>2, <2>4, <2>5, EncoderMoves
<1>2. CASE \E c \in Clients : Open(c) \/ StartJob(c) \/ Close(c)
  BY <1>2, OpenKeeps, StartJobKeeps, CloseKeeps
<1>3. CASE \E j \in Job : AbortJob(j) \/ NotifyQueues(j) \/ NotifyCalls(j)
  BY <1>3, AbortJobKeeps, NotifyKeeps
<1>4. CASE CallContinues
  BY <1>4, LockKeeps, FlushEndsKeeps, DropTodoKeeps, CallbackJoinedKeeps, UnlockKeeps,
     DeinitKeeps, FlushKeeps, JoinCallbackKeeps DEF CallContinues
<1>5. CASE Jobmgr
  BY <1>5, JobmgrWakesKeeps, TakesNothing, TakesHead, SendExecutingKeeps, StartEncodingKeeps
     DEF Jobmgr
<1>6. CASE Encoded \/ OmxEvent \/ JobDone
  BY <1>6, EncodedKeeps, OmxEventKeeps, JobDoneKeeps
<1> QED
  BY <1>1, <1>2, <1>3, <1>4, <1>5, <1>6 DEF Next

\* The inductive invariant.
THEOREM Invariance == Spec => []IInv
BY Begins, GoesOn, PTL DEF Spec

\* Every variable of the JPEG interface keeps its type.
THEOREM TypeCorrect == Spec => []TypeOK
<1>1. IInv => TypeOK
  BY DEF IInv
<1> QED
  BY <1>1, Invariance, PTL

\* The places of a job are where it is.
LEMMA PlaceOfJob ==
  ASSUME NEW j, NEW p \in Spots, IsAt(j, p) PROVE Places(j) = {p}
<1>1. Places(j) \subseteq Spots
  BY DEF Places, Spots
<1>2. /\ "todo" \in Places(j) <=> j \in Elems(job_queue)
      /\ "jobmgr" \in Places(j) <=> jobmgr.job = j
      /\ "ongoing" \in Places(j) <=> j \in Elems(ongoing_job_q)
      /\ "flush" \in Places(j) <=> At("flush") /\ intf.job = j
      /\ "deleted" \in Places(j) <=> j \in deleted
      /\ "ended" \in Places(j) <=> notify[j] # "none"
  BY DEF Places
<1>3. \A s \in Spots : s \in Places(j) <=> s = p
  BY <1>2 DEF IsAt, Spots
<1> QED
  BY <1>1, <1>3

\* A job that was started is in one place, to do, with the job manager, with the
\* encoder, flushed, deleted or ended, and nobody works for a client that closed.
THEOREM JobsInOnePlace == Spec => []JobsAccountedFor
<1>1. ASSUME IInv PROVE JobsAccountedFor
  <2>1. \A j \in 1 .. started : j \in Job /\ j <= started
    BY <1>1, LiveJobs
  <2>2. ASSUME NEW j \in 1 .. started
        PROVE  /\ Cardinality(Places(j)) = 1
               /\ owner[j] \in closed => Places(j) \subseteq {"deleted", "ended"}
    <3>1. PICK p \in Spots : IsAt(j, p)
      BY <1>1, <2>1 DEF IInv, PlaceInv
    <3>2. Places(j) = {p}
      BY <3>1, PlaceOfJob
    <3>3. Cardinality({p}) = 1
      BY FS_Singleton
    <3>4. ASSUME owner[j] \in closed PROVE p \in {"deleted", "ended"}
      <4>1. j \notin Live
        BY <1>1, <3>4 DEF IInv, OwnerInv
      <4>2. j # EXIT /\ j # None
        BY <2>1, Numbers
      <4> QED
        BY <3>1, <4>1, <4>2 DEF Live, Todo, Ongoing, Flushing, Preparing, IsAt, Spots
    <3> QED
      BY <3>2, <3>3, <3>4
  <2>3. IsInjective(job_queue)
    BY <1>1 DEF IInv, PlaceInv
  <2>4. IsInjective(ongoing_job_q)
    <3>1. Len(ongoing_job_q) \in Nat /\ Len(ongoing_job_q) <= 1
          /\ DOMAIN ongoing_job_q = 1 .. Len(ongoing_job_q)
      BY <1>1, LenProperties DEF IInv, TypeOK, EncoderInv
    <3>2. \A i, k \in DOMAIN ongoing_job_q : i = k
      BY <3>1
    <3> QED
      BY <3>2 DEF IsInjective
  <2> QED
    BY <2>2, <2>3, <2>4 DEF JobsAccountedFor
<1> QED
  BY <1>1, Invariance, PTL

\* The buffer the encoder gives back is taken for its own job: the encoder fills
\* that of the ongoing job, or of the one being flushed.
THEOREM ResultsMatch == Spec => []ResultIsOfTheJob
<1>1. IInv => ResultIsOfTheJob
  BY DEF IInv, EncoderInv, ResultIsOfTheJob
<1> QED
  BY <1>1, Invariance, PTL
=============================================================================
